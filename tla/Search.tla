------------------------------- MODULE Search -------------------------------
(***************************************************************************)
(* get_relevant_subjects: which subjects a cycle works on.  One query of   *)
(* Patchwork per search pattern, read page by page; after each, the latest *)
(* series of every subject found so far is asked for, concurrently, and    *)
(* judged by the states of its patches.  Patchwork changes between any two *)
(* requests.                                                               *)
(*                                                                         *)
(* Patches are numbered in the order of Patchwork's lists, series by age,  *)
(* so the latest of a subject is the greatest.                             *)
(***************************************************************************)
EXTENDS Naturals, FiniteSets

CONSTANTS
    NumPatches,   \* patches in Patchwork
    PageSize,     \* patches of a page
    NumSeries,
    Subjects,     \* subjects series have
    NoSubject,    \* that of a series with a malformed name
    SeriesOf,     \* series of each patch
    SubjectOf,    \* subject of each series
    NumPatterns,  \* search patterns of the configuration
    MaxEvents     \* bound: changes in Patchwork

Patches == 1..NumPatches
Series == 1..NumSeries
Patterns == 1..NumPatterns

ASSUME SearchAssumption ==
    /\ NumPatches \in Nat /\ PageSize \in Nat \ {0}
    /\ NumSeries \in Nat /\ NumPatterns \in Nat /\ MaxEvents \in Nat
    /\ NoSubject \notin Subjects
    /\ SeriesOf \in [Patches -> Series]
    /\ SubjectOf \in [Series -> Subjects \cup {NoSubject}]

VARIABLES
    state,        \* Patchwork: state of each patch, see States
    matches,      \* Patchwork: the patterns each patch matches
    hidden,       \* Patchwork: patches archived or older than the lookback
    pc,           \* next step of the search
    pattern,      \* pattern of the present round
    page,         \* pages of its results that were read
    found,        \* subjects on those pages
    subjects,     \* subjects found so far
    waiting,      \* those whose latest series is still asked for
    judging,      \* those whose latest series is still to be judged
    latest,       \* their latest series, a set of one or none
    liveThen,     \* was it neither expired nor closed when it was asked for
    cache,        \* subject whose series the one-entry cache holds
    listed,       \* the rounds that put a subject on the list
    changes,      \* history: changes to each subject since the search began
    wasLive,      \* history: was it live, at all moments since then
    finders,      \* history: patterns that found it at all of these moments
    shifted,      \* history: a patch left the results between two pages
    events        \* how much of the bound is used up

history == <<changes, wasLive, finders, shifted>>
pwVars == <<state, matches, hidden, events>>
listing == <<page, found>>
answers == <<latest, liveThen, cache>>
vars == <<pwVars, pc, pattern, listing, subjects, waiting, judging, answers,
          listed, history>>

\* late: in a TTL state, its mail older than the TTL.
States == {"relevant", "late", "irrelevant"}

TypeOK ==
    /\ state \in [Patches -> States]
    /\ matches \in [Patches -> SUBSET Patterns]
    /\ hidden \subseteq Patches
    /\ pc \in {"idle", "search", "fetch", "judge"}
    /\ pattern \in 1..(NumPatterns + 1)
    /\ pc \in {"fetch", "judge"} => pattern \in Patterns
    /\ page \in Nat /\ found \subseteq Subjects
    /\ waiting \subseteq subjects /\ judging \subseteq subjects
    /\ pc # "fetch" => waiting = {}
    /\ pc # "judge" => judging = {}
    /\ subjects \subseteq Subjects
    /\ latest \in [Subjects -> SUBSET Series]
    /\ liveThen \in [Subjects -> BOOLEAN]
    /\ cache \in Subjects \cup {NoSubject}
    /\ listed \in [Subjects -> SUBSET Patterns]
    /\ changes \in [Subjects -> 0..events]
    /\ wasLive \in [Subjects -> SUBSET BOOLEAN]
    /\ finders \in [Subjects -> SUBSET Patterns]
    /\ shifted \in BOOLEAN
    /\ events \in 0..MaxEvents

Init ==
    /\ state = [p \in Patches |-> "relevant"]
    /\ matches \in [Patches -> SUBSET Patterns]
    /\ hidden = {}
    /\ pc = "idle" /\ pattern = 1
    /\ page = 0 /\ found = {}
    /\ subjects = {} /\ waiting = {} /\ judging = {}
    /\ latest = [t \in Subjects |-> {}]
    /\ liveThen = [t \in Subjects |-> FALSE]
    /\ cache = NoSubject
    /\ listed = [t \in Subjects |-> {}]
    /\ changes = [t \in Subjects |-> 0]
    /\ wasLive = [t \in Subjects |-> {}]
    /\ finders = [t \in Subjects |-> {}]
    /\ shifted = FALSE
    /\ events = 0

(***************************************************************************)
(* What a series is at one moment.                                         *)
(***************************************************************************)
Subject(p) == SubjectOf[SeriesOf[p]]
PatchesOf(s) == {p \in Patches : SeriesOf[p] = s}

\* The query: not archived, in one of the RELEVANT_STATES, recent enough, and
\* what the pattern says.
Finds(q, p) == q \in matches[p] /\ p \notin hidden /\ state[p] # "irrelevant"

Results(q) == {p \in Patches : Finds(q, p)}

FoundBy(q, t) == \E p \in Results(q) : Subject(p) = t

\* _is_patch_matching: every pattern.
IsPatchMatching(p) == matches[p] = Patterns

HasMatchingPatches(s) == \E p \in PatchesOf(s) : IsPatchMatching(p)

RelevantSeries(t) == {s \in Series : SubjectOf[s] = t /\ HasMatchingPatches(s)}

LatestSeries(t) ==
    {s \in RelevantSeries(t) : \A r \in RelevantSeries(t) : r <= s}

IsClosed(s) == \E p \in PatchesOf(s) : state[p] = "irrelevant"
IsExpired(s) == \E p \in PatchesOf(s) : state[p] = "late"

IsLive(some) == \E s \in some : ~IsExpired(s) /\ ~IsClosed(s)

(***************************************************************************)
(* Patchwork changes: states, delegates and projects, time.                *)
(***************************************************************************)
Change(p) ==
    /\ events < MaxEvents /\ events' = events + 1
    /\ UNCHANGED <<pc, pattern, listing, subjects, waiting, judging, answers, listed>>
    /\ \/ /\ \E s \in States : state' = [state EXCEPT ![p] = s]
          /\ UNCHANGED <<matches, hidden>>
       \/ /\ \E m \in SUBSET Patterns : matches' = [matches EXCEPT ![p] = m]
          /\ UNCHANGED <<state, hidden>>
       \/ /\ hidden' = hidden \cup {p}
          /\ UNCHANGED <<state, matches>>
    /\ changes' = [t \in Subjects |-> IF t = Subject(p) THEN changes[t] + 1 ELSE changes[t]]
    /\ wasLive' = [t \in Subjects |-> wasLive[t] \cup {IsLive(LatestSeries(t))'}]
    /\ finders' = [t \in Subjects |-> {q \in finders[t] : FoundBy(q, t)'}]
    /\ shifted' = (shifted \/ (page > 0 /\ p \in Results(pattern) \ Results(pattern)'))

(***************************************************************************)
(* get_relevant_subjects.                                                  *)
(***************************************************************************)
StartSearch ==
    /\ pc = "idle"
    /\ pc' = "search" /\ pattern' = 1 /\ page' = 0 /\ found' = {}
    /\ subjects' = {} /\ cache' = NoSubject
    /\ listed' = [t \in Subjects |-> {}]
    /\ changes' = [t \in Subjects |-> 0]
    /\ wasLive' = [t \in Subjects |-> {IsLive(LatestSeries(t))}]
    /\ finders' = [t \in Subjects |-> {q \in Patterns : FoundBy(q, t)}]
    /\ shifted' = FALSE
    /\ UNCHANGED <<pwVars, waiting, judging, latest, liveThen>>

\* Mutant: one pattern too many.
HasNextPatternPastEnd == pattern <= NumPatterns + 1

HasNextPattern == pattern <= NumPatterns

\* Patchwork counts pages in the results as they are at the time.
Place(q, p) == Cardinality({r \in Results(q) : r <= p})
Page(q, n) ==
    {p \in Results(q) : (n - 1) * PageSize < Place(q, p) /\ Place(q, p) <= n * PageSize}

\* Mutant: the next link is not followed.
HasNextPageNever(q, n) == FALSE

HasNextPage(q, n) == n * PageSize < Cardinality(Results(q))

SubjectsOf(some) == {Subject(p) : p \in some} \ {NoSubject}

\* __get_objects_recursive, a page that is not the last.
ReadPage ==
    /\ pc = "search" /\ HasNextPattern
    /\ HasNextPage(pattern, page + 1)
    /\ found' = found \cup SubjectsOf(Page(pattern, page + 1))
    /\ page' = page + 1
    /\ UNCHANGED <<pwVars, pc, pattern, subjects, waiting, judging, answers, listed,
                   history>>

\* Mutant: the subjects of earlier patterns are forgotten.
KnownOnly(some) == some

Known(some) == subjects \cup some

\* The last page.
SearchPattern ==
    /\ pc = "search" /\ HasNextPattern
    /\ ~HasNextPage(pattern, page + 1)
    /\ page = 0 \/ HasNextPage(pattern, page)
    /\ subjects' = Known(found \cup SubjectsOf(Page(pattern, page + 1)))
    /\ waiting' = subjects'
    /\ page' = 0 /\ found' = {}
    /\ pc' = "fetch"
    /\ UNCHANGED <<pwVars, pattern, judging, answers, listed, history>>

\* The page that was to come next is gone: what is read is no list of patches.
SearchRaises ==
    /\ pc = "search" /\ HasNextPattern
    /\ page > 0 /\ ~HasNextPage(pattern, page)
    /\ pc' = "idle"
    /\ UNCHANGED <<pwVars, pattern, listing, subjects, waiting, judging, answers,
                   listed, history>>

\* relevant_series keeps its last answer for ten minutes, in one entry.
FetchLatestSeries(t) ==
    /\ pc = "fetch" /\ t \in waiting
    /\ waiting' = waiting \ {t}
    /\ \/ cache = t /\ UNCHANGED <<latest, liveThen, cache>>
       \/ /\ latest' = [latest EXCEPT ![t] = LatestSeries(t)]
          /\ liveThen' = [liveThen EXCEPT ![t] = IsLive(LatestSeries(t))]
          /\ cache' = t
    /\ UNCHANGED <<pwVars, pc, pattern, listing, subjects, judging, listed, history>>

AllFetched ==
    /\ pc = "fetch" /\ waiting = {}
    /\ judging' = subjects
    /\ pc' = "judge"
    /\ UNCHANGED <<pwVars, pattern, listing, subjects, waiting, answers, listed, history>>

\* Mutant: every series found is good.
IsListedAlways(t) == TRUE

\* Is the latest series neither expired nor closed?  get_patches may answer from
\* its one-entry cache.
IsListed(t) == liveThen[t] \/ IsLive(latest[t])

IsLeftOut(t) == ~liveThen[t] \/ ~IsLive(latest[t])

JudgeSubject(t) ==
    /\ pc = "judge" /\ t \in judging
    /\ judging' = judging \ {t}
    /\ \/ IsListed(t) /\ listed' = [listed EXCEPT ![t] = @ \cup {pattern}]
       \/ IsLeftOut(t) /\ UNCHANGED listed
    /\ UNCHANGED <<pwVars, pc, pattern, listing, subjects, waiting, answers, history>>

NextPattern ==
    /\ pc = "judge" /\ judging = {}
    /\ pattern' = pattern + 1
    /\ pc' = "search"
    /\ UNCHANGED <<pwVars, listing, subjects, waiting, judging, answers, listed,
                   history>>

SearchDone ==
    /\ pc = "search" /\ ~HasNextPattern
    /\ pc' = "idle"
    /\ UNCHANGED <<pwVars, pattern, listing, subjects, waiting, judging, answers,
                   listed, history>>

Daemon ==
    \/ StartSearch \/ ReadPage \/ SearchPattern \/ SearchRaises
    \/ (\E t \in Subjects : FetchLatestSeries(t))
    \/ AllFetched \/ (\E t \in Subjects : JudgeSubject(t)) \/ NextPattern \/ SearchDone

Next == Daemon \/ \E p \in Patches : Change(p)

Spec == Init /\ [][Next]_vars

(***************************************************************************)
(* Properties.                                                             *)
(***************************************************************************)
Ended == pc = "idle" /\ pattern > NumPatterns

\* A subject nobody touched during the search is on the list if its latest series
\* is neither expired nor closed, once for the first pattern that finds one of
\* its series and again for every later pattern, and else not at all.  This is
\* what sync_patches gets from Patchwork, duplicates included.  But a patch, of
\* whatever subject, that leaves the results between two pages can hide another.
SearchIsRight ==
    Ended /\ ~shifted =>
       \A t \in Subjects :
          changes[t] = 0 =>
             listed[t] = IF IsLive(LatestSeries(t))
                         THEN {q \in Patterns : \E r \in 1..q : FoundBy(r, t)}
                         ELSE {}

\* One change in the middle of the search neither drops a subject that was
\* relevant before and is after it, nor lists one that is not relevant either way,
\* though pages, series, patches and caches are read at different moments.
OneChangeIsHarmless ==
    Ended =>
       \A t \in Subjects :
          changes[t] = 1 =>
             /\ wasLive[t] = {TRUE} /\ ~shifted =>
                   \A q \in finders[t] : q..NumPatterns \subseteq listed[t]
             /\ wasLive[t] = {FALSE} => listed[t] = {}
=============================================================================
