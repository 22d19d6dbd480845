----------------------------- MODULE Patchwork -----------------------------
(***************************************************************************)
(* Patch series as patchwork.py presents them to the daemon, and what the  *)
(* people behind Patchwork may do to them while the daemon runs.           *)
(*                                                                         *)
(* Series are numbered by their date, so "the most recent series of a      *)
(* subject" is the largest number.  The version tag is not modelled: a new *)
(* version is a new series whose name parses to the same subject.          *)
(***************************************************************************)
EXTENDS Naturals, FiniteSets, Sequences

CONSTANTS
    Workers,      \* target branches, one BranchWorker each
    Subjects,     \* subjects a series name can parse to
    MaxSeries,    \* number of series ever posted
    Statuses,     \* what may happen to a posted series, see AllStatuses
    Mappings,     \* branch orders tag_to_branch_mapping can give a series
    MaxEvents     \* bound: changes made by people, all together

Series == 1..MaxSeries

\* relevant   every patch in a RELEVANT_STATES state, found by the search
\* lapsed     the same, but older than the lookback or archived: not found
\* expired    found, but in a TTL state for longer than its TTL
\* closed     some patch in an IRRELEVANT_STATES state
\* unmatched  no patch matches the search patterns any more (re-delegated)
AllStatuses == {"relevant", "lapsed", "expired", "closed", "unmatched"}

ASSUME PatchworkAssumption ==
    /\ Workers # {} /\ Subjects # {} /\ IsFiniteSet(Subjects)
    /\ MaxSeries \in Nat /\ MaxEvents \in Nat
    /\ Statuses \subseteq AllStatuses
    /\ Mappings \subseteq Seq(Workers)

VARIABLES
    series,       \* Patchwork's record of every series
    events        \* how many of the MaxEvents changes have been made

pwVars == <<series, events>>

NotPosted == [status |-> "absent"]

PostedSeries ==
    [subject: Subjects, status: AllStatuses, targets: Mappings]

PatchworkTypeOK ==
    /\ series \in [Series -> PostedSeries \cup {NotPosted}]
    /\ events \in 0..MaxEvents

PatchworkInit ==
    /\ series = [i \in Series |-> NotPosted]
    /\ events = 0

(***************************************************************************)
(* What the daemon reads.                                                  *)
(***************************************************************************)
Posted(i) == series[i].status # "absent"

\* Subject.relevant_series: same subject, at least one matching patch.
RelevantSeries(t) ==
    {i \in Series : /\ Posted(i)
                    /\ series[i].subject = t
                    /\ series[i].status # "unmatched"}

\* Mutant: the list of series is not sorted.
LatestSeriesUnsorted(t) == RelevantSeries(t)

\* Subject.latest_series, an Optional: a set of at most one series.
LatestSeries(t) ==
    {i \in RelevantSeries(t) : \A j \in RelevantSeries(t) : j <= i}

IsClosed(i) == series[i].status = "closed"

\* Mutant: closed series are not told from live ones.
IsPrClosedExpired(i) == series[i].status \in {"expired", "unmatched"}

\* The three conditions of BranchWorker._pr_closed.
IsPrClosed(i) == series[i].status \in {"closed", "expired", "unmatched"}

\* Patchwork.get_relevant_subjects: the search finds a series of the subject
\* and the subject's latest series is neither expired nor closed.
RelevantSubjects ==
    {t \in Subjects :
        /\ \E i \in RelevantSeries(t) :
              series[i].status \in {"relevant", "expired"}
        /\ \E i \in LatestSeries(t) : ~IsPrClosed(i)}

(***************************************************************************)
(* What people do.  Each change costs one of the MaxEvents.                *)
(***************************************************************************)
SpendEvent == events < MaxEvents /\ events' = events + 1

\* A series, or a new version of one, reaches the list; mail may be delivered
\* in another order than it was sent.
PostSeries(i) ==
    /\ ~Posted(i)
    /\ SpendEvent
    /\ \E t \in Subjects, m \in Mappings :
          series' = [series EXCEPT ![i] =
                        [subject |-> t, status |-> "relevant", targets |-> m]]

\* A maintainer, a bot or the passage of time changes the patches' state.
ChangeStatus(i) ==
    /\ Posted(i)
    /\ SpendEvent
    /\ \E s \in Statuses \ {series[i].status} :
          series' = [series EXCEPT ![i].status = s]

\* "Series could change name" (BranchWorker._guess_pr).
RenameSeries(i) ==
    /\ Posted(i)
    /\ SpendEvent
    /\ \E t \in Subjects \ {series[i].subject} :
          series' = [series EXCEPT ![i].subject = t]
=============================================================================
