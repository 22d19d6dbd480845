----------------------------- MODULE GithubSync -----------------------------
(***************************************************************************)
(* GithubSync.sync_patches and the run loop around it: one endless series  *)
(* of sync cycles, each of which starts with no memory of the one before   *)
(* and walks over the target branches, the relevant subjects and the pull  *)
(* requests of subjects that stopped being relevant.                       *)
(*                                                                         *)
(* People change series and close pull requests between any two steps, and *)
(* any step may raise instead, which ends the cycle.                       *)
(***************************************************************************)
EXTENDS BranchWorker

CONSTANTS
    NumPatterns,   \* search patterns of the Patchwork configuration
    MaxFaults,     \* bound: exceptions from outside and rate-limited cycles
    PeopleClose,   \* people close pull requests the daemon opened
    PeopleRename,  \* people rename series
    CacheExpires   \* a cached answer may expire (TTLCache) within a subject

ASSUME GithubSyncAssumption ==
    /\ NumPatterns \in Nat \ {0} /\ MaxFaults \in Nat
    /\ PeopleClose \in BOOLEAN /\ PeopleRename \in BOOLEAN
    /\ CacheExpires \in BOOLEAN

VARIABLES
    sync,         \* sync_workers: the workers that can_do_sync
    todo,         \* workers the loop at hand has still to visit
    names,        \* subject_names: the relevant subjects
    queue,        \* how often each subject is still to come in self.subjects
    toClose,      \* prs_to_close of close_existing_prs_for_series
    scan,         \* iteration over worker.prs.items() in the old-subject loop
    faults        \* how many of the MaxFaults have happened

cycleVars == <<sync, todo, names, queue, toClose, scan>>
vars == <<pwVars, ghVars, workerVars, cycleVars, faults>>

NoScan == [size |-> 0]
Scans == [worker: Workers, left: SUBSET Subjects, size: Nat]

SyncPcs == {"idle", "refresh", "fetch", "pick", "target", "returned",
            "others", "scan", "old", "expire",
            "done", "raised"}

CycleTypeOK ==
    /\ sync \subseteq Workers /\ todo \subseteq sync
    /\ names \subseteq Subjects
    /\ queue \in [Subjects -> 0..NumPatterns]
    /\ toClose \subseteq Numbers
    /\ scan \in Scans \cup {NoScan}
    /\ faults \in 0..MaxFaults

MemTypeOK ==
    /\ prs \in [Workers -> [Subjects -> Numbers \cup {NoPR}]]
    /\ all_prs \in [Refs -> Numbers \cup {NoPR}]
    /\ branches \subseteq Refs
    /\ seenClosed \subseteq Numbers
    /\ origin \in [Refs -> Contents]

Keys(w) == {t \in Subjects : prs[w][t] # NoPR}

\* The iteration is over a worker of this cycle and comes upon no key that is
\* gone.
ScanOfCycle == scan \in Scans /\ scan.worker \in sync
ScanSound == ScanOfCycle /\ scan.left \subseteq Keys(scan.worker)

\* A job, and an iteration, are there whenever a step reads them.
JobPcs == WorkerPcs \cup {"target", "returned", "others"}

JobTypeOK ==
    /\ pc \in WorkerPcs \cup SyncPcs
    /\ job \in Jobs \cup {NoJob}
    /\ pc \in JobPcs => job \in Jobs /\ job.pr \in Numbers \cup {NoPR}
    /\ pc \in {"target", "others"} => ~job.old
    /\ pc = "old" \/ (pc \in JobPcs /\ job.old) => ScanSound
    /\ pc = "expire" => ScanOfCycle

TypeOK ==
    /\ PatchworkTypeOK /\ GitHubTypeOK
    /\ MemTypeOK /\ JobTypeOK /\ CycleTypeOK

EmptyQueue == [t \in Subjects |-> 0]

Init ==
    /\ PatchworkInit /\ GitHubInit /\ WorkerInit
    /\ sync = {} /\ todo = {} /\ names = {} /\ toClose = {}
    /\ queue = EmptyQueue
    /\ scan = NoScan
    /\ faults = 0

SpendFault == faults < MaxFaults /\ faults' = faults + 1

(***************************************************************************)
(* Mirror and fetch current states of pull requests.                       *)
(***************************************************************************)
\* A worker short of GitHub rate limit sits the cycle out; it is constructed
\* all the same, with no clone, no branches and no pull requests.  With no
\* worker left there is nothing to do.
StartCycle ==
    /\ pc = "idle"
    /\ \E S \in SUBSET Workers :
          /\ IF S = Workers THEN UNCHANGED faults ELSE SpendFault
          /\ sync' = S
          /\ todo' = S
          /\ pc' = IF S = {} THEN "done" ELSE "refresh"
    /\ UNCHANGED <<pwVars, ghVars, memVars, job, names, queue, toClose, scan>>

\* fetch_repo_branch, get_pulls, do_sync and get_branches of one worker.
\* do_sync finds upstream where it was, or moved.
Refresh(w) ==
    /\ pc = "refresh"
    /\ w \in todo
    /\ todo' = todo \ {w}
    /\ GetPulls(w)
    /\ \/ UNCHANGED <<heads, applies, events>>
       \/ MoveUpstream(w) /\ SpendEvent
    /\ Fetch(w)
    /\ GetBranches(w)
    /\ pc' = IF todo' = {} THEN "fetch" ELSE "refresh"
    /\ UNCHANGED <<series, pulls, seenClosed, job, sync, names, queue,
                   toClose, scan, faults>>

\* get_relevant_subjects appends the subjects found so far once per search
\* pattern, so one found by the first of several patterns is there twice.
FetchSubjects ==
    /\ pc = "fetch"
    /\ names' = RelevantSubjects
    /\ queue' \in {q \in [Subjects -> 0..NumPatterns] :
                      \A t \in Subjects : q[t] > 0 <=> t \in RelevantSubjects}
    /\ pc' = "pick"
    /\ UNCHANGED <<pwVars, ghVars, memVars, job, sync, todo, toClose, scan, faults>>

(***************************************************************************)
(* sync_relevant_subject.                                                  *)
(***************************************************************************)
NewJob(t, i, w, targets, old) ==
    job' = [subject |-> t, series |-> i, worker |-> w, branch |-> i,
            pr |-> NoPR, path |-> "none", rest |-> targets, old |-> old]

\* The known pull requests, by target and title, of the series' branch that
\* have no merge conflict.
StickyPrs(i, targets) ==
    {known \in (DOMAIN targets) \X Subjects :
        LET w == targets[known[1]]
            n == prs[w][known[2]]
        IN  n # NoPR /\ pulls[n].head = <<i, w>> /\ ~pulls[n].conflict}

\* A target with the only such pull request is the only one tried.
SelectTargets(i) ==
    LET targets == series[i].targets
        sticky == StickyPrs(i, targets)
    IN  IF Cardinality(sticky) = 1
        THEN {<<targets[known[1]]>> : known \in sticky}
        ELSE {targets}

\* Mutant: a list that is empty is read on.
DequeuePastEnd(t) == queue' = [queue EXCEPT ![t] = @ - 1]

\* Mutant: a subject that was synced is not taken off the list.
DequeueNever(t) == queue[t] > 0 /\ UNCHANGED queue

Dequeue(t) == queue[t] > 0 /\ queue' = [queue EXCEPT ![t] = @ - 1]

\* none_throws raises if the subject lost all its series since the fetch; a
\* series that maps to no branch is skipped.
PickSubject(t) ==
    /\ pc = "pick"
    /\ Dequeue(t)
    /\ \/ LatestSeries(t) = {} /\ pc' = "raised" /\ UNCHANGED job
       \/ \E i \in LatestSeries(t) :
             IF series[i].targets = <<>>
             THEN pc' = "pick" /\ UNCHANGED job
             ELSE /\ \E targets \in SelectTargets(i) :
                        NewJob(t, i, Head(targets), targets, FALSE)
                  /\ pc' = "target"
    /\ UNCHANGED <<pwVars, ghVars, memVars, sync, todo, names, toClose, scan, faults>>

\* Subject.branch: named for the latest series, if there is one.
SubjectBranch(t) ==
    IF LatestSeries(t) = {} THEN {NoSeries} ELSE LatestSeries(t)

\* subject_to_branch, asked again for every target: the cached answer, or what
\* Patchwork says now.
BranchSeries ==
    {job.branch} \cup IF CacheExpires THEN SubjectBranch(job.subject) ELSE {}

\* The next target where the series applies, or the last one.  A worker that
\* sits the cycle out has no clone to apply anything to.
TryTarget ==
    /\ pc = "target"
    /\ job.rest # <<>>
    /\ LET w == Head(job.rest)
           last == Len(job.rest) = 1
       IN
       IF w \notin sync THEN Raise
       ELSE \E outcome \in TryApply(job.series, w), b \in BranchSeries :
               /\ Learn(job.series, w, outcome)
               /\ job' = [job EXCEPT !.rest = Tail(@), !.worker = w,
                                     !.branch = b, !.path = "none", !.pr = NoPR]
               /\ pc' = IF outcome \in {"conflict", "merged"} /\ ~last
                        THEN "target" ELSE "patch"
               /\ UNCHANGED <<heads, pulls, memVars>>
    /\ UNCHANGED <<pwVars, cycleVars, faults>>

NoTargetLeft ==
    /\ pc = "target"
    /\ job.rest = <<>>
    /\ pc' = "pick"
    /\ job' = NoJob
    /\ UNCHANGED <<pwVars, ghVars, memVars, cycleVars, faults>>

\* prs_for_the_same_series.
SameSeriesDifferentTarget(n, m) ==
    /\ SeriesOf(pulls[n].head) = SeriesOf(pulls[m].head)
    /\ TargetOf(pulls[n].head) # TargetOf(pulls[m].head)

\* Mutant: the title is not compared.
PrsForTheSameRef(n, m) == SameSeriesDifferentTarget(n, m)

PrsForTheSameSeries(n, m) ==
    pulls[n].title = pulls[m].title \/ SameSeriesDifferentTarget(n, m)

KnownPrs == {prs[w][t] : w \in Workers, t \in Subjects} \ {NoPR}

\* Mutant: a pull request is among those it replaces.
ExistingPrsAll(n) == KnownPrs

\* existing_prs, of the pull request that replaces some of them.
ExistingPrs(n) == KnownPrs \ {n}

\* checkout_and_patch returned None: try the next target or old subject.
NoPrReturned ==
    /\ pc = "returned"
    /\ job.pr = NoPR
    /\ IF job.old THEN pc' = "old" /\ job' = NoJob
                  ELSE pc' = "target" /\ UNCHANGED job
    /\ UNCHANGED <<pwVars, ghVars, memVars, cycleVars, faults>>

\* sync_checks refreshes the pull request in memory; then, for a relevant
\* subject, close_existing_prs_for_series collects what it replaces.
SyncChecks ==
    /\ pc = "returned"
    /\ job.pr # NoPR
    /\ seenClosed' = IF pulls[job.pr].open THEN seenClosed \ {job.pr}
                                           ELSE seenClosed \cup {job.pr}
    /\ IF job.old
       THEN pc' = "old" /\ job' = NoJob /\ UNCHANGED toClose
       ELSE /\ pc' = "others"
            /\ toClose' = {n \in ExistingPrs(job.pr) :
                              PrsForTheSameSeries(job.pr, n)}
            /\ UNCHANGED job
    /\ UNCHANGED <<pwVars, ghVars, prs, all_prs, branches, origin, sync, todo,
                   names, queue, scan, faults>>

\* Every worker forgets the title, the replacement's entry included.
CloseOther(n) ==
    /\ pc = "others"
    /\ n \in toClose
    /\ toClose' = toClose \ {n}
    /\ pulls' = Closed(n)
    /\ seenClosed' = seenClosed \cup {n}
    /\ prs' = [w \in Workers |-> [prs[w] EXCEPT ![pulls[n].title] = NoPR]]
    /\ UNCHANGED <<pwVars, heads, applies, all_prs, branches, origin, pc, job,
                   sync, todo, names, queue, scan, faults>>

SubjectDone ==
    /\ pc = "others"
    /\ toClose = {}
    /\ pc' = "pick"
    /\ job' = NoJob
    /\ UNCHANGED <<pwVars, ghVars, memVars, cycleVars, faults>>

(***************************************************************************)
(* Old subjects: pull requests whose subject is not relevant any more.     *)
(***************************************************************************)
AllSubjectsDone ==
    /\ pc = "pick"
    /\ \A t \in Subjects : queue[t] = 0
    /\ pc' = "scan"
    /\ todo' = sync
    /\ UNCHANGED <<pwVars, ghVars, memVars, job, sync, names, queue, toClose,
                   scan, faults>>

StartScan(w) ==
    /\ pc = "scan"
    /\ w \in todo
    /\ todo' = todo \ {w}
    /\ scan' = [worker |-> w, left |-> Keys(w), size |-> Cardinality(Keys(w))]
    /\ pc' = "old"
    /\ UNCHANGED <<pwVars, ghVars, memVars, job, sync, names, queue, toClose, faults>>

\* A dictionary that grew while it is iterated raises RuntimeError.
ScanIntact == Cardinality(Keys(scan.worker)) = scan.size

ScanRaises ==
    /\ pc = "old"
    /\ ~ScanIntact
    /\ Raise
    /\ UNCHANGED <<pwVars, cycleVars, faults>>

\* The pull request's branch is named for no series: unexpected format.
IsUnparsed(n) == SeriesOf(pulls[n].head) = NoSeries

SkipOldPr(t) ==
    /\ pc = "old" /\ ScanIntact
    /\ t \in scan.left
    /\ \/ t \in names
       \/ prs[scan.worker][t] \in seenClosed
       \/ IsUnparsed(prs[scan.worker][t])
    /\ scan' = [scan EXCEPT !.left = @ \ {t}]
    /\ UNCHANGED <<pwVars, ghVars, workerVars, sync, todo, names, queue,
                   toClose, faults>>

\* The pull request is renamed if its series was; it is closed if the subject
\* has no series left, and synced with the subject's latest one otherwise.
SyncOldPr(t) ==
    /\ pc = "old" /\ ScanIntact
    /\ t \in scan.left
    /\ scan' = [scan EXCEPT !.left = @ \ {t}]
    /\ LET n == prs[scan.worker][t]
           subject == series[SeriesOf(pulls[n].head)].subject
       IN
       /\ t \notin names /\ n \notin seenClosed /\ ~IsUnparsed(n)
       /\ \/ /\ LatestSeries(subject) = {}
             /\ pulls' = [pulls EXCEPT ![n].title = subject, ![n].open = FALSE]
             /\ seenClosed' = seenClosed \cup {n}
             /\ UNCHANGED <<pc, job>>
          \/ /\ pulls' = [pulls EXCEPT ![n].title = subject]
             /\ \E i \in LatestSeries(subject) :
                   NewJob(subject, i, scan.worker, <<>>, TRUE)
             /\ pc' = "patch"
             /\ UNCHANGED seenClosed
    /\ UNCHANGED <<pwVars, heads, applies, prs, all_prs, branches, origin, sync,
                   todo, names, queue, toClose, faults>>

ScanDone ==
    /\ pc = "old" /\ ScanIntact
    /\ scan.left = {}
    /\ pc' = "expire"
    /\ UNCHANGED <<pwVars, ghVars, memVars, job, cycleVars, faults>>

\* Any closed pull request may or may not be older than BRANCH_TTL by now.
ExpireBranches ==
    /\ pc = "expire"
    /\ \E aged \in SUBSET ClosedPulls :
          DeleteRefs(ExpirableBranches(scan.worker, aged))
    /\ pc' = IF todo = {} THEN "done" ELSE "scan"
    /\ scan' = NoScan
    /\ UNCHANGED <<pwVars, applies, memVars, job, sync, todo, names, queue,
                   toClose, faults>>

(***************************************************************************)
(* The end of a cycle, and the daemon's next one.                          *)
(***************************************************************************)
\* run catches every exception and constructs GithubSync, its workers and the
\* Patchwork client anew.
EndCycle ==
    /\ pc \in {"done", "raised"}
    /\ ForgetAll
    /\ sync' = {} /\ todo' = {} /\ names' = {} /\ toClose' = {}
    /\ queue' = EmptyQueue
    /\ scan' = NoScan
    /\ UNCHANGED <<pwVars, ghVars, faults>>

\* GitHub, Patchwork, git or the network fails, or the process is restarted.
Fault ==
    /\ pc \notin {"idle", "done", "raised"}
    /\ SpendFault
    /\ pc' = "raised"
    /\ UNCHANGED <<pwVars, ghVars, memVars, job, cycleVars>>

(***************************************************************************)
(* The specification.                                                      *)
(***************************************************************************)
ClosePrByHand(n) ==
    /\ PeopleClose
    /\ SpendEvent
    /\ n \in OpenPulls
    /\ pulls' = Closed(n)
    /\ UNCHANGED <<series, heads, applies, workerVars, cycleVars, faults>>

People ==
    \/ /\ \E i \in Series : \/ PostSeries(i) \/ ChangeStatus(i)
                            \/ PeopleRename /\ RenameSeries(i)
       /\ UNCHANGED <<ghVars, workerVars, cycleVars, faults>>
    \/ \E n \in Numbers : ClosePrByHand(n)

Patching == CheckoutAndPatch /\ UNCHANGED <<pwVars, cycleVars, faults>>

Daemon ==
    \/ StartCycle \/ (\E w \in Workers : Refresh(w)) \/ FetchSubjects
    \/ (\E t \in Subjects : PickSubject(t)) \/ TryTarget \/ NoTargetLeft
    \/ Patching \/ NoPrReturned \/ SyncChecks
    \/ (\E n \in Numbers : CloseOther(n)) \/ SubjectDone
    \/ AllSubjectsDone \/ (\E w \in Workers : StartScan(w)) \/ ScanRaises
    \/ (\E t \in Subjects : SkipOldPr(t) \/ SyncOldPr(t)) \/ ScanDone
    \/ ExpireBranches \/ EndCycle

Next == Daemon \/ Fault \/ People

Spec == Init /\ [][Next]_vars

\* The run loop always goes on; nothing makes people act or calls fail.
FairSpec == Spec /\ WF_vars(Daemon)

(***************************************************************************)
(* Safety.                                                                 *)
(***************************************************************************)
\* The workers whose in-memory state stands for GitHub's in this cycle.
Refreshed ==
    IF pc = "raised" THEN {} ELSE IF pc = "refresh" THEN sync \ todo ELSE sync

\* Memory never misses an open pull request: once a worker was refreshed, every
\* branch of its target with an open pull request is a key of all_prs.
\* _guess_pr takes absence for "only closed ones", expire_branches for "no
\* known open prs", and both would act on it.
OpenPrsKnown ==
    \A r \in Refs :
        TargetOf(r) \in Refreshed /\ OpenFrom(r) # {} => all_prs[r] # NoPR

AboutToCreate ==
    \/ pc = "dummy"
    \/ /\ pc = "create" /\ job.path # "conflict"
       /\ applies[<<job.series, job.worker>>] # "empty"

\* create_pull is never called for a branch that has an open pull request,
\* whatever was created, re-opened or closed since the refresh and whoever
\* closes pull requests meanwhile ("only one PR can be active for one
\* head->base", _guess_pr).
NoDuplicatePr == AboutToCreate => OpenFrom(Ref) = {}

\* Neither delete_branch after a closed series nor expire_branches removes a
\* branch whose pull request is open, which would close it for good.
BranchOutlivesPr ==
    [][\A r \in Refs :
          heads[r] # Gone /\ heads'[r] = Gone => OpenFrom(r) = {}]_vars

\* A force-push never costs a closed pull request its chance to be re-opened:
\* apply_push_comment "must try to re-open PR first, before doing force-push".
PushKeepsReopenable ==
    [][\A n \in Numbers :
          /\ ~pulls[n].open /\ ~pulls[n].frozen
          /\ pulls'[n].frozen
          => heads'[pulls[n].head] = Gone]_vars

Synced == pc = "returned" /\ job.pr # NoPR

\* The pull request whose CI results sync_checks reports for a series comes
\* from the series' own branch and says merge-conflict, or what was last pushed
\* there are that series' patches on the current base and the branch still has
\* them.  The one way to lose them is delete_branch in an earlier visit of the
\* same cycle, which the clone does not see (_is_branch_changed): then the pull
\* request is closed, and its last commit is still the series'.
CheckedPrMatches ==
    Synced =>
        /\ pulls[job.pr].head = Ref
        /\ pulls[job.pr].conflict <=> job.path = "conflict"
        /\ job.path # "conflict" =>
              /\ origin[Ref] = job.series
              /\ \/ heads[Ref] = job.series
                 \/ heads[Ref] = Gone /\ ~pulls[job.pr].open

\* The closed pull requests of a branch that GitHub would re-open if it exists.
Reopenable(r) == {n \in ClosedPulls : pulls[n].head = r /\ ~pulls[n].frozen}

\* What has become of the pull requests of a branch, see BranchLife.
LifeOf(r) ==
    IF OpenFrom(r) # {} THEN "open"
    ELSE IF Reopenable(r) # {} THEN "closed"
    ELSE IF \E n \in Numbers : pulls[n].head = r THEN "lost"
    ELSE "none"

Life == INSTANCE BranchLife WITH
    Branches <- Refs,
    there <- {r \in Refs : heads[r] # Gone},
    life <- [r \in Refs |-> LifeOf(r)]

\* The daemon keeps what BranchLife promises, through exceptions, restarts and
\* changes of series between any two calls: no duplicate pull request, no new
\* one in place of one that can be re-opened, no force-push or deletion that
\* loses one.
ImplementsBranchLife == Life!Spec

\* close_existing_prs_for_series closes a pull request only for one that is
\* open itself ("replaced with"), so a subject is never left without any.
ReplacedByOpenPr == pc = "others" /\ toClose # {} => pulls[job.pr].open

(***************************************************************************)
(* Liveness, once people and failures are done.                            *)
(***************************************************************************)
\* Every sync cycle comes to its end, by return or by exception.
CycleEnds == pc # "idle" ~> pc = "idle"

\* The daemon stops opening and closing pull requests when nothing changes
\* around it: cycle after cycle over the same series is idempotent.
Settles == <>[][OpenPulls' = OpenPulls]_vars

OpenFor(i) == {n \in OpenPulls : SeriesOf(pulls[n].head) = i}

\* The series deserves a pull request: it applies to a target or conflicts on
\* the last one.  While some upstream has it already, the daemon waits for
\* Patchwork to say so.
Wanted(i) ==
    LET targets == series[i].targets
        result(k) == applies[<<i, targets[k]>>]
    IN  /\ targets # <<>>
        /\ \A k \in DOMAIN targets : result(k) # "merged"
        /\ \/ \E k \in DOMAIN targets : result(k) = "clean"
           \/ result(Len(targets)) = "conflict"

\* A relevant subject ends up with exactly one open pull request of its title:
\* that of its latest series, with its patches on the current base if they
\* apply there.  Crashes between any two GitHub calls, duplicates in the list
\* of subjects and pull requests of older versions are all made up for.
Converges ==
    \A t \in Subjects : <>[]
        (\A i \in LatestSeries(t) :
            t \in RelevantSubjects /\ Wanted(i) =>
                \E n \in OpenFor(i) :
                    /\ \A m \in OpenPulls : pulls[m].title = t => m = n
                    /\ LET r == pulls[n].head IN
                       applies[r] = "clean" => heads[r] = i)

\* Once the latest series of a subject is closed in Patchwork, its pull
\* request does not stay open.
ClosedPrsEnd ==
    \A t \in Subjects :
        <>[](\A i \in LatestSeries(t) : IsClosed(i) => OpenFor(i) = {})

(***************************************************************************)
(* What comments say and the code does not do.                             *)
(***************************************************************************)
\* "Closing PR." (_pr_closed): when the latest series of a subject is closed
\* for good, no pull request with its title stays open.
ClosedSubjectsEnd ==
    \A t \in Subjects :
        <>[](\A i \in LatestSeries(t) :
                IsClosed(i) => \A n \in OpenPulls : pulls[n].title # t)
=============================================================================
