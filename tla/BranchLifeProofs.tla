-------------------------- MODULE BranchLifeProofs --------------------------
(***************************************************************************)
(* Theorems about GithubSync when each branch has one visit in a cycle:    *)
(* the list of subjects has no duplicates, which one search pattern is     *)
(* enough for, series keep their names, and no two subjects share the      *)
(* branch named for no series.  Then no duplicate pull request is created, *)
(* no branch is deleted under an open one, and, where only the daemon      *)
(* closes pull requests, BranchLife is implemented.                        *)
(***************************************************************************)
EXTENDS PullRequestProofs

\* A subject whose cached answers expire while it is visited may be told to work
\* on the branch named for no series, which it shares with all such subjects.
OneVisit ==
    /\ NumPatterns = 1 /\ ~PeopleRename
    /\ CacheExpires => \A t, u \in Subjects : t = u

\* The subject a branch belongs to: that of its series, or the only one.
Owner(b) ==
    IF b = NoSeries THEN CHOOSE t \in Subjects : TRUE ELSE series[b].subject

(***************************************************************************)
(* The visits of a cycle: first each subject of the queue, then each title *)
(* of a worker's pull requests that is not among the relevant subjects.    *)
(***************************************************************************)
HandlerPcs == WorkerPcs \cup {"returned"}
VisitPcs == HandlerPcs \cup {"target"}
FreshPcs == {"target", "patch", "delete", "comment", "create", "dummy"}

QueueOK ==
    /\ pc \in {"idle", "refresh", "fetch"} => names = {}
    /\ \A t \in Subjects : queue[t] > 0 => t \in names

\* A visit to a subject: no pull request was found yet when one is looked for,
\* the branch belongs to the subject, and the subject is not to come again.
VisitOK ==
    /\ pc \in FreshPcs \/ (pc = "push" /\ job.path = "new") => job.pr = NoPR
    /\ pc \in VisitPcs => Owner(job.branch) = job.subject
    /\ pc \in HandlerPcs => job.worker \in sync
    /\ pc \in VisitPcs /\ ~job.old => job.subject \in names /\ queue[job.subject] = 0
    /\ pc \in HandlerPcs /\ job.old =>
          /\ job.worker = scan.worker
          /\ job.subject \notin names /\ job.subject \notin scan.left
    /\ pc \in {"old", "expire"} \/ (pc \in HandlerPcs /\ job.old) =>
          scan.worker \notin todo

\* A pull request, and the entry it has in memory, have its series' subject.
TitlesOK ==
    /\ \A n \in Numbers : pulls[n].title = Owner(SeriesOf(pulls[n].head))
    /\ \A w \in Workers, t \in Subjects :
          prs[w][t] # NoPR => pulls[prs[w][t]].title = t

PhaseInv == QueueOK /\ VisitOK /\ TitlesOK

\* The job of a visit is well formed.
LEMMA VisitJob ==
    ASSUME IInv, pc \in VisitPcs
    PROVE  /\ job \in Jobs /\ job.pr \in Numbers \cup {NoPR} /\ Ref \in Refs
           /\ <<job.series, job.worker>> \in Refs /\ Named(job.branch)
           /\ pc = "target" => ~job.old
           /\ job.old => scan \in Scans
BY DEF VisitPcs, HandlerPcs, IInv, TypeOK, JobTypeOK, JobPcs, Jobs, Ref, Refs,
       ScanSound, ScanOfCycle, Grounded, BranchNames, WorkerPcs

\* A step of the handler keeps the job's arguments, forgets no pull request it
\* found, and finds none before it looks for it.
HandlerStep ==
    /\ pc' \in HandlerPcs \cup {"raised"}
    /\ job' \in Jobs
    /\ job'.subject = job.subject /\ job'.series = job.series
    /\ job'.worker = job.worker /\ job'.branch = job.branch
    /\ job'.old = job.old
    /\ job'.pr = NoPR => job.pr = NoPR
    /\ pc' \in FreshPcs \/ (pc' = "push" /\ job'.path = "new") => job'.pr = NoPR

LEMMA HandlerSteps ==
    ASSUME IInv, VisitOK, Patching
    PROVE  /\ pc \in WorkerPcs /\ job \in Jobs /\ HandlerStep
           /\ UNCHANGED <<pwVars, cycleVars, faults>>
<1>1. pc \in WorkerPcs
  BY DEF Patching, CheckoutAndPatch, CloseSeriesPr, DeleteClosedBranch, Apply,
         UseOpenPr, ReopenPr, NoPrToUse, SkipEmptyPr, PushDummy, CreatePr,
         SetLabels, PushNewBranch, PushUpdate, WorkerPcs
<1>2. job \in Jobs /\ job.pr \in Nat
  BY <1>1, JobInHandler DEF Jobs
<1> SUFFICES HandlerStep
  BY <1>1, <1>2 DEF Patching
<1>3. CASE UNCHANGED job /\ pc' = "raised"
  BY <1>2, <1>3 DEF HandlerStep, FreshPcs
<1>4. CASE Return(job.pr)
  BY <1>2, <1>4 DEF Return, HandlerStep, HandlerPcs, FreshPcs, Jobs
<1>5. CASE pc \in FreshPcs /\ ReturnNone
  BY <1>2, <1>5 DEF ReturnNone, Return, VisitOK, HandlerStep, HandlerPcs, FreshPcs,
                    Jobs, NoPR
<1>6. CASE /\ UNCHANGED job
           /\ \/ pc \in FreshPcs /\ pc' \in FreshPcs \ {"target"}
              \/ pc = "label" /\ pc' = "push" /\ job.path = "update"
              \/ pc = "push" /\ job.path = "new" /\ pc' = "comment"
  BY <1>2, <1>6 DEF VisitOK, HandlerStep, HandlerPcs, WorkerPcs, FreshPcs
<1>7. ASSUME pc \in FreshPcs, NEW n \in Nat, FoundPr(n), pc' = "label"
      PROVE  HandlerStep
  BY <1>2, <1>7 DEF FoundPr, VisitOK, HandlerStep, HandlerPcs, WorkerPcs, FreshPcs, Jobs
<1>8. CASE CloseSeriesPr \/ DeleteClosedBranch \/ SkipEmptyPr \/ NoPrToUse
             \/ PushDummy \/ PushNewBranch \/ PushUpdate \/ SetLabels
  BY <1>3, <1>4, <1>5, <1>6, <1>8
     DEF CloseSeriesPr, DeleteClosedBranch, SkipEmptyPr, NoPrToUse, PushDummy,
         PushNewBranch, PushUpdate, SetLabels, Raise, Goto, FreshPcs
<1>9. CASE Apply
  <2>1. ASSUME NEW outcome, job' = [job EXCEPT !.path = PathFor(outcome)],
               pc' = IF PathFor(outcome) = "new" THEN "push" ELSE "comment"
        PROVE  HandlerStep
    <3>1. PathFor(outcome) \in Paths
      BY DEF PathFor, Paths
    <3> QED
      BY <1>2, <1>9, <2>1, <3>1
         DEF Apply, VisitOK, HandlerStep, HandlerPcs, WorkerPcs, FreshPcs, Jobs
  <2> QED
    BY <1>5, <1>9, <2>1 DEF Apply, FreshPcs
<1>10. CASE UseOpenPr \/ ReopenPr
  <2>1. \A n \in GuessPr(Ref) : n \in Nat
    BY <1>1, GuessPrType
  <2> QED
    BY <1>6, <1>7, <1>10, <2>1 DEF UseOpenPr, ReopenPr, FreshPcs
<1>11. CASE CreatePr
  <2>1. Len(pulls) + 1 \in Nat
    BY LenProperties DEF IInv, TypeOK, GitHubTypeOK
  <2> QED
    BY <1>3, <1>7, <1>11, <2>1 DEF CreatePr, Raise, FreshPcs
<1> QED
  BY <1>8, <1>9, <1>10, <1>11 DEF Patching, CheckoutAndPatch

\* The queue is filled from the relevant subjects and only ever gets shorter.
LEMMA QueueNext == IInv /\ QueueOK /\ [Next]_vars => QueueOK'
<1> SUFFICES ASSUME IInv, QueueOK, [Next]_vars PROVE QueueOK'
  OBVIOUS
<1> USE DEF QueueOK
<1>1. CASE UNCHANGED vars
  BY <1>1 DEF vars, workerVars, cycleVars
<1>2. CASE Fault \/ People
  BY <1>2 DEF Fault, People, ClosePrByHand, workerVars, cycleVars
<1>3. CASE Patching
  <2>1. pc' \notin {"idle", "refresh", "fetch"}
    BY <1>3
       DEF Patching, CheckoutAndPatch, CloseSeriesPr, DeleteClosedBranch, Apply,
           UseOpenPr, ReopenPr, NoPrToUse, SkipEmptyPr, PushDummy, CreatePr,
           SetLabels, PushNewBranch, PushUpdate, Raise, ReturnNone, Return, Goto
  <2> QED
    BY <1>3, <2>1 DEF Patching, cycleVars
<1>4. CASE FetchSubjects
  BY <1>4 DEF FetchSubjects
<1>5. ASSUME NEW t \in Subjects, PickSubject(t)
      PROVE  QueueOK'
  <2>1. queue \in [Subjects -> Nat]
    BY GithubSyncAssumption DEF IInv, TypeOK, CycleTypeOK
  <2>2. \A u \in Subjects : queue'[u] > 0 => queue[u] > 0
    BY <1>5, <2>1 DEF PickSubject, Dequeue
  <2> QED
    BY <1>5, <2>2 DEF PickSubject
<1>6. CASE EndCycle
  BY <1>6 DEF EndCycle, EmptyQueue
<1>7. CASE StartCycle \/ (\E w \in Workers : Refresh(w))
  BY <1>7 DEF StartCycle, Refresh
<1>8. CASE TryTarget \/ NoTargetLeft \/ NoPrReturned \/ SyncChecks
             \/ (\E n \in Numbers : CloseOther(n)) \/ SubjectDone
  BY <1>8 DEF TryTarget, Raise, NoTargetLeft, NoPrReturned, SyncChecks, CloseOther,
              SubjectDone, cycleVars
<1>9. CASE AllSubjectsDone \/ (\E w \in Workers : StartScan(w)) \/ ScanRaises
             \/ (\E t \in Subjects : SkipOldPr(t) \/ SyncOldPr(t)) \/ ScanDone
             \/ ExpireBranches
  BY <1>9 DEF AllSubjectsDone, StartScan, ScanRaises, Raise, SkipOldPr, SyncOldPr,
              ScanDone, ExpireBranches, cycleVars, workerVars
<1> QED
  BY <1>1, <1>2, <1>3, <1>4, <1>5, <1>6, <1>7, <1>8, <1>9 DEF Next, Daemon

\* Series keep their subjects once they are posted, where nobody renames them.
LEMMA SubjectsKept ==
    ASSUME IInv, OneVisit, [Next]_vars, NEW i \in Series, Posted(i)
    PROVE  series'[i].subject = series[i].subject /\ Posted(i)'
<1>1. CASE UNCHANGED series
  BY <1>1 DEF Posted
<1>2. ASSUME NEW j \in Series, PostSeries(j) \/ ChangeStatus(j)
      PROVE  series'[i].subject = series[i].subject /\ Posted(i)'
  <2>1. series \in [Series -> PostedSeries \cup {NotPosted}]
    BY DEF IInv, TypeOK, PatchworkTypeOK
  <2>2. series[i] \in PostedSeries
    BY <2>1 DEF Posted, NotPosted
  <2>3. CASE PostSeries(j)
    <3>1. i # j
      BY <2>3 DEF PostSeries
    <3> QED
      BY <2>1, <2>3, <3>1 DEF PostSeries, Posted
  <2>4. CASE ChangeStatus(j)
    <3>1. PICK s \in Statuses : series' = [series EXCEPT ![j].status = s]
      BY <2>4 DEF ChangeStatus
    <3>2. s # "absent"
      BY PatchworkAssumption DEF AllStatuses
    <3> QED
      BY <2>1, <2>2, <3>1, <3>2 DEF Posted, PostedSeries
  <2> QED
    BY <1>2, <2>3, <2>4
<1>3. ~UNCHANGED series => \E j \in Series : PostSeries(j) \/ ChangeStatus(j)
  <2> SUFFICES ASSUME ~UNCHANGED series
               PROVE  \E j \in Series : PostSeries(j) \/ ChangeStatus(j)
    OBVIOUS
  <2>1. ~UNCHANGED vars /\ ~Fault /\ ~Patching
    BY DEF vars, pwVars, Fault, Patching
  <2>2. ~Daemon
    BY <2>1
       DEF Daemon, StartCycle, Refresh, FetchSubjects, PickSubject, TryTarget,
           NoTargetLeft, NoPrReturned, SyncChecks, CloseOther, SubjectDone,
           AllSubjectsDone, StartScan, ScanRaises, SkipOldPr, SyncOldPr, ScanDone,
           ExpireBranches, EndCycle, pwVars
  <2> QED
    BY <2>1, <2>2 DEF Next, People, ClosePrByHand, OneVisit
<1> QED
  BY <1>1, <1>2, <1>3

\* So branches keep their owners.
LEMMA OwnerKept ==
    ASSUME IInv, OneVisit, [Next]_vars, NEW b \in BranchNames, Named(b)
    PROVE  Owner(b)' = Owner(b) /\ Named(b)' /\ Owner(b) \in Subjects
<1>1. CASE b = NoSeries
  BY <1>1, PatchworkAssumption DEF Owner, Named
<1>2. CASE b # NoSeries
  <2>1. b \in Series /\ Posted(b)
    BY <1>2 DEF BranchNames, Named
  <2>2. series[b].subject \in Subjects
    BY <2>1 DEF IInv, TypeOK, PatchworkTypeOK, Posted, NotPosted, PostedSeries
  <2> QED
    BY <1>2, <2>1, <2>2, SubjectsKept DEF Owner, Named
<1> QED
  BY <1>1, <1>2

\* The pull request SyncOldPr takes has the subject of its key.
LEMMA OldPrSubject ==
    ASSUME IInv, TitlesOK, NEW t \in Subjects, SyncOldPr(t)
    PROVE  /\ OldPr(t) \in Numbers /\ OldSubject(t) = t
           /\ scan.worker \in sync /\ sync \subseteq Workers
<1>1. scan.worker \in sync /\ sync \subseteq Workers
  BY DEF SyncOldPr, IInv, TypeOK, JobTypeOK, ScanSound, ScanOfCycle, CycleTypeOK
<1>2. OldPr(t) \in Numbers /\ OldPr(t) # NoPR
  BY OldPrType, NumbersArePositive DEF IInv, TypeOK
<1>3. OldSubject(t) = t
  BY <1>1, <1>2 DEF SyncOldPr, IsUnparsed, OldPr, OldSubject, TitlesOK, Owner
<1> QED
  BY <1>1, <1>2, <1>3

\* A step that ends the visits and the scan for now.
LEMMA VisitElsewhere ==
    ASSUME pc' \notin VisitPcs \cup {"old", "expire"}
    PROVE  VisitOK'
BY DEF VisitOK, VisitPcs, HandlerPcs, WorkerPcs, FreshPcs

\* A visit ends before the next one of its subject could start.
LEMMA VisitNext ==
    ASSUME IInv, OneVisit, PhaseInv, [Next]_vars
    PROVE  VisitOK'
<1> USE DEF PhaseInv
<1>1. pc \in VisitPcs =>
        job.branch = NoSeries \/ series'[job.branch].subject = series[job.branch].subject
  <2>1. pc \in VisitPcs => job.branch \in BranchNames /\ Named(job.branch)
    BY VisitJob DEF Jobs
  <2> QED
    BY <2>1, SubjectsKept DEF Named, BranchNames
<1>2. CASE UNCHANGED <<pc, job, sync, todo, names, queue, scan>>
  BY <1>1, <1>2 DEF VisitOK, VisitPcs, Owner
<1>3. CASE UNCHANGED vars \/ People
  BY <1>2, <1>3 DEF vars, People, ClosePrByHand, workerVars, cycleVars
<1>4. CASE Patching
  BY <1>1, <1>4, HandlerSteps
     DEF HandlerStep, VisitOK, VisitPcs, HandlerPcs, WorkerPcs, FreshPcs, cycleVars, Owner
<1>5. CASE Fault \/ StartCycle \/ (\E w \in Workers : Refresh(w)) \/ FetchSubjects
             \/ NoTargetLeft \/ SubjectDone \/ AllSubjectsDone \/ ScanRaises
             \/ EndCycle
  <2>1. pc' \in {"raised", "refresh", "fetch", "pick", "scan", "idle", "done"}
    BY <1>5 DEF Fault, StartCycle, Refresh, FetchSubjects, NoTargetLeft,
                SubjectDone, AllSubjectsDone, ScanRaises, Raise, EndCycle, ForgetAll
  <2> QED
    BY <2>1, VisitElsewhere DEF VisitPcs, HandlerPcs, WorkerPcs
<1>6. ASSUME NEW t \in Subjects, PickSubject(t)
      PROVE  VisitOK'
  <2>1. CASE pc' \in {"pick", "raised"}
    BY <2>1, VisitElsewhere DEF VisitPcs, HandlerPcs, WorkerPcs
  <2>2. CASE pc' = "target"
    <3>1. PICK i \in LatestSeries(t) : \E targets \in SelectTargets(i) :
                NewJob(t, i, Head(targets), targets, FALSE)
      BY <1>6, <2>2 DEF PickSubject
    <3>2. /\ job'.subject = t /\ job'.branch = i /\ job'.pr = NoPR /\ ~job'.old
      BY <3>1 DEF NewJob
    <3>3. series'[i].subject = t /\ i # NoSeries
      BY <1>6, LatestSeriesType DEF IInv, TypeOK, PickSubject, pwVars, Series, NoSeries
    <3>4. t \in names /\ queue'[t] = 0 /\ names' = names
      <4>1. queue \in [Subjects -> 0..1]
        BY DEF OneVisit, IInv, TypeOK, CycleTypeOK
      <4> QED
        BY <1>6, <4>1 DEF PickSubject, Dequeue, QueueOK
    <3> QED
      BY <2>2, <3>2, <3>3, <3>4 DEF VisitOK, VisitPcs, HandlerPcs, WorkerPcs, Owner
  <2> QED
    BY <1>6, <2>1, <2>2 DEF PickSubject
<1>7. CASE TryTarget
  <2>1. CASE pc' = "raised"
    BY <2>1, VisitElsewhere DEF VisitPcs, HandlerPcs, WorkerPcs
  <2>2. CASE pc' # "raised"
    <3>1. /\ pc = "target" /\ Head(job.rest) \in sync
          /\ pc' \in {"target", "patch"}
          /\ \E b \in BranchSeries :
                job' = [job EXCEPT !.rest = Tail(@), !.worker = Head(job.rest),
                                   !.branch = b, !.path = "none", !.pr = NoPR]
          /\ UNCHANGED <<series, sync, todo, names, queue, scan>>
      BY <1>7, <2>2 DEF TryTarget, Raise, pwVars, cycleVars
    <3>2. job \in Jobs /\ ~job.old
      BY <3>1, VisitJob DEF VisitPcs
    <3>3. ASSUME NEW b \in BranchSeries
          PROVE  Owner(b) = job.subject
      <4>1. Owner(job.branch) = job.subject /\ job.subject \in Subjects
        BY <3>1, <3>2 DEF VisitOK, VisitPcs, Jobs
      <4>2. CASE b = NoSeries /\ CacheExpires
        BY <4>1, <4>2 DEF OneVisit, Owner
      <4>3. CASE b \in LatestSeries(job.subject)
        <5>1. b # NoSeries /\ series[b].subject = job.subject
          BY <4>3, LatestSeriesType DEF IInv, TypeOK, Series, NoSeries
        <5> QED
          BY <5>1 DEF Owner
      <4> QED
        BY <4>1, <4>2, <4>3 DEF BranchSeries, SubjectBranch
    <3>4. /\ job'.worker = Head(job.rest) /\ job'.pr = NoPR
          /\ job'.subject = job.subject /\ ~job'.old
          /\ Owner(job'.branch) = job.subject
      BY <3>1, <3>2, <3>3 DEF Jobs
    <3> QED
      BY <3>1, <3>2, <3>4 DEF VisitOK, VisitPcs, HandlerPcs, WorkerPcs, FreshPcs, Owner
  <2> QED
    BY <2>1, <2>2
<1>8. CASE NoPrReturned
  BY <1>1, <1>8 DEF NoPrReturned, pwVars, cycleVars, VisitOK, VisitPcs, HandlerPcs,
                    WorkerPcs, FreshPcs, Owner
<1>9. CASE SyncChecks
  BY <1>9 DEF SyncChecks, VisitOK, VisitPcs, HandlerPcs, WorkerPcs, FreshPcs
<1>10. ASSUME NEW n \in Numbers, CloseOther(n)
       PROVE  VisitOK'
  BY <1>10, VisitElsewhere DEF CloseOther, VisitPcs, HandlerPcs, WorkerPcs
<1>11. ASSUME NEW w \in Workers, StartScan(w)
       PROVE  VisitOK'
  BY <1>11 DEF StartScan, VisitOK, VisitPcs, HandlerPcs, WorkerPcs, FreshPcs
<1>12. ASSUME NEW t \in Subjects, SkipOldPr(t)
       PROVE  VisitOK'
  <2>1. scan \in Scans
    BY <1>12 DEF SkipOldPr, IInv, TypeOK, JobTypeOK, ScanSound, ScanOfCycle
  <2>2. scan'.worker = scan.worker
    BY <1>12, <2>1 DEF SkipOldPr, Scans
  <2> QED
    BY <1>12, <2>2 DEF SkipOldPr, workerVars, VisitOK, VisitPcs, HandlerPcs, WorkerPcs, FreshPcs
<1>13. ASSUME NEW t \in Subjects, SyncOldPr(t)
       PROVE  VisitOK'
  <2>1. scan \in Scans /\ t \notin names /\ pc = "old"
    BY <1>13 DEF SyncOldPr, IInv, TypeOK, JobTypeOK, ScanSound, ScanOfCycle
  <2>2. /\ scan'.worker = scan.worker /\ t \notin scan'.left
        /\ UNCHANGED <<series, sync, todo, names, queue>>
    BY <1>13, <2>1 DEF SyncOldPr, Scans, pwVars
  <2>3. scan.worker \in sync /\ OldSubject(t) = t
    BY <1>13, OldPrSubject
  <2>4. CASE UNCHANGED <<pc, job>>
    BY <2>1, <2>2, <2>4 DEF VisitOK, VisitPcs, HandlerPcs, WorkerPcs, FreshPcs
  <2>5. CASE pc' = "patch" /\ \E i \in LatestSeries(OldSubject(t)) :
                  NewJob(OldSubject(t), i, scan.worker, <<>>, TRUE)
    <3>1. PICK i \in LatestSeries(t) : NewJob(t, i, scan.worker, <<>>, TRUE)
      BY <2>3, <2>5
    <3>2. /\ job'.subject = t /\ job'.branch = i /\ job'.pr = NoPR /\ job'.old
          /\ job'.worker = scan.worker
      BY <3>1 DEF NewJob
    <3>3. series[i].subject = t /\ i # NoSeries
      BY LatestSeriesType DEF IInv, TypeOK, Series, NoSeries
    <3> QED
      BY <2>1, <2>2, <2>3, <2>5, <3>2, <3>3
         DEF VisitOK, VisitPcs, HandlerPcs, WorkerPcs, FreshPcs, Owner
  <2> QED
    BY <1>13, <2>4, <2>5 DEF SyncOldPr, OldPr, OldSubject
<1>14. CASE ScanDone \/ ExpireBranches
  BY <1>14 DEF ScanDone, ExpireBranches, cycleVars, VisitOK, VisitPcs, HandlerPcs,
               WorkerPcs, FreshPcs
<1> QED
  BY <1>3, <1>4, <1>5, <1>6, <1>7, <1>8, <1>9, <1>10, <1>11, <1>12, <1>13, <1>14
     DEF Next, Daemon

\* Frame of the steps that rename no pull request.
LEMMA TitlesFrame ==
    ASSUME IInv, OneVisit, TitlesOK, [Next]_vars,
           Numbers \subseteq Numbers',
           \A n \in Numbers : /\ pulls'[n].head = pulls[n].head
                              /\ pulls'[n].title = pulls[n].title,
           \A n \in Numbers' \ Numbers :
               pulls'[n].title = Owner(SeriesOf(pulls[n].head))',
           \A w \in Workers, t \in Subjects : prs'[w][t] # NoPR =>
               \/ prs'[w][t] = prs[w][t]
               \/ pulls'[prs'[w][t]].title = t
    PROVE  TitlesOK'
<1>1. ASSUME NEW n \in Numbers
      PROVE  \/ SeriesOf(pulls[n].head) = NoSeries
             \/ series'[SeriesOf(pulls[n].head)].subject =
                    series[SeriesOf(pulls[n].head)].subject
  <2>1. pulls[n] \in PullRequest
    BY PullType DEF IInv, TypeOK
  <2>2. SeriesOf(pulls[n].head) \in BranchNames /\ Named(SeriesOf(pulls[n].head))
    BY <2>1 DEF PullRequest, Refs, SeriesOf, IInv, Grounded
  <2> QED
    BY <2>2, SubjectsKept DEF BranchNames, Named
<1>2. \A w \in Workers, t \in Subjects : prs[w][t] # NoPR => prs[w][t] \in Numbers
  BY DEF IInv, TypeOK, MemTypeOK
<1> QED
  BY <1>1, <1>2 DEF TitlesOK, SeriesOf, Owner

\* Frame of the steps that touch no entry of prs.
LEMMA TitlesSame ==
    ASSUME IInv, OneVisit, TitlesOK, [Next]_vars, UNCHANGED prs,
           Numbers' = Numbers,
           \A n \in Numbers : /\ pulls'[n].head = pulls[n].head
                              /\ pulls'[n].title = pulls[n].title
    PROVE  TitlesOK'
BY TitlesFrame

LEMMA TitlesPatching ==
    ASSUME IInv, OneVisit, PhaseInv, Patching
    PROVE  TitlesOK'
<1> USE DEF PhaseInv
<1>1. /\ pc \in WorkerPcs /\ GitHubTypeOK /\ MemTypeOK /\ job \in Jobs /\ [Next]_vars
      /\ Ref \in Refs /\ UNCHANGED series
  BY HandlerSteps, JobInHandler DEF IInv, TypeOK, Next, Daemon, pwVars
<1>2. \A n \in Numbers : pulls[n] \in PullRequest
  BY <1>1, PullType
<1>3. CASE UNCHANGED <<pulls, prs>>
  BY <1>1, <1>3, TitlesSame DEF Numbers
<1>4. CASE CloseSeriesPr \/ SetLabels
  <2>1. UNCHANGED prs /\ Numbers' = Numbers
    BY <1>4 DEF CloseSeriesPr, SetLabels, memVars, Numbers
  <2>2. \A n \in Numbers : /\ pulls'[n].head = pulls[n].head
                           /\ pulls'[n].title = pulls[n].title
    <3>1. CASE UNCHANGED pulls
      BY <3>1
    <3>2. ASSUME NEW n,
                 pulls' = [pulls EXCEPT ![n].open = FALSE, ![n].conflict = FALSE]
          PROVE  <2>2
      BY <1>2, <3>2 DEF PullRequest, Numbers
    <3>3. CASE SetLabels
      BY <1>2, <3>3 DEF SetLabels, PullRequest, Numbers
    <3> QED
      BY <1>4, <3>1, <3>2, <3>3 DEF CloseSeriesPr
  <2> QED
    BY <1>1, <2>1, <2>2, TitlesSame
<1>5. CASE DeleteClosedBranch
  <2>1. CASE Raise
    BY <1>3, <2>1 DEF Raise, memVars, ghVars
  <2>2. CASE DeleteRefs({Ref}) /\ UNCHANGED memVars
    <3>1. UNCHANGED prs /\ Numbers' = Numbers
      BY <2>2 DEF DeleteRefs, memVars, Numbers
    <3>2. \A n \in Numbers : /\ pulls'[n].head = pulls[n].head
                             /\ pulls'[n].title = pulls[n].title
      BY <1>2, <2>2 DEF DeleteRefs, PullRequest
    <3> QED
      BY <1>1, <3>1, <3>2, TitlesSame
  <2> QED
    BY <1>5, <2>1, <2>2 DEF DeleteClosedBranch
<1>6. CASE PushDummy \/ PushNewBranch \/ PushUpdate
  <2>1. UNCHANGED prs /\ \E c : ForcePush(Ref, c)
    BY <1>6 DEF PushDummy, PushNewBranch, PushUpdate, GitPush
  <2>2. Numbers' = Numbers
    BY <2>1 DEF ForcePush, Frozen, Numbers
  <2>3. \A n \in Numbers : /\ pulls'[n].head = pulls[n].head
                           /\ pulls'[n].title = pulls[n].title
    BY <1>2, <2>1 DEF ForcePush, Frozen, PullRequest
  <2> QED
    BY <1>1, <2>1, <2>2, <2>3, TitlesSame
<1>7. CASE ReopenPr
  <2>1. ASSUME NEW n \in GuessPr(Ref), pulls' = [pulls EXCEPT ![n].open = TRUE],
               TrackPr(job.worker, pulls[n].title, n)
        PROVE  TitlesOK'
    <3>1. n \in Numbers
      BY <1>1, GuessPrType
    <3>2. /\ Numbers' = Numbers
          /\ \A m \in Numbers : /\ pulls'[m].head = pulls[m].head
                                /\ pulls'[m].title = pulls[m].title
      BY <1>2, <2>1 DEF PullRequest, Numbers
    <3>3. \A w \in Workers, t \in Subjects :
              prs'[w][t] = prs[w][t] \/ (t = pulls[n].title /\ prs'[w][t] = n)
      BY <1>1, <2>1 DEF TrackPr, MemTypeOK
    <3> QED
      BY <1>1, <3>1, <3>2, <3>3, TitlesFrame
  <2> QED
    BY <1>3, <1>7, <2>1 DEF ReopenPr
<1>8. CASE CreatePr
  <2>1. CASE Raise
    BY <1>3, <2>1 DEF Raise, memVars, ghVars
  <2>2. ASSUME NEW CONSTANT n, Created(n)
        PROVE  TitlesOK'
    <3>1. Owner(job.branch) = job.subject
      BY <1>1 DEF VisitOK, VisitPcs, HandlerPcs
    <3>2. \A w \in Workers, t \in Subjects :
              prs'[w][t] = prs[w][t] \/ (t = job.subject /\ prs'[w][t] = n)
      BY <1>1, <2>2 DEF Created, TrackPr, MemTypeOK
    <3>3. pulls'[n].title = Owner(SeriesOf(pulls[n].head))'
      BY <1>1, <2>2, <3>1 DEF Created, Ref, SeriesOf, Owner
    <3> QED
      BY <1>1, <2>2, <3>2, <3>3, TitlesFrame DEF Created
  <2> QED
    BY <1>8, <2>1, <2>2, CreatedPr
<1>9. CASE Apply \/ UseOpenPr \/ NoPrToUse \/ SkipEmptyPr
  BY <1>3, <1>9 DEF Apply, UseOpenPr, NoPrToUse, SkipEmptyPr, memVars, ghVars
<1> QED
  BY <1>4, <1>5, <1>6, <1>7, <1>8, <1>9 DEF Patching, CheckoutAndPatch

LEMMA TitlesNext ==
    ASSUME IInv, OneVisit, PhaseInv, [Next]_vars
    PROVE  TitlesOK'
<1> USE DEF PhaseInv
<1>1. GitHubTypeOK /\ MemTypeOK /\ \A n \in Numbers : pulls[n] \in PullRequest
  BY PullType DEF IInv, TypeOK
<1>2. CASE UNCHANGED <<pulls, prs>>
  BY <1>2, TitlesSame DEF Numbers
<1>3. \A n \in Numbers : pulls' = Closed(n) =>
          /\ Numbers' = Numbers
          /\ \A m \in Numbers : /\ pulls'[m].head = pulls[m].head
                                /\ pulls'[m].title = pulls[m].title
  BY <1>1 DEF Closed, PullRequest, Numbers
<1>4. CASE UNCHANGED vars \/ Fault
  BY <1>2, <1>4 DEF vars, Fault, ghVars, workerVars, memVars
<1>5. CASE People
  BY <1>2, <1>3, <1>5, TitlesSame
     DEF People, ClosePrByHand, ghVars, workerVars, memVars
<1>6. CASE StartCycle \/ FetchSubjects \/ (\E t \in Subjects : PickSubject(t))
             \/ TryTarget \/ NoTargetLeft \/ NoPrReturned \/ SyncChecks
             \/ SubjectDone
  BY <1>2, <1>6 DEF StartCycle, FetchSubjects, PickSubject, TryTarget, Raise,
         NoTargetLeft, NoPrReturned, SyncChecks, SubjectDone, ghVars, memVars
<1>7. CASE AllSubjectsDone \/ (\E w \in Workers : StartScan(w)) \/ ScanRaises
             \/ (\E t \in Subjects : SkipOldPr(t)) \/ ScanDone
  BY <1>2, <1>7 DEF AllSubjectsDone, StartScan, ScanRaises, Raise, SkipOldPr,
         ScanDone, ghVars, workerVars, memVars
<1>8. ASSUME NEW w \in Workers, Refresh(w)
      PROVE  TitlesOK'
  <2>1. ASSUME NEW v \in Workers, NEW t \in Subjects, prs'[v][t] # NoPR
        PROVE  prs'[v][t] = prs[v][t] \/ pulls[prs'[v][t]].title = t
    <3>1. CASE v # w
      BY <1>1, <1>8, <3>1 DEF Refresh, GetPulls, MemTypeOK
    <3>2. CASE v = w
      BY <1>1, <1>8, <2>1, <3>2 DEF Refresh, GetPulls, OldestOf, MemTypeOK
    <3> QED
      BY <3>1, <3>2
  <2> QED
    BY <1>8, <2>1, TitlesFrame DEF Refresh, Numbers
<1>9. ASSUME NEW n \in Numbers, CloseOther(n)
      PROVE  TitlesOK'
  <2>1. \A v \in Workers, t \in Subjects :
            prs'[v][t] # NoPR => prs'[v][t] = prs[v][t]
    BY <1>1, <1>9 DEF CloseOther, MemTypeOK
  <2> QED
    BY <1>3, <1>9, <2>1, TitlesFrame DEF CloseOther
<1>10. ASSUME NEW t \in Subjects, SyncOldPr(t)
       PROVE  TitlesOK'
  <2>1. OldPr(t) \in Numbers /\ OldSubject(t) = t /\ UNCHANGED prs
    BY <1>10, OldPrSubject DEF SyncOldPr
  <2>2. pulls[OldPr(t)].title = t
    BY <1>10, <2>1 DEF SyncOldPr, IsUnparsed, OldPr, TitlesOK, OldSubject, Owner
  <2>3. ASSUME NEW n \in Numbers, pulls[n].title = t,
               \/ pulls' = [pulls EXCEPT ![n].title = t]
               \/ pulls' = [pulls EXCEPT ![n].title = t, ![n].open = FALSE]
        PROVE  TitlesOK'
    <3>1. Numbers' = Numbers
      BY <2>3 DEF Numbers
    <3>2. ASSUME NEW m \in Numbers
          PROVE  /\ pulls'[m].head = pulls[m].head
                 /\ pulls'[m].title = pulls[m].title
      BY <1>1, <2>3 DEF PullRequest, Numbers
    <3> QED
      BY <2>1, <3>1, <3>2, TitlesSame
  <2> QED
    BY <1>10, <2>1, <2>2, <2>3 DEF SyncOldPr, OldPr, OldSubject
<1>11. CASE ExpireBranches
  <2>1. PICK refs : DeleteRefs(refs)
    BY <1>11 DEF ExpireBranches
  <2>2. UNCHANGED prs /\ Numbers' = Numbers
    BY <1>11, <2>1 DEF ExpireBranches, DeleteRefs, memVars, Numbers
  <2>3. \A n \in Numbers : /\ pulls'[n].head = pulls[n].head
                           /\ pulls'[n].title = pulls[n].title
    BY <1>1, <2>1 DEF DeleteRefs, PullRequest
  <2> QED
    BY <2>2, <2>3, TitlesSame
<1>12. CASE EndCycle
  BY <1>12, TitlesFrame DEF EndCycle, ForgetAll, NoPrs, ghVars, Numbers
<1> QED
  BY <1>4, <1>5, <1>6, <1>7, <1>8, <1>9, <1>10, <1>11, <1>12, TitlesPatching
     DEF Next, Daemon

LEMMA PhaseNext ==
    ASSUME IInv, OneVisit, PhaseInv, [Next]_vars
    PROVE  PhaseInv'
BY QueueNext, VisitNext, TitlesNext DEF PhaseInv

(***************************************************************************)
(* What a cycle still has ahead of it only ever gets less.                 *)
(***************************************************************************)
\* A visit to subject t still looks for a pull request.
InVisit(t) == pc \in VisitPcs /\ job.subject = t /\ job.pr = NoPR

\* The loop over old subjects, by worker.
OldPhase ==
    pc \in {"scan", "old", "expire", "done"} \/ (pc \in VisitPcs /\ job.old)

LeftToScan(t, w) ==
    /\ t \notin names
    /\ \/ w \in todo
       \/ scan \in Scans /\ scan.worker = w /\ (t \in scan.left \/ InVisit(t))

LeftInQueue(t) == t \in names => queue[t] > 0 \/ InVisit(t)

\* A visit to subject t on target w may look for a pull request yet.
Ahead(t, w) == IF OldPhase THEN LeftToScan(t, w) ELSE LeftInQueue(t)

\* The visit at hand is one that is ahead.
LEMMA VisitIsAhead ==
    ASSUME IInv, VisitOK, pc \in HandlerPcs, job.pr = NoPR
    PROVE  Ahead(job.subject, job.worker)
<1>1. pc \in VisitPcs /\ InVisit(job.subject) /\ (job.old => scan \in Scans)
  BY VisitJob DEF VisitPcs, InVisit
<1>2. CASE job.old
  BY <1>1, <1>2 DEF Ahead, OldPhase, LeftToScan, VisitOK
<1>3. CASE ~job.old
  <2>1. ~OldPhase
    BY <1>3 DEF OldPhase, HandlerPcs, WorkerPcs
  <2> QED
    BY <1>1, <2>1 DEF Ahead, LeftInQueue
<1> QED
  BY <1>2, <1>3

\* NoScan is not a scan.
LEMMA NoScanIsNone == NoScan \notin Scans
<1>1. DOMAIN NoScan = {"size"}
  BY DEF NoScan
<1>2. \A s \in Scans : "left" \in DOMAIN s
  BY DEF Scans
<1> QED
  BY <1>1, <1>2

LEMMA AheadShrinks ==
    ASSUME IInv, PhaseInv, [Next]_vars, pc # "raised", pc' # "raised", ~EndCycle,
           NEW t \in Subjects, NEW w \in Workers, Ahead(t, w)'
    PROVE  Ahead(t, w)
<1> USE DEF PhaseInv
<1>1. CASE UNCHANGED <<pc, job, sync, todo, names, queue, scan>>
  BY <1>1 DEF Ahead, OldPhase, LeftToScan, LeftInQueue, InVisit
<1>2. CASE UNCHANGED vars \/ People
  BY <1>1, <1>2 DEF vars, People, ClosePrByHand, workerVars, cycleVars
<1>3. ~Fault /\ ~ScanRaises
  BY DEF Fault, ScanRaises, Raise
<1>4. CASE Patching
  <2>1. /\ pc \in HandlerPcs /\ pc' \in HandlerPcs
        /\ InVisit(t)' => InVisit(t)
        /\ OldPhase' <=> OldPhase
        /\ UNCHANGED <<todo, names, queue, scan>>
    BY <1>4, HandlerSteps
       DEF HandlerStep, HandlerPcs, VisitPcs, WorkerPcs, InVisit, OldPhase, cycleVars
  <2> QED
    BY <2>1 DEF Ahead, LeftToScan, LeftInQueue
<1>5. CASE StartCycle \/ (\E v \in Workers : Refresh(v)) \/ FetchSubjects
  <2>1. ~OldPhase
    BY <1>5 DEF StartCycle, Refresh, FetchSubjects, OldPhase, VisitPcs, HandlerPcs,
                WorkerPcs
  <2>2. names = {}
    BY <1>5 DEF StartCycle, Refresh, FetchSubjects, QueueOK
  <2> QED
    BY <2>1, <2>2 DEF Ahead, LeftInQueue
<1>6. ASSUME NEW u \in Subjects, PickSubject(u)
      PROVE  Ahead(t, w)
  <2>1. ~OldPhase /\ queue \in [Subjects -> Nat] /\ queue[u] > 0 /\ u \in names
    BY <1>6, GithubSyncAssumption
       DEF PickSubject, Dequeue, OldPhase, VisitPcs, HandlerPcs, WorkerPcs, QueueOK,
           IInv, TypeOK, CycleTypeOK
  <2>2. CASE t = u
    BY <2>1, <2>2 DEF Ahead, LeftInQueue
  <2>3. CASE t # u
    <3>1. names' = names /\ queue'[t] = queue[t]
      BY <1>6, <2>1, <2>3 DEF PickSubject, Dequeue
    <3>2. ~OldPhase' /\ ~InVisit(t)'
      <4>1. CASE pc' = "pick"
        BY <4>1 DEF OldPhase, InVisit, VisitPcs, HandlerPcs, WorkerPcs
      <4>2. CASE pc' # "pick"
        <5>1. /\ pc' = "target"
              /\ \E i, targets : NewJob(u, i, Head(targets), targets, FALSE)
          BY <1>6, <4>2 DEF PickSubject
        <5>2. job'.subject = u /\ ~job'.old
          BY <5>1 DEF NewJob
        <5> QED
          BY <2>3, <5>1, <5>2 DEF OldPhase, InVisit, VisitPcs, HandlerPcs, WorkerPcs
      <4> QED
        BY <4>1, <4>2
    <3> QED
      BY <2>1, <3>1, <3>2 DEF Ahead, LeftInQueue
  <2> QED
    BY <2>2, <2>3
<1>7. CASE TryTarget
  <2>1. /\ pc = "target" /\ pc' \in {"target", "patch"}
        /\ \E b \in BranchSeries :
              job' = [job EXCEPT !.rest = Tail(@), !.worker = Head(job.rest),
                                 !.branch = b, !.path = "none", !.pr = NoPR]
        /\ UNCHANGED <<todo, names, queue, scan>>
    BY <1>7 DEF TryTarget, Raise, cycleVars
  <2>2. job \in Jobs /\ ~job.old /\ job.pr = NoPR
    BY <2>1, VisitJob DEF VisitPcs, VisitOK, FreshPcs
  <2>3. job'.subject = job.subject /\ ~job'.old
    BY <2>1, <2>2 DEF Jobs
  <2>4. ~OldPhase /\ ~OldPhase'
    BY <2>1, <2>2, <2>3 DEF OldPhase, VisitPcs, HandlerPcs, WorkerPcs
  <2>5. InVisit(t)' => InVisit(t)
    BY <2>1, <2>2, <2>3 DEF InVisit, VisitPcs
  <2> QED
    BY <2>1, <2>4, <2>5 DEF Ahead, LeftInQueue
<1>8. CASE NoTargetLeft \/ SubjectDone \/ (\E n \in Numbers : CloseOther(n))
  <2>1. ~OldPhase /\ ~OldPhase' /\ ~InVisit(t)'
    BY <1>8, VisitJob DEF NoTargetLeft, SubjectDone, CloseOther, OldPhase, InVisit,
         VisitPcs, HandlerPcs, WorkerPcs
  <2>2. UNCHANGED <<names, queue>>
    BY <1>8 DEF NoTargetLeft, SubjectDone, CloseOther, cycleVars
  <2> QED
    BY <2>1, <2>2 DEF Ahead, LeftInQueue
<1>9. CASE NoPrReturned \/ SyncChecks
  <2>1. UNCHANGED <<todo, names, queue, scan>> /\ pc = "returned"
    BY <1>9 DEF NoPrReturned, SyncChecks, cycleVars
  <2>2. CASE job.old
    <3>1. pc' = "old"
      BY <1>9, <2>2 DEF NoPrReturned, SyncChecks
    <3> QED
      BY <2>1, <2>2, <3>1 DEF Ahead, LeftToScan, OldPhase, InVisit, VisitPcs,
                              HandlerPcs, WorkerPcs
  <2>3. CASE ~job.old
    <3>1. pc' \in {"target", "others"} /\ UNCHANGED job
      BY <1>9, <2>3 DEF NoPrReturned, SyncChecks
    <3> QED
      BY <2>1, <2>3, <3>1 DEF Ahead, LeftInQueue, OldPhase, InVisit, VisitPcs,
                              HandlerPcs, WorkerPcs
  <2> QED
    BY <2>2, <2>3
<1>10. CASE AllSubjectsDone
  BY <1>10 DEF AllSubjectsDone, Ahead, LeftToScan, LeftInQueue, OldPhase, InVisit,
               VisitPcs, HandlerPcs, WorkerPcs, IInv, TypeOK
<1>11. ASSUME NEW v \in Workers, StartScan(v)
       PROVE  Ahead(t, w)
  BY <1>11 DEF StartScan, Ahead, LeftToScan, OldPhase, InVisit, VisitPcs,
               HandlerPcs, WorkerPcs
<1>12. ASSUME NEW u \in Subjects, SkipOldPr(u) \/ SyncOldPr(u)
       PROVE  Ahead(t, w)
  <2>1. /\ pc = "old" /\ scan \in Scans /\ u \in scan.left
        /\ scan' = [scan EXCEPT !.left = @ \ {u}]
        /\ UNCHANGED <<todo, names>>
    BY <1>12 DEF SkipOldPr, SyncOldPr, IInv, TypeOK, JobTypeOK, ScanSound, ScanOfCycle
  <2>2. scan'.worker = scan.worker /\ scan'.left = scan.left \ {u}
    BY <2>1 DEF Scans
  <2>3. OldPhase /\ OldPhase' /\ (InVisit(t)' => t = u)
    <3>1. CASE UNCHANGED <<pc, job>>
      BY <2>1, <3>1 DEF OldPhase, InVisit, VisitPcs, HandlerPcs, WorkerPcs
    <3>2. CASE SyncOldPr(u) /\ ~UNCHANGED <<pc, job>>
      <4>1. OldSubject(u) = u
        BY <3>2, OldPrSubject
      <4>2. pc' = "patch" /\ \E i : NewJob(u, i, scan.worker, <<>>, TRUE)
        BY <3>2, <4>1 DEF SyncOldPr, OldPr, OldSubject
      <4>3. job'.subject = u /\ job'.old
        BY <4>2 DEF NewJob
      <4> QED
        BY <2>1, <4>2, <4>3 DEF OldPhase, InVisit, VisitPcs, HandlerPcs, WorkerPcs
    <3> QED
      BY <1>12, <3>1, <3>2 DEF SkipOldPr, workerVars
  <2> QED
    BY <2>1, <2>2, <2>3 DEF Ahead, LeftToScan
<1>13. CASE ScanDone \/ ExpireBranches
  <2>1. /\ OldPhase /\ OldPhase' /\ ~InVisit(t)' /\ UNCHANGED <<todo, names>>
        /\ scan' = scan \/ scan' = NoScan
    BY <1>13 DEF ScanDone, ExpireBranches, cycleVars, OldPhase, InVisit, VisitPcs,
                 HandlerPcs, WorkerPcs
  <2> QED
    BY <2>1, NoScanIsNone DEF Ahead, LeftToScan, Scans
<1> QED
  BY <1>2, <1>3, <1>4, <1>5, <1>6, <1>7, <1>8, <1>9, <1>10, <1>11, <1>12, <1>13
     DEF Next, Daemon

(***************************************************************************)
(* The steps by what they do to branches and pull requests: all but those  *)
(* of ten actions edit one pull request or none.                           *)
(***************************************************************************)
EditStep == Edited /\ UNCHANGED <<heads, all_prs, branches>>

MovingStep ==
    \/ /\ PushDummy \/ PushNewBranch \/ PushUpdate \/ DeleteClosedBranch
             \/ ReopenPr \/ CreatePr
       /\ Patching
    \/ ExpireBranches
    \/ \E w \in Workers : Refresh(w)
    \/ EndCycle

LEMMA StepKinds == IInv /\ CInv /\ [Next]_vars => EditStep \/ MovingStep
<1> SUFFICES ASSUME IInv, CInv, [Next]_vars, ~MovingStep PROVE EditStep
  OBVIOUS
<1> USE DEF EditStep, ghVars, workerVars, memVars
<1>1. GitHubTypeOK
  BY DEF IInv, TypeOK
<1>2. CASE UNCHANGED vars \/ Fault
  BY <1>2 DEF vars, Fault, Edited
<1>3. CASE People
  <2>1. ASSUME NEW n \in Numbers, ClosePrByHand(n)
        PROVE  EditStep
    BY <1>1, <2>1, ClosedEdits DEF ClosePrByHand
  <2> QED
    BY <1>3, <2>1 DEF People, Edited
<1>4. CASE Patching
  BY <1>4, CloseSeriesPrEdits, SetLabelsEdits
     DEF Patching, CheckoutAndPatch, CloseSeriesPr, Apply, UseOpenPr, NoPrToUse,
         SkipEmptyPr, SetLabels, MovingStep, Edited
<1>5. CASE StartCycle \/ FetchSubjects \/ (\E t \in Subjects : PickSubject(t))
             \/ TryTarget \/ NoTargetLeft \/ NoPrReturned \/ SyncChecks
             \/ SubjectDone
  BY <1>5 DEF StartCycle, FetchSubjects, PickSubject, TryTarget, Raise,
         NoTargetLeft, NoPrReturned, SyncChecks, SubjectDone, Edited
<1>6. CASE AllSubjectsDone \/ (\E w \in Workers : StartScan(w)) \/ ScanRaises
             \/ (\E t \in Subjects : SkipOldPr(t)) \/ ScanDone
  BY <1>6 DEF AllSubjectsDone, StartScan, ScanRaises, Raise, SkipOldPr, ScanDone,
         Edited
<1>7. CASE (\E n \in Numbers : CloseOther(n)) \/ (\E t \in Subjects : SyncOldPr(t))
  BY <1>1, <1>7, ClosedEdits, SyncOldPrEdits DEF CloseOther, SyncOldPr
<1> QED
  BY <1>2, <1>3, <1>4, <1>5, <1>6, <1>7 DEF Next, Daemon, MovingStep

\* Pull requests keep their branches, and only CreatePr adds one.
HeadsKept ==
    Numbers' = Numbers /\ \A n \in Numbers : pulls'[n].head = pulls[n].head

LEMMA HeadsStay == IInv /\ CInv /\ [Next]_vars => HeadsKept \/ (Patching /\ CreatePr)
<1> SUFFICES ASSUME IInv, CInv, [Next]_vars
             PROVE  HeadsKept \/ (Patching /\ CreatePr)
  OBVIOUS
<1>1. GitHubTypeOK /\ \A n \in Numbers : pulls[n] \in PullRequest
  BY PullType DEF IInv, TypeOK
<1>2. CASE EditStep
  BY <1>1, <1>2, EditedKeeps DEF EditStep, PullsKept, HeadsKept
<1>3. ASSUME NEW ref, NEW c, ForcePush(ref, c)
      PROVE  HeadsKept
  BY <1>1, <1>3 DEF ForcePush, Frozen, HeadsKept, PullRequest, Numbers
<1>4. ASSUME NEW refs, DeleteRefs(refs)
      PROVE  HeadsKept
  BY <1>1, <1>4 DEF DeleteRefs, HeadsKept, PullRequest, Numbers
<1>5. CASE UNCHANGED pulls
  BY <1>5 DEF HeadsKept, Numbers
<1>6. ASSUME NEW n, pulls' = [pulls EXCEPT ![n].open = TRUE]
      PROVE  HeadsKept
  BY <1>1, <1>6 DEF HeadsKept, PullRequest, Numbers
<1>7. CASE PushDummy \/ PushNewBranch \/ PushUpdate \/ DeleteClosedBranch
             \/ ExpireBranches
  BY <1>3, <1>4, <1>5, <1>7
     DEF PushDummy, PushNewBranch, PushUpdate, GitPush, DeleteClosedBranch, ExpireBranches,
         Raise, ghVars
<1>8. CASE ReopenPr \/ (\E w \in Workers : Refresh(w)) \/ EndCycle
  BY <1>5, <1>6, <1>8 DEF ReopenPr, Refresh, EndCycle, ghVars
<1> QED
  BY <1>2, <1>7, <1>8, StepKinds DEF MovingStep

(***************************************************************************)
(* What is known ahead of a visit.                                         *)
(***************************************************************************)
SubjectOf(r) == Owner(SeriesOf(r))
RefAhead(r) == Ahead(SubjectOf(r), TargetOf(r))

\* As long as a visit to a branch is ahead, the pull request _guess_pr takes for
\* that of the branch is the newest one: an old one can be left there only by a
\* visit that found no way to re-open it and created another.
AheadKnown ==
    pc # "raised" => \A r \in Refs :
        all_prs[r] # NoPR /\ RefAhead(r) => Newest(all_prs[r])

\* delete_branch is called for a branch whose known pull request is closed.
DeleteOK ==
    pc = "delete" => all_prs[Ref] # NoPR /\ all_prs[Ref] \notin OpenPulls

VisitInv == BranchInv /\ PhaseInv /\ AheadKnown /\ DeleteOK

LEMMA RefAheadShrinks ==
    ASSUME IInv, OneVisit, PhaseInv, [Next]_vars, pc # "raised", pc' # "raised",
           ~EndCycle, NEW r \in Refs, Named(SeriesOf(r)), RefAhead(r)'
    PROVE  RefAhead(r)
<1>1. SeriesOf(r) \in BranchNames /\ TargetOf(r) \in Workers
  BY DEF Refs, SeriesOf, TargetOf
<1>3. PICK t \in Subjects : t = SubjectOf(r)
  BY <1>1, OwnerKept DEF SubjectOf
<1>4. SubjectOf(r)' = t
  BY <1>1, <1>3, OwnerKept DEF SubjectOf
<1>5. PICK w \in Workers : w = TargetOf(r)
  BY <1>1
<1>6. Ahead(t, w)'
  BY <1>4, <1>5 DEF RefAhead
<1>7. Ahead(t, w)
  BY <1>6, AheadShrinks
<1> QED
  BY <1>3, <1>5, <1>7 DEF RefAhead

\* Once a visit has found a pull request, neither it nor any other visit to the
\* branch is ahead.
LEMMA FoundIsBehind ==
    ASSUME IInv, VisitOK, Patching, pc' # "raised", job'.pr # NoPR,
           NEW r, r = Ref
    PROVE  ~RefAhead(r)'
<1>1. /\ pc \in HandlerPcs /\ pc' \in HandlerPcs /\ job \in Jobs
      /\ job'.subject = job.subject /\ job'.worker = job.worker
      /\ job'.branch = job.branch /\ job'.old = job.old
      /\ UNCHANGED <<series, todo, names, queue, scan>>
  BY HandlerSteps DEF HandlerStep, HandlerPcs, pwVars, cycleVars
<1>2. SubjectOf(r)' = job.subject /\ TargetOf(r) = job.worker
  BY <1>1 DEF Ref, SubjectOf, Owner, SeriesOf, TargetOf, VisitOK, VisitPcs
<1>3. ~InVisit(job.subject)'
  BY <1>1 DEF InVisit
<1>4. PICK t \in Subjects, w \in Workers : t = job.subject /\ w = job.worker
  BY <1>1 DEF Jobs
<1>5. CASE job.old
  <2>1. OldPhase' /\ ~LeftToScan(t, w)'
    BY <1>1, <1>3, <1>4, <1>5 DEF OldPhase, LeftToScan, VisitPcs, VisitOK
  <2>2. ~Ahead(t, w)'
    BY <2>1 DEF Ahead
  <2> QED
    BY <1>2, <1>4, <2>2 DEF RefAhead
<1>6. CASE ~job.old
  <2>1. ~OldPhase' /\ ~LeftInQueue(t)'
    BY <1>1, <1>3, <1>4, <1>6
       DEF OldPhase, LeftInQueue, VisitPcs, VisitOK, HandlerPcs, WorkerPcs
  <2>2. ~Ahead(t, w)'
    BY <2>1 DEF Ahead
  <2> QED
    BY <1>2, <1>4, <2>2 DEF RefAhead
<1> QED
  BY <1>5, <1>6

\* After an exception the daemon only forgets.
LEMMA RaisedStays ==
    ASSUME [Next]_vars, pc = "raised", ~EndCycle
    PROVE  pc' = "raised"
<1>1. ~Daemon
  BY DEF Daemon, StartCycle, Refresh, FetchSubjects, PickSubject, TryTarget,
         NoTargetLeft, Patching, CheckoutAndPatch, CloseSeriesPr,
         DeleteClosedBranch, Apply, UseOpenPr, ReopenPr, NoPrToUse, SkipEmptyPr,
         PushDummy, CreatePr, SetLabels, PushNewBranch, PushUpdate, NoPrReturned,
         SyncChecks, CloseOther, SubjectDone, AllSubjectsDone, StartScan,
         ScanRaises, SkipOldPr, SyncOldPr, ScanDone, ExpireBranches
<1> QED
  BY <1>1 DEF Next, Fault, People, ClosePrByHand, vars, workerVars

LEMMA AheadKnownNext ==
    ASSUME VisitInv, OneVisit, [Next]_vars
    PROVE  AheadKnown'
<1> USE DEF VisitInv, BranchInv
<1>1. CASE EndCycle
  BY <1>1 DEF EndCycle, ForgetAll, NoRefs, AheadKnown
<1> SUFFICES ASSUME pc' # "raised", ~EndCycle, NEW r \in Refs,
                    all_prs'[r] # NoPR, RefAhead(r)'
             PROVE  Newest(all_prs[r])'
  BY <1>1 DEF AheadKnown
<1>2. pc # "raised"
  BY RaisedStays
<1>3. GitHubTypeOK /\ MemTypeOK
  BY DEF IInv, TypeOK
<1>4. all_prs[r] # NoPR => Newest(all_prs[r]) /\ all_prs[r] \in Numbers
  <2> SUFFICES ASSUME all_prs[r] # NoPR
               PROVE  Newest(all_prs[r]) /\ all_prs[r] \in Numbers
    OBVIOUS
  <2>1. all_prs[r] \in Numbers /\ pulls[all_prs[r]].head = r
    BY <1>3 DEF MemTypeOK, IInv, PrHeads
  <2>2. Named(SeriesOf(r))
    BY <2>1 DEF IInv, Grounded
  <2> QED
    BY <1>2, <2>1, <2>2, RefAheadShrinks DEF AheadKnown
<1>5. CASE HeadsKept
  <2>1. \A n \in Numbers : Newest(n) => Newest(n)'
    BY <1>5 DEF HeadsKept, Newest
  <2>2. all_prs'[r] = all_prs[r] \/ (all_prs'[r] \in Numbers /\ Newest(all_prs'[r]))
    <3>1. CASE UNCHANGED all_prs
      BY <3>1
    <3>2. ASSUME NEW w \in Workers, Refresh(w)
          PROVE  <2>2
      <4>1. all_prs'[r] \in OpenFrom(r) \/ all_prs'[r] = all_prs[r]
        BY <3>2 DEF Refresh, GetPulls
      <4> QED
        BY <4>1 DEF OpenFrom, OpenPulls, GInv, OpenIsNewest
    <3>3. CASE ReopenPr /\ ~UNCHANGED all_prs
      <4>1. PICK n \in GuessPr(Ref) : AddPr(Ref, n) /\ (pulls[n].open \/ CanReopen(n))
        BY <3>3 DEF ReopenPr
      <4>2. n \in Numbers /\ Newest(n)
        BY <3>3, <4>1, GuessPrType, ReopenedIsNewest DEF ReopenPr, WorkerPcs
      <4>3. all_prs'[r] = all_prs[r] \/ all_prs'[r] = n
        BY <1>3, <4>1 DEF AddPr, MemTypeOK
      <4> QED
        BY <4>2, <4>3
    <3>4. CASE CreatePr
      <4>1. Raise
        BY <1>5, <3>4, CreatedPr DEF Created, HeadsKept
      <4> QED
        BY <3>1, <4>1 DEF Raise, memVars
    <3>5. CASE PushDummy \/ PushNewBranch \/ PushUpdate \/ DeleteClosedBranch
                 \/ ExpireBranches
      BY <3>1, <3>5 DEF PushDummy, PushNewBranch, PushUpdate, GitPush, DeleteClosedBranch,
                        ExpireBranches, Raise, memVars
    <3> QED
      BY <3>1, <3>2, <3>3, <3>4, <3>5, StepKinds DEF MovingStep, EditStep
  <2> QED
    BY <1>4, <2>1, <2>2
<1>6. CASE Patching /\ CreatePr /\ ~HeadsKept
  <2>1. ~Raise
    BY <1>6 DEF Raise, ghVars, HeadsKept, Numbers
  <2>2. PICK n : Created(n)
    BY <1>6, <2>1, CreatedPr
  <2>3. job \in Jobs
    BY <1>6, JobInHandler DEF CreatePr, WorkerPcs
  <2>4. r # Ref
    <3>1. job'.pr # NoPR
      BY <2>2, <2>3 DEF Created, Jobs
    <3>2. VisitOK
      BY DEF PhaseInv
    <3> QED
      BY <1>6, <3>1, <3>2, FoundIsBehind
  <2>5. all_prs'[r] = all_prs[r] /\ pulls[all_prs[r]].head = r
    BY <1>3, <2>2, <2>4 DEF Created, AddPr, MemTypeOK, IInv, PrHeads
  <2> QED
    BY <1>4, <2>2, <2>4, <2>5 DEF Created, Newest
<1> QED
  BY <1>5, <1>6, HeadsStay

LEMMA DeleteOKNext ==
    ASSUME VisitInv, [Next]_vars
    PROVE  DeleteOK'
<1> USE DEF VisitInv, BranchInv
<1> SUFFICES ASSUME pc' = "delete" PROVE DeleteOK'
  BY DEF DeleteOK
<1>1. GitHubTypeOK
  BY DEF IInv, TypeOK
<1>2. CASE UNCHANGED vars \/ People
  <2>1. UNCHANGED <<pc, job, all_prs>> /\ EditStep
    <3>1. ASSUME NEW n \in Numbers, ClosePrByHand(n)
          PROVE  Edited /\ UNCHANGED <<heads, workerVars>>
      BY <1>1, <3>1, ClosedEdits DEF ClosePrByHand
    <3> QED
      BY <1>2, <3>1 DEF vars, People, workerVars, memVars, ghVars, EditStep, Edited
  <2>2. PullsKept
    BY <1>1, <2>1, EditedKeeps DEF EditStep
  <2> QED
    BY <2>1, <2>2 DEF DeleteOK, PullsKept, OpenPulls, Ref
<1>3. CASE CloseSeriesPr
  <2>1. /\ all_prs[Ref] # NoPR /\ UNCHANGED <<job, all_prs>>
        /\ \/ /\ \E n \in GuessPr(Ref) :
                    pulls' = [pulls EXCEPT ![n].open = FALSE, ![n].conflict = FALSE]
           \/ /\ \A n \in GuessPr(Ref) : LooksClosed(n)
              /\ UNCHANGED pulls
    BY <1>3 DEF CloseSeriesPr, ReturnNone, Return, Goto
  <2>2. GuessPr(Ref) = {all_prs[Ref]} /\ Ref' = Ref
    BY <2>1 DEF GuessPr, Ref
  <2>3. all_prs[Ref] \in Numbers /\ pulls[all_prs[Ref]] \in PullRequest
    BY <1>1, <1>3, <2>2, GuessPrType, PullType DEF CloseSeriesPr, WorkerPcs
  <2>4. CASE UNCHANGED pulls /\ LooksClosed(all_prs[Ref])
    BY <2>1, <2>2, <2>4
       DEF DeleteOK, LooksClosed, GInv, ClosedSeen, ClosedPulls, OpenPulls, Numbers
  <2>5. ASSUME NEW n, n = all_prs[Ref],
               pulls' = [pulls EXCEPT ![n].open = FALSE, ![n].conflict = FALSE]
        PROVE  n \notin OpenPulls'
    BY <2>3, <2>5 DEF OpenPulls, PullRequest, Numbers
  <2> QED
    BY <2>1, <2>2, <2>4, <2>5 DEF DeleteOK
<1>4. CASE Patching /\ ~CloseSeriesPr
  BY <1>4 DEF Patching, CheckoutAndPatch, DeleteClosedBranch, Apply, UseOpenPr,
         ReopenPr, NoPrToUse, SkipEmptyPr, PushDummy, CreatePr, SetLabels,
         PushNewBranch, PushUpdate, Raise, ReturnNone, Return, Goto
<1>5. CASE Fault \/ (Daemon /\ ~Patching)
  BY <1>5 DEF Fault, Daemon, StartCycle, Refresh, FetchSubjects, PickSubject,
         TryTarget, Raise, NoTargetLeft, NoPrReturned, SyncChecks, CloseOther,
         SubjectDone, AllSubjectsDone, StartScan, ScanRaises, SkipOldPr, SyncOldPr,
         ScanDone, ExpireBranches, EndCycle, ForgetAll, workerVars
<1> QED
  BY <1>2, <1>3, <1>4, <1>5 DEF Next

LEMMA InitVisitInv == Init => VisitInv
<1> SUFFICES ASSUME Init PROVE VisitInv
  OBVIOUS
<1>1. Numbers = {} /\ pc = "idle" /\ names = {} /\ prs = NoPrs /\ all_prs = NoRefs
  BY DEF Init, GitHubInit, WorkerInit, Numbers
<1>2. QueueOK
  BY <1>1 DEF Init, EmptyQueue, QueueOK
<1>3. VisitOK
  BY <1>1 DEF VisitOK, FreshPcs, VisitPcs, HandlerPcs, WorkerPcs
<1>4. TitlesOK
  BY <1>1 DEF NoPrs, TitlesOK
<1>5. AheadKnown /\ DeleteOK
  BY <1>1 DEF NoRefs, AheadKnown, DeleteOK
<1> QED
  BY <1>2, <1>3, <1>4, <1>5, InitBranchInv DEF PhaseInv, VisitInv

LEMMA NextVisitInv ==
    ASSUME OneVisit
    PROVE  VisitInv /\ [Next]_vars => VisitInv'
BY NextBranchInv, PhaseNext, AheadKnownNext, DeleteOKNext DEF VisitInv, BranchInv

LEMMA VisitInvariant ==
    ASSUME OneVisit
    PROVE  Spec => []VisitInv
BY InitVisitInv, NextVisitInv, PTL DEF Spec

(***************************************************************************)
(* No duplicate pull request, no branch deleted under an open one.         *)
(***************************************************************************)
\* The visit at hand knows the newest pull request of its branch, or none.
LEMMA KnownInVisit ==
    ASSUME VisitInv, pc \in HandlerPcs, job.pr = NoPR, all_prs[Ref] # NoPR
    PROVE  Newest(all_prs[Ref]) /\ all_prs[Ref] \in Numbers /\ pulls[all_prs[Ref]].head = Ref
<1> USE DEF VisitInv, BranchInv, PhaseInv
<1>1. Ref \in Refs
  BY VisitJob DEF VisitPcs
<1>2. RefAhead(Ref)
  BY VisitIsAhead DEF RefAhead, SubjectOf, SeriesOf, TargetOf, Ref, VisitOK, VisitPcs
<1> QED
  BY <1>1, <1>2 DEF AheadKnown, HandlerPcs, WorkerPcs, IInv, PrHeads, TypeOK, MemTypeOK

\* So a branch whose known pull request is closed has none open.
LEMMA KnownClosed ==
    ASSUME VisitInv, pc \in HandlerPcs, job.pr = NoPR, all_prs[Ref] # NoPR,
           all_prs[Ref] \notin OpenPulls
    PROVE  OpenFrom(Ref) = {}
<1>1. /\ Newest(all_prs[Ref]) /\ all_prs[Ref] \in Numbers
      /\ pulls[all_prs[Ref]].head = Ref
  BY KnownInVisit
<1>2. \A n \in Numbers : n \in Nat
  BY NumbersArePositive DEF VisitInv, BranchInv, IInv, TypeOK
<1>3. \A n \in OpenPulls : Newest(n)
  BY DEF VisitInv, BranchInv, GInv, OpenIsNewest
<1> QED
  BY <1>1, <1>2, <1>3 DEF OpenFrom, OpenPulls, Newest

\* Where every branch has one visit in a cycle, create_pull is never called for
\* a branch that has an open pull request, whatever people close, whatever fails
\* and, for a single subject, whatever caches answer.
THEOREM NoDuplicates ==
    ASSUME OneVisit
    PROVE  Spec => []NoDuplicatePr
<1>1. VisitInv => NoDuplicatePr
  <2> SUFFICES ASSUME VisitInv, AboutToCreate
               PROVE  OpenFrom(Ref) = {}
    BY DEF NoDuplicatePr
  <2> USE DEF VisitInv, BranchInv
  <2>1. pc \in {"create", "dummy"} /\ pc \in WorkerPcs
    BY DEF AboutToCreate, WorkerPcs
  <2>2. job.pr = NoPR /\ job.worker \in sync /\ Ref \in Refs
    BY <2>1, JobInHandler DEF PhaseInv, VisitOK, FreshPcs, HandlerPcs
  <2>3. CASE all_prs[Ref] = NoPR
    BY <2>1, <2>2, <2>3 DEF IInv, OpenPrsKnown, Refreshed, TargetOf, Ref
  <2>4. CASE all_prs[Ref] # NoPR
    <3>1. pulls[all_prs[Ref]].frozen /\ all_prs[Ref] \in Numbers
      BY <2>1, <2>2, <2>4 DEF GInv, RefusedIsFrozen, IInv, TypeOK, MemTypeOK
    <3>2. all_prs[Ref] \notin OpenPulls
      BY <3>1 DEF GInv, FrozenIsClosed, OpenPulls
    <3> QED
      BY <2>1, <2>2, <2>4, <3>2, KnownClosed DEF HandlerPcs
  <2> QED
    BY <2>3, <2>4
<1> QED
  BY <1>1, VisitInvariant, PTL

\* Only the two deletions make a branch go.
LEMMA OnlyDeletions ==
    ASSUME IInv, CInv, [Next]_vars, NEW r \in Refs, heads[r] # Gone, heads'[r] = Gone
    PROVE  \/ DeleteClosedBranch /\ r = Ref
           \/ ExpireBranches /\ \E aged : r \in ExpirableBranches(scan.worker, aged)
<1>1. heads \in [Refs -> Contents] /\ Gone \notin {Outdated} \cup Series
  BY PatchworkAssumption DEF IInv, TypeOK, GitHubTypeOK, Gone, Outdated, Series
<1>2. CASE PushDummy \/ PushNewBranch \/ PushUpdate
  <2>1. job.series \in Series
    BY <1>2, JobInHandler DEF PushDummy, PushNewBranch, PushUpdate, WorkerPcs, Jobs
  <2> QED
    BY <1>1, <1>2, <2>1 DEF PushDummy, PushNewBranch, PushUpdate, GitPush, ForcePush
<1>3. CASE DeleteClosedBranch \/ ExpireBranches
  BY <1>3 DEF DeleteClosedBranch, ExpireBranches, DeleteRefs, Raise, ghVars
<1>4. CASE EditStep \/ ReopenPr \/ CreatePr \/ EndCycle \/ \E w \in Workers : Refresh(w)
  BY <1>1, <1>4 DEF EditStep, ReopenPr, CreatePr, Raise, EndCycle, Refresh,
                    MoveUpstream, ghVars
<1> QED
  BY <1>2, <1>3, <1>4, StepKinds DEF MovingStep

\* Neither of them meets a branch with an open pull request.
LEMMA DeletedHaveNone ==
    ASSUME VisitInv, pc = "delete"
    PROVE  OpenFrom(Ref) = {}
<1>1. job.pr = NoPR /\ all_prs[Ref] # NoPR /\ all_prs[Ref] \notin OpenPulls
  BY DEF VisitInv, PhaseInv, VisitOK, FreshPcs, DeleteOK
<1> QED
  BY <1>1, KnownClosed DEF HandlerPcs, WorkerPcs

\* Where every branch has one visit in a cycle, neither delete_branch nor
\* expire_branches removes the branch of an open pull request.
THEOREM BranchesOutlivePrs ==
    ASSUME OneVisit
    PROVE  Spec => BranchOutlivesPr
<1> DEFINE Outlives == \A r \in Refs :
                           heads[r] # Gone /\ heads'[r] = Gone => OpenFrom(r) = {}
<1>1. VisitInv /\ [Next]_vars => [Outlives]_vars
  BY OnlyDeletions, DeletedHaveNone, ExpirableHaveNone
     DEF VisitInv, BranchInv, DeleteClosedBranch, ExpireBranches
<1> QED
  BY <1>1, VisitInvariant, PTL DEF Spec, BranchOutlivesPr

(***************************************************************************)
(* No chance to re-open a pull request is given away.                      *)
(***************************************************************************)
\* A set of pull request numbers has a largest one.
LEMMA LargestNumber ==
    ASSUME NEW L \in Nat, NEW S, S \subseteq 1..L, S # {}
    PROVE  \E n \in S : \A m \in S : m <= n
<1> DEFINE R == OpToRel(<, Nat)
           T == {k \in Nat : \E n \in S : k = L - n}
<1>1. IsWellFoundedOn(R, Nat)
  BY NatLessThanWellFounded
<1>2. \A x, y \in Nat : <<x, y>> \in R <=> x < y
  BY DEF OpToRel
<1>3. T \subseteq Nat /\ T # {}
  <2>1. PICK n \in S : TRUE
    OBVIOUS
  <2>2. n \in 1..L /\ L - n \in Nat
    BY <2>1
  <2> QED
    BY <2>1, <2>2
<1> HIDE DEF R
<1>4. PICK k \in T : \A j \in T : ~(<<j, k>> \in R)
  BY <1>1, <1>3, WFMin
<1>5. PICK n \in S : k = L - n
  BY <1>4
<1>6. ASSUME NEW m \in S
      PROVE  m <= n
  <2>1. m \in 1..L /\ n \in 1..L /\ L - m \in Nat /\ L - m \in T
    BY <1>6
  <2>2. ~(L - m < k)
    BY <1>2, <1>4, <2>1
  <2> QED
    BY <1>5, <2>1, <2>2
<1> QED
  BY <1>6

\* So _guess_pr finds a closed pull request if there is one.
LEMMA FilterClosedPrFinds ==
    ASSUME GitHubTypeOK, NEW r, FilterClosedPr(r) = {}
    PROVE  \A n \in ClosedPulls : pulls[n].head # r
<1> DEFINE S == {n \in ClosedPulls : pulls[n].head = r}
<1> SUFFICES S = {}
  OBVIOUS
<1>1. Len(pulls) \in Nat /\ S \subseteq 1..Len(pulls)
  BY NumbersArePositive DEF ClosedPulls
<1>2. S # {} => \E n \in S : \A m \in S : m <= n
  BY <1>1, LargestNumber
<1> QED
  BY <1>2 DEF FilterClosedPr

\* A branch is pushed for a series that exists, or for none.
HeadsGrounded == \A r \in Refs : heads[r] # Gone => Named(SeriesOf(r))

\* As long as a visit to a branch is ahead, a branch that is not in the snapshot
\* is not there, but for the one the visit at hand has just pushed.
AheadBranches ==
    pc # "raised" => \A r \in Refs :
        TargetOf(r) \in Refreshed /\ r \notin branches /\ heads[r] # Gone /\ RefAhead(r)
            => r = Ref /\ pc \in {"comment", "create", "dummy"}

\* The visit pushes a branch as new only if the snapshot does not have it, and
\* only for a series that changes something.
AppliesOK ==
    /\ pc \in {"comment", "create", "dummy", "label", "push"} /\ Ref \notin branches
          => applies[<<job.series, job.worker>>] # "empty"
    /\ pc = "push" /\ job.path = "new" => Ref \notin branches

\* A new pull request is created where no other can be re-opened.
NothingToReopen ==
    pc \in {"create", "dummy"} =>
        \A n \in Numbers : pulls[n].head = Ref => pulls[n].frozen

\* Only the newest pull request of a branch can be re-opened.
ReopenableIsNewest == \A n \in ClosedPulls : pulls[n].frozen \/ Newest(n)

KeepInv ==
    /\ VisitInv
    /\ HeadsGrounded /\ AheadBranches /\ AppliesOK
    /\ NothingToReopen /\ ReopenableIsNewest

\* Only the three force-pushes make a branch.
LEMMA OnlyPushes ==
    ASSUME IInv, CInv, [Next]_vars, NEW r \in Refs, heads[r] = Gone, heads'[r] # Gone
    PROVE  (PushDummy \/ PushNewBranch \/ PushUpdate) /\ Patching /\ r = Ref
<1>1. heads \in [Refs -> Contents]
  BY DEF IInv, TypeOK, GitHubTypeOK
<1>2. CASE (PushDummy \/ PushNewBranch \/ PushUpdate) /\ Patching
  BY <1>1, <1>2 DEF PushDummy, PushNewBranch, PushUpdate, GitPush, ForcePush
<1>3. CASE DeleteClosedBranch \/ ExpireBranches
  BY <1>3 DEF DeleteClosedBranch, ExpireBranches, DeleteRefs, Raise, ghVars
<1>4. CASE EditStep \/ ReopenPr \/ CreatePr \/ EndCycle \/ \E w \in Workers : Refresh(w)
  BY <1>1, <1>4 DEF EditStep, ReopenPr, CreatePr, Raise, EndCycle, Refresh,
                    MoveUpstream, ghVars
<1> QED
  BY <1>2, <1>3, <1>4, StepKinds DEF MovingStep

LEMMA HeadsGroundedNext ==
    ASSUME KeepInv, OneVisit, [Next]_vars
    PROVE  HeadsGrounded'
<1> USE DEF KeepInv, VisitInv, BranchInv
<1> SUFFICES ASSUME NEW r \in Refs, heads'[r] # Gone
             PROVE  Named(SeriesOf(r))'
  BY DEF HeadsGrounded
<1>1. SeriesOf(r) \in BranchNames
  BY DEF Refs, SeriesOf
<1>2. Named(SeriesOf(r))
  <2>1. CASE heads[r] = Gone
    <3>1. r = Ref /\ Patching
      BY <2>1, OnlyPushes
    <3>2. job \in Jobs
      BY <3>1, HandlerSteps DEF PhaseInv
    <3> QED
      BY <3>1, <3>2 DEF IInv, Grounded, Ref, SeriesOf
  <2> QED
    BY <2>1 DEF HeadsGrounded
<1> QED
  BY <1>1, <1>2, OwnerKept

\* A frozen pull request stays frozen.
LEMMA FrozenStays ==
    ASSUME IInv, CInv, [Next]_vars, NEW n \in Numbers, pulls[n].frozen
    PROVE  pulls'[n].frozen
<1>1. GitHubTypeOK /\ pulls[n] \in PullRequest
  BY PullType DEF IInv, TypeOK
<1>2. CASE EditStep
  BY <1>1, <1>2, EditedKeeps DEF EditStep
<1>3. CASE PushDummy \/ PushNewBranch \/ PushUpdate \/ DeleteClosedBranch
             \/ ExpireBranches
  BY <1>1, <1>3
     DEF PushDummy, PushNewBranch, PushUpdate, GitPush, DeleteClosedBranch, ExpireBranches,
         ForcePush, Frozen, DeleteRefs, Raise, ghVars, PullRequest
<1>4. CASE ReopenPr \/ (\E w \in Workers : Refresh(w)) \/ EndCycle
  BY <1>1, <1>4 DEF ReopenPr, Refresh, EndCycle, ghVars, PullRequest, Numbers
<1>5. CASE CreatePr
  BY <1>5, CreatedPr DEF Created, Raise, ghVars
<1> QED
  BY <1>2, <1>3, <1>4, <1>5, StepKinds DEF MovingStep

LEMMA ReopenableIsNewestNext ==
    ASSUME KeepInv, [Next]_vars
    PROVE  ReopenableIsNewest'
<1> USE DEF KeepInv, VisitInv, BranchInv
<1>1. \A n \in Numbers : pulls[n].frozen \/ Newest(n)
  BY DEF ReopenableIsNewest, ClosedPulls, GInv, OpenIsNewest
<1>2. CASE HeadsKept
  <2>1. \A n \in Numbers : Newest(n) => Newest(n)'
    BY <1>2 DEF HeadsKept, Newest
  <2> QED
    BY <1>1, <1>2, <2>1, FrozenStays DEF HeadsKept, ReopenableIsNewest, ClosedPulls
<1>3. CASE CreatePr /\ ~HeadsKept
  <2>1. ~Raise
    BY <1>3 DEF Raise, ghVars, HeadsKept, Numbers
  <2>2. PICK n : Created(n)
    BY <1>3, <2>1, CreatedPr
  <2>3. \A m \in Numbers : pulls[m].head = Ref => pulls[m].frozen
    BY <1>3 DEF CreatePr, NothingToReopen
  <2>4. \A m \in Numbers : pulls[m].head # Ref /\ Newest(m) => Newest(m)'
    BY <2>2 DEF Created, Newest
  <2> QED
    BY <1>1, <2>2, <2>3, <2>4 DEF Created, ReopenableIsNewest, ClosedPulls, OpenPulls
<1> QED
  BY <1>2, <1>3, HeadsStay

LEMMA NothingToReopenNext ==
    ASSUME KeepInv, [Next]_vars
    PROVE  NothingToReopen'
<1> USE DEF KeepInv, VisitInv, BranchInv
<1> SUFFICES ASSUME pc' \in {"create", "dummy"}
             PROVE  \A n \in Numbers' : pulls'[n].head = Ref' => pulls'[n].frozen
  BY DEF NothingToReopen
<1>1. ~CreatePr /\ HeadsKept
  <2>1. ~CreatePr
    BY DEF CreatePr, Raise
  <2> QED
    BY <2>1, HeadsStay
<1>2. SUFFICES Ref' = Ref /\ \A n \in Numbers : pulls[n].head = Ref => pulls[n].frozen
  BY <1>1, FrozenStays DEF HeadsKept
<1>3. GitHubTypeOK
  BY DEF IInv, TypeOK
<1>4. CASE pc \in {"create", "dummy"} /\ UNCHANGED job
  BY <1>4 DEF NothingToReopen, Ref
<1>5. CASE NoPrToUse \/ (ReopenPr /\ pc' = "create")
  <2>1. pc = "comment" /\ Ref \in Refs /\ UNCHANGED job /\ Ref' = Ref
    BY <1>5, JobInHandler DEF NoPrToUse, ReopenPr, Goto, WorkerPcs, Ref
  <2>2. job.pr = NoPR /\ pc \in HandlerPcs /\ TargetOf(Ref) \in Refreshed
    BY <2>1 DEF PhaseInv, VisitOK, FreshPcs, HandlerPcs, WorkerPcs, Refreshed,
                TargetOf, Ref
  <2>3. CASE NoPrToUse
    <3>1. all_prs[Ref] = NoPR /\ FilterClosedPr(Ref) = {}
      BY <2>3 DEF NoPrToUse, GuessPr
    <3>2. OpenFrom(Ref) = {}
      BY <2>1, <2>2, <3>1 DEF IInv, OpenPrsKnown
    <3> QED
      BY <1>3, <2>1, <3>1, <3>2, FilterClosedPrFinds DEF OpenFrom, ClosedPulls
  <2>4. CASE ReopenPr /\ pc' = "create"
    <3>1. PICK n \in GuessPr(Ref) : ~pulls[n].open /\ ~CanReopen(n)
      BY <2>4 DEF ReopenPr
    <3>2. n \in Numbers /\ pulls[n].head = Ref /\ n \notin OpenPulls
      BY <2>1, <3>1, GuessPrType DEF WorkerPcs, OpenPulls
    <3>3. OpenFrom(Ref) = {}
      <4>1. CASE all_prs[Ref] = NoPR
        BY <2>1, <2>2, <4>1 DEF IInv, OpenPrsKnown
      <4>2. CASE all_prs[Ref] # NoPR
        BY <2>2, <3>1, <3>2, <4>2, KnownClosed DEF GuessPr
      <4> QED
        BY <4>1, <4>2
    <3>4. pulls[n].frozen
      BY <2>1, <3>1, <3>2, <3>3 DEF CanReopen, CanCreate, GInv, FrozenIsClosed
    <3>5. \A m \in Numbers : pulls[m].head = Ref => m <= n \/ pulls[m].frozen
      <4>1. CASE all_prs[Ref] = NoPR
        BY <3>1, <3>3, <4>1 DEF GuessPr, FilterClosedPr, OpenFrom, ClosedPulls
      <4>2. CASE all_prs[Ref] # NoPR
        BY <2>2, <3>1, <3>2, <4>2, KnownInVisit DEF GuessPr, Newest
      <4> QED
        BY <4>1, <4>2
    <3>6. \A m \in Numbers : pulls[m].head = Ref => n <= m \/ pulls[m].frozen
      BY <3>2, <3>3 DEF ReopenableIsNewest, ClosedPulls, OpenFrom, Newest
    <3>7. \A m \in Numbers : m \in Nat
      BY <1>3, NumbersArePositive
    <3> QED
      BY <2>1, <3>2, <3>4, <3>5, <3>6, <3>7
  <2> QED
    BY <1>5, <2>3, <2>4
<1>6. CASE PushDummy
  BY <1>4, <1>6 DEF PushDummy, Goto
<1>7. CASE Patching
  BY <1>1, <1>5, <1>6, <1>7
     DEF Patching, CheckoutAndPatch, CloseSeriesPr, DeleteClosedBranch, Apply,
         UseOpenPr, ReopenPr, SkipEmptyPr, SetLabels, PushNewBranch, PushUpdate,
         Raise, ReturnNone, Return, Goto
<1>8. CASE UNCHANGED vars \/ People
  BY <1>4, <1>8 DEF vars, People, ClosePrByHand, workerVars
<1>9. CASE Fault \/ (Daemon /\ ~Patching)
  BY <1>9 DEF Fault, Daemon, StartCycle, Refresh, FetchSubjects, PickSubject,
         TryTarget, Raise, NoTargetLeft, NoPrReturned, SyncChecks, CloseOther,
         SubjectDone, AllSubjectsDone, StartScan, ScanRaises, SkipOldPr, SyncOldPr,
         ScanDone, ExpireBranches, EndCycle, ForgetAll, workerVars
<1> QED
  BY <1>7, <1>8, <1>9 DEF Next

LEMMA AppliesOKNext ==
    ASSUME KeepInv, [Next]_vars
    PROVE  AppliesOK'
<1> USE DEF KeepInv, VisitInv, BranchInv
<1> DEFINE Later == {"comment", "create", "dummy", "label", "push"}
<1> SUFFICES ASSUME pc' \in Later PROVE AppliesOK'
  BY DEF AppliesOK
<1>1. CASE UNCHANGED vars \/ People
  BY <1>1 DEF vars, People, ClosePrByHand, ghVars, workerVars, memVars, AppliesOK, Ref
<1>2. CASE Patching
  <2>1. job \in Jobs /\ HandlerStep /\ Ref' = Ref
    BY <1>2, HandlerSteps DEF PhaseInv, HandlerStep, Ref
  <2>2. CASE Apply
    <3>1. PICK outcome \in TryApply(job.series, job.worker) :
            /\ Learn(job.series, job.worker, outcome)
            /\ outcome # "merged"
            /\ ~(PathFor(outcome) = "new" /\ outcome = "empty")
            /\ job' = [job EXCEPT !.path = PathFor(outcome)]
            /\ pc' = IF PathFor(outcome) = "new" THEN "push" ELSE "comment"
      BY <2>2 DEF Apply, ReturnNone, Return
    <3>2. applies'[<<job.series, job.worker>>] = outcome
      BY <2>2, <3>1, JobInHandler
         DEF Learn, Apply, WorkerPcs, IInv, TypeOK, GitHubTypeOK
    <3>3. job'.path = PathFor(outcome) /\ UNCHANGED branches
      BY <2>1, <2>2, <3>1 DEF Jobs, Apply, memVars
    <3>4. Ref \notin branches => PathFor(outcome) \in {"new", "conflict"}
      BY DEF PathFor
    <3>5. PathFor(outcome) = "new" => Ref \notin branches
      BY DEF PathFor
    <3>6. PathFor(outcome) = "conflict" => outcome = "conflict"
      BY DEF PathFor
    <3> QED
      BY <2>1, <3>1, <3>2, <3>3, <3>4, <3>5, <3>6 DEF AppliesOK, HandlerStep
  <2>3. CASE ~Apply
    <3>1. UNCHANGED <<applies, branches>> /\ pc \in Later
      BY <1>2, <2>3
         DEF Patching, CheckoutAndPatch, CloseSeriesPr, DeleteClosedBranch,
             UseOpenPr, ReopenPr, NoPrToUse, SkipEmptyPr, PushDummy, CreatePr,
             SetLabels, PushNewBranch, PushUpdate, GitPush, Raise, ReturnNone, Return, Goto,
             memVars, ghVars
    <3>2. pc' = "push" => job.path = "update" /\ UNCHANGED job
      BY <1>2, <2>3
         DEF Patching, CheckoutAndPatch, CloseSeriesPr, DeleteClosedBranch,
             UseOpenPr, ReopenPr, NoPrToUse, SkipEmptyPr, PushDummy, CreatePr,
             SetLabels, PushNewBranch, PushUpdate, Raise, ReturnNone, Return, Goto
    <3> QED
      BY <2>1, <3>1, <3>2 DEF AppliesOK, HandlerStep
  <2> QED
    BY <2>2, <2>3
<1>3. CASE Fault \/ (Daemon /\ ~Patching)
  BY <1>3 DEF Fault, Daemon, StartCycle, Refresh, FetchSubjects, PickSubject,
         TryTarget, Raise, NoTargetLeft, NoPrReturned, SyncChecks, CloseOther,
         SubjectDone, AllSubjectsDone, StartScan, ScanRaises, SkipOldPr, SyncOldPr,
         ScanDone, ExpireBranches, EndCycle, ForgetAll, workerVars
<1> QED
  BY <1>1, <1>2, <1>3 DEF Next

\* Workers are refreshed one by one, and forgotten together.
LEMMA RefreshedShrinks ==
    ASSUME [Next]_vars, pc # "raised", ~EndCycle,
           \A w \in Workers : ~Refresh(w)
    PROVE  Refreshed' \subseteq Refreshed
<1>1. CASE UNCHANGED <<pc, sync, todo>>
  BY <1>1 DEF Refreshed
<1>2. CASE UNCHANGED vars \/ People
  BY <1>1, <1>2 DEF vars, People, ClosePrByHand, workerVars, cycleVars
<1>3. CASE Fault \/ StartCycle
  BY <1>3 DEF Fault, StartCycle, Refreshed
<1>4. CASE pc # "refresh" /\ pc' # "refresh" /\ UNCHANGED sync
  BY <1>4 DEF Refreshed
<1>5. CASE Patching
  BY <1>4, <1>5
     DEF Patching, CheckoutAndPatch, CloseSeriesPr, DeleteClosedBranch, Apply,
         UseOpenPr, ReopenPr, NoPrToUse, SkipEmptyPr, PushDummy, CreatePr,
         SetLabels, PushNewBranch, PushUpdate, Raise, ReturnNone, Return, Goto,
         cycleVars
<1>6. CASE Daemon /\ ~Patching /\ ~StartCycle
  BY <1>1, <1>4, <1>6
     DEF Daemon, FetchSubjects, PickSubject, TryTarget, Raise, NoTargetLeft,
         NoPrReturned, SyncChecks, CloseOther, SubjectDone, AllSubjectsDone,
         StartScan, ScanRaises, SkipOldPr, SyncOldPr, ScanDone, ExpireBranches,
         cycleVars, workerVars
<1> QED
  BY <1>2, <1>3, <1>5, <1>6 DEF Next

LEMMA AheadBranchesNext ==
    ASSUME KeepInv, OneVisit, [Next]_vars
    PROVE  AheadBranches'
<1> USE DEF KeepInv, VisitInv, BranchInv
<1> DEFINE Pushed == {"comment", "create", "dummy"}
<1> SUFFICES ASSUME pc' # "raised", NEW r \in Refs, TargetOf(r) \in Refreshed',
                    r \notin branches', heads'[r] # Gone, RefAhead(r)'
             PROVE  r = Ref' /\ pc' \in Pushed
  BY DEF AheadBranches
<1>1. ~EndCycle
  BY DEF EndCycle, Refreshed
<1>2. pc # "raised"
  BY <1>1, RaisedStays
\* A visit that finds a pull request leaves none ahead.
<1>3. ~(Patching /\ job'.pr # NoPR /\ r = Ref)
  BY FoundIsBehind DEF PhaseInv
<1>4. CASE heads[r] = Gone
  <2>1. (PushDummy \/ PushNewBranch \/ PushUpdate) /\ Patching /\ r = Ref
    BY <1>4, OnlyPushes
  <2>2. CASE PushUpdate
    <3>1. pulls[job.pr].open /\ job.pr \in Numbers
      BY <2>2 DEF PushUpdate, Return, Goto, CInv, JobSound
    <3>2. job'.pr = job.pr /\ job.pr # NoPR
      BY <2>2, <3>1, NumbersArePositive, HandlerSteps, <2>1
         DEF PushUpdate, Return, Jobs, IInv, TypeOK, PhaseInv, NoPR
    <3> QED
      BY <1>3, <2>1, <3>2
  <2> QED
    BY <2>1, <2>2 DEF PushDummy, PushNewBranch, Goto, Ref
<1>5. CASE heads[r] # Gone /\ \E w \in Workers : Refresh(w)
  <2>1. PICK w \in Workers : Refresh(w)
    BY <1>5
  <2>2. TargetOf(r) # w
    BY <2>1 DEF Refresh, GetBranches
  <2>3. TargetOf(r) \in Refreshed /\ r \notin branches
    BY <2>1, <2>2 DEF Refresh, GetBranches, Refreshed, IInv, TypeOK, CycleTypeOK
  <2>4. RefAhead(r)
    BY <1>1, <1>2, <1>5, RefAheadShrinks DEF HeadsGrounded
  <2>5. pc \notin Pushed
    BY <2>1 DEF Refresh
  <2> QED
    BY <1>2, <1>5, <2>3, <2>4, <2>5 DEF AheadBranches
<1>6. CASE heads[r] # Gone /\ \A w \in Workers : ~Refresh(w)
  <2>1. TargetOf(r) \in Refreshed /\ RefAhead(r)
    BY <1>1, <1>2, <1>6, RefreshedShrinks, RefAheadShrinks DEF HeadsGrounded
  <2>2. UNCHANGED branches
    <3>1. CASE MovingStep
      BY <1>1, <1>6, <3>1
         DEF MovingStep, PushDummy, PushNewBranch, PushUpdate, GitPush, DeleteClosedBranch,
             ReopenPr, CreatePr, ExpireBranches, Raise, memVars
    <3> QED
      BY <3>1, StepKinds DEF EditStep
  <2>3. r = Ref /\ pc \in Pushed
    BY <1>2, <1>6, <2>1, <2>2 DEF AheadBranches
  <2>4. CASE Patching
    <3>1. Ref' = Ref /\ job'.pr = NoPR
      BY <1>3, <2>3, <2>4, HandlerSteps DEF PhaseInv, HandlerStep, Ref
    <3>2. ~SkipEmptyPr
      BY <2>2, <2>3 DEF SkipEmptyPr, AppliesOK
    <3>3. ~(UseOpenPr \/ CreatePr \/ (ReopenPr /\ pc' = "label"))
      <4>1. job \in Jobs /\ GitHubTypeOK
        BY <2>4, HandlerSteps DEF PhaseInv, IInv, TypeOK
      <4>2. \A n \in GuessPr(Ref) : n \in Numbers
        BY <2>3, <2>4, <4>1, GuessPrType, HandlerSteps DEF PhaseInv
      <4>3. \A n \in Numbers \cup {Len(pulls) + 1} : n # NoPR
        BY <4>1, NumbersArePositive DEF NoPR
      <4>4. ~UseOpenPr
        BY <3>1, <4>1, <4>2, <4>3 DEF UseOpenPr, FoundPr, Jobs
      <4>5. ~(ReopenPr /\ pc' = "label")
        BY <3>1, <4>1, <4>2, <4>3 DEF ReopenPr, FoundPr, Jobs
      <4>6. ~CreatePr
        BY <3>1, <4>1, <4>3 DEF CreatePr, FoundPr, Jobs, Raise
      <4> QED
        BY <4>4, <4>5, <4>6
    <3> QED
      BY <2>3, <2>4, <3>1, <3>2, <3>3
         DEF Patching, CheckoutAndPatch, CloseSeriesPr, DeleteClosedBranch, Apply,
             ReopenPr, NoPrToUse, PushDummy, SetLabels, PushNewBranch, PushUpdate,
             Goto
  <2>5. CASE UNCHANGED vars \/ People
    BY <2>3, <2>5 DEF vars, People, ClosePrByHand, workerVars, Ref
  <2>6. CASE Fault \/ (Daemon /\ ~Patching)
    BY <2>3, <2>6
       DEF Fault, Daemon, StartCycle, Refresh, FetchSubjects, PickSubject, TryTarget,
           NoTargetLeft, NoPrReturned, SyncChecks, CloseOther, SubjectDone,
           AllSubjectsDone, StartScan, ScanRaises, SkipOldPr, SyncOldPr, ScanDone,
           ExpireBranches, EndCycle
  <2> QED
    BY <2>4, <2>5, <2>6 DEF Next
<1> QED
  BY <1>4, <1>5, <1>6

LEMMA InitKeepInv == Init => KeepInv
<1> SUFFICES ASSUME Init PROVE KeepInv
  OBVIOUS
<1>1. pc = "idle" /\ heads = [r \in Refs |-> Gone] /\ Numbers = {}
  BY DEF Init, GitHubInit, WorkerInit, Numbers
<1>2. HeadsGrounded /\ AppliesOK /\ NothingToReopen
  BY <1>1 DEF HeadsGrounded, AppliesOK, NothingToReopen
<1>3. AheadBranches /\ ReopenableIsNewest
  BY <1>1 DEF AheadBranches, ReopenableIsNewest, ClosedPulls
<1> QED
  BY <1>2, <1>3, InitVisitInv DEF KeepInv

LEMMA NextKeepInv ==
    ASSUME OneVisit
    PROVE  KeepInv /\ [Next]_vars => KeepInv'
BY NextVisitInv, HeadsGroundedNext, AheadBranchesNext, AppliesOKNext,
   NothingToReopenNext, ReopenableIsNewestNext DEF KeepInv


(***************************************************************************)
(* Where only the daemon closes pull requests.                             *)
(***************************************************************************)
\* Then a known pull request that is closed was seen closed, and a branch is
\* updated under an open pull request.
ClosedIsSeen ==
    \A r \in Refs : all_prs[r] # NoPR /\ ~pulls[all_prs[r]].open => all_prs[r] \in seenClosed

UpdatedOpen ==
    pc \in {"label", "push"} /\ job.path = "update" => pulls[job.pr].open

CloseInv == KeepInv /\ ClosedIsSeen /\ UpdatedOpen

\* A pull request that is open or was seen closed.
Accounted(n) == n \in seenClosed \/ pulls[n].open

LEMMA ClosedIsSeenStays ==
    ASSUME IInv, ClosedIsSeen,
           \A n \in Numbers : Accounted(n) => Accounted(n)',
           \A r \in Refs : all_prs'[r] \in {all_prs[r], NoPR} \/ pulls'[all_prs'[r]].open
    PROVE  ClosedIsSeen'
<1> SUFFICES ASSUME NEW r \in Refs, all_prs'[r] # NoPR, ~pulls'[all_prs'[r]].open
             PROVE  all_prs'[r] \in seenClosed'
  BY DEF ClosedIsSeen
<1>1. all_prs'[r] = all_prs[r] /\ all_prs[r] \in Numbers
  BY DEF IInv, TypeOK, MemTypeOK
<1>2. Accounted(all_prs[r])
  BY <1>1 DEF ClosedIsSeen, Accounted
<1> QED
  BY <1>1, <1>2 DEF Accounted

\* No step of the daemon closes a pull request unseen: what is deleted has none
\* open.
LEMMA AccountedStays ==
    ASSUME VisitInv, ~PeopleClose, [Next]_vars, ~EndCycle, NEW n \in Numbers, Accounted(n)
    PROVE  Accounted(n)'
<1> USE DEF VisitInv, BranchInv, Accounted
<1>1. GitHubTypeOK /\ pulls[n] \in PullRequest
  BY PullType DEF IInv, TypeOK
<1>2. CASE UNCHANGED <<pulls, seenClosed>>
  BY <1>2
<1>3. CASE UNCHANGED vars \/ People \/ Fault
  BY <1>2, <1>3 DEF vars, People, ClosePrByHand, Fault, ghVars, workerVars, memVars
<1>4. CASE CloseSeriesPr \/ SetLabels
  <2>1. CASE \E m : /\ pulls' = [pulls EXCEPT ![m].open = FALSE, ![m].conflict = FALSE]
                    /\ seenClosed' = seenClosed \cup {m}
    BY <1>1, <2>1 DEF PullRequest, Numbers
  <2>2. CASE \E m, c : /\ pulls' = [pulls EXCEPT ![m].conflict = c]
                       /\ UNCHANGED seenClosed
    BY <1>1, <2>2 DEF PullRequest, Numbers
  <2> QED
    BY <1>2, <1>4, <2>1, <2>2 DEF CloseSeriesPr, SetLabels, memVars
<1>5. CASE PushDummy \/ PushNewBranch \/ PushUpdate
  BY <1>1, <1>5 DEF PushDummy, PushNewBranch, PushUpdate, GitPush, ForcePush, Frozen, memVars,
                    PullRequest
<1>6. CASE DeleteClosedBranch
  <2>1. pulls[n].head = Ref => ~pulls[n].open
    BY <1>6, DeletedHaveNone DEF DeleteClosedBranch, OpenFrom, OpenPulls
  <2> QED
    BY <1>1, <1>2, <1>6, <2>1
       DEF DeleteClosedBranch, DeleteRefs, Raise, ghVars, memVars, PullRequest
<1>7. CASE ExpireBranches
  <2>1. PICK aged : DeleteRefs(ExpirableBranches(scan.worker, aged))
    BY <1>7 DEF ExpireBranches
  <2>2. pulls[n].head \in ExpirableBranches(scan.worker, aged) => ~pulls[n].open
    BY <1>7, ExpirableHaveNone DEF ExpireBranches, OpenFrom, OpenPulls
  <2> QED
    BY <1>1, <1>7, <2>1, <2>2 DEF ExpireBranches, DeleteRefs, memVars, PullRequest
<1>8. CASE ReopenPr
  BY <1>1, <1>8 DEF ReopenPr, PullRequest, Numbers
<1>9. CASE CreatePr
  BY <1>2, <1>9, CreatedPr DEF Created, Raise, ghVars, memVars
<1>10. CASE SyncChecks
  BY <1>10 DEF SyncChecks, ghVars
<1>11. CASE \E m \in Numbers : CloseOther(m)
  BY <1>1, <1>11 DEF CloseOther, Closed, PullRequest, Numbers
<1>12. CASE \E t \in Subjects : SyncOldPr(t)
  <2>1. CASE \E m, t :
               /\ pulls' = [pulls EXCEPT ![m].title = t, ![m].open = FALSE]
               /\ seenClosed' = seenClosed \cup {m}
    BY <1>1, <2>1 DEF PullRequest, Numbers
  <2>2. CASE \E m, t : pulls' = [pulls EXCEPT ![m].title = t] /\ UNCHANGED seenClosed
    BY <1>1, <2>2 DEF PullRequest, Numbers
  <2>3. PICK t \in Subjects : SyncOldPr(t)
    BY <1>12
  <2> DEFINE m == prs[scan.worker][t]
             subject == series[SeriesOf(pulls[m].head)].subject
  <2>4. \/ /\ pulls' = [pulls EXCEPT ![m].title = subject, ![m].open = FALSE]
           /\ seenClosed' = seenClosed \cup {m}
        \/ pulls' = [pulls EXCEPT ![m].title = subject] /\ UNCHANGED seenClosed
    BY <2>3 DEF SyncOldPr
  <2> HIDE DEF m, subject
  <2> QED
    BY <2>1, <2>2, <2>4
<1>13. CASE Apply \/ UseOpenPr \/ NoPrToUse \/ SkipEmptyPr
  BY <1>2, <1>13 DEF Apply, UseOpenPr, NoPrToUse, SkipEmptyPr, ghVars, memVars
<1>14. CASE \/ StartCycle \/ (\E w \in Workers : Refresh(w)) \/ FetchSubjects
            \/ (\E t \in Subjects : PickSubject(t)) \/ TryTarget \/ NoTargetLeft
            \/ NoPrReturned \/ SubjectDone
  BY <1>2, <1>14
     DEF StartCycle, Refresh, FetchSubjects, PickSubject, TryTarget, Raise,
         NoTargetLeft, NoPrReturned, SubjectDone, ghVars, memVars
<1>15. CASE \/ AllSubjectsDone \/ (\E w \in Workers : StartScan(w)) \/ ScanRaises
            \/ (\E t \in Subjects : SkipOldPr(t)) \/ ScanDone
  BY <1>2, <1>15
     DEF AllSubjectsDone, StartScan, ScanRaises, Raise, SkipOldPr, ScanDone, ghVars,
         workerVars, memVars
<1> QED
  BY <1>3, <1>4, <1>5, <1>6, <1>7, <1>8, <1>9, <1>10, <1>11, <1>12, <1>13, <1>14, <1>15
     DEF Next, Daemon, Patching, CheckoutAndPatch

\* An entry of all_prs is there to stay for the cycle, and a new one is open.
LEMMA KnownOrOpen ==
    ASSUME IInv, CInv, [Next]_vars, ~EndCycle, NEW r \in Refs
    PROVE  all_prs'[r] \in {all_prs[r], NoPR} \/ pulls'[all_prs'[r]].open
<1>1. MemTypeOK /\ GitHubTypeOK
  BY DEF IInv, TypeOK
<1>2. CASE UNCHANGED all_prs
  BY <1>2
<1>3. CASE PushDummy \/ PushNewBranch \/ PushUpdate \/ DeleteClosedBranch
             \/ ExpireBranches
  BY <1>2, <1>3
     DEF PushDummy, PushNewBranch, PushUpdate, GitPush, DeleteClosedBranch, ExpireBranches,
         Raise, memVars
<1>4. CASE ReopenPr
  <2>1. CASE UNCHANGED all_prs
    BY <2>1
  <2>2. CASE ~UNCHANGED all_prs
    <3>1. PICK m \in GuessPr(Ref) :
            pulls' = [pulls EXCEPT ![m].open = TRUE] /\ AddPr(Ref, m)
      BY <1>4, <2>2 DEF ReopenPr
    <3>2. m \in Numbers /\ pulls[m] \in PullRequest
      BY <1>1, <1>4, <3>1, GuessPrType, PullType DEF ReopenPr, WorkerPcs
    <3> QED
      BY <1>1, <3>1, <3>2 DEF AddPr, MemTypeOK, PullRequest, Numbers
  <2> QED
    BY <2>1, <2>2
<1>5. CASE CreatePr
  <2>1. CASE Raise
    BY <2>1 DEF Raise, memVars
  <2>2. CASE ~Raise
    <3>1. PICK m : Created(m)
      BY <1>5, <2>2, CreatedPr
    <3> QED
      BY <1>1, <3>1 DEF Created, AddPr, MemTypeOK
  <2> QED
    BY <2>1, <2>2
<1>6. CASE \E w \in Workers : Refresh(w)
  <2>1. PICK w \in Workers : Refresh(w)
    BY <1>6
  <2>2. UNCHANGED pulls /\ all_prs'[r] \in {all_prs[r], NoPR} \cup OpenFrom(r)
    BY <1>1, <2>1 DEF Refresh, GetPulls
  <2> QED
    BY <2>2 DEF OpenFrom, OpenPulls
<1> QED
  BY <1>2, <1>3, <1>4, <1>5, <1>6, StepKinds DEF EditStep, MovingStep

LEMMA ClosedIsSeenNext ==
    ASSUME CloseInv, ~PeopleClose, [Next]_vars
    PROVE  ClosedIsSeen'
<1> USE DEF CloseInv, KeepInv, VisitInv, BranchInv
<1>1. CASE EndCycle
  BY <1>1 DEF EndCycle, ForgetAll, NoRefs, ClosedIsSeen
<1>2. CASE ~EndCycle
  BY <1>2, KnownOrOpen, AccountedStays, ClosedIsSeenStays
<1> QED
  BY <1>1, <1>2

LEMMA UpdatedOpenNext ==
    ASSUME CloseInv, ~PeopleClose, [Next]_vars
    PROVE  UpdatedOpen'
<1> USE DEF CloseInv, KeepInv, VisitInv, BranchInv
<1> SUFFICES ASSUME pc' \in {"label", "push"}, job'.path = "update"
             PROVE  pulls'[job'.pr].open
  BY DEF UpdatedOpen
<1>1. GitHubTypeOK
  BY DEF IInv, TypeOK
<1>2. CASE UNCHANGED vars \/ People
  BY <1>2 DEF vars, People, ClosePrByHand, ghVars, workerVars, UpdatedOpen
<1>3. CASE UseOpenPr
  <2>1. job \in Jobs
    BY <1>3, JobInHandler DEF UseOpenPr, WorkerPcs
  <2>2. PICK n \in GuessPr(Ref) :
          (~LooksClosed(n) \/ job.path = "touch") /\ FoundPr(n) /\ UNCHANGED pulls
    BY <1>3 DEF UseOpenPr, ghVars
  <2>3. job'.pr = n /\ job.path = "update"
    BY <2>1, <2>2 DEF FoundPr, Jobs
  <2>4. n = all_prs[Ref] /\ n # NoPR /\ n \notin seenClosed /\ Ref \in Refs
    BY <1>3, <2>2, <2>3, JobInHandler DEF LooksClosed, GuessPr, UseOpenPr, WorkerPcs
  <2> QED
    BY <2>2, <2>3, <2>4 DEF ClosedIsSeen
<1>4. CASE ReopenPr
  <2>1. job \in Jobs
    BY <1>4, JobInHandler DEF ReopenPr, WorkerPcs
  <2>2. PICK n \in GuessPr(Ref) :
          pulls' = [pulls EXCEPT ![n].open = TRUE] /\ FoundPr(n)
    BY <1>4 DEF ReopenPr
  <2>3. n \in Numbers /\ pulls[n] \in PullRequest /\ job'.pr = n
    BY <1>1, <1>4, <2>1, <2>2, GuessPrType, PullType
       DEF ReopenPr, WorkerPcs, FoundPr, Jobs
  <2> QED
    BY <2>2, <2>3 DEF PullRequest, Numbers
<1>5. CASE CreatePr
  <2>1. ~Raise
    BY DEF Raise
  <2>2. job \in Jobs
    BY <1>5, JobInHandler DEF CreatePr, WorkerPcs
  <2> QED
    BY <1>5, <2>1, <2>2, CreatedPr DEF Created, Jobs
<1>6. CASE SetLabels
  <2>1. job \in Jobs /\ UNCHANGED job /\ job.pr \in Numbers
    BY <1>6, JobInHandler DEF SetLabels, WorkerPcs, Goto, Return, CInv, JobSound
  <2>2. pulls[job.pr] \in PullRequest /\ pulls[job.pr].open
    BY <1>1, <1>6, <2>1, PullType DEF SetLabels, UpdatedOpen
  <2> QED
    BY <1>6, <2>1, <2>2 DEF SetLabels, PullRequest, Numbers
<1>7. CASE Apply
  <2>1. job \in Jobs
    BY <1>7, JobInHandler DEF Apply, WorkerPcs
  <2> QED
    BY <1>7, <2>1 DEF Apply, ReturnNone, Return, Jobs
<1>8. CASE Patching /\ ~(UseOpenPr \/ ReopenPr \/ CreatePr \/ SetLabels \/ Apply)
  BY <1>8
     DEF Patching, CheckoutAndPatch, CloseSeriesPr, DeleteClosedBranch, NoPrToUse,
         SkipEmptyPr, PushDummy, PushNewBranch, PushUpdate, Raise, ReturnNone,
         Return, Goto
<1>9. CASE Fault \/ (Daemon /\ ~Patching)
  BY <1>9 DEF Fault, Daemon, StartCycle, Refresh, FetchSubjects, PickSubject,
         TryTarget, Raise, NoTargetLeft, NoPrReturned, SyncChecks, CloseOther,
         SubjectDone, AllSubjectsDone, StartScan, ScanRaises, SkipOldPr, SyncOldPr,
         ScanDone, ExpireBranches, EndCycle, ForgetAll, workerVars
<1> QED
  BY <1>2, <1>3, <1>4, <1>5, <1>6, <1>7, <1>8, <1>9 DEF Next

LEMMA InitCloseInv == Init => CloseInv
<1> SUFFICES ASSUME Init PROVE CloseInv
  OBVIOUS
<1>1. pc = "idle" /\ all_prs = NoRefs
  BY DEF Init, WorkerInit
<1>2. ClosedIsSeen /\ UpdatedOpen
  BY <1>1 DEF ClosedIsSeen, UpdatedOpen, NoRefs
<1> QED
  BY <1>2, InitKeepInv DEF CloseInv

LEMMA NextCloseInv ==
    ASSUME OneVisit, ~PeopleClose
    PROVE  CloseInv /\ [Next]_vars => CloseInv'
BY NextKeepInv, ClosedIsSeenNext, UpdatedOpenNext DEF CloseInv

LEMMA CloseInvariant ==
    ASSUME OneVisit, ~PeopleClose
    PROVE  Spec => []CloseInv
BY InitCloseInv, NextCloseInv, PTL DEF Spec

\* A branch is pushed when none of its closed pull requests can be re-opened.
LEMMA PushedHasNone ==
    ASSUME CloseInv, PushDummy \/ PushNewBranch \/ PushUpdate
    PROVE  Reopenable(Ref) = {}
<1> USE DEF CloseInv, KeepInv, VisitInv, BranchInv
<1> SUFFICES ASSUME NEW n \in ClosedPulls, pulls[n].head = Ref, ~pulls[n].frozen
             PROVE  FALSE
  BY DEF Reopenable
<1>1. n \in Numbers /\ n \in Nat /\ ~pulls[n].open
  BY NumbersArePositive DEF ClosedPulls, OpenPulls, IInv, TypeOK
<1>2. CASE PushDummy
  BY <1>1, <1>2 DEF PushDummy, NothingToReopen
<1>3. CASE PushNewBranch
  <2>1. Ref \in Refs /\ job.pr = NoPR /\ pc = "push" /\ pc \in VisitPcs /\ pc \in HandlerPcs
    BY <1>3, VisitJob DEF PushNewBranch, PhaseInv, VisitOK, VisitPcs, HandlerPcs, WorkerPcs
  <2>2. TargetOf(Ref) \in Refreshed /\ SubjectOf(Ref) = job.subject /\ TargetOf(Ref) = job.worker
    BY <2>1 DEF PhaseInv, VisitOK, Refreshed, SubjectOf, SeriesOf, TargetOf, Ref
  <2>3. RefAhead(Ref)
    BY <2>1, <2>2, VisitIsAhead DEF PhaseInv, RefAhead
  <2>4. Ref \notin branches
    BY <1>3 DEF PushNewBranch, AppliesOK
  <2>5. heads[Ref] = Gone
    BY <2>1, <2>2, <2>3, <2>4 DEF AheadBranches
  <2> QED
    BY <1>1, <2>5 DEF GInv, FrozenIsClosed
<1>4. CASE PushUpdate
  <2>1. job.pr \in Numbers /\ pulls[job.pr].head = Ref /\ pulls[job.pr].open
    BY <1>4 DEF PushUpdate, CInv, JobSound, UpdatedOpen
  <2>2. job.pr \in Nat /\ job.pr \in OpenPulls
    BY <2>1, NumbersArePositive DEF OpenPulls, IInv, TypeOK
  <2>3. n <= job.pr /\ job.pr <= n
    BY <1>1, <2>1, <2>2 DEF GInv, OpenIsNewest, ReopenableIsNewest, Newest
  <2> QED
    BY <1>1, <2>1, <2>2, <2>3
<1> QED
  BY <1>2, <1>3, <1>4

\* A pull request becomes frozen by a push or a deletion of its branch.
LEMMA FrozenByPushOrDeletion ==
    ASSUME IInv, CInv, [Next]_vars, NEW n \in Numbers, ~pulls[n].frozen, pulls'[n].frozen
    PROVE  \/ /\ PushDummy \/ PushNewBranch \/ PushUpdate
              /\ pulls[n].head = Ref /\ ~pulls[n].open
           \/ heads'[pulls[n].head] = Gone
<1>1. GitHubTypeOK /\ pulls[n] \in PullRequest /\ pulls[n].head \in Refs
  BY PullType DEF IInv, TypeOK, PullRequest
<1>2. CASE EditStep
  BY <1>1, <1>2, EditedKeeps DEF EditStep
<1>3. CASE PushDummy \/ PushNewBranch \/ PushUpdate
  BY <1>1, <1>3 DEF PushDummy, PushNewBranch, PushUpdate, GitPush, ForcePush, Frozen, PullRequest
<1>4. CASE DeleteClosedBranch \/ ExpireBranches
  BY <1>1, <1>4 DEF DeleteClosedBranch, ExpireBranches, DeleteRefs, Raise, ghVars
<1>5. CASE ReopenPr \/ (\E w \in Workers : Refresh(w)) \/ EndCycle
  BY <1>1, <1>5 DEF ReopenPr, Refresh, EndCycle, ghVars, PullRequest, Numbers
<1>6. CASE CreatePr
  BY <1>6, CreatedPr DEF Created, Raise, ghVars
<1> QED
  BY <1>2, <1>3, <1>4, <1>5, <1>6, StepKinds DEF MovingStep

\* Where every branch has one visit in a cycle and only the daemon closes pull
\* requests, no force-push costs a closed pull request its chance to be
\* re-opened: apply_push_comment re-opens first wherever there is one.
THEOREM PushesKeepReopenable ==
    ASSUME OneVisit, ~PeopleClose
    PROVE  Spec => PushKeepsReopenable
<1> DEFINE Kept == \A n \in Numbers :
                       /\ ~pulls[n].open /\ ~pulls[n].frozen
                       /\ pulls'[n].frozen
                       => heads'[pulls[n].head] = Gone
<1>1. CloseInv /\ [Next]_vars => Kept
  BY FrozenByPushOrDeletion, PushedHasNone
     DEF CloseInv, KeepInv, VisitInv, BranchInv, Reopenable, ClosedPulls, OpenPulls
<1> QED
  BY <1>1, CloseInvariant, PTL DEF Spec, PushKeepsReopenable

(***************************************************************************)
(* BranchLife is implemented.                                              *)
(***************************************************************************)
\* What happens to its pull requests' titles and labels, and to other branches,
\* does not matter to the life of a branch.
LEMMA LifeStays ==
    ASSUME HeadsKept, NEW r,
           \A n \in Numbers : pulls[n].head = r =>
               /\ pulls'[n].open <=> pulls[n].open
               /\ ~pulls[n].open => (pulls'[n].frozen <=> pulls[n].frozen)
    PROVE  LifeOf(r)' = LifeOf(r)
<1>1. OpenFrom(r)' = OpenFrom(r)
  BY DEF HeadsKept, OpenFrom, OpenPulls
<1>2. Reopenable(r)' = Reopenable(r)
  BY DEF HeadsKept, Reopenable, ClosedPulls, OpenPulls
<1>3. (\E n \in Numbers : pulls[n].head = r)' <=> \E n \in Numbers : pulls[n].head = r
  BY DEF HeadsKept
<1> QED
  BY <1>1, <1>2, <1>3 DEF LifeOf

LifeKept == \A r \in Refs : LifeOf(r)' = LifeOf(r)

LEMMA PushImplements ==
    ASSUME CloseInv, [Next]_vars, Patching, PushDummy \/ PushNewBranch \/ PushUpdate
    PROVE  Life!Push(Ref) /\ Ref \in Refs
<1> USE DEF CloseInv, KeepInv, VisitInv, BranchInv
<1>1. Ref \in Refs /\ job \in Jobs
  BY HandlerSteps, VisitJob DEF PhaseInv, VisitPcs, HandlerPcs
<1>2. PICK contents \in {Outdated, job.series} : ForcePush(Ref, contents)
  BY DEF PushDummy, PushNewBranch, PushUpdate, GitPush
<1>3. Reopenable(Ref) = {}
  BY PushedHasNone
<1>4. GitHubTypeOK /\ \A n \in Numbers : pulls[n] \in PullRequest
  BY PullType DEF IInv, TypeOK
<1>5. HeadsKept
  BY <1>2, <1>4 DEF ForcePush, Frozen, HeadsKept, PullRequest, Numbers
<1>6. LifeKept
  <2>1. ASSUME NEW n \in Numbers
        PROVE  /\ pulls'[n].open = pulls[n].open
               /\ pulls'[n].frozen = (\/ pulls[n].frozen
                                      \/ pulls[n].head = Ref /\ ~pulls[n].open)
    BY <1>2, <1>4 DEF ForcePush, Frozen, PullRequest
  <2>2. \A n \in Numbers : pulls[n].head = Ref /\ ~pulls[n].open => pulls[n].frozen
    BY <1>3 DEF Reopenable, ClosedPulls, OpenPulls
  <2>3. \A n \in Numbers : ~pulls[n].open => (pulls'[n].frozen <=> pulls[n].frozen)
    BY <2>1, <2>2
  <2> QED
    BY <1>5, <2>1, <2>3, LifeStays DEF LifeKept
<1>7. LifeOf(Ref) # "closed"
  BY <1>3 DEF LifeOf
<1>8. {r \in Refs : heads[r] # Gone}' = {r \in Refs : heads[r] # Gone} \cup {Ref}
  <2>1. contents # Gone
    BY <1>1, PatchworkAssumption DEF Gone, Outdated, Jobs, Series
  <2> QED
    BY <1>1, <1>2, <1>4, <2>1 DEF ForcePush, GitHubTypeOK
<1> QED
  BY <1>1, <1>6, <1>7, <1>8 DEF Life!Push, LifeKept

LEMMA CreateImplements ==
    ASSUME CloseInv, NEW n, Created(n), pc \in {"create", "dummy"}, Ref \in Refs
    PROVE  Life!Create(Ref)
<1> USE DEF CloseInv, KeepInv, VisitInv, BranchInv
<1>1. heads[Ref] # Gone /\ OpenFrom(Ref) = {} /\ UNCHANGED heads
  BY DEF Created, CanCreate
<1>2. Reopenable(Ref) = {}
  BY DEF NothingToReopen, Reopenable, ClosedPulls
<1>3. LifeOf(Ref) \in {"none", "lost"}
  BY <1>1, <1>2 DEF LifeOf
<1>4. ASSUME NEW r, r = Ref
      PROVE  LifeOf(r)' = "open"
  <2>1. n \in OpenFrom(r)'
    BY <1>4 DEF Created, OpenFrom, OpenPulls
  <2> QED
    BY <2>1 DEF LifeOf
<1>5. ASSUME NEW r \in Refs, r # Ref
      PROVE  LifeOf(r)' = LifeOf(r)
  <2>1. OpenFrom(r)' = OpenFrom(r) /\ Reopenable(r)' = Reopenable(r)
    BY <1>5 DEF Created, OpenFrom, OpenPulls, Reopenable, ClosedPulls
  <2>2. (\E m \in Numbers : pulls[m].head = r)' <=> \E m \in Numbers : pulls[m].head = r
    BY <1>5 DEF Created
  <2> QED
    BY <2>1, <2>2 DEF LifeOf
<1> QED
  BY <1>1, <1>3, <1>4, <1>5 DEF Life!Create

\* One pull request opens or closes, without its branch being touched.
LEMMA TurnedElsewhere ==
    ASSUME GitHubTypeOK, NEW n \in Numbers, NEW open \in BOOLEAN, HeadsKept,
           pulls'[n].open = open, \A m \in Numbers : pulls'[m].frozen = pulls[m].frozen,
           \A m \in Numbers \ {n} : pulls'[m].open = pulls[m].open
    PROVE  /\ \A r \in Refs : r # pulls[n].head => LifeOf(r)' = LifeOf(r)
           /\ pulls[n].open = open => LifeKept
<1>1. \A m \in Numbers : pulls[m] \in PullRequest
  BY PullType
<1> QED
  BY <1>1, LifeStays DEF LifeKept

LEMMA ReopenImplements ==
    ASSUME CloseInv, ReopenPr, Patching
    PROVE  Life!Reopen(Ref) \/ (LifeKept /\ UNCHANGED heads)
<1> USE DEF CloseInv, KeepInv, VisitInv, BranchInv
<1>1. GitHubTypeOK /\ UNCHANGED heads /\ Ref \in Refs
  BY JobInHandler DEF ReopenPr, WorkerPcs, IInv, TypeOK
<1>2. CASE UNCHANGED pulls
  BY <1>1, <1>2, LifeStays DEF LifeKept, HeadsKept, Numbers
<1>3. CASE ~UNCHANGED pulls
  <2>1. PICK n \in GuessPr(Ref) : /\ pulls[n].open \/ CanReopen(n)
                                  /\ pulls' = [pulls EXCEPT ![n].open = TRUE]
    BY <1>3 DEF ReopenPr
  <2>2. n \in Numbers /\ pulls[n].head = Ref
    BY <2>1, GuessPrType DEF ReopenPr, WorkerPcs
  <2>3. \A m \in Numbers : pulls[m] \in PullRequest
    BY <1>1, PullType
  <2>4. /\ HeadsKept /\ pulls'[n].open = TRUE
        /\ \A m \in Numbers : pulls'[m].frozen = pulls[m].frozen
        /\ \A m \in Numbers \ {n} : pulls'[m].open = pulls[m].open
    BY <2>1, <2>2, <2>3 DEF HeadsKept, PullRequest, Numbers
  <2>5. /\ \A r \in Refs : r # Ref => LifeOf(r)' = LifeOf(r)
        /\ pulls[n].open = TRUE => LifeKept
    BY <1>1, <2>2, <2>4, TurnedElsewhere
  <2>6. CASE ~pulls[n].open
    <3>1. heads[Ref] # Gone /\ OpenFrom(Ref) = {} /\ n \in Reopenable(Ref)
      BY <2>1, <2>2, <2>6 DEF CanReopen, CanCreate, Reopenable, ClosedPulls, OpenPulls
    <3>2. LifeOf(Ref) = "closed"
      BY <3>1 DEF LifeOf
    <3>3. n \in {m \in Numbers' : pulls'[m].open /\ pulls'[m].head = Ref}
      BY <2>2, <2>4 DEF HeadsKept
    <3>4. \A r : r = Ref => LifeOf(r)' = "open"
      BY <3>3 DEF LifeOf, OpenFrom, OpenPulls
    <3> QED
      BY <1>1, <2>5, <3>1, <3>2, <3>4 DEF Life!Reopen
  <2> QED
    BY <1>1, <2>3, <2>2, <2>5, <2>6 DEF PullRequest
<1> QED
  BY <1>2, <1>3

LEMMA EditImplements ==
    ASSUME CloseInv, EditStep
    PROVE  \/ \E r \in Refs : Life!Close(r)
           \/ LifeKept /\ UNCHANGED heads
<1> USE DEF CloseInv, KeepInv, VisitInv, BranchInv
<1>1. /\ GitHubTypeOK /\ UNCHANGED heads
      /\ \A n \in Numbers : pulls[n] \in PullRequest
  BY PullType DEF EditStep, IInv, TypeOK
<1>2. /\ HeadsKept
      /\ \A n \in Numbers : pulls'[n].frozen = pulls[n].frozen
      /\ \A n \in Numbers : /\ pulls'[n].open \in BOOLEAN
                            /\ pulls'[n].open => pulls[n].open
  <2>1. PullsKept /\ \A n \in Numbers : pulls'[n].frozen = pulls[n].frozen
    BY <1>1, EditedKeeps DEF EditStep
  <2>2. DOMAIN pulls' = 1..Len(pulls') /\ \A n \in DOMAIN pulls' : pulls'[n] \in PullRequest
    BY <2>1 DEF PullsKept
  <2>3. \A n \in Numbers : pulls'[n] \in PullRequest
    BY <2>1, <2>2 DEF PullsKept, Numbers
  <2> QED
    BY <2>1, <2>3 DEF PullsKept, HeadsKept, PullRequest
<1>3. CASE \A n \in Numbers : pulls[n].open => pulls'[n].open
  <2>1. \A n \in Numbers : pulls'[n].open <=> pulls[n].open
    BY <1>2, <1>3
  <2> QED
    BY <1>1, <1>2, <2>1, LifeStays DEF LifeKept
<1>4. CASE ~\A n \in Numbers : pulls[n].open => pulls'[n].open
  <2>1. PICK n \in Numbers : pulls[n].open /\ ~pulls'[n].open
    BY <1>4
  <2>2. \A m \in Numbers \ {n} : pulls'[m].open = pulls[m].open
    BY <1>1, <2>1 DEF EditStep, Edited, EditOf, Numbers
  <2> DEFINE r == pulls[n].head
  <2>3. r \in Refs /\ n \in Nat /\ \A m \in Numbers : m \in Nat
    BY <1>1, NumbersArePositive DEF PullRequest
  <2>4. \A q \in Refs : q # r => LifeOf(q)' = LifeOf(q)
    BY <1>1, <1>2, <2>1, <2>2, TurnedElsewhere
  <2>5. OpenFrom(r) = {n}
    <3>1. ASSUME NEW m \in OpenFrom(r)
          PROVE  m = n
      <4>1. m <= n /\ n <= m
        BY <2>1, <3>1 DEF OpenFrom, OpenPulls, GInv, OpenIsNewest, Newest
      <4>2. m \in Nat /\ n \in Nat
        BY <2>3, <3>1 DEF OpenFrom, OpenPulls
      <4> QED
        BY <4>1, <4>2
    <3>2. n \in OpenFrom(r)
      BY <2>1 DEF OpenFrom, OpenPulls
    <3> QED
      BY <3>1, <3>2
  <2>6. ~pulls[n].frozen
    BY <2>1 DEF GInv, FrozenIsClosed
  <2> HIDE DEF r
  <2>7. LifeOf(r) = "open"
    BY <2>5 DEF LifeOf
  <2>8. \A q : q = r => LifeOf(q)' = "closed"
    <3> SUFFICES ASSUME NEW q, q = r PROVE LifeOf(q)' = "closed"
      OBVIOUS
    <3>1. OpenFrom(q)' = {}
      BY <1>2, <2>1, <2>5 DEF HeadsKept, OpenFrom, OpenPulls
    <3>2. n \in Reopenable(q)'
      BY <1>2, <2>1, <2>6 DEF HeadsKept, Reopenable, ClosedPulls, OpenPulls, r
    <3> QED
      BY <3>1, <3>2 DEF LifeOf
  <2>9. Life!Close(r)
    BY <1>1, <2>3, <2>4, <2>7, <2>8 DEF Life!Close
  <2> QED
    BY <2>3, <2>9
<1> QED
  BY <1>3, <1>4

LEMMA DeleteImplements ==
    ASSUME CloseInv, NEW refs, DeleteRefs(refs),
           \A r \in refs \cap Refs : heads[r] # Gone => OpenFrom(r) = {}
    PROVE  \E S \in SUBSET {r \in Refs : heads[r] # Gone} : Life!Delete(S)
<1> USE DEF CloseInv, KeepInv, VisitInv, BranchInv
<1> DEFINE there == {r \in Refs : heads[r] # Gone}
<1> PICK S : S = refs \cap there
  OBVIOUS
<1>1. GitHubTypeOK /\ \A n \in Numbers : pulls[n] \in PullRequest
  BY PullType DEF IInv, TypeOK
<1>2. there' = there \ S
  BY <1>1 DEF DeleteRefs
<1>3. \A r \in S : LifeOf(r) # "open"
  BY DEF LifeOf
<1>4. HeadsKept
  BY <1>1 DEF DeleteRefs, HeadsKept, PullRequest, Numbers
<1>5. ASSUME NEW n \in Numbers
      PROVE  IF pulls[n].head \in refs
             THEN ~pulls'[n].open /\ pulls'[n].frozen
             ELSE pulls'[n] = pulls[n]
  BY <1>1 DEF DeleteRefs, PullRequest
<1>6. ASSUME NEW r \in Refs \ S
      PROVE  LifeOf(r)' = LifeOf(r)
  <2>1. CASE r \notin refs
    BY <1>4, <1>5, <2>1, LifeStays
  <2>2. CASE r \in refs
    <3>1. heads[r] = Gone
      BY <1>6, <2>2
    <3>2. \A n \in Numbers : pulls[n].head = r => pulls[n].frozen /\ ~pulls[n].open
      BY <3>1 DEF GInv, FrozenIsClosed
    <3> QED
      BY <1>4, <1>5, <2>2, <3>2, LifeStays
  <2> QED
    BY <2>1, <2>2
<1>7. ASSUME NEW r \in S
      PROVE  LifeOf(r)' = IF LifeOf(r) = "closed" THEN "lost" ELSE LifeOf(r)
  <2>1. OpenFrom(r) = {} /\ OpenFrom(r)' = {} /\ Reopenable(r)' = {}
    BY <1>4, <1>5, <1>7 DEF HeadsKept, OpenFrom, OpenPulls, Reopenable, ClosedPulls
  <2>2. (\E n \in Numbers : pulls[n].head = r)' <=> \E n \in Numbers : pulls[n].head = r
    BY <1>4 DEF HeadsKept
  <2>3. Reopenable(r) # {} => \E n \in Numbers : pulls[n].head = r
    BY DEF Reopenable, ClosedPulls
  <2> QED
    BY <2>1, <2>2, <2>3 DEF LifeOf
<1>8. S \in SUBSET there /\ S \subseteq Refs
  OBVIOUS
<1>9. Life!Delete(S)
  BY <1>2, <1>3, <1>6, <1>7, <1>8 DEF Life!Delete
<1> QED
  BY <1>8, <1>9

\* The variables of BranchLife do not change.
Stutters ==
    /\ UNCHANGED {r \in Refs : heads[r] # Gone}
    /\ UNCHANGED [r \in Refs |-> LifeOf(r)]

LEMMA KeptStutters ==
    ASSUME LifeKept, {r \in Refs : heads[r] # Gone}' = {r \in Refs : heads[r] # Gone}
    PROVE  Stutters
<1>1. [r \in Refs |-> LifeOf(r)]' = [r \in Refs |-> LifeOf(r)]
  BY DEF LifeKept
<1> QED
  BY <1>1 DEF Stutters

LEMMA LifeAtStart ==
    ASSUME Init
    PROVE  /\ {r \in Refs : heads[r] # Gone} = {}
           /\ [r \in Refs |-> LifeOf(r)] = [r \in Refs |-> "none"]
<1>1. heads = [r \in Refs |-> Gone] /\ Numbers = {}
  BY DEF Init, GitHubInit, Numbers
<1>2. \A r \in Refs : LifeOf(r) = "none"
  BY <1>1 DEF LifeOf, OpenFrom, OpenPulls, Reopenable, ClosedPulls
<1> QED
  BY <1>1, <1>2

LEMMA StepImplements ==
    ASSUME CloseInv, [Next]_vars
    PROVE  Life!Next \/ Stutters
<1> USE DEF CloseInv, KeepInv, VisitInv, BranchInv
<1>1. UNCHANGED <<heads, pulls>> => Stutters
  BY LifeStays, KeptStutters DEF LifeKept, HeadsKept, Numbers
<1>2. CASE EditStep
  <2>1. CASE \E r \in Refs : Life!Close(r)
    BY <2>1 DEF Life!Next
  <2>2. CASE LifeKept /\ UNCHANGED heads
    BY <2>2, KeptStutters
  <2> QED
    BY <1>2, <2>1, <2>2, EditImplements
<1>3. CASE (PushDummy \/ PushNewBranch \/ PushUpdate) /\ Patching
  <2>1. PICK r \in Refs : r = Ref
    BY <1>3, PushImplements
  <2>2. Life!Push(r)
    BY <1>3, <2>1, PushImplements DEF Life!Push
  <2> QED
    BY <2>2 DEF Life!Next
<1>4. CASE CreatePr /\ Patching
  <2>1. CASE Raise
    BY <1>1, <2>1 DEF Raise, ghVars
  <2>2. CASE ~Raise
    <3>1. PICK n : Created(n)
      BY <1>4, <2>2, CreatedPr
    <3>2. pc \in {"create", "dummy"}
      BY <1>4 DEF CreatePr
    <3>3. PICK r \in Refs : r = Ref
      BY <1>4, <3>2, JobInHandler DEF WorkerPcs
    <3>4. Life!Create(r)
      BY <3>1, <3>2, <3>3, CreateImplements DEF Life!Create
    <3> QED
      BY <3>4 DEF Life!Next
  <2> QED
    BY <2>1, <2>2
<1>5. CASE ReopenPr /\ Patching
  <2>1. PICK r \in Refs : r = Ref
    BY <1>5, JobInHandler DEF ReopenPr, WorkerPcs
  <2>2. Life!Reopen(r) \/ (LifeKept /\ UNCHANGED heads)
    BY <1>5, <2>1, ReopenImplements DEF Life!Reopen
  <2> QED
    BY <2>2, KeptStutters DEF Life!Next
<1>6. CASE DeleteClosedBranch
  <2>1. CASE Raise
    BY <1>1, <2>1 DEF Raise, ghVars
  <2>2. CASE ~Raise
    <3>1. DeleteRefs({Ref}) /\ pc = "delete"
      BY <1>6, <2>2 DEF DeleteClosedBranch
    <3>2. PICK S \in SUBSET {r \in Refs : heads[r] # Gone} : Life!Delete(S)
      BY <3>1, DeletedHaveNone, DeleteImplements
    <3> QED
      BY <3>2 DEF Life!Next
  <2> QED
    BY <2>1, <2>2
<1>7. CASE ExpireBranches
  <2>1. PICK aged : DeleteRefs(ExpirableBranches(scan.worker, aged)) /\ pc = "expire"
    BY <1>7 DEF ExpireBranches
  <2>2. PICK S \in SUBSET {r \in Refs : heads[r] # Gone} : Life!Delete(S)
    BY <2>1, ExpirableHaveNone, DeleteImplements
  <2> QED
    BY <2>2 DEF Life!Next
<1>8. CASE EndCycle \/ \E w \in Workers : Refresh(w)
  <2>1. UNCHANGED pulls
    BY <1>8 DEF EndCycle, Refresh, ghVars
  <2>2. \A r \in Refs : heads[r] # Gone <=> heads'[r] # Gone
    BY <1>8 DEF EndCycle, Refresh, MoveUpstream, ghVars, Gone, Outdated
  <2> QED
    BY <2>1, <2>2, LifeStays, KeptStutters DEF LifeKept, HeadsKept, Numbers
<1> QED
  BY <1>2, <1>3, <1>4, <1>5, <1>6, <1>7, <1>8, StepKinds DEF MovingStep

\* Where every branch has one visit in a cycle and only the daemon closes pull
\* requests, the daemon implements BranchLife: through every exception, restart
\* and change of series, each branch has at most one open pull request, which is
\* re-opened as long as it can be, and never loses the chance to a push.
THEOREM BranchLifeImplemented ==
    ASSUME OneVisit, ~PeopleClose
    PROVE  Spec => ImplementsBranchLife
<1>1. Init => Life!Init
  BY LifeAtStart DEF Life!Init
<1>2. CloseInv /\ [Next]_vars =>
          [Life!Next]_<<{r \in Refs : heads[r] # Gone}, [r \in Refs |-> LifeOf(r)]>>
  BY StepImplements DEF Stutters
<1> QED
  BY <1>1, <1>2, CloseInvariant, PTL DEF Spec, ImplementsBranchLife, Life!Spec
=============================================================================
