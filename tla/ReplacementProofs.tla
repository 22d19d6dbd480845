------------------------- MODULE ReplacementProofs -------------------------
(***************************************************************************)
(* A theorem about close_existing_prs_for_series: what replaces the pull   *)
(* requests of a subject is open.  It is for the conditions of             *)
(* BranchLifeProofs and a mapping that lists no target twice.              *)
(***************************************************************************)
EXTENDS BranchLifeProofs

Distinct(targets) ==
    \A j, k \in DOMAIN targets : targets[j] = targets[k] => j = k

TargetsDistinct == \A m \in Mappings : Distinct(m)

\* The targets of a visit to a relevant subject are tried once each.
RestOK ==
    pc \in VisitPcs /\ ~job.old =>
        /\ Distinct(job.rest)
        /\ pc \in HandlerPcs => \A k \in DOMAIN job.rest : job.rest[k] # job.worker

\* The visit at hand has still to settle target w of subject t.
VisitTo(t, w) ==
    /\ pc \in VisitPcs /\ job.subject = t /\ job.pr = NoPR
    /\ \/ \E k \in DOMAIN job.rest : job.rest[k] = w
       \/ pc \in {"patch", "push", "comment"} /\ job.worker = w

\* Nothing was done for subject t on target w in this cycle so far.
ToCome(t, w) == ~OldPhase /\ (t \notin names \/ queue[t] > 0 \/ VisitTo(t, w))

\* So its pull request is open as it was when the worker was refreshed.
ToComeOpen ==
    pc # "raised" => \A r \in Refs :
        all_prs[r] # NoPR /\ ToCome(SubjectOf(r), TargetOf(r)) => pulls[all_prs[r]].open

TouchOK == pc = "comment" /\ job.path = "touch" => all_prs[Ref] # NoPR

\* A visit finds a pull request that is open, and keeps it so.
FoundOpen ==
    pc \in {"label", "push", "returned", "others"} /\ job.pr # NoPR /\ ~job.old =>
        pulls[job.pr].open

\* What is closed for it belongs to the same subject.
OthersOK ==
    pc = "others" =>
        /\ job.pr \in Numbers
        /\ job.subject \in names /\ queue[job.subject] = 0
        /\ \A n \in toClose : n # job.pr /\ SubjectOf(pulls[n].head) = job.subject

ReplaceInv ==
    CloseInv /\ RestOK /\ ToComeOpen /\ TouchOK /\ FoundOpen /\ OthersOK

LEMMA RestKept ==
    ASSUME IInv, VisitOK, Patching
    PROVE  job'.rest = job.rest
<1>1. job \in Jobs
  BY HandlerSteps
<1>2. UNCHANGED job \/ \E n, p : job' = [job EXCEPT !.pr = n] \/ job' = [job EXCEPT !.path = p]
  BY DEF Patching, CheckoutAndPatch, CloseSeriesPr, DeleteClosedBranch, Apply,
         UseOpenPr, ReopenPr, NoPrToUse, SkipEmptyPr, PushDummy, CreatePr, SetLabels,
         PushNewBranch, PushUpdate, Raise, ReturnNone, Return, Goto, FoundPr
<1> QED
  BY <1>1, <1>2 DEF Jobs

\* What the loop over old subjects does is marked as such.
LEMMA OldJobs ==
    ASSUME NEW t, SyncOldPr(t)
    PROVE  pc = "old" /\ (UNCHANGED <<pc, job>> \/ (pc' = "patch" /\ job'.old))
<1>1. pc = "old" /\ (\/ UNCHANGED <<pc, job>>
                     \/ pc' = "patch" /\ \E u, i : NewJob(u, i, scan.worker, <<>>, TRUE))
  BY DEF SyncOldPr
<1>2. (\E u, i : NewJob(u, i, scan.worker, <<>>, TRUE)) => job'.old
  BY DEF NewJob
<1> QED
  BY <1>1, <1>2

LEMMA RestOKNext ==
    ASSUME IInv, PhaseInv, TargetsDistinct, RestOK, [Next]_vars
    PROVE  RestOK'
<1> USE DEF PhaseInv
<1> SUFFICES ASSUME pc' \in VisitPcs, ~job'.old
             PROVE  RestOK'
  BY DEF RestOK
<1>1. CASE UNCHANGED vars \/ People
  BY <1>1 DEF vars, People, ClosePrByHand, workerVars, RestOK
<1>2. CASE Patching
  <2>1. job'.rest = job.rest /\ pc \in HandlerPcs /\ HandlerStep
    BY <1>2, RestKept, HandlerSteps DEF HandlerPcs
  <2> QED
    BY <2>1 DEF RestOK, HandlerStep, VisitPcs
<1>3. ASSUME NEW t \in Subjects, PickSubject(t)
      PROVE  RestOK'
  <2>1. /\ pc' = "target"
        /\ \E i \in LatestSeries(t) : \E targets \in SelectTargets(i) :
              NewJob(t, i, Head(targets), targets, FALSE)
    BY <1>3 DEF PickSubject, VisitPcs, HandlerPcs, WorkerPcs
  <2> PICK i \in LatestSeries(t) : \E targets \in SelectTargets(i) :
             NewJob(t, i, Head(targets), targets, FALSE)
    BY <2>1
  <2> PICK targets \in SelectTargets(i) : NewJob(t, i, Head(targets), targets, FALSE)
    OBVIOUS
  <2>2. series[i].targets \in Mappings
    BY DEF LatestSeries, RelevantSeries, Posted, IInv, TypeOK, PatchworkTypeOK,
                PostedSeries, NotPosted
  <2>3. Distinct(targets)
    <3>1. CASE targets = series[i].targets
      BY <2>2, <3>1 DEF TargetsDistinct
    <3>2. CASE \E w : targets = <<w>>
      BY <3>2 DEF Distinct
    <3> QED
      BY <3>1, <3>2 DEF SelectTargets
  <2>4. job'.rest = targets
    BY DEF NewJob
  <2> QED
    BY <2>1, <2>3, <2>4 DEF RestOK, HandlerPcs, WorkerPcs
<1>4. CASE TryTarget
  <2>1. pc = "target" /\ job \in Jobs /\ ~job.old /\ job.rest # <<>>
    BY <1>4, VisitJob DEF TryTarget, VisitPcs
  <2>2. job.rest \in Seq(Workers) /\ Distinct(job.rest)
    BY <2>1 DEF Jobs, RestOK, VisitPcs
  <2>3. job'.rest = Tail(job.rest) /\ job'.worker = Head(job.rest)
    <3>1. PICK b : job' = [job EXCEPT !.rest = Tail(@), !.worker = Head(job.rest),
                                      !.branch = b, !.path = "none", !.pr = NoPR]
      BY <1>4 DEF TryTarget, Raise, VisitPcs, HandlerPcs, WorkerPcs
    <3> QED
      BY <2>1, <3>1 DEF Jobs
  <2>4. /\ Len(job.rest) \in Nat /\ Len(job.rest) > 0
        /\ DOMAIN job.rest = 1..Len(job.rest)
        /\ DOMAIN Tail(job.rest) = 1..(Len(job.rest) - 1)
        /\ \A k \in DOMAIN Tail(job.rest) : Tail(job.rest)[k] = job.rest[k + 1]
        /\ Head(job.rest) = job.rest[1]
    BY <2>1, <2>2
  <2>5. Distinct(Tail(job.rest))
    <3> SUFFICES ASSUME NEW j \in DOMAIN Tail(job.rest), NEW k \in DOMAIN Tail(job.rest),
                        Tail(job.rest)[j] = Tail(job.rest)[k]
                 PROVE  j = k
      BY DEF Distinct
    <3>1. /\ j \in Nat /\ k \in Nat
          /\ j + 1 \in DOMAIN job.rest /\ k + 1 \in DOMAIN job.rest
          /\ job.rest[j + 1] = job.rest[k + 1]
      BY <2>4
    <3>2. j + 1 = k + 1
      BY <2>2, <3>1 DEF Distinct
    <3> QED
      BY <3>1, <3>2
  <2>6. \A k \in DOMAIN Tail(job.rest) : Tail(job.rest)[k] # Head(job.rest)
    BY <2>2, <2>4 DEF Distinct
  <2> QED
    BY <2>3, <2>5, <2>6 DEF RestOK
<1>5. CASE NoPrReturned
  BY <1>5, VisitJob DEF NoPrReturned, RestOK, VisitPcs, HandlerPcs, WorkerPcs
<1>6. ASSUME NEW t \in Subjects, SyncOldPr(t)
      PROVE  RestOK'
  BY <1>6, OldJobs DEF VisitPcs, HandlerPcs, WorkerPcs
<1>7. CASE Fault \/ StartCycle \/ (\E w \in Workers : Refresh(w)) \/ FetchSubjects
           \/ NoTargetLeft \/ SyncChecks \/ (\E n \in Numbers : CloseOther(n))
           \/ SubjectDone
  BY <1>7 DEF Fault, StartCycle, Refresh, FetchSubjects, NoTargetLeft, SyncChecks,
              CloseOther, SubjectDone, VisitPcs, HandlerPcs, WorkerPcs
<1>8. CASE AllSubjectsDone \/ (\E w \in Workers : StartScan(w)) \/ ScanRaises
           \/ (\E t \in Subjects : SkipOldPr(t)) \/ ScanDone \/ ExpireBranches
           \/ EndCycle
  BY <1>8 DEF AllSubjectsDone, StartScan, ScanRaises, Raise, SkipOldPr, ScanDone,
              ExpireBranches, EndCycle, ForgetAll, workerVars, VisitPcs, HandlerPcs,
              WorkerPcs
<1> QED
  BY <1>1, <1>2, <1>3, <1>4, <1>5, <1>6, <1>7, <1>8 DEF Next, Daemon

\* Within a cycle, fewer and fewer targets are to come.
LEMMA ToComeShrinks ==
    ASSUME IInv, CInv, PhaseInv, [Next]_vars, pc # "raised", pc' # "raised", ~EndCycle,
           NEW t \in Subjects, NEW w \in Workers, ToCome(t, w)'
    PROVE  ToCome(t, w)
<1> USE DEF PhaseInv
<1>1. CASE UNCHANGED <<pc, job, names, queue>>
  BY <1>1 DEF ToCome, OldPhase, VisitTo
<1>2. CASE UNCHANGED vars \/ People
  BY <1>1, <1>2 DEF vars, People, ClosePrByHand, workerVars, cycleVars
<1>3. CASE Patching
  <2>1. /\ pc \in HandlerPcs /\ pc' \in HandlerPcs /\ HandlerStep
        /\ job'.rest = job.rest /\ UNCHANGED <<names, queue>>
    BY <1>3, RestKept, HandlerSteps DEF HandlerStep, HandlerPcs, cycleVars
  <2>2. OldPhase' <=> OldPhase
    BY <2>1 DEF HandlerStep, OldPhase, HandlerPcs, VisitPcs, WorkerPcs
  <2>3. pc' \in {"patch", "push", "comment"} /\ job'.pr = NoPR =>
            pc \in {"patch", "push", "comment"}
    <3>1. pc = "label" => job.pr # NoPR
      BY NumbersArePositive DEF CInv, JobSound, IInv, TypeOK, NoPR
    <3> QED
      BY <1>3, <2>1, <3>1
         DEF HandlerStep, Patching, CheckoutAndPatch, CloseSeriesPr,
             DeleteClosedBranch, Apply, UseOpenPr, ReopenPr, NoPrToUse, SkipEmptyPr,
             PushDummy, CreatePr, SetLabels, PushNewBranch, PushUpdate, Raise,
             ReturnNone, Return, Goto
  <2>4. VisitTo(t, w)' => VisitTo(t, w)
    BY <2>1, <2>3 DEF HandlerStep, VisitTo, VisitPcs
  <2> QED
    BY <2>1, <2>2, <2>4 DEF ToCome
<1>4. CASE StartCycle \/ (\E v \in Workers : Refresh(v)) \/ FetchSubjects
  BY <1>4 DEF StartCycle, Refresh, FetchSubjects, QueueOK, ToCome, OldPhase, VisitPcs,
              HandlerPcs, WorkerPcs
<1>5. ASSUME NEW u \in Subjects, PickSubject(u)
      PROVE  ToCome(t, w)
  <2>1. ~OldPhase /\ queue \in [Subjects -> Nat] /\ queue[u] > 0 /\ UNCHANGED names
    BY <1>5, GithubSyncAssumption
       DEF PickSubject, Dequeue, OldPhase, VisitPcs, HandlerPcs, WorkerPcs,
           IInv, TypeOK, CycleTypeOK
  <2>2. CASE t = u
    BY <2>1, <2>2 DEF ToCome
  <2>3. CASE t # u
    <3>1. queue'[t] = queue[t]
      BY <1>5, <2>1, <2>3 DEF PickSubject, Dequeue
    <3>2. ~VisitTo(t, w)'
      <4>1. CASE pc' = "target"
        BY <1>5, <2>3, <4>1 DEF PickSubject, NewJob, VisitTo
      <4> QED
        BY <1>5, <4>1 DEF PickSubject, VisitTo, VisitPcs, HandlerPcs, WorkerPcs
    <3> QED
      BY <2>1, <3>1, <3>2 DEF ToCome
  <2> QED
    BY <2>2, <2>3
<1>6. CASE TryTarget
  <2>1. /\ pc = "target" /\ pc' \in {"target", "patch"} /\ job.rest # <<>>
        /\ \E b \in BranchSeries :
              job' = [job EXCEPT !.rest = Tail(@), !.worker = Head(job.rest),
                                 !.branch = b, !.path = "none", !.pr = NoPR]
        /\ UNCHANGED <<names, queue>>
    BY <1>6 DEF TryTarget, Raise, cycleVars
  <2>2. job \in Jobs /\ ~job.old /\ job.pr = NoPR
    BY <2>1, VisitJob DEF VisitPcs, VisitOK, FreshPcs
  <2>3. /\ job'.subject = job.subject /\ job'.rest = Tail(job.rest)
        /\ job'.worker = Head(job.rest)
    BY <2>1, <2>2 DEF Jobs
  <2>4. ~OldPhase
    BY <2>1, <2>2 DEF OldPhase
  <2>5. job.rest \in Seq(Workers)
    BY <2>2 DEF Jobs
  <2>6. /\ 1 \in DOMAIN job.rest /\ Head(job.rest) = job.rest[1]
        /\ \A k \in DOMAIN Tail(job.rest) :
              k + 1 \in DOMAIN job.rest /\ Tail(job.rest)[k] = job.rest[k + 1]
    BY <2>1, <2>5
  <2>7. VisitTo(t, w)' => VisitTo(t, w)
    BY <2>1, <2>2, <2>3, <2>6 DEF VisitTo, VisitPcs
  <2> QED
    BY <2>1, <2>4, <2>7 DEF ToCome
<1>7. CASE NoPrReturned \/ SyncChecks
  <2>1. UNCHANGED <<names, queue>> /\ pc = "returned"
    BY <1>7 DEF NoPrReturned, SyncChecks, cycleVars
  <2>2. ~OldPhase' => ~job.old
    BY <1>7 DEF NoPrReturned, SyncChecks, OldPhase
  <2>3. ~job.old => UNCHANGED job /\ pc' \in {"target", "others"} /\ ~OldPhase
    BY <1>7, <2>1 DEF NoPrReturned, SyncChecks, OldPhase, VisitPcs, HandlerPcs
  <2>4. ~job.old => (VisitTo(t, w)' => VisitTo(t, w))
    BY <2>1, <2>3 DEF VisitTo, VisitPcs, HandlerPcs
  <2> QED
    BY <2>1, <2>2, <2>3, <2>4 DEF ToCome
<1>8. CASE NoTargetLeft \/ SubjectDone \/ (\E n \in Numbers : CloseOther(n))
  <2>1. ~OldPhase /\ ~VisitTo(t, w)' /\ UNCHANGED <<names, queue>>
    BY <1>8, VisitJob DEF NoTargetLeft, SubjectDone, CloseOther, OldPhase, VisitTo,
         VisitPcs, HandlerPcs, WorkerPcs, cycleVars
  <2> QED
    BY <2>1 DEF ToCome
<1>9. CASE Fault \/ ScanRaises
  BY <1>9 DEF Fault, ScanRaises, Raise
<1>10. CASE AllSubjectsDone \/ (\E v \in Workers : StartScan(v))
            \/ (\E u \in Subjects : SkipOldPr(u) \/ SyncOldPr(u)) \/ ScanDone
            \/ ExpireBranches
  <2>1. OldPhase'
    <3>1. ASSUME NEW u \in Subjects, SyncOldPr(u)
          PROVE  OldPhase'
      BY <3>1, OldJobs DEF OldPhase, VisitPcs, HandlerPcs, WorkerPcs
    <3> QED
      BY <1>10, <3>1 DEF AllSubjectsDone, StartScan, SkipOldPr, ScanDone,
           ExpireBranches, workerVars, OldPhase
  <2> QED
    BY <2>1 DEF ToCome
<1> QED
  BY <1>2, <1>3, <1>4, <1>5, <1>6, <1>7, <1>8, <1>9, <1>10 DEF Next, Daemon

\* The three ways in which the daemon closes a pull request.
LEMMA ClosedByDaemon ==
    ASSUME VisitInv, ~PeopleClose, [Next]_vars, ~EndCycle,
           NEW n \in Numbers, pulls[n].open, ~pulls'[n].open
    PROVE  \/ CloseSeriesPr /\ Patching /\ pulls[n].head = Ref
           \/ CloseOther(n)
           \/ \E t \in Subjects : SyncOldPr(t)
<1> USE DEF VisitInv, BranchInv
<1>1. n \notin seenClosed
  BY DEF GInv, ClosedSeen, ClosedPulls, OpenPulls
<1>2. n \in seenClosed'
  BY AccountedStays DEF Accounted
<1>3. ~UNCHANGED seenClosed /\ ~UNCHANGED pulls /\ ~(seenClosed' \subseteq seenClosed)
  BY <1>1, <1>2
<1>4. ~UNCHANGED vars /\ ~People /\ ~Fault
  BY <1>3 DEF vars, People, ClosePrByHand, Fault, ghVars, workerVars, memVars
<1>5. CASE Patching
  <2>1. CloseSeriesPr
    BY <1>3, <1>5, CreatedPr
       DEF Patching, CheckoutAndPatch, DeleteClosedBranch, Apply, UseOpenPr, ReopenPr,
           NoPrToUse, SkipEmptyPr, PushDummy, CreatePr, Created, SetLabels,
           PushNewBranch, PushUpdate, GitPush, Raise, memVars
  <2>2. n \in GuessPr(Ref)
    BY <1>1, <1>2, <2>1 DEF CloseSeriesPr
  <2> QED
    BY <1>5, <2>1, <2>2, GuessPrType DEF CloseSeriesPr, WorkerPcs
<1>6. ASSUME NEW m \in Numbers, CloseOther(m)
      PROVE  m = n
  BY <1>1, <1>2, <1>6 DEF CloseOther
<1>7. ~SyncChecks /\ ~ScanRaises /\ ~TryTarget
  BY <1>3 DEF SyncChecks, ScanRaises, TryTarget, Raise, ghVars, memVars
<1>8. ~(\/ StartCycle \/ (\E w \in Workers : Refresh(w)) \/ FetchSubjects
        \/ (\E t \in Subjects : PickSubject(t)) \/ NoTargetLeft \/ NoPrReturned
        \/ SubjectDone \/ AllSubjectsDone \/ (\E w \in Workers : StartScan(w))
        \/ (\E t \in Subjects : SkipOldPr(t)) \/ ScanDone \/ ExpireBranches)
  BY <1>3
     DEF StartCycle, Refresh, FetchSubjects, PickSubject, NoTargetLeft, NoPrReturned,
         SubjectDone, AllSubjectsDone, StartScan, SkipOldPr, ScanDone,
         ExpireBranches, memVars, workerVars
<1> QED
  BY <1>4, <1>5, <1>6, <1>7, <1>8 DEF Next, Daemon

LEMMA ToComeOpenNext ==
    ASSUME ReplaceInv, OneVisit, ~PeopleClose, [Next]_vars
    PROVE  ToComeOpen'
<1> USE DEF ReplaceInv, CloseInv, KeepInv, VisitInv, BranchInv
<1> SUFFICES ASSUME pc' # "raised", NEW r \in Refs, all_prs'[r] # NoPR,
                    ToCome(SubjectOf(r), TargetOf(r))'
             PROVE  pulls'[all_prs'[r]].open
  BY DEF ToComeOpen
<1>1. ~EndCycle
  BY DEF EndCycle, ForgetAll, NoRefs
<1>2. pc # "raised"
  BY <1>1, RaisedStays
<1>3. CASE all_prs'[r] # all_prs[r]
  BY <1>1, <1>3, KnownOrOpen
<1>4. CASE all_prs'[r] = all_prs[r]
  <2>1. PICK n \in Numbers : n = all_prs[r] /\ pulls[n].head = r
    BY <1>4 DEF IInv, TypeOK, MemTypeOK, PrHeads
  <2>2. SeriesOf(r) \in BranchNames /\ Named(SeriesOf(r))
    BY <2>1 DEF IInv, Grounded, Refs, SeriesOf
  <2>3. PICK t \in Subjects, w \in Workers : t = SubjectOf(r) /\ w = TargetOf(r)
    BY <2>2, OwnerKept DEF SubjectOf, Refs, TargetOf
  <2>4. SubjectOf(r)' = t
    BY <2>2, <2>3, OwnerKept DEF SubjectOf
  <2>5. ToCome(t, w)'
    BY <2>3, <2>4
  <2>6. ToCome(t, w)
    BY <1>1, <1>2, <2>5, ToComeShrinks
  <2>7. pulls[n].open
    BY <1>2, <1>4, <2>1, <2>3, <2>6 DEF ToComeOpen
  <2>8. ~(CloseSeriesPr /\ Patching /\ pulls[n].head = Ref)
    <3> SUFFICES ASSUME CloseSeriesPr, Patching, pulls[n].head = Ref
                 PROVE  FALSE
      OBVIOUS
    <3>1. /\ pc \in HandlerPcs /\ pc \in VisitPcs /\ job'.rest = job.rest /\ HandlerStep
          /\ UNCHANGED <<names, queue>>
      BY RestKept, HandlerSteps DEF PhaseInv, HandlerPcs, VisitPcs, cycleVars
    <3>2. t = job.subject /\ w = job.worker
      BY <2>1, <2>3, <3>1 DEF PhaseInv, VisitOK, SubjectOf, SeriesOf, TargetOf, Ref
    <3>3. ~job.old
      BY <2>6, <3>1 DEF ToCome, OldPhase
    <3>4. pc' \in {"delete", "returned"}
      BY DEF CloseSeriesPr, ReturnNone, Return, Goto
    <3>5. ~VisitTo(t, w)'
      BY <3>1, <3>2, <3>3, <3>4 DEF VisitTo, HandlerStep, RestOK
    <3> QED
      BY <2>5, <3>1, <3>2, <3>3, <3>5 DEF ToCome, PhaseInv, VisitOK
  <2>9. ~CloseOther(n)
    <3> SUFFICES ASSUME CloseOther(n)
                 PROVE  FALSE
      OBVIOUS
    <3>1. t \in names /\ queue[t] = 0
      BY <2>1, <2>3 DEF CloseOther, OthersOK
    <3>2. ~VisitTo(t, w)
      BY DEF CloseOther, VisitTo, VisitPcs, HandlerPcs, WorkerPcs
    <3> QED
      BY <2>6, <3>1, <3>2 DEF ToCome
  <2>10. \A u \in Subjects : ~SyncOldPr(u)
    BY <2>6, OldJobs DEF ToCome, OldPhase
  <2> QED
    BY <1>1, <1>4, <2>1, <2>7, <2>8, <2>9, <2>10, ClosedByDaemon
<1> QED
  BY <1>3, <1>4

LEMMA TouchOKNext ==
    ASSUME VisitInv, TouchOK, [Next]_vars
    PROVE  TouchOK'
<1> USE DEF VisitInv, BranchInv
<1> SUFFICES ASSUME pc' = "comment", job'.path = "touch"
             PROVE  TouchOK'
  BY DEF TouchOK
<1>1. CASE UNCHANGED vars \/ People
  BY <1>1 DEF vars, People, ClosePrByHand, workerVars, memVars, TouchOK, Ref
<1>2. CASE Patching
  <2>1. job \in Jobs /\ pc \in WorkerPcs
    BY <1>2, HandlerSteps DEF PhaseInv
  <2>2. CASE Apply
    <3>1. PICK outcome \in TryApply(job.series, job.worker) :
            job' = [job EXCEPT !.path = PathFor(outcome)]
      BY <2>2 DEF Apply, ReturnNone, Return
    <3>2. PathFor(outcome) = "touch" /\ Ref' = Ref
      BY <2>1, <3>1 DEF Jobs, Ref
    <3>3. all_prs[Ref] # NoPR
      BY <3>2 DEF PathFor
    <3> QED
      BY <2>2, <3>2, <3>3 DEF TouchOK, Apply, memVars
  <2>3. CASE ~Apply
    BY <1>2, <2>1, <2>3
       DEF Patching, CheckoutAndPatch, CloseSeriesPr, DeleteClosedBranch, UseOpenPr,
           ReopenPr, NoPrToUse, SkipEmptyPr, PushDummy, CreatePr, SetLabels,
           PushNewBranch, PushUpdate, Raise, ReturnNone, Return, Goto
  <2> QED
    BY <2>2, <2>3
<1>3. CASE Fault \/ (Daemon /\ ~Patching)
  BY <1>3, OldJobs DEF Fault, Daemon, StartCycle, Refresh, FetchSubjects, PickSubject,
         TryTarget, Raise, NoTargetLeft, NoPrReturned, SyncChecks, CloseOther,
         SubjectDone, AllSubjectsDone, StartScan, ScanRaises, SkipOldPr, ScanDone,
         ExpireBranches, EndCycle, ForgetAll, workerVars
<1> QED
  BY <1>1, <1>2, <1>3 DEF Next

LEMMA FoundOpenNext ==
    ASSUME ReplaceInv, ~PeopleClose, [Next]_vars
    PROVE  FoundOpen'
<1> USE DEF ReplaceInv, CloseInv, KeepInv, VisitInv, BranchInv
<1> SUFFICES ASSUME pc' \in {"label", "push", "returned", "others"}, job'.pr # NoPR,
                    ~job'.old
             PROVE  pulls'[job'.pr].open
  BY DEF FoundOpen
<1>1. GitHubTypeOK
  BY DEF IInv, TypeOK
<1>2. CASE UNCHANGED vars \/ People
  BY <1>2 DEF vars, People, ClosePrByHand, ghVars, workerVars, FoundOpen
<1>3. CASE Patching
  <2>1. job \in Jobs /\ HandlerStep /\ ~job.old /\ pc \in WorkerPcs
    BY <1>3, HandlerSteps DEF PhaseInv, HandlerStep
  <2>2. CASE UseOpenPr
    <3>1. PICK n \in GuessPr(Ref) :
            (~LooksClosed(n) \/ job.path = "touch") /\ FoundPr(n) /\ UNCHANGED pulls
      BY <2>2 DEF UseOpenPr, ghVars
    <3>2. job'.pr = n /\ pc = "comment" /\ job.pr = NoPR /\ Ref \in Refs
      BY <2>1, <2>2, <3>1, JobInHandler
         DEF FoundPr, Jobs, UseOpenPr, PhaseInv, VisitOK, FreshPcs
    <3>3. n = all_prs[Ref] /\ n # NoPR
      BY <3>1, <3>2 DEF LooksClosed, GuessPr, TouchOK
    <3>4. CASE job.path = "touch"
      <4>1. VisitTo(job.subject, job.worker) /\ ~OldPhase
        BY <2>1, <3>2 DEF VisitTo, OldPhase, VisitPcs, HandlerPcs
      <4>2. SubjectOf(Ref) = job.subject /\ TargetOf(Ref) = job.worker
        BY <2>1, <3>2 DEF PhaseInv, VisitOK, VisitPcs, HandlerPcs, SubjectOf, SeriesOf,
                          TargetOf, Ref
      <4>3. ToCome(SubjectOf(Ref), TargetOf(Ref))
        BY <4>1, <4>2 DEF ToCome
      <4> QED
        BY <3>1, <3>2, <3>3, <4>3 DEF ToComeOpen
    <3>5. CASE ~LooksClosed(n)
      BY <3>1, <3>2, <3>3, <3>5 DEF LooksClosed, ClosedIsSeen
    <3> QED
      BY <3>1, <3>4, <3>5
  <2>3. CASE ReopenPr
    <3>1. PICK n \in GuessPr(Ref) :
            pulls' = [pulls EXCEPT ![n].open = TRUE] /\ FoundPr(n)
      BY <2>3 DEF ReopenPr
    <3>2. n \in Numbers /\ pulls[n] \in PullRequest /\ job'.pr = n
      BY <1>1, <2>1, <3>1, GuessPrType, PullType DEF FoundPr, Jobs
    <3> QED
      BY <3>1, <3>2 DEF PullRequest, Numbers
  <2>4. CASE CreatePr
    <3>1. ~Raise
      BY DEF Raise
    <3> QED
      BY <2>1, <2>4, <3>1, CreatedPr DEF Created, Jobs
  <2>5. CASE SetLabels
    <3>1. job.pr \in Numbers /\ job'.pr = job.pr /\ pulls[job.pr].open
      BY <2>1, <2>5, NumbersArePositive
         DEF SetLabels, Goto, Return, Jobs, CInv, JobSound, FoundOpen, IInv, TypeOK, NoPR
    <3>2. pulls[job.pr] \in PullRequest
      BY <1>1, <3>1, PullType
    <3> QED
      BY <2>5, <3>1, <3>2 DEF SetLabels, PullRequest, Numbers
  <2>6. CASE PushUpdate
    <3>1. pulls[job.pr].open /\ job.pr \in Numbers /\ job'.pr = job.pr
      BY <2>1, <2>6 DEF PushUpdate, Return, Jobs, CInv, JobSound
    <3>2. pulls[job.pr] \in PullRequest
      BY <1>1, <3>1, PullType
    <3> QED
      BY <2>6, <3>1, <3>2 DEF PushUpdate, GitPush, ForcePush, Frozen, PullRequest
  <2>7. CASE Apply
    <3>1. job'.pr = NoPR
      <4>1. job.pr = NoPR
        BY <2>7 DEF Apply, PhaseInv, VisitOK, FreshPcs
      <4> QED
        BY <2>1, <2>7, <4>1 DEF Apply, ReturnNone, Return, Jobs
    <3> QED
      BY <3>1
  <2>8. CASE CloseSeriesPr \/ DeleteClosedBranch \/ NoPrToUse \/ SkipEmptyPr
               \/ PushDummy \/ PushNewBranch
    BY <2>1, <2>8 DEF CloseSeriesPr, DeleteClosedBranch, NoPrToUse, SkipEmptyPr,
         PushDummy, PushNewBranch, Raise, ReturnNone, Return, Goto, Jobs
  <2> QED
    BY <1>3, <2>2, <2>3, <2>4, <2>5, <2>6, <2>7, <2>8 DEF Patching, CheckoutAndPatch
<1>4. CASE SyncChecks
  BY <1>4 DEF SyncChecks, ghVars, FoundOpen
<1>5. ASSUME NEW m \in Numbers, CloseOther(m)
      PROVE  pulls'[job'.pr].open
  <2>1. /\ job.pr \in Numbers /\ job.pr # m /\ UNCHANGED job
        /\ pulls[job.pr].open /\ pulls' = Closed(m)
    BY <1>5 DEF CloseOther, OthersOK, FoundOpen
  <2> QED
    BY <2>1 DEF Closed, Numbers
<1>6. CASE Fault \/ (Daemon /\ ~Patching /\ ~SyncChecks /\ \A m \in Numbers : ~CloseOther(m))
  BY <1>6, OldJobs DEF Fault, Daemon, StartCycle, Refresh, FetchSubjects, PickSubject,
         TryTarget, Raise, NoTargetLeft, NoPrReturned,
         SubjectDone, AllSubjectsDone, StartScan, ScanRaises, SkipOldPr, ScanDone,
         ExpireBranches, EndCycle, ForgetAll, workerVars
<1> QED
  BY <1>2, <1>3, <1>4, <1>5, <1>6 DEF Next

LEMMA OthersOKNext ==
    ASSUME ReplaceInv, OneVisit, ~PeopleClose, [Next]_vars
    PROVE  OthersOK'
<1> USE DEF ReplaceInv, CloseInv, KeepInv, VisitInv, BranchInv
<1> SUFFICES ASSUME pc' = "others"
             PROVE  OthersOK'
  BY DEF OthersOK
<1>1. HeadsKept
  <2>1. ~(Patching /\ CreatePr)
    BY DEF CreatePr, Raise
  <2> QED
    BY <2>1, HeadsStay
<1>2. ASSUME NEW n \in Numbers
      PROVE  SubjectOf(pulls[n].head)' = SubjectOf(pulls[n].head)
  <2>1. pulls[n].head \in Refs /\ pulls'[n].head = pulls[n].head
    BY <1>1, PullType DEF HeadsKept, IInv, TypeOK, PullRequest
  <2>2. PICK r \in Refs : r = pulls[n].head
    BY <2>1
  <2>3. SeriesOf(r) \in BranchNames /\ Named(SeriesOf(r))
    BY <2>2 DEF Refs, SeriesOf, IInv, Grounded
  <2>4. SubjectOf(r)' = SubjectOf(r)
    BY <2>3, OwnerKept DEF SubjectOf
  <2> QED
    BY <2>1, <2>2, <2>4 DEF SubjectOf, Owner
<1>3. CASE UNCHANGED <<job, names, queue>> /\ pc = "others" /\ toClose' \subseteq toClose
  <2>1. toClose \subseteq Numbers /\ \A n \in toClose :
            n # job.pr /\ SubjectOf(pulls[n].head) = job.subject
    BY <1>3 DEF OthersOK, IInv, TypeOK, CycleTypeOK
  <2> QED
    BY <1>1, <1>2, <1>3, <2>1 DEF OthersOK, HeadsKept, SubjectOf, Owner
<1>4. CASE UNCHANGED vars \/ People
  BY <1>3, <1>4 DEF vars, People, ClosePrByHand, workerVars, cycleVars
<1>5. CASE SyncChecks
  <2>1. /\ pc = "returned" /\ job.pr # NoPR /\ ~job.old
        /\ toClose' = {n \in ExistingPrs(job.pr) : PrsForTheSameSeries(job.pr, n)}
        /\ UNCHANGED <<job, names, queue, pulls, series>>
    BY <1>5 DEF SyncChecks, pwVars, ghVars
  <2>2. job.pr \in Numbers /\ pulls[job.pr].head = Ref
    BY <2>1 DEF IInv, TypeOK, JobTypeOK, JobPcs, CInv, CheckedPrFetched, Synced
  <2>3. /\ job.subject \in names /\ queue[job.subject] = 0
        /\ SubjectOf(Ref) = job.subject
    BY <2>1 DEF PhaseInv, VisitOK, VisitPcs, HandlerPcs, SubjectOf, SeriesOf, Ref
  <2>4. ASSUME NEW n \in toClose'
        PROVE  n # job.pr /\ SubjectOf(pulls[n].head) = job.subject
    <3>1. n # job.pr /\ n \in Numbers /\ PrsForTheSameSeries(job.pr, n)
      BY <2>1 DEF ExistingPrs, KnownPrs, IInv, TypeOK, MemTypeOK
    <3>2. /\ pulls[n].title = SubjectOf(pulls[n].head)
          /\ pulls[job.pr].title = job.subject
      BY <2>2, <2>3, <3>1 DEF PhaseInv, TitlesOK, SubjectOf
    <3> QED
      BY <2>2, <2>3, <3>1, <3>2
         DEF PrsForTheSameSeries, SameSeriesDifferentTarget, SubjectOf
  <2> QED
    BY <2>1, <2>2, <2>3, <2>4 DEF OthersOK, SubjectOf, Owner, Numbers
<1>6. CASE \E m \in Numbers : CloseOther(m)
  BY <1>3, <1>6 DEF CloseOther
<1>7. CASE Patching
  BY <1>7, HandlerSteps DEF PhaseInv, HandlerStep, HandlerPcs, WorkerPcs
<1>8. CASE Fault \/ (Daemon /\ ~Patching /\ ~SyncChecks /\ \A m \in Numbers : ~CloseOther(m))
  BY <1>8, OldJobs DEF Fault, Daemon, StartCycle, Refresh, FetchSubjects, PickSubject,
         TryTarget, Raise, NoTargetLeft, NoPrReturned,
         SubjectDone, AllSubjectsDone, StartScan, ScanRaises, SkipOldPr, ScanDone,
         ExpireBranches, EndCycle, ForgetAll, workerVars
<1> QED
  BY <1>4, <1>5, <1>6, <1>7, <1>8 DEF Next

\* Where every branch has one visit in a cycle, only the daemon closes pull
\* requests and no target is listed twice, close_existing_prs_for_series closes
\* pull requests only for one that is open: whatever fails or expires, a subject
\* that has an open pull request is not left without one by its replacement.
THEOREM ReplacementIsOpen ==
    ASSUME OneVisit, ~PeopleClose, TargetsDistinct
    PROVE  Spec => []ReplacedByOpenPr
<1>1. Init => ReplaceInv
  <2> SUFFICES ASSUME Init PROVE ReplaceInv
    OBVIOUS
  <2>1. pc = "idle" /\ all_prs = NoRefs
    BY DEF Init, WorkerInit
  <2>2. RestOK /\ TouchOK /\ FoundOpen /\ OthersOK
    BY <2>1 DEF RestOK, TouchOK, FoundOpen, OthersOK, VisitPcs, HandlerPcs, WorkerPcs
  <2>3. ToComeOpen
    BY <2>1 DEF ToComeOpen, NoRefs
  <2> QED
    BY <2>2, <2>3, InitCloseInv DEF ReplaceInv
<1>2. ReplaceInv /\ [Next]_vars => ReplaceInv'
  BY NextCloseInv, RestOKNext, ToComeOpenNext, TouchOKNext, FoundOpenNext, OthersOKNext
     DEF ReplaceInv, CloseInv, KeepInv, VisitInv, BranchInv
<1>3. ReplaceInv => ReplacedByOpenPr
  <2> SUFFICES ASSUME ReplaceInv, pc = "others"
               PROVE  pulls[job.pr].open
    BY DEF ReplacedByOpenPr
  <2>1. job.pr \in Numbers /\ job.pr # NoPR /\ ~job.old
    BY NumbersArePositive
       DEF ReplaceInv, OthersOK, CloseInv, KeepInv, VisitInv, BranchInv, IInv, TypeOK,
           JobTypeOK, NoPR
  <2> QED
    BY <2>1 DEF ReplaceInv, FoundOpen
<1> QED
  BY <1>1, <1>2, <1>3, PTL DEF Spec
=============================================================================
