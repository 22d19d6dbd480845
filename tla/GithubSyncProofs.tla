-------------------------- MODULE GithubSyncProofs --------------------------
(***************************************************************************)
(* Theorems about GithubSync, for any number of targets, subjects, series, *)
(* search patterns, changes by people and failures.                        *)
(***************************************************************************)
EXTENDS GithubSync, SequenceTheorems, FiniteSetTheorems, TLAPS

(***************************************************************************)
(* What the GitHub calls do to the pull requests.                          *)
(***************************************************************************)
\* No pull request is lost, changes its branch, or is opened.
PullsKept ==
    /\ pulls' \in Seq(PullRequest)
    /\ Numbers' = Numbers
    /\ \A n \in Numbers : /\ pulls'[n].head = pulls[n].head
                          /\ pulls'[n].open => pulls[n].open

\* A function on the positions of a sequence is a sequence of that length.
LEMMA MapIsSeq ==
    ASSUME NEW S, NEW s \in Seq(S), NEW T, NEW f \in [DOMAIN s -> T]
    PROVE  f \in Seq(T) /\ DOMAIN f = DOMAIN s
<1>1. DOMAIN s = 1..Len(s) /\ Len(s) \in Nat
  BY LenProperties
<1>2. f \in [1..Len(s) -> T]
  BY <1>1
<1>3. f \in Seq(T)
  BY <1>1, <1>2, SeqDef
<1> QED
  BY <1>1, <1>2, <1>3

\* Pull request numbers are positive, so NoPR is not one of them.
LEMMA NumbersArePositive ==
    ASSUME GitHubTypeOK
    PROVE  /\ Numbers = 1..Len(pulls)
           /\ Len(pulls) \in Nat
           /\ NoPR \notin Numbers
           /\ Numbers \subseteq Nat
<1>1. DOMAIN pulls = 1..Len(pulls) /\ Len(pulls) \in Nat
  BY LenProperties DEF GitHubTypeOK
<1> QED
  BY <1>1 DEF Numbers, NoPR

\* A pull request of the list is a record of its type.
LEMMA PullType ==
    ASSUME GitHubTypeOK, NEW n \in Numbers
    PROVE  pulls[n] \in PullRequest
<1>1. n \in 1..Len(pulls)
  BY NumbersArePositive
<1> QED
  BY <1>1, ElementOfSeq DEF GitHubTypeOK

\* A step that changes pull requests one by one and opens none keeps them.
LEMMA ChangedPullsKept ==
    ASSUME GitHubTypeOK,
           pulls' \in [Numbers -> PullRequest],
           \A n \in Numbers : /\ pulls'[n].head = pulls[n].head
                              /\ pulls'[n].open => pulls[n].open
    PROVE  PullsKept
<1>1. pulls' \in Seq(PullRequest) /\ DOMAIN pulls' = DOMAIN pulls
  BY MapIsSeq DEF GitHubTypeOK, Numbers
<1> QED
  BY <1>1 DEF PullsKept, Numbers

\* Steps that leave the pull requests alone keep them.
LEMMA SamePullsKept ==
    ASSUME GitHubTypeOK, UNCHANGED pulls
    PROVE  PullsKept
BY DEF PullsKept, GitHubTypeOK, Numbers

\* So does a force-push.
LEMMA ForcePushKeeps ==
    ASSUME GitHubTypeOK, NEW ref \in Refs, NEW contents \in Contents,
           ForcePush(ref, contents)
    PROVE  PullsKept /\ heads' \in [Refs -> Contents]
<1>1. ASSUME NEW n \in Numbers
      PROVE  /\ pulls'[n] \in PullRequest
             /\ pulls'[n].head = pulls[n].head
             /\ pulls'[n].open => pulls[n].open
  BY PullType DEF ForcePush, Frozen, PullRequest
<1>2. pulls' \in [Numbers -> PullRequest]
  BY <1>1 DEF ForcePush, Frozen
<1> QED
  BY <1>1, <1>2, ChangedPullsKept DEF ForcePush, GitHubTypeOK

\* So does the deletion of branches.
LEMMA DeleteRefsKeeps ==
    ASSUME GitHubTypeOK, NEW refs, DeleteRefs(refs)
    PROVE  PullsKept /\ heads' \in [Refs -> Contents]
<1>1. ASSUME NEW n \in Numbers
      PROVE  /\ pulls'[n] \in PullRequest
             /\ pulls'[n].head = pulls[n].head
             /\ pulls'[n].open => pulls[n].open
  BY PullType DEF DeleteRefs, PullRequest
<1>2. pulls' \in [Numbers -> PullRequest]
  BY <1>1 DEF DeleteRefs
<1> QED
  BY <1>1, <1>2, ChangedPullsKept DEF DeleteRefs, GitHubTypeOK, Contents

(***************************************************************************)
(* The inductive invariant.                                                *)
(***************************************************************************)
\* The pull request remembered for a branch is one from this branch.
PrHeads ==
    \A r \in Refs : all_prs[r] # NoPR => pulls[all_prs[r]].head = r

\* A branch is named for a series that exists, or for none.
Named(b) == b = NoSeries \/ Posted(b)

\* So are those of the pull requests, and the daemon finds the subject of every
\* pull request's series.
Grounded ==
    /\ \A n \in Numbers : Named(SeriesOf(pulls[n].head))
    /\ job \in Jobs => Named(job.branch)

IInv == TypeOK /\ PrHeads /\ Grounded /\ OpenPrsKnown

\* What is not changed keeps its type when the list of pull requests grows.
LEMMA PatchworkSame ==
    ASSUME PatchworkTypeOK, UNCHANGED pwVars
    PROVE  PatchworkTypeOK'
BY DEF PatchworkTypeOK, pwVars

\* Neither does what workers remember.
LEMMA MemSame ==
    ASSUME MemTypeOK, UNCHANGED memVars, Numbers \subseteq Numbers'
    PROVE  MemTypeOK'
BY DEF MemTypeOK, memVars

\* Nor the cycle's own state.
LEMMA CycleSame ==
    ASSUME CycleTypeOK, UNCHANGED <<cycleVars, faults>>, Numbers \subseteq Numbers'
    PROVE  CycleTypeOK'
BY DEF CycleTypeOK, cycleVars

\* A step that keeps the pull requests and forgets none of them, and after
\* which no worker counts as refreshed that did not before.
LEMMA KnownKept ==
    ASSUME IInv, PullsKept, UNCHANGED all_prs, Refreshed' \subseteq Refreshed
    PROVE  PrHeads' /\ OpenPrsKnown'
<1>1. \A r \in Refs : all_prs[r] \in Numbers \cup {NoPR}
  BY DEF IInv, TypeOK, MemTypeOK
<1>2. PrHeads'
  <2>1. ASSUME NEW r \in Refs, all_prs[r] # NoPR
        PROVE  pulls'[all_prs[r]].head = r
    <3>1. all_prs[r] \in Numbers
      BY <1>1, <2>1
    <3>2. pulls'[all_prs[r]].head = pulls[all_prs[r]].head
      BY <3>1 DEF PullsKept
    <3> QED
      BY <2>1, <3>2 DEF IInv, PrHeads
  <2> QED
    BY <2>1 DEF PrHeads
<1>3. ASSUME NEW r \in Refs, NEW n \in OpenFrom(r)'
      PROVE  n \in OpenFrom(r)
  <2>1. n \in Numbers' /\ pulls'[n].open /\ pulls'[n].head = r
    BY DEF OpenFrom, OpenPulls
  <2>2. n \in Numbers
    BY <2>1 DEF PullsKept
  <2> QED
    BY <2>1, <2>2 DEF PullsKept, OpenFrom, OpenPulls
<1>4. OpenPrsKnown'
  BY <1>3 DEF IInv, OpenPrsKnown
<1> QED
  BY <1>2, <1>4

(***************************************************************************)
(* checkout_and_patch.                                                     *)
(***************************************************************************)
\* The step stays in the handler, returns from it, or raises.
JobStep ==
    /\ pc \in WorkerPcs
    /\ pc' \in WorkerPcs \cup {"returned", "raised"}
    /\ job' \in Jobs
    /\ job'.old = job.old /\ job'.branch = job.branch
    /\ job'.pr \in Numbers' \cup {NoPR}

\* Such a step leaves a job that fits the next step.
LEMMA JobStepType ==
    ASSUME IInv, JobStep, UNCHANGED cycleVars,
           \A w \in Workers : Keys(w) \subseteq Keys(w)'
    PROVE  JobTypeOK'
<1>1. ScanSound => ScanSound'
  BY DEF ScanSound, ScanOfCycle, Scans, cycleVars
<1> QED
  BY <1>1 DEF IInv, TypeOK, JobStep, JobTypeOK, JobPcs, WorkerPcs, SyncPcs

\* Such a step makes no worker count as refreshed.
LEMMA JobStepRefreshed ==
    ASSUME JobStep, UNCHANGED cycleVars
    PROVE  Refreshed' \subseteq Refreshed
BY DEF JobStep, Refreshed, WorkerPcs, cycleVars

\* While the handler runs its job is well formed.
LEMMA JobInHandler ==
    ASSUME IInv, pc \in WorkerPcs
    PROVE  /\ job \in Jobs /\ job.pr \in Numbers \cup {NoPR}
           /\ Ref \in Refs
           /\ <<job.series, job.worker>> \in Refs
BY DEF IInv, TypeOK, JobTypeOK, JobPcs, Jobs, Ref, Refs, BranchNames

\* Field by field, an update of the job is a job.
LEMMA JobUpdates ==
    ASSUME job \in Jobs
    PROVE  /\ \A n \in Nat : LET j == [job EXCEPT !.pr = n]
                             IN /\ j \in Jobs /\ j.old = job.old
                                /\ j.branch = job.branch /\ j.pr = n
           /\ \A p \in Paths : LET j == [job EXCEPT !.path = p]
                               IN /\ j \in Jobs /\ j.old = job.old
                                  /\ j.branch = job.branch /\ j.pr = job.pr
BY DEF Jobs

\* Frame of the steps that open no pull request.
LEMMA QuietStep ==
    ASSUME IInv, UNCHANGED <<pwVars, cycleVars, faults>>, JobStep, PullsKept,
           heads' \in [Refs -> Contents],
           applies' \in [Refs -> Outcomes \cup {Unknown}],
           UNCHANGED <<prs, all_prs, branches>>, seenClosed' \subseteq Numbers,
           origin' \in [Refs -> Contents]
    PROVE  IInv'
<1>1. Numbers \subseteq Numbers'
  BY DEF PullsKept
<1>2. PatchworkTypeOK' /\ CycleTypeOK'
  BY <1>1, PatchworkSame, CycleSame DEF IInv, TypeOK
<1>3. GitHubTypeOK'
  BY DEF PullsKept, GitHubTypeOK
<1>4. MemTypeOK'
  BY <1>1 DEF IInv, TypeOK, MemTypeOK
<1>5. JobTypeOK'
  BY JobStepType DEF cycleVars, Keys
<1>6. PrHeads' /\ OpenPrsKnown'
  BY KnownKept, JobStepRefreshed
<1>7. Grounded'
  BY JobInHandler
     DEF PullsKept, JobStep, IInv, Grounded, Named, Posted, SeriesOf, pwVars
<1> QED
  BY <1>2, <1>3, <1>4, <1>5, <1>6, <1>7 DEF IInv, TypeOK

\* _guess_pr returns a pull request from the branch of the job.
LEMMA GuessPrType ==
    ASSUME IInv, pc \in WorkerPcs, NEW n \in GuessPr(Ref)
    PROVE  n \in Numbers /\ n \in Nat /\ pulls[n].head = Ref
<1>1. Ref \in Refs
  BY JobInHandler
<1>2. CASE all_prs[Ref] # NoPR
  BY <1>1, <1>2, NumbersArePositive
     DEF IInv, TypeOK, MemTypeOK, PrHeads, GuessPr
<1>3. CASE all_prs[Ref] = NoPR
  BY <1>3, NumbersArePositive
     DEF IInv, TypeOK, GuessPr, FilterClosedPr, ClosedPulls
<1> QED
  BY <1>2, <1>3

\* Closing the pull request of a series that needs none.
LEMMA CloseSeriesPrKeeps ==
    ASSUME IInv, CloseSeriesPr, UNCHANGED <<pwVars, cycleVars, faults>>
    PROVE  IInv'
<1>1. pc \in WorkerPcs /\ GitHubTypeOK /\ NoPR \in Nat
  BY DEF CloseSeriesPr, WorkerPcs, IInv, TypeOK, NoPR
<1>2. PullsKept
  <2>1. CASE UNCHANGED pulls
    BY <1>1, <2>1, SamePullsKept
  <2>2. ASSUME NEW n \in GuessPr(Ref),
               pulls' = [pulls EXCEPT ![n].open = FALSE, ![n].conflict = FALSE]
        PROVE  PullsKept
    <3>1. n \in Numbers /\ pulls[n] \in PullRequest
      BY <1>1, GuessPrType, PullType
    <3>2. ASSUME NEW m \in Numbers
          PROVE  /\ pulls'[m] \in PullRequest
                 /\ pulls'[m].head = pulls[m].head
                 /\ pulls'[m].open => pulls[m].open
      BY <1>1, <2>2, <3>1, PullType DEF PullRequest, Numbers
    <3>3. pulls' \in [Numbers -> PullRequest]
      BY <2>2, <3>2 DEF Numbers
    <3> QED
      BY <1>1, <3>2, <3>3, ChangedPullsKept
  <2> QED
    BY <2>1, <2>2 DEF CloseSeriesPr
<1>3. JobStep
  BY <1>1, <1>2, JobInHandler, JobUpdates
     DEF CloseSeriesPr, JobStep, Goto, ReturnNone, Return, WorkerPcs, PullsKept
<1>4. seenClosed' \subseteq Numbers
  BY <1>1, GuessPrType DEF CloseSeriesPr, IInv, TypeOK, MemTypeOK
<1> QED
  BY <1>2, <1>3, <1>4, QuietStep
     DEF CloseSeriesPr, IInv, TypeOK, GitHubTypeOK, MemTypeOK

\* Returning the pull request of the job is a step of the handler.
LEMMA ReturnType ==
    ASSUME IInv, pc \in WorkerPcs, PullsKept, job.pr \in Nat, Return(job.pr)
    PROVE  JobStep
<1>1. job \in Jobs /\ job.pr \in Numbers \cup {NoPR}
  BY JobInHandler
<1>2. job' \in Jobs /\ job'.old = job.old /\ job'.branch = job.branch /\ job'.pr = job.pr
  BY <1>1, JobUpdates DEF Return
<1> QED
  BY <1>1, <1>2 DEF JobStep, Return, PullsKept

\* Raising is a quiet step.
LEMMA RaiseKeeps ==
    ASSUME IInv, pc \in WorkerPcs, Raise, UNCHANGED <<pwVars, cycleVars, faults>>
    PROVE  IInv'
<1>1. PullsKept
  BY SamePullsKept DEF Raise, ghVars, IInv, TypeOK
<1>2. JobStep
  BY <1>1, JobInHandler DEF Raise, JobStep, PullsKept
<1> QED
  BY <1>1, <1>2, QuietStep
     DEF Raise, ghVars, memVars, IInv, TypeOK, GitHubTypeOK, MemTypeOK

\* Deleting the branch of a closed series, or a 404.
LEMMA DeleteClosedBranchKeeps ==
    ASSUME IInv, DeleteClosedBranch, UNCHANGED <<pwVars, cycleVars, faults>>
    PROVE  IInv'
<1>1. pc \in WorkerPcs /\ GitHubTypeOK /\ NoPR \in Nat
  BY DEF DeleteClosedBranch, WorkerPcs, IInv, TypeOK, NoPR
<1>2. CASE Raise
  BY <1>1, <1>2, RaiseKeeps
<1>3. CASE DeleteRefs({Ref}) /\ ReturnNone /\ UNCHANGED <<applies, memVars>>
  <2>1. PullsKept /\ heads' \in [Refs -> Contents]
    BY <1>1, <1>3, DeleteRefsKeeps
  <2>2. JobStep
    BY <1>1, <1>3, <2>1, JobInHandler, JobUpdates
       DEF JobStep, ReturnNone, Return, PullsKept
  <2> QED
    BY <1>3, <2>1, <2>2, QuietStep
       DEF memVars, IInv, TypeOK, GitHubTypeOK, MemTypeOK
<1> QED
  BY <1>2, <1>3 DEF DeleteClosedBranch

\* The result of `git am' is recorded for a branch that can exist.
LEMMA LearnType ==
    ASSUME GitHubTypeOK, NEW i, NEW w, NEW outcome \in TryApply(i, w),
           <<i, w>> \in Refs, Learn(i, w, outcome)
    PROVE  applies' \in [Refs -> Outcomes \cup {Unknown}]
BY DEF GitHubTypeOK, TryApply, Learn

\* Applying the series and choosing a path.
LEMMA ApplyKeeps ==
    ASSUME IInv, Apply, UNCHANGED <<pwVars, cycleVars, faults>>
    PROVE  IInv'
<1>1. pc \in WorkerPcs /\ GitHubTypeOK /\ NoPR \in Nat
  BY DEF Apply, WorkerPcs, IInv, TypeOK, NoPR
<1>2. PullsKept
  BY <1>1, SamePullsKept DEF Apply
<1>3. JobStep
  <2>1. CASE ReturnNone
    BY <1>1, <1>2, <2>1, JobInHandler, JobUpdates
       DEF JobStep, ReturnNone, Return, PullsKept
  <2>2. ASSUME NEW outcome,
               job' = [job EXCEPT !.path = PathFor(outcome)],
               pc' \in {"push", "comment"}
        PROVE  JobStep
    <3>1. PathFor(outcome) \in Paths
      BY DEF PathFor, Paths
    <3>2. job' \in Jobs /\ job'.old = job.old /\ job'.branch = job.branch /\ job'.pr = job.pr
      BY <1>1, <2>2, <3>1, JobInHandler, JobUpdates
    <3> QED
      BY <1>1, <1>2, <2>2, <3>2, JobInHandler DEF JobStep, WorkerPcs, PullsKept
  <2> QED
    BY <2>1, <2>2 DEF Apply
<1>4. applies' \in [Refs -> Outcomes \cup {Unknown}]
  BY <1>1, LearnType, JobInHandler DEF Apply
<1> QED
  BY <1>2, <1>3, <1>4, QuietStep
     DEF Apply, memVars, IInv, TypeOK, GitHubTypeOK, MemTypeOK

\* Steps that only choose what to do next.
LEMMA ChoiceKeeps ==
    ASSUME IInv, UNCHANGED <<pwVars, cycleVars, faults>>,
           UseOpenPr \/ NoPrToUse \/ SkipEmptyPr
    PROVE  IInv'
<1>1. pc \in WorkerPcs /\ GitHubTypeOK /\ NoPR \in Nat
  BY DEF UseOpenPr, NoPrToUse, SkipEmptyPr, WorkerPcs, IInv, TypeOK, NoPR
<1>2. UNCHANGED <<ghVars, memVars>>
  BY DEF UseOpenPr, NoPrToUse, SkipEmptyPr
<1>3. PullsKept
  BY <1>1, <1>2, SamePullsKept DEF ghVars
<1>4. JobStep
  <2>1. CASE UseOpenPr
    BY <1>1, <1>3, <2>1, JobInHandler, JobUpdates, GuessPrType
       DEF UseOpenPr, FoundPr, JobStep, WorkerPcs, PullsKept
  <2>2. CASE NoPrToUse \/ SkipEmptyPr
    BY <1>1, <1>3, <2>2, JobInHandler, JobUpdates
       DEF NoPrToUse, SkipEmptyPr, Goto, ReturnNone, Return, JobStep,
           WorkerPcs, PullsKept
  <2> QED
    BY <2>1, <2>2
<1> QED
  BY <1>2, <1>3, <1>4, QuietStep
     DEF ghVars, memVars, IInv, TypeOK, GitHubTypeOK, MemTypeOK

\* The three force-pushes.
LEMMA PushKeeps ==
    ASSUME IInv, UNCHANGED <<pwVars, cycleVars, faults>>,
           PushDummy \/ PushNewBranch \/ PushUpdate
    PROVE  IInv'
<1>1. pc \in WorkerPcs /\ GitHubTypeOK
  BY DEF PushDummy, PushNewBranch, PushUpdate, WorkerPcs, IInv, TypeOK
<1>2. job \in Jobs /\ job.series \in Series /\ Ref \in Refs
  BY <1>1, JobInHandler DEF Jobs
<1>3. PICK contents \in Contents : GitPush(contents)
  BY <1>2 DEF PushDummy, PushNewBranch, PushUpdate, Contents
<1>6. PullsKept /\ heads' \in [Refs -> Contents]
  BY <1>1, <1>2, <1>3, ForcePushKeeps DEF GitPush
<1>7. origin' \in [Refs -> Contents]
  BY <1>2, <1>3 DEF GitPush, IInv, TypeOK, MemTypeOK
<1>4. JobStep
  <2>1. job.pr \in Nat
    BY <1>2 DEF Jobs
  <2>2. CASE Return(job.pr)
    BY <1>1, <1>6, <2>1, <2>2, ReturnType
  <2>3. CASE UNCHANGED job /\ pc' \in {"dummy", "comment", "raised"}
    BY <1>1, <1>6, <2>3, JobInHandler DEF JobStep, WorkerPcs, PullsKept
  <2> QED
    BY <2>2, <2>3 DEF PushDummy, PushNewBranch, PushUpdate, Goto
<1>5. UNCHANGED <<applies, prs, all_prs, branches, seenClosed>>
  BY <1>3 DEF GitPush
<1> QED
  BY <1>4, <1>5, <1>6, <1>7, QuietStep
     DEF IInv, TypeOK, GitHubTypeOK, MemTypeOK

\* Replacing the labels of the pull request.
LEMMA SetLabelsKeeps ==
    ASSUME IInv, SetLabels, UNCHANGED <<pwVars, cycleVars, faults>>
    PROVE  IInv'
<1>1. pc \in WorkerPcs /\ GitHubTypeOK
  BY DEF SetLabels, WorkerPcs, IInv, TypeOK
<1>2. PullsKept
  <2>1. ASSUME NEW m \in Numbers
        PROVE  /\ pulls'[m] \in PullRequest
               /\ pulls'[m].head = pulls[m].head
               /\ pulls'[m].open => pulls[m].open
    BY <1>1, PullType DEF SetLabels, PullRequest, Numbers
  <2>2. pulls' \in [Numbers -> PullRequest]
    BY <2>1 DEF SetLabels, Numbers
  <2> QED
    BY <1>1, <2>1, <2>2, ChangedPullsKept
<1>3. JobStep
  <2>1. job.pr \in Nat
    BY <1>1, JobInHandler DEF Jobs
  <2>2. CASE Return(job.pr)
    BY <1>1, <1>2, <2>1, <2>2, ReturnType
  <2>3. CASE Goto("push")
    BY <1>1, <1>2, <2>3, JobInHandler DEF Goto, JobStep, WorkerPcs, PullsKept
  <2> QED
    BY <2>2, <2>3 DEF SetLabels
<1> QED
  BY <1>2, <1>3, QuietStep
     DEF SetLabels, memVars, IInv, TypeOK, GitHubTypeOK, MemTypeOK

\* Frame of the steps that open a pull request, which is tracked at once.
LEMMA OpeningStep ==
    ASSUME IInv, UNCHANGED <<pwVars, cycleVars, faults>>, JobStep,
           NEW n \in Numbers', NEW title \in Subjects,
           pulls' \in Seq(PullRequest), Numbers \subseteq Numbers',
           \A m \in Numbers : pulls'[m].head = pulls[m].head,
           \A m \in Numbers' \ {n} : /\ m \in Numbers
                                     /\ pulls'[m].open => pulls[m].open,
           pulls'[n].head = Ref,
           AddPr(Ref, n), TrackPr(job.worker, title, n),
           UNCHANGED <<heads, applies, branches, origin>>,
           seenClosed' \subseteq Numbers
    PROVE  IInv'
<1>1. Ref \in Refs /\ job.worker \in Workers
  BY JobInHandler DEF JobStep, Jobs
<1>2. PatchworkTypeOK' /\ CycleTypeOK'
  BY PatchworkSame, CycleSame DEF IInv, TypeOK
<1>3. GitHubTypeOK'
  BY DEF IInv, TypeOK, GitHubTypeOK
<1>4. MemTypeOK'
  <2>1. all_prs' \in [Refs -> Numbers' \cup {NoPR}]
    BY <1>1 DEF AddPr, IInv, TypeOK, MemTypeOK
  <2>2. prs' \in [Workers -> [Subjects -> Numbers' \cup {NoPR}]]
    BY <1>1 DEF TrackPr, IInv, TypeOK, MemTypeOK
  <2> QED
    BY <2>1, <2>2 DEF IInv, TypeOK, MemTypeOK
<1>5. n # NoPR
  <2>1. Numbers' = 1..Len(pulls')
    BY LenProperties DEF Numbers
  <2> QED
    BY <2>1 DEF NoPR
<1>6. JobTypeOK'
  <2>1. \A w \in Workers : Keys(w) \subseteq Keys(w)'
    BY <1>1, <1>5 DEF Keys, TrackPr, IInv, TypeOK, MemTypeOK
  <2> QED
    BY <2>1, JobStepType DEF cycleVars
<1>7. PrHeads'
  <2>1. ASSUME NEW r \in Refs, all_prs'[r] # NoPR
        PROVE  pulls'[all_prs'[r]].head = r
    <3>1. CASE all_prs[r] # NoPR
      BY <1>1, <2>1, <3>1 DEF AddPr, IInv, TypeOK, MemTypeOK, PrHeads
    <3>2. CASE all_prs[r] = NoPR
      BY <1>1, <2>1, <3>2 DEF AddPr, IInv, TypeOK, MemTypeOK
    <3> QED
      BY <3>1, <3>2
  <2> QED
    BY <2>1 DEF PrHeads
<1>8. OpenPrsKnown'
  <2>1. Refreshed' \subseteq Refreshed
    BY JobStepRefreshed
  <2>2. ASSUME NEW r \in Refs, TargetOf(r) \in Refreshed', OpenFrom(r)' # {}
        PROVE  all_prs'[r] # NoPR
    <3>1. CASE r = Ref
      BY <1>1, <1>5, <3>1 DEF AddPr, IInv, TypeOK, MemTypeOK
    <3>2. CASE r # Ref
      <4>1. PICK m \in Numbers' : pulls'[m].open /\ pulls'[m].head = r
        BY <2>2 DEF OpenFrom, OpenPulls
      <4>2. m \in OpenFrom(r)
        BY <3>2, <4>1 DEF OpenFrom, OpenPulls
      <4>3. all_prs[r] # NoPR
        BY <2>1, <2>2, <4>2 DEF IInv, OpenPrsKnown
      <4> QED
        BY <1>1, <3>2, <4>3 DEF AddPr, IInv, TypeOK, MemTypeOK
    <3> QED
      BY <3>1, <3>2
  <2> QED
    BY <2>2 DEF OpenPrsKnown
<1>9. Grounded'
  <2>1. Named(SeriesOf(Ref))
    BY JobInHandler DEF JobStep, IInv, Grounded, Ref, SeriesOf
  <2>2. Named(job'.branch)
    BY JobInHandler DEF JobStep, IInv, Grounded
  <2>3. \A m \in Numbers' : Named(SeriesOf(pulls'[m].head))
    BY <2>1 DEF IInv, Grounded
  <2> QED
    BY <2>2, <2>3 DEF Grounded, Named, Posted, pwVars
<1> QED
  BY <1>2, <1>3, <1>4, <1>6, <1>7, <1>8, <1>9 DEF IInv, TypeOK

\* Finding a pull request is a step of the handler.
LEMMA FoundPrType ==
    ASSUME IInv, pc \in WorkerPcs, NEW n \in Numbers', n \in Nat, FoundPr(n),
           pc' = "label"
    PROVE  JobStep
<1>1. job' \in Jobs /\ job'.old = job.old /\ job'.branch = job.branch /\ job'.pr = n
  BY JobInHandler, JobUpdates DEF FoundPr
<1> QED
  BY <1>1 DEF JobStep, WorkerPcs

\* Re-opening a pull request, or being refused.
LEMMA ReopenPrKeeps ==
    ASSUME IInv, ReopenPr, UNCHANGED <<pwVars, cycleVars, faults>>
    PROVE  IInv'
<1>1. pc \in WorkerPcs /\ GitHubTypeOK
  BY DEF ReopenPr, WorkerPcs, IInv, TypeOK
<1>2. CASE pc' = "create" /\ UNCHANGED <<pulls, all_prs, prs, seenClosed, job>>
  <2>1. PullsKept
    BY <1>1, <1>2, SamePullsKept
  <2>2. JobStep
    BY <1>1, <1>2, <2>1, JobInHandler DEF JobStep, WorkerPcs, PullsKept
  <2> QED
    BY <1>2, <2>1, <2>2, QuietStep
       DEF ReopenPr, IInv, TypeOK, GitHubTypeOK, MemTypeOK
<1>3. ASSUME NEW n \in GuessPr(Ref),
             pulls' = [pulls EXCEPT ![n].open = TRUE],
             AddPr(Ref, n), TrackPr(job.worker, pulls[n].title, n),
             seenClosed' = seenClosed \ {n}, FoundPr(n), pc' = "label"
      PROVE  IInv'
  <2>1. n \in Numbers /\ n \in Nat /\ pulls[n].head = Ref
    BY <1>1, GuessPrType
  <2>2. pulls[n].title \in Subjects
    BY <1>1, <2>1, PullType DEF PullRequest
  <2>3. pulls' \in Seq(PullRequest) /\ Numbers' = Numbers
    <3>1. \A m \in Numbers : pulls'[m] \in PullRequest
      BY <1>1, <1>3, <2>1, PullType DEF PullRequest, Numbers
    <3>2. pulls' \in [Numbers -> PullRequest]
      BY <1>3, <3>1 DEF Numbers
    <3> QED
      BY <1>1, <3>2, MapIsSeq DEF GitHubTypeOK, Numbers
  <2>4. \A m \in Numbers : pulls'[m].head = pulls[m].head
    BY <1>1, <1>3, <2>1, PullType DEF PullRequest, Numbers
  <2>5. \A m \in Numbers \ {n} : pulls'[m].open = pulls[m].open
    BY <1>1, <1>3, <2>1 DEF Numbers
  <2>6. JobStep
    BY <1>1, <1>3, <2>1, <2>3, FoundPrType
  <2>7. seenClosed' \subseteq Numbers
    BY <1>3 DEF IInv, TypeOK, MemTypeOK
  <2> QED
    BY <1>3, <2>1, <2>2, <2>3, <2>4, <2>5, <2>6, <2>7, OpeningStep
       DEF ReopenPr
<1> QED
  BY <1>2, <1>3 DEF ReopenPr

\* Creating a pull request, or being refused.
LEMMA CreatePrKeeps ==
    ASSUME IInv, CreatePr, UNCHANGED <<pwVars, cycleVars, faults>>
    PROVE  IInv'
<1>1. pc \in WorkerPcs /\ GitHubTypeOK
  BY DEF CreatePr, WorkerPcs, IInv, TypeOK
<1>2. CASE Raise
  BY <1>1, <1>2, RaiseKeeps
<1>3. ASSUME pulls' = CreatedPull(Ref, job.subject),
             TrackPr(job.worker, job.subject, Len(pulls) + 1),
             AddPr(Ref, Len(pulls) + 1), FoundPr(Len(pulls) + 1), pc' = "label",
             UNCHANGED <<heads, applies, branches, seenClosed, origin>>
      PROVE  IInv'
  <2> DEFINE n == Len(pulls) + 1
             new == [head |-> Ref, title |-> job.subject, open |-> TRUE,
                     conflict |-> FALSE, frozen |-> FALSE]
  <2>1. Ref \in Refs /\ job.subject \in Subjects
    BY <1>1, JobInHandler DEF Jobs
  <2>2. new \in PullRequest
    BY <2>1 DEF PullRequest
  <2>3. Numbers = 1..Len(pulls) /\ Len(pulls) \in Nat
    BY <1>1, NumbersArePositive
  <2>4. /\ pulls' \in Seq(PullRequest)
        /\ Len(pulls') = n
        /\ \A m \in 1..Len(pulls) : pulls'[m] = pulls[m]
        /\ pulls'[n] = new
    BY <1>1, <1>3, <2>2, AppendProperties DEF CreatedPull, GitHubTypeOK
  <2>5. Numbers' = 1..n
    BY <2>4, LenProperties DEF Numbers
  <2>6. n \in Numbers' /\ n \in Nat /\ Numbers \subseteq Numbers'
    BY <2>3, <2>5
  <2>7. \A m \in Numbers' \ {n} : m \in Numbers
    BY <2>3, <2>5
  <2>8. JobStep
    BY <1>1, <1>3, <2>6, FoundPrType
  <2>9. seenClosed' \subseteq Numbers
    BY <1>3 DEF IInv, TypeOK, MemTypeOK
  <2>10. pulls'[n].head = Ref
    BY <2>4
  <2> HIDE DEF n, new
  <2>11. /\ \A m \in Numbers : pulls'[m].head = pulls[m].head
         /\ \A m \in Numbers' \ {n} : /\ m \in Numbers
                                      /\ pulls'[m].open => pulls[m].open
    BY <2>3, <2>4, <2>7 DEF Numbers
  <2>12. AddPr(Ref, n) /\ TrackPr(job.worker, job.subject, n)
    BY <1>3 DEF n
  <2> QED
    BY <1>3, <2>1, <2>4, <2>6, <2>8, <2>9, <2>10, <2>11, <2>12, OpeningStep
<1> QED
  BY <1>2, <1>3 DEF CreatePr

\* checkout_and_patch as a whole.
LEMMA CheckoutAndPatchKeeps ==
    ASSUME IInv, Patching
    PROVE  IInv'
BY CloseSeriesPrKeeps, DeleteClosedBranchKeeps, ApplyKeeps, ChoiceKeeps,
   ReopenPrKeeps, CreatePrKeeps, SetLabelsKeeps, PushKeeps
   DEF Patching, CheckoutAndPatch

(***************************************************************************)
(* The sync cycle around it.                                               *)
(***************************************************************************)
\* Frame of the cycle's steps: what each of them has left to show.
LEMMA CycleStep ==
    ASSUME IInv, PatchworkTypeOK', CycleTypeOK', JobTypeOK', Grounded',
           PullsKept, UNCHANGED <<all_prs, branches, origin>>,
           heads' \in [Refs -> Contents],
           applies' \in [Refs -> Outcomes \cup {Unknown}],
           prs' \in [Workers -> [Subjects -> Numbers \cup {NoPR}]],
           seenClosed' \subseteq Numbers, Refreshed' \subseteq Refreshed
    PROVE  IInv'
<1>1. GitHubTypeOK'
  BY DEF PullsKept, GitHubTypeOK
<1>2. MemTypeOK'
  BY DEF PullsKept, IInv, TypeOK, MemTypeOK
<1>3. PrHeads' /\ OpenPrsKnown'
  BY KnownKept
<1> QED
  BY <1>1, <1>2, <1>3 DEF IInv, TypeOK

\* Frame of those that change nothing but the cycle's own state.
LEMMA QuietCycleStep ==
    ASSUME IInv, UNCHANGED <<pwVars, ghVars, memVars>>,
           CycleTypeOK', JobTypeOK', Grounded', Refreshed' \subseteq Refreshed
    PROVE  IInv'
<1>1. PullsKept
  BY SamePullsKept DEF ghVars, IInv, TypeOK
<1>2. PatchworkTypeOK'
  BY PatchworkSame DEF IInv, TypeOK
<1> QED
  BY <1>1, <1>2, CycleStep
     DEF ghVars, memVars, IInv, TypeOK, GitHubTypeOK, MemTypeOK

\* No step after the refresh makes a worker count as refreshed.
LEMMA RefreshedKept ==
    ASSUME UNCHANGED sync, pc \notin {"refresh", "raised"}, pc' # "refresh"
    PROVE  Refreshed' \subseteq Refreshed
BY DEF Refreshed

\* Posted series stay posted and their pull requests keep their branches.
LEMMA GroundedKept ==
    ASSUME Grounded, PullsKept, UNCHANGED series,
           job' = job \/ job' = NoJob
    PROVE  Grounded'
<1>1. NoJob \notin Jobs
  <2>1. ASSUME NoJob \in Jobs PROVE FALSE
    <3>1. DOMAIN NoJob = {"path"}
      BY DEF NoJob
    <3>2. \A j \in Jobs : "rest" \in DOMAIN j
      BY DEF Jobs
    <3> QED
      BY <2>1, <3>1, <3>2
  <2> QED
    BY <2>1
<1> QED
  BY <1>1 DEF PullsKept, Grounded, Named, Posted, SeriesOf

\* The number of failures stays within its bound.
LEMMA SpendFaultType ==
    ASSUME faults \in 0..MaxFaults, SpendFault
    PROVE  faults' \in 0..MaxFaults
BY GithubSyncAssumption DEF SpendFault

\* Starting a cycle.
LEMMA StartCycleKeeps ==
    ASSUME IInv, StartCycle
    PROVE  IInv'
<1>1. CycleTypeOK'
  <2>1. faults' \in 0..MaxFaults
    BY SpendFaultType DEF StartCycle, IInv, TypeOK, CycleTypeOK
  <2> QED
    BY <2>1 DEF StartCycle, ghVars, IInv, TypeOK, CycleTypeOK, Numbers
<1>2. JobTypeOK'
  BY DEF StartCycle, ghVars, IInv, TypeOK, JobTypeOK, JobPcs, WorkerPcs, SyncPcs, Numbers
<1>3. Grounded'
  BY DEF StartCycle, pwVars, ghVars, IInv, Grounded, Named, Posted, SeriesOf, Numbers
<1>4. Refreshed' \subseteq Refreshed
  BY DEF StartCycle, Refreshed
<1> QED
  BY <1>1, <1>2, <1>3, <1>4, QuietCycleStep DEF StartCycle

\* The refresh of one worker: what it learns is what GitHub has.
LEMMA RefreshKeeps ==
    ASSUME IInv, NEW w \in Workers, Refresh(w)
    PROVE  IInv'
<1>1. GitHubTypeOK /\ MemTypeOK /\ CycleTypeOK /\ UNCHANGED pulls /\ Numbers' = Numbers
  BY DEF Refresh, IInv, TypeOK, Numbers
<1>2. PatchworkTypeOK'
  <2>1. events' \in 0..MaxEvents
    BY PatchworkAssumption
       DEF Refresh, SpendEvent, IInv, TypeOK, PatchworkTypeOK
  <2> QED
    BY <2>1 DEF Refresh, IInv, TypeOK, PatchworkTypeOK
<1>3. GitHubTypeOK'
  BY DEF Refresh, MoveUpstream, IInv, TypeOK, GitHubTypeOK, Contents
<1>4. CycleTypeOK'
  BY <1>1 DEF Refresh, CycleTypeOK
<1>5. JobTypeOK'
  BY <1>1 DEF Refresh, IInv, TypeOK, JobTypeOK, JobPcs, WorkerPcs, SyncPcs
<1>6. ASSUME NEW r \in Refs
      PROVE  IF TargetOf(r) = w /\ OpenFrom(r) # {}
             THEN all_prs'[r] \in OpenFrom(r)
             ELSE all_prs'[r] \in {all_prs[r], NoPR}
  BY DEF Refresh, GetPulls
<1>7. NoPR \notin Numbers
  BY <1>1, NumbersArePositive
<1>8. PrHeads'
  BY <1>1, <1>6 DEF IInv, PrHeads, OpenFrom, OpenPulls
<1>9. MemTypeOK'
  <2>1. all_prs' \in [Refs -> Numbers \cup {NoPR}]
    <3>1. \A r \in Refs : all_prs'[r] \in Numbers \cup {NoPR}
      BY <1>1, <1>6 DEF MemTypeOK, OpenFrom, OpenPulls
    <3> QED
      BY <3>1 DEF Refresh, GetPulls
  <2>2. prs' \in [Workers -> [Subjects -> Numbers \cup {NoPR}]]
    BY <1>1 DEF Refresh, GetPulls, OldestOf, OpenPulls, MemTypeOK
  <2>3. branches' \subseteq Refs /\ seenClosed' \subseteq Numbers
    BY <1>1 DEF Refresh, GetBranches, MemTypeOK
  <2>4. origin' \in [Refs -> Contents]
    BY <1>1, <1>3 DEF Refresh, Fetch, GitHubTypeOK, MemTypeOK
  <2> QED
    BY <1>1, <2>1, <2>2, <2>3, <2>4 DEF MemTypeOK
<1>10. OpenPrsKnown'
  <2>1. Refreshed' \subseteq Refreshed \cup {w}
    BY DEF Refresh, Refreshed
  <2>2. ASSUME NEW r \in Refs, TargetOf(r) \in Refreshed', OpenFrom(r)' # {}
        PROVE  all_prs'[r] # NoPR
    <3>1. OpenFrom(r) # {}
      BY <1>1, <2>2 DEF OpenFrom, OpenPulls
    <3>2. CASE TargetOf(r) = w
      BY <1>6, <1>7, <3>1, <3>2 DEF OpenFrom, OpenPulls
    <3>3. CASE TargetOf(r) # w
      <4>1. all_prs'[r] = all_prs[r]
        BY <3>3 DEF Refresh, GetPulls
      <4> QED
        BY <2>1, <2>2, <3>1, <3>3, <4>1 DEF IInv, OpenPrsKnown
    <3> QED
      BY <3>2, <3>3
  <2> QED
    BY <2>2 DEF OpenPrsKnown
<1>11. Grounded'
  BY <1>1 DEF Refresh, IInv, Grounded, Named, Posted, SeriesOf
<1> QED
  BY <1>2, <1>3, <1>4, <1>5, <1>8, <1>9, <1>10, <1>11 DEF IInv, TypeOK

\* Fetching the relevant subjects.
LEMMA FetchSubjectsKeeps ==
    ASSUME IInv, FetchSubjects
    PROVE  IInv'
<1>1. CycleTypeOK'
  BY DEF FetchSubjects, ghVars, RelevantSubjects, IInv, TypeOK, CycleTypeOK, Numbers
<1>2. JobTypeOK'
  BY DEF FetchSubjects, ghVars, IInv, TypeOK, JobTypeOK, JobPcs, WorkerPcs,
         SyncPcs, Numbers
<1>3. Grounded'
  BY DEF FetchSubjects, pwVars, ghVars, IInv, Grounded, Named, Posted, SeriesOf, Numbers
<1>4. Refreshed' \subseteq Refreshed
  BY RefreshedKept DEF FetchSubjects
<1> QED
  BY <1>1, <1>2, <1>3, <1>4, QuietCycleStep DEF FetchSubjects

\* The latest series of a subject was posted, under this subject.
LEMMA LatestSeriesType ==
    ASSUME PatchworkTypeOK, NEW t, NEW i \in LatestSeries(t)
    PROVE  /\ i \in Series /\ Posted(i) /\ series[i].subject = t
           /\ series[i] \in PostedSeries
           /\ t \in Subjects /\ series[i].targets \in Seq(Workers)
<1>1. i \in Series /\ Posted(i) /\ series[i].subject = t
  BY DEF LatestSeries, RelevantSeries
<1>2. series[i] \in PostedSeries
  BY <1>1 DEF PatchworkTypeOK, Posted, NotPosted
<1> QED
  BY <1>1, <1>2, PatchworkAssumption DEF PostedSeries

\* The targets to try are workers, and there is a first one.
LEMMA SelectTargetsType ==
    ASSUME PatchworkTypeOK, NEW t, NEW i \in LatestSeries(t),
           series[i].targets # <<>>, NEW targets \in SelectTargets(i)
    PROVE  targets \in Seq(Workers) /\ Head(targets) \in Workers
<1>1. series[i].targets \in Seq(Workers)
  BY LatestSeriesType
<1>2. CASE targets = series[i].targets
  BY <1>1, <1>2, HeadTailProperties
<1>3. CASE targets # series[i].targets
  <2>1. PICK known \in StickyPrs(i, series[i].targets) :
            targets = <<series[i].targets[known[1]]>>
    BY <1>3 DEF SelectTargets
  <2>2. known[1] \in DOMAIN series[i].targets
    BY <2>1 DEF StickyPrs
  <2>3. series[i].targets[known[1]] \in Workers
    BY <1>1, <2>2, LenProperties, ElementOfSeq
  <2> QED
    BY <2>1, <2>3, HeadTailProperties
<1> QED
  BY <1>2, <1>3

\* A new job is well formed.
LEMMA NewJobType ==
    ASSUME NEW t \in Subjects, NEW i \in Series, NEW w \in Workers,
           NEW targets \in Seq(Workers), NEW old \in BOOLEAN,
           NewJob(t, i, w, targets, old)
    PROVE  job' \in Jobs /\ job'.pr = NoPR /\ job'.branch = i /\ job'.old = old
BY DEF NewJob, Jobs, Paths, NoPR, BranchNames

\* A job whose branch is named is grounded.
LEMMA GroundedJob ==
    ASSUME Grounded, PullsKept, UNCHANGED series, Named(job'.branch)
    PROVE  Grounded'
BY DEF PullsKept, Grounded, Named, Posted, SeriesOf

\* Taking a subject from the list.
LEMMA PickSubjectKeeps ==
    ASSUME IInv, NEW t \in Subjects, PickSubject(t)
    PROVE  IInv'
<1>1. PullsKept /\ PatchworkTypeOK /\ UNCHANGED series
  BY SamePullsKept DEF PickSubject, pwVars, ghVars, IInv, TypeOK
<1>2. CycleTypeOK'
  <2>1. queue' \in [Subjects -> 0..NumPatterns]
    BY GithubSyncAssumption
       DEF PickSubject, Dequeue, IInv, TypeOK, CycleTypeOK
  <2> QED
    BY <1>1, <2>1 DEF PickSubject, PullsKept, IInv, TypeOK, CycleTypeOK
<1>3. Refreshed' \subseteq Refreshed
  <2>1. pc' \in {"raised", "pick", "target"}
    BY DEF PickSubject
  <2> QED
    BY <2>1, RefreshedKept DEF PickSubject
<1>4. JobTypeOK' /\ Grounded'
  <2>1. CASE UNCHANGED job /\ pc' \in {"raised", "pick"}
    BY <1>1, <2>1, GroundedKept
       DEF PickSubject, IInv, TypeOK, JobTypeOK, JobPcs, WorkerPcs, SyncPcs
  <2>2. ASSUME NEW i \in LatestSeries(t), series[i].targets # <<>>,
               NEW targets \in SelectTargets(i),
               NewJob(t, i, Head(targets), targets, FALSE), pc' = "target"
        PROVE  JobTypeOK' /\ Grounded'
    <3>1. i \in Series /\ Posted(i)
      BY <1>1, LatestSeriesType
    <3>2. targets \in Seq(Workers) /\ Head(targets) \in Workers
      BY <1>1, <2>2, SelectTargetsType
    <3>3. job' \in Jobs /\ job'.pr = NoPR /\ job'.branch = i /\ job'.old = FALSE
      BY <2>2, <3>1, <3>2, NewJobType
    <3>4. Grounded'
      BY <1>1, <3>1, <3>3, GroundedJob DEF Named, Posted, IInv
    <3> QED
      BY <2>2, <3>3, <3>4 DEF JobTypeOK, JobPcs, WorkerPcs, SyncPcs
  <2> QED
    BY <2>1, <2>2 DEF PickSubject
<1> QED
  BY <1>2, <1>3, <1>4, QuietCycleStep DEF PickSubject

\* Trying a target.
LEMMA TryTargetKeeps ==
    ASSUME IInv, TryTarget
    PROVE  IInv'
<1>1. PullsKept /\ PatchworkTypeOK /\ UNCHANGED series
  BY SamePullsKept DEF TryTarget, Raise, pwVars, ghVars, IInv, TypeOK
<1>2. PatchworkTypeOK' /\ CycleTypeOK'
  BY <1>1, PatchworkSame, CycleSame DEF TryTarget, PullsKept, IInv, TypeOK
<1>3. Refreshed' \subseteq Refreshed
  <2>1. pc' \in {"raised", "patch", "target"} /\ UNCHANGED sync
    BY DEF TryTarget, Raise, cycleVars
  <2> QED
    BY <2>1, RefreshedKept DEF TryTarget
<1>4. job \in Jobs /\ job.series \in Series /\ job.branch \in BranchNames
      /\ job.rest \in Seq(Workers) /\ job.subject \in Subjects
  BY DEF TryTarget, IInv, TypeOK, JobTypeOK, JobPcs, Jobs
<1>5. CASE Raise
  <2>1. JobTypeOK' /\ Grounded'
    BY <1>1, <1>4, <1>5, GroundedKept
       DEF Raise, IInv, TypeOK, JobTypeOK, JobPcs, WorkerPcs, SyncPcs
  <2> QED
    BY <1>2, <1>3, <1>5, <2>1, QuietCycleStep DEF TryTarget, Raise
<1>6. ASSUME NEW outcome \in TryApply(job.series, Head(job.rest)),
             NEW b \in BranchSeries,
             Learn(job.series, Head(job.rest), outcome),
             job' = [job EXCEPT !.rest = Tail(@), !.worker = Head(job.rest),
                                !.branch = b, !.path = "none", !.pr = NoPR],
             pc' \in {"target", "patch"}, UNCHANGED <<heads, pulls, memVars>>
      PROVE  IInv'
  <2>1. Head(job.rest) \in Workers /\ Tail(job.rest) \in Seq(Workers)
    BY <1>4, HeadTailProperties DEF TryTarget
  <2>2. b \in BranchNames /\ Named(b)
    <3>1. CASE b = job.branch
      BY <1>4, <3>1 DEF IInv, Grounded
    <3>2. CASE b \in LatestSeries(job.subject)
      BY <1>1, <3>2, LatestSeriesType DEF BranchNames, Named
    <3>3. CASE b = NoSeries
      BY <3>3 DEF BranchNames, Named
    <3> QED
      BY <3>1, <3>2, <3>3 DEF BranchSeries, SubjectBranch
  <2>3. /\ job' \in Jobs
        /\ job'.pr = NoPR /\ job'.branch = b /\ job'.old = job.old
    BY <1>4, <1>6, <2>1, <2>2 DEF Jobs, Paths, NoPR
  <2>4. JobTypeOK'
    BY <1>6, <2>3
       DEF TryTarget, cycleVars, IInv, TypeOK, JobTypeOK, JobPcs, WorkerPcs, SyncPcs
  <2>5. Grounded'
    BY <1>1, <2>2, <2>3, GroundedJob DEF Named, Posted, IInv
  <2>6. <<job.series, Head(job.rest)>> \in Refs
    BY <1>4, <2>1 DEF Refs, BranchNames
  <2>7. applies' \in [Refs -> Outcomes \cup {Unknown}]
    BY <1>6, <2>6, LearnType DEF IInv, TypeOK
  <2> QED
    BY <1>1, <1>2, <1>3, <1>6, <2>4, <2>5, <2>7, CycleStep
       DEF memVars, IInv, TypeOK, GitHubTypeOK, MemTypeOK
<1> QED
  BY <1>5, <1>6 DEF TryTarget

\* Steps that only move on: to the next target, subject, worker or phase.
LEMMA MoveOnKeeps ==
    ASSUME IInv, NoTargetLeft \/ NoPrReturned \/ SubjectDone \/ AllSubjectsDone
                     \/ ScanRaises \/ ScanDone \/ \E t \in Subjects : SkipOldPr(t)
    PROVE  IInv'
<1>1. UNCHANGED <<pwVars, ghVars, memVars, sync, names, queue, toClose, faults>>
      /\ (job' = job \/ job' = NoJob)
  BY DEF NoTargetLeft, NoPrReturned, SubjectDone, AllSubjectsDone, ScanRaises,
         ScanDone, SkipOldPr, Raise, cycleVars, workerVars
<1>2. PullsKept
  BY <1>1, SamePullsKept DEF ghVars, IInv, TypeOK
<1>3. scan' \in Scans \cup {NoScan} /\ (ScanSound => ScanSound')
  <2>1. CASE UNCHANGED scan
    BY <1>1, <2>1 DEF memVars, ScanSound, ScanOfCycle, Keys, IInv, TypeOK, CycleTypeOK
  <2>2. ASSUME NEW t \in Subjects, SkipOldPr(t)
        PROVE  scan' \in Scans /\ ScanSound'
    BY <1>1, <2>2 DEF memVars, SkipOldPr, ScanSound, ScanOfCycle, Keys, IInv, TypeOK,
                      JobTypeOK, Scans
  <2> QED
    BY <2>1, <2>2 DEF NoTargetLeft, NoPrReturned, SubjectDone, AllSubjectsDone,
                      ScanRaises, ScanDone, cycleVars
<1>4. CycleTypeOK'
  <2>1. todo' \subseteq sync
    BY DEF NoTargetLeft, NoPrReturned, SubjectDone, AllSubjectsDone, ScanRaises,
           ScanDone, SkipOldPr, cycleVars, IInv, TypeOK, CycleTypeOK
  <2> QED
    BY <1>1, <1>2, <1>3, <2>1 DEF PullsKept, IInv, TypeOK, CycleTypeOK
<1>5. JobTypeOK'
  <2>1. CASE NoTargetLeft \/ SubjectDone
    BY <1>1, <1>2, <1>3, <2>1
       DEF NoTargetLeft, SubjectDone, IInv, TypeOK, JobTypeOK, JobPcs, WorkerPcs, SyncPcs
  <2>2. CASE NoPrReturned
    BY <1>1, <1>2, <1>3, <2>2
       DEF NoPrReturned, PullsKept, IInv, TypeOK, JobTypeOK, JobPcs, WorkerPcs, SyncPcs
  <2>3. CASE AllSubjectsDone \/ ScanRaises \/ ScanDone
    BY <1>1, <1>2, <1>3, <2>3
       DEF AllSubjectsDone, ScanRaises, ScanDone, Raise, IInv, TypeOK, JobTypeOK,
           JobPcs, WorkerPcs, SyncPcs, ScanSound, ScanOfCycle
  <2>4. ASSUME NEW t \in Subjects, SkipOldPr(t)
        PROVE  JobTypeOK'
    BY <1>1, <1>2, <1>3, <2>4
       DEF SkipOldPr, workerVars, IInv, TypeOK, JobTypeOK, JobPcs, WorkerPcs, SyncPcs
  <2> QED
    BY <2>1, <2>2, <2>3, <2>4
<1>6. Grounded'
  BY <1>1, <1>2, GroundedKept DEF pwVars, IInv
<1>7. Refreshed' \subseteq Refreshed
  <2>1. pc \notin {"refresh", "raised"} /\ pc' # "refresh"
    BY DEF NoTargetLeft, NoPrReturned, SubjectDone, AllSubjectsDone, ScanRaises,
           ScanDone, SkipOldPr, Raise, workerVars
  <2> QED
    BY <1>1, <2>1, RefreshedKept
<1> QED
  BY <1>1, <1>4, <1>5, <1>6, <1>7, QuietCycleStep

\* Checking the pull request that was returned.
LEMMA SyncChecksKeeps ==
    ASSUME IInv, SyncChecks
    PROVE  IInv'
<1>1. PullsKept
  BY SamePullsKept DEF SyncChecks, ghVars, IInv, TypeOK
<1>2. job \in Jobs /\ job.pr \in Numbers /\ job.old \in BOOLEAN
  BY DEF SyncChecks, IInv, TypeOK, JobTypeOK, JobPcs, Jobs
<1>3. seenClosed' \subseteq Numbers
  BY <1>2 DEF SyncChecks, IInv, TypeOK, MemTypeOK
<1>4. toClose' \subseteq Numbers
  BY DEF SyncChecks, ExistingPrs, KnownPrs, IInv, TypeOK, MemTypeOK, CycleTypeOK
<1>5. PatchworkTypeOK' /\ CycleTypeOK'
  BY <1>1, <1>4, PatchworkSame
     DEF SyncChecks, PullsKept, IInv, TypeOK, CycleTypeOK
<1>6. JobTypeOK'
  <2>1. ScanSound => ScanSound'
    BY DEF SyncChecks, ScanSound, ScanOfCycle, Keys
  <2> QED
    BY <1>1, <1>2, <2>1 DEF SyncChecks, PullsKept, IInv, TypeOK, JobTypeOK,
                            JobPcs, WorkerPcs, SyncPcs
<1>7. Grounded'
  BY <1>1, GroundedKept DEF SyncChecks, pwVars, IInv
<1>8. Refreshed' \subseteq Refreshed
  BY RefreshedKept DEF SyncChecks
<1> QED
  BY <1>1, <1>3, <1>5, <1>6, <1>7, <1>8, CycleStep
     DEF SyncChecks, ghVars, IInv, TypeOK, GitHubTypeOK, MemTypeOK

\* Editing one pull request without opening it or moving its branch.
LEMMA EditKeeps ==
    ASSUME GitHubTypeOK, NEW n \in Numbers, NEW title \in Subjects,
           NEW open \in {pulls[n].open, FALSE},
           pulls' = [pulls EXCEPT ![n].title = title, ![n].open = open]
    PROVE  PullsKept
<1>1. pulls[n] \in PullRequest
  BY PullType
<1>2. ASSUME NEW m \in Numbers
      PROVE  /\ pulls'[m] \in PullRequest
             /\ pulls'[m].head = pulls[m].head
             /\ pulls'[m].open => pulls[m].open
  BY <1>1, PullType DEF PullRequest, Numbers
<1>3. pulls' \in [Numbers -> PullRequest]
  BY <1>2 DEF Numbers
<1> QED
  BY <1>2, <1>3, ChangedPullsKept

\* Closing one pull request.
LEMMA ClosedKeeps ==
    ASSUME GitHubTypeOK, NEW n, pulls' = Closed(n)
    PROVE  PullsKept
<1>1. ASSUME NEW m \in Numbers
      PROVE  /\ pulls'[m] \in PullRequest
             /\ pulls'[m].head = pulls[m].head
             /\ pulls'[m].open => pulls[m].open
  BY PullType DEF Closed, PullRequest, Numbers
<1>2. pulls' \in [Numbers -> PullRequest]
  BY <1>1 DEF Closed, Numbers
<1> QED
  BY <1>1, <1>2, ChangedPullsKept

\* Closing a pull request that was replaced.
LEMMA CloseOtherKeeps ==
    ASSUME IInv, NEW n \in Numbers, CloseOther(n)
    PROVE  IInv'
<1>1. PullsKept
  BY ClosedKeeps DEF CloseOther, IInv, TypeOK
<1>2. prs' \in [Workers -> [Subjects -> Numbers \cup {NoPR}]]
  BY DEF CloseOther, IInv, TypeOK, MemTypeOK
<1>3. seenClosed' \subseteq Numbers /\ toClose' \subseteq Numbers
  BY DEF CloseOther, IInv, TypeOK, MemTypeOK, CycleTypeOK
<1>4. PatchworkTypeOK' /\ CycleTypeOK'
  BY <1>1, <1>3, PatchworkSame
     DEF CloseOther, PullsKept, IInv, TypeOK, CycleTypeOK
<1>5. JobTypeOK'
  BY <1>1 DEF CloseOther, PullsKept, IInv, TypeOK, JobTypeOK
<1>6. Grounded'
  BY <1>1, GroundedKept DEF CloseOther, pwVars, IInv
<1>7. Refreshed' \subseteq Refreshed
  BY RefreshedKept DEF CloseOther
<1> QED
  BY <1>1, <1>2, <1>3, <1>4, <1>5, <1>6, <1>7, CycleStep
     DEF CloseOther, IInv, TypeOK, GitHubTypeOK, MemTypeOK

\* Starting to look for pull requests of old subjects.
LEMMA StartScanKeeps ==
    ASSUME IInv, NEW w \in Workers, StartScan(w)
    PROVE  IInv'
<1>1. PullsKept
  BY SamePullsKept DEF StartScan, ghVars, IInv, TypeOK
<1>2. ScanSound'
  <2>1. Keys(w) \subseteq Subjects
    BY DEF Keys
  <2>2. Cardinality(Keys(w)) \in Nat
    BY <2>1, PatchworkAssumption, FS_Subset, FS_CardinalityType
  <2> QED
    BY <2>1, <2>2 DEF StartScan, Scans, ScanSound, ScanOfCycle, CycleTypeOK, IInv, TypeOK, Keys, memVars
<1>3. CycleTypeOK'
  BY <1>1, <1>2 DEF ScanSound, ScanOfCycle, StartScan, PullsKept, IInv, TypeOK, CycleTypeOK
<1>4. JobTypeOK'
  BY <1>2 DEF StartScan, IInv, TypeOK, JobTypeOK, JobPcs, WorkerPcs, SyncPcs
<1>5. Grounded'
  BY <1>1, GroundedKept DEF StartScan, pwVars, IInv
<1>6. Refreshed' \subseteq Refreshed
  BY RefreshedKept DEF StartScan
<1> QED
  BY <1>3, <1>4, <1>5, <1>6, QuietCycleStep DEF StartScan

\* Renaming, and closing or syncing, the pull request of an old subject.
LEMMA SyncOldPrKeeps ==
    ASSUME IInv, NEW t \in Subjects, SyncOldPr(t)
    PROVE  IInv'
<1> DEFINE n == prs[scan.worker][t]
           subject == series[SeriesOf(pulls[n].head)].subject
<1>1. GitHubTypeOK /\ PatchworkTypeOK
  BY DEF IInv, TypeOK
<1>2. scan \in Scans /\ scan.worker \in Workers /\ ScanSound
  BY DEF SyncOldPr, IInv, TypeOK, JobTypeOK, ScanSound, ScanOfCycle, Scans
<1>3. n \in Numbers
  <2>1. t \in Keys(scan.worker)
    BY <1>2 DEF SyncOldPr, ScanSound
  <2>2. prs \in [Workers -> [Subjects -> Numbers \cup {NoPR}]]
    BY DEF IInv, TypeOK, MemTypeOK
  <2> QED
    BY <1>2, <2>1, <2>2 DEF Keys
<1>4. subject \in Subjects
  <2>1. pulls[n].head \in Refs /\ pulls[n] \in PullRequest
    BY <1>1, <1>3, PullType DEF PullRequest
  <2>2. SeriesOf(pulls[n].head) \in Series
    BY <2>1 DEF Refs, BranchNames, SeriesOf, SyncOldPr, IsUnparsed
  <2>3. Posted(SeriesOf(pulls[n].head))
    BY <1>3 DEF IInv, Grounded, Named, SyncOldPr, IsUnparsed
  <2> QED
    BY <1>1, <2>2, <2>3 DEF PatchworkTypeOK, Posted, NotPosted, PostedSeries
<1> HIDE DEF subject
<1>5. ASSUME LatestSeries(subject) = {},
             pulls' = [pulls EXCEPT ![n].title = subject, ![n].open = FALSE],
             seenClosed' = seenClosed \cup {n}, UNCHANGED <<pc, job>>
      PROVE  PullsKept /\ seenClosed' \subseteq Numbers /\ JobTypeOK' /\ Grounded'
  <2>1. PullsKept
    BY <1>1, <1>3, <1>4, <1>5, EditKeeps
  <2>2. seenClosed' \subseteq Numbers
    BY <1>3, <1>5 DEF IInv, TypeOK, MemTypeOK
  <2>3. JobTypeOK'
    BY <1>2, <1>5, <2>1
       DEF SyncOldPr, ScanSound, ScanOfCycle, Keys, Scans, IInv, TypeOK, JobTypeOK, JobPcs, WorkerPcs, SyncPcs
  <2>4. Grounded'
    BY <1>5, <2>1, GroundedKept DEF SyncOldPr, pwVars, IInv
  <2> QED
    BY <2>1, <2>2, <2>3, <2>4
<1>6. ASSUME pulls' = [pulls EXCEPT ![n].title = subject],
             NEW i \in LatestSeries(subject),
             NewJob(subject, i, scan.worker, <<>>, TRUE),
             pc' = "patch", UNCHANGED seenClosed
      PROVE  PullsKept /\ seenClosed' \subseteq Numbers /\ JobTypeOK' /\ Grounded'
  <2>1. PullsKept
    <3>1. pulls[n] \in PullRequest
      BY <1>1, <1>3, PullType
    <3>2. ASSUME NEW m \in Numbers
          PROVE  /\ pulls'[m] \in PullRequest
                 /\ pulls'[m].head = pulls[m].head
                 /\ pulls'[m].open => pulls[m].open
      BY <1>1, <1>3, <1>4, <1>6, <3>1, PullType DEF PullRequest, Numbers
    <3>3. pulls' \in [Numbers -> PullRequest]
      BY <1>6, <3>2 DEF Numbers
    <3> QED
      BY <1>1, <3>2, <3>3, ChangedPullsKept
  <2>2. i \in Series /\ Posted(i)
    BY <1>1, LatestSeriesType
  <2>3. job' \in Jobs /\ job'.pr = NoPR /\ job'.branch = i /\ job'.old = TRUE
    <3>1. <<>> \in Seq(Workers) /\ TRUE \in BOOLEAN
      BY EmptySeq
    <3> QED
      BY <1>2, <1>4, <1>6, <2>2, <3>1, NewJobType
  <2>4. seenClosed' \subseteq Numbers
    BY <1>6 DEF IInv, TypeOK, MemTypeOK
  <2>5. JobTypeOK'
    BY <1>2, <1>6, <2>3
       DEF SyncOldPr, ScanSound, ScanOfCycle, Keys, Scans, IInv, TypeOK, JobTypeOK, JobPcs, WorkerPcs, SyncPcs
  <2>6. Grounded'
    BY <2>1, <2>2, <2>3, GroundedJob DEF Named, Posted, SyncOldPr, pwVars, IInv
  <2> QED
    BY <2>1, <2>4, <2>5, <2>6
<1>7. PullsKept /\ seenClosed' \subseteq Numbers /\ JobTypeOK' /\ Grounded'
  BY <1>5, <1>6 DEF SyncOldPr, subject
<1>8. PatchworkTypeOK'
  BY PatchworkSame DEF SyncOldPr, IInv, TypeOK
<1>9. CycleTypeOK'
  <2>1. scan' \in Scans
    BY <1>2 DEF SyncOldPr, Scans
  <2> QED
    BY <1>7, <2>1 DEF SyncOldPr, PullsKept, IInv, TypeOK, CycleTypeOK
<1>10. Refreshed' \subseteq Refreshed
  <2>1. pc = "old" /\ pc' \in {"old", "patch"}
    BY DEF SyncOldPr
  <2> QED
    BY <2>1, RefreshedKept DEF SyncOldPr
<1> QED
  BY <1>7, <1>8, <1>9, <1>10, CycleStep
     DEF SyncOldPr, IInv, TypeOK, GitHubTypeOK, MemTypeOK

\* Deleting branches nobody needs.
LEMMA ExpireBranchesKeeps ==
    ASSUME IInv, ExpireBranches
    PROVE  IInv'
<1>1. PullsKept /\ heads' \in [Refs -> Contents]
  BY DeleteRefsKeeps DEF ExpireBranches, IInv, TypeOK
<1>2. PatchworkTypeOK'
  BY PatchworkSame DEF ExpireBranches, IInv, TypeOK
<1>3. CycleTypeOK'
  BY <1>1 DEF ExpireBranches, PullsKept, IInv, TypeOK, CycleTypeOK
<1>4. JobTypeOK'
  BY DEF ExpireBranches, IInv, TypeOK, JobTypeOK, JobPcs, WorkerPcs, SyncPcs
<1>5. Grounded'
  BY <1>1, GroundedKept DEF ExpireBranches, pwVars, IInv
<1>6. Refreshed' \subseteq Refreshed
  BY RefreshedKept DEF ExpireBranches
<1> QED
  BY <1>1, <1>2, <1>3, <1>4, <1>5, <1>6, CycleStep
     DEF ExpireBranches, memVars, IInv, TypeOK, GitHubTypeOK, MemTypeOK

\* The end of a cycle: everything in memory is forgotten.
LEMMA EndCycleKeeps ==
    ASSUME IInv, EndCycle
    PROVE  IInv'
<1>1. UNCHANGED <<pwVars, ghVars, faults>> /\ Numbers' = Numbers
  BY DEF EndCycle, ghVars, Numbers
<1>2. PatchworkTypeOK' /\ GitHubTypeOK'
  BY <1>1, PatchworkSame DEF ghVars, IInv, TypeOK, GitHubTypeOK
<1>3. CycleTypeOK'
  BY <1>1, GithubSyncAssumption DEF EndCycle, EmptyQueue, IInv, TypeOK, CycleTypeOK
<1>4. MemTypeOK'
  BY DEF EndCycle, ForgetAll, NoPrs, NoRefs, NothingFetched, Contents, MemTypeOK
<1>5. JobTypeOK'
  BY DEF EndCycle, ForgetAll, JobTypeOK, JobPcs, WorkerPcs, SyncPcs
<1>6. PrHeads'
  BY DEF EndCycle, ForgetAll, NoRefs, PrHeads
<1>7. OpenPrsKnown'
  BY DEF EndCycle, ForgetAll, OpenPrsKnown, Refreshed
<1>8. Grounded'
  BY <1>1, SamePullsKept, GroundedKept
     DEF EndCycle, ForgetAll, pwVars, ghVars, IInv, TypeOK
<1> QED
  BY <1>2, <1>3, <1>4, <1>5, <1>6, <1>7, <1>8 DEF IInv, TypeOK

\* A failure anywhere in the cycle.
LEMMA FaultKeeps ==
    ASSUME IInv, Fault
    PROVE  IInv'
<1>1. PullsKept
  BY SamePullsKept DEF Fault, ghVars, IInv, TypeOK
<1>2. faults' \in 0..MaxFaults
  BY SpendFaultType DEF Fault, IInv, TypeOK, CycleTypeOK
<1>3. CycleTypeOK'
  BY <1>1, <1>2 DEF Fault, cycleVars, PullsKept, IInv, TypeOK, CycleTypeOK
<1>4. JobTypeOK'
  BY DEF Fault, IInv, TypeOK, JobTypeOK, JobPcs, WorkerPcs, SyncPcs
<1>5. Grounded'
  BY <1>1, GroundedKept DEF Fault, pwVars, IInv
<1>6. Refreshed' \subseteq Refreshed
  BY DEF Fault, Refreshed
<1> QED
  BY <1>3, <1>4, <1>5, <1>6, QuietCycleStep DEF Fault

\* What people do to series and pull requests.
LEMMA PeopleKeep ==
    ASSUME IInv, People
    PROVE  IInv'
<1>1. GitHubTypeOK /\ PatchworkTypeOK /\ UNCHANGED <<workerVars, cycleVars, faults>>
  BY DEF People, ClosePrByHand, IInv, TypeOK
<1>2. PullsKept
  BY <1>1, SamePullsKept, ClosedKeeps DEF People, ClosePrByHand, ghVars
<1>3. events' \in 0..MaxEvents
  <2>1. SpendEvent
    BY DEF People, ClosePrByHand, PostSeries, ChangeStatus, RenameSeries
  <2> QED
    BY <1>1, <2>1, PatchworkAssumption DEF SpendEvent, PatchworkTypeOK
<1>4. /\ series' \in [Series -> PostedSeries \cup {NotPosted}]
      /\ \A i \in Series : Posted(i) => Posted(i)'
  <2>1. CASE UNCHANGED series
    BY <1>1, <2>1 DEF PatchworkTypeOK, Posted
  <2>2. ASSUME NEW i \in Series, NEW t \in Subjects, NEW m \in Mappings,
               series' = [series EXCEPT ![i] =
                   [subject |-> t, status |-> "relevant", targets |-> m]]
        PROVE  <1>4
    BY <1>1, <2>2 DEF PatchworkTypeOK, PostedSeries, AllStatuses, Posted
  <2>3. ASSUME NEW i \in Series, Posted(i),
               (\E s \in Statuses : series' = [series EXCEPT ![i].status = s])
               \/ (\E t \in Subjects : series' = [series EXCEPT ![i].subject = t])
        PROVE  <1>4
    <3>1. series[i] \in PostedSeries
      BY <1>1, <2>3 DEF PatchworkTypeOK, Posted, NotPosted
    <3>2. series' = [series EXCEPT ![i] = series'[i]] /\ series'[i] \in PostedSeries
      <4>1. ASSUME NEW s \in Statuses, series' = [series EXCEPT ![i].status = s]
            PROVE  <3>2
        BY <1>1, <3>1, <4>1, PatchworkAssumption DEF PatchworkTypeOK, PostedSeries
      <4>2. ASSUME NEW t \in Subjects, series' = [series EXCEPT ![i].subject = t]
            PROVE  <3>2
        BY <1>1, <3>1, <4>2 DEF PatchworkTypeOK, PostedSeries
      <4> QED
        BY <2>3, <4>1, <4>2
    <3>3. \A r \in PostedSeries : r.status # "absent"
      BY DEF PostedSeries, AllStatuses
    <3> QED
      BY <1>1, <3>2, <3>3 DEF PatchworkTypeOK, Posted
  <2> QED
    BY <2>1, <2>2, <2>3
       DEF People, ClosePrByHand, PostSeries, ChangeStatus, RenameSeries
<1>5. PatchworkTypeOK'
  BY <1>3, <1>4 DEF PatchworkTypeOK
<1>6. CycleTypeOK' /\ JobTypeOK'
  <2>1. CycleTypeOK'
    BY <1>1, <1>2, CycleSame DEF PullsKept, IInv, TypeOK
  <2>2. ScanSound => ScanSound'
    BY <1>1 DEF workerVars, memVars, cycleVars, ScanSound, ScanOfCycle, Keys
  <2>3. ScanOfCycle => ScanOfCycle'
    BY <1>1 DEF cycleVars, ScanOfCycle
  <2> QED
    BY <1>1, <1>2, <2>1, <2>2, <2>3
       DEF workerVars, cycleVars, PullsKept, IInv, TypeOK, JobTypeOK
<1>7. Grounded'
  <2>1. \A n \in Numbers : SeriesOf(pulls[n].head) \in BranchNames
    BY <1>1, PullType DEF PullRequest, Refs, SeriesOf
  <2>2. job \in Jobs => job.branch \in BranchNames
    BY DEF Jobs
  <2>3. \A b \in BranchNames : Named(b) => Named(b)'
    BY <1>4 DEF BranchNames, Named
  <2>4. \A n \in Numbers' : Named(SeriesOf(pulls[n].head))'
    BY <1>2, <2>1, <2>3 DEF PullsKept, IInv, Grounded, SeriesOf
  <2> QED
    BY <1>1, <2>2, <2>3, <2>4 DEF workerVars, IInv, Grounded
<1>8. heads' \in [Refs -> Contents] /\ applies' \in [Refs -> Outcomes \cup {Unknown}]
  BY <1>1 DEF People, ClosePrByHand, ghVars, GitHubTypeOK
<1>9. Refreshed' \subseteq Refreshed
  BY <1>1 DEF workerVars, cycleVars, Refreshed
<1> QED
  BY <1>1, <1>2, <1>5, <1>6, <1>7, <1>8, <1>9, CycleStep
     DEF workerVars, memVars, IInv, TypeOK, MemTypeOK

(***************************************************************************)
(* The theorems.                                                           *)
(***************************************************************************)
\* Before the first cycle nothing is remembered and nothing exists.
LEMMA InitIInv == Init => IInv
<1> SUFFICES ASSUME Init PROVE IInv
  OBVIOUS
<1>1. PatchworkTypeOK
  BY PatchworkAssumption DEF Init, PatchworkInit, PatchworkTypeOK
<1>2. pulls = <<>> /\ Numbers = {}
  BY DEF Init, GitHubInit, Numbers
<1>3. GitHubTypeOK
  BY <1>2, EmptySeq DEF Init, GitHubInit, GitHubTypeOK, Contents
<1>4. MemTypeOK
  BY DEF Init, WorkerInit, NoPrs, NoRefs, NothingFetched, Contents, MemTypeOK
<1>5. JobTypeOK
  BY DEF Init, WorkerInit, JobTypeOK, JobPcs, WorkerPcs, SyncPcs
<1>6. CycleTypeOK
  BY GithubSyncAssumption DEF Init, EmptyQueue, CycleTypeOK
<1>7. PrHeads /\ OpenPrsKnown
  BY <1>2 DEF Init, WorkerInit, NoRefs, PrHeads, OpenPrsKnown, OpenFrom, OpenPulls
<1>8. Grounded
  <2>1. "rest" \notin DOMAIN NoJob
    BY DEF NoJob
  <2>2. \A j \in Jobs : "rest" \in DOMAIN j
    BY DEF Jobs
  <2> QED
    BY <1>2, <2>1, <2>2 DEF Init, WorkerInit, Grounded
<1> QED
  BY <1>1, <1>3, <1>4, <1>5, <1>6, <1>7, <1>8 DEF IInv, TypeOK

\* A step in which nothing happens.
LEMMA StutteringKeeps ==
    ASSUME IInv, UNCHANGED vars
    PROVE  IInv'
<1> USE DEF vars, pwVars, ghVars, workerVars, memVars, cycleVars
<1>1. PatchworkTypeOK' /\ GitHubTypeOK' /\ Numbers' = Numbers
  BY DEF IInv, TypeOK, PatchworkTypeOK, GitHubTypeOK, Numbers
<1>2. MemTypeOK' /\ CycleTypeOK'
  BY <1>1, MemSame, CycleSame DEF IInv, TypeOK
<1>3. JobTypeOK'
  BY <1>1 DEF IInv, TypeOK, JobTypeOK, ScanSound, ScanOfCycle, Keys
<1>4. PrHeads' /\ OpenPrsKnown'
  BY SamePullsKept, KnownKept DEF IInv, TypeOK, Refreshed
<1>5. Grounded'
  BY SamePullsKept, GroundedKept DEF IInv, TypeOK
<1> QED
  BY <1>1, <1>2, <1>3, <1>4, <1>5 DEF IInv, TypeOK

\* Every step of the daemon, of people and of failures keeps the invariant.
LEMMA NextIInv == IInv /\ [Next]_vars => IInv'
<1> SUFFICES ASSUME IInv, [Next]_vars PROVE IInv'
  OBVIOUS
<1>1. CASE UNCHANGED vars
  BY <1>1, StutteringKeeps
<1>2. CASE Fault \/ People
  BY <1>2, FaultKeeps, PeopleKeep
<1>3. CASE Daemon
  BY <1>3, StartCycleKeeps, RefreshKeeps, FetchSubjectsKeeps, PickSubjectKeeps,
     TryTargetKeeps, MoveOnKeeps, CheckoutAndPatchKeeps, SyncChecksKeeps,
     CloseOtherKeeps, StartScanKeeps, SyncOldPrKeeps, ExpireBranchesKeeps,
     EndCycleKeeps
     DEF Daemon
<1> QED
  BY <1>1, <1>2, <1>3 DEF Next

\* The invariant holds throughout every behaviour.
LEMMA Invariant == Spec => []IInv
<1>1. Init => IInv
  BY InitIInv
<1>2. IInv /\ [Next]_vars => IInv'
  BY NextIInv
<1> QED
  BY <1>1, <1>2, PTL DEF Spec

\* Every variable keeps its type: a handler never works without its arguments,
\* a pull request number always stands for a pull request, and the loop over a
\* worker's pull requests never comes upon a title that is gone.
THEOREM TypeCorrect == Spec => []TypeOK
<1>1. IInv => TypeOK
  BY DEF IInv
<1> QED
  BY <1>1, Invariant, PTL

\* Whatever people do and whatever fails, _guess_pr and expire_branches never
\* overlook an open pull request of a refreshed worker.
THEOREM OpenPrsAreKnown == Spec => []OpenPrsKnown
<1>1. IInv => OpenPrsKnown
  BY DEF IInv
<1> QED
  BY <1>1, Invariant, PTL

\* A branch taken for one without known pull requests has no open one.
LEMMA ExpirableHaveNone ==
    ASSUME IInv, pc = "expire", NEW aged,
           NEW r \in ExpirableBranches(scan.worker, aged)
    PROVE  r \in Refs /\ all_prs[r] = NoPR /\ OpenFrom(r) = {}
<1>1. TargetOf(r) = scan.worker /\ all_prs[r] = NoPR /\ r \in Refs
  BY DEF ExpirableBranches, IInv, TypeOK, MemTypeOK
<1>2. TargetOf(r) \in Refreshed
  BY <1>1 DEF IInv, TypeOK, JobTypeOK, ScanOfCycle, Refreshed
<1> QED
  BY <1>1, <1>2 DEF IInv, OpenPrsKnown

\* expire_branches never deletes the branch of an open pull request.
ExpiryOutlivesPr ==
    pc = "expire" =>
        \A r \in Refs : heads[r] # Gone /\ heads'[r] = Gone => OpenFrom(r) = {}

\* expire_branches looks at the branches that were there at the refresh and at
\* what it knows of their pull requests; whatever happened since, the branch of
\* an open pull request is not among those it deletes.
THEOREM ExpirySpares == Spec => [][ExpiryOutlivesPr]_vars
<1>1. ASSUME IInv, [Next]_vars
      PROVE  [ExpiryOutlivesPr]_vars
  <2> SUFFICES ASSUME Next, pc = "expire", NEW r \in Refs,
                      heads[r] # Gone, heads'[r] = Gone
               PROVE  OpenFrom(r) = {}
    BY <1>1 DEF ExpiryOutlivesPr
  <2>1. ExpireBranches
    <3>1. heads' # heads
      OBVIOUS
    <3>2. ~Fault /\ ~People
      BY <3>1 DEF Fault, People, ClosePrByHand, ghVars
    <3>3. ~Patching
      BY DEF Patching, CheckoutAndPatch, CloseSeriesPr, DeleteClosedBranch, Apply,
             UseOpenPr, ReopenPr, NoPrToUse, SkipEmptyPr, PushDummy, CreatePr,
             SetLabels, PushNewBranch, PushUpdate, GitPush
    <3> QED
      BY <3>1, <3>2, <3>3
         DEF Next, Daemon, StartCycle, Refresh, FetchSubjects, PickSubject,
             TryTarget, NoTargetLeft, NoPrReturned, SyncChecks, CloseOther,
             SubjectDone, AllSubjectsDone, StartScan, ScanRaises, SkipOldPr,
             SyncOldPr, ScanDone, EndCycle
  <2>2. \E aged : r \in ExpirableBranches(scan.worker, aged)
    BY <2>1 DEF ExpireBranches, DeleteRefs
  <2> QED
    BY <1>1, <2>2, ExpirableHaveNone
<1> QED
  BY <1>1, Invariant, PTL DEF Spec
=============================================================================
