------------------------- MODULE PullRequestProofs -------------------------
(***************************************************************************)
(* Theorems about GithubSync and the pull requests of one branch: which    *)
(* one has its checks reported, and what becomes of it.                    *)
(***************************************************************************)
EXTENDS GithubSyncProofs, WellFoundedInduction

(***************************************************************************)
(* The pull request whose checks are reported.                             *)
(***************************************************************************)
\* What a handler has established before each of its GitHub calls: on the arms
\* that do not push later the clone has the branch with the series already, the
\* pull request it works on is one from the branch, and it is not labelled
\* merge-conflict when the push comes last.
JobSound ==
    /\ pc \in {"comment", "create", "label"} /\ job.path \notin {"conflict", "update"}
          => origin[Ref] = job.series
    /\ pc = "dummy" => job.path = "conflict"
    /\ pc = "label" \/ (pc = "push" /\ job.path = "update")
          => job.pr \in Numbers /\ pulls[job.pr].head = Ref
    /\ pc = "push" => job.path \in {"new", "update"}
    /\ pc = "push" /\ job.path = "update" => ~pulls[job.pr].conflict

\* The part of CheckedPrMatches that does not speak of GitHub's branch.
CheckedPrFetched ==
    Synced =>
        /\ pulls[job.pr].head = Ref
        /\ pulls[job.pr].conflict <=> job.path = "conflict"
        /\ job.path # "conflict" => origin[Ref] = job.series

CInv == JobSound /\ CheckedPrFetched

\* The steps of the handler at which there is something to show.
SoundPcs == {"comment", "create", "dummy", "label", "push", "returned"}

\* A step that ends anywhere else, or returns None.
LEMMA CInvElsewhere ==
    ASSUME pc' \notin SoundPcs \/ (pc' = "returned" /\ job'.pr = NoPR)
    PROVE  CInv'
BY DEF CInv, JobSound, CheckedPrFetched, Synced, SoundPcs

\* A step that changes neither the job nor what it has established.
LEMMA CInvFrame ==
    ASSUME CInv, UNCHANGED <<pc, job, origin>>, Numbers' = Numbers,
           \A n \in Numbers : /\ pulls'[n].head = pulls[n].head
                              /\ pulls'[n].conflict = pulls[n].conflict,
           Synced => job.pr \in Numbers
    PROVE  CInv'
<1>1. JobSound'
  BY DEF CInv, JobSound, Ref
<1>2. CheckedPrFetched'
  BY DEF CInv, CheckedPrFetched, Synced, Ref
<1> QED
  BY <1>1, <1>2 DEF CInv

\* The handler's steps before it has a pull request.
LEMMA CInvChoice ==
    ASSUME IInv, CInv,
           CloseSeriesPr \/ DeleteClosedBranch \/ Apply \/ NoPrToUse \/ SkipEmptyPr
    PROVE  CInv'
<1>1. CASE CloseSeriesPr \/ DeleteClosedBranch \/ SkipEmptyPr
  <2>1. pc' \in {"delete", "raised"} \/ ReturnNone
    BY <1>1 DEF CloseSeriesPr, DeleteClosedBranch, SkipEmptyPr, Raise, Goto
  <2>2. ReturnNone => pc' = "returned" /\ job'.pr = NoPR
    <3>1. job \in Jobs
      BY <1>1, JobInHandler DEF CloseSeriesPr, DeleteClosedBranch, SkipEmptyPr, WorkerPcs
    <3> QED
      BY <3>1 DEF ReturnNone, Return, Jobs
  <2> QED
    BY <2>1, <2>2, CInvElsewhere DEF SoundPcs
<1>2. CASE Apply
  <2>1. job \in Jobs
    BY <1>2, JobInHandler DEF Apply, WorkerPcs
  <2>2. CASE ReturnNone
    BY <2>1, <2>2, CInvElsewhere DEF ReturnNone, Return, Jobs
  <2>3. ASSUME NEW outcome,
               job' = [job EXCEPT !.path = PathFor(outcome)],
               pc' = IF PathFor(outcome) = "new" THEN "push" ELSE "comment"
        PROVE  CInv'
    <3>1. /\ job'.path = PathFor(outcome) /\ job'.series = job.series
          /\ Ref' = Ref
      BY <2>1, <2>3 DEF Jobs, Ref
    <3>2. PathFor(outcome) = "touch" => origin[Ref] = job.series
      BY DEF PathFor, IsBranchChanged
    <3>3. PathFor(outcome) \in {"conflict", "new", "update", "touch"}
      BY DEF PathFor
    <3> QED
      BY <1>2, <2>3, <3>1, <3>2, <3>3
         DEF Apply, memVars, CInv, JobSound, CheckedPrFetched, Synced
  <2> QED
    BY <1>2, <2>2, <2>3 DEF Apply
<1>3. CASE NoPrToUse
  BY <1>3 DEF NoPrToUse, Goto, memVars, CInv, JobSound, CheckedPrFetched, Synced, Ref
<1> QED
  BY <1>1, <1>2, <1>3

\* Finding, re-opening or creating the pull request.
LEMMA CInvFound ==
    ASSUME IInv, CInv, pc \in {"comment", "create", "dummy"}, NEW n \in Nat,
           FoundPr(n), pc' = "label", UNCHANGED origin,
           n \in Numbers', pulls'[n].head = Ref
    PROVE  CInv'
<1>1. job \in Jobs
  BY JobInHandler DEF WorkerPcs
<1>2. /\ job'.pr = n /\ job'.path = job.path /\ job'.series = job.series
      /\ Ref' = Ref
  BY <1>1 DEF FoundPr, Jobs, Ref
<1> QED
  BY <1>2 DEF CInv, JobSound, CheckedPrFetched, Synced

LEMMA CInvOpen ==
    ASSUME IInv, CInv, UseOpenPr \/ ReopenPr \/ CreatePr
    PROVE  CInv'
<1>1. pc \in {"comment", "create", "dummy"} /\ pc \in WorkerPcs /\ GitHubTypeOK
  BY DEF UseOpenPr, ReopenPr, CreatePr, WorkerPcs, IInv, TypeOK
<1>2. CASE UseOpenPr
  <2>1. PICK n \in GuessPr(Ref) : FoundPr(n)
    BY <1>2 DEF UseOpenPr
  <2>2. n \in Numbers /\ n \in Nat /\ pulls[n].head = Ref
    BY <1>1, GuessPrType
  <2> QED
    BY <1>1, <1>2, <2>1, <2>2, CInvFound DEF UseOpenPr, ghVars, memVars, Numbers
<1>3. CASE ReopenPr
  <2>1. CASE pc' = "create" /\ UNCHANGED <<pulls, all_prs, prs, seenClosed, job>>
    BY <1>3, <2>1 DEF ReopenPr, CInv, JobSound, CheckedPrFetched, Synced, Ref
  <2>2. ASSUME NEW n \in GuessPr(Ref), pulls' = [pulls EXCEPT ![n].open = TRUE],
               FoundPr(n), pc' = "label"
        PROVE  CInv'
    <3>1. n \in Numbers /\ n \in Nat /\ pulls[n].head = Ref
      BY <1>1, GuessPrType
    <3>2. pulls[n] \in PullRequest
      BY <1>1, <3>1, PullType
    <3>3. n \in Numbers' /\ pulls'[n].head = Ref
      BY <2>2, <3>1, <3>2 DEF Numbers, PullRequest
    <3> QED
      BY <1>1, <1>3, <2>2, <3>1, <3>3, CInvFound DEF ReopenPr
  <2> QED
    BY <1>3, <2>1, <2>2 DEF ReopenPr
<1>4. CASE CreatePr
  <2>1. CASE Raise
    BY <2>1, CInvElsewhere DEF Raise, SoundPcs
  <2>2. CASE ~Raise
    <3> DEFINE n == Len(pulls) + 1
               new == [head |-> Ref, title |-> job.subject, open |-> TRUE,
                       conflict |-> FALSE, frozen |-> FALSE]
    <3>1. /\ pulls' = Append(pulls, new) /\ FoundPr(n) /\ pc' = "label"
          /\ UNCHANGED origin
      BY <1>4, <2>2 DEF CreatePr, CreatedPull
    <3>2. Ref \in Refs /\ job.subject \in Subjects
      BY <1>1, JobInHandler DEF Jobs
    <3>3. new \in PullRequest
      BY <3>2 DEF PullRequest
    <3>4. pulls' \in Seq(PullRequest) /\ Len(pulls') = n /\ pulls'[n] = new
          /\ Len(pulls) \in Nat
      BY <1>1, <3>1, <3>3, AppendProperties, LenProperties DEF GitHubTypeOK
    <3>5. n \in Numbers' /\ n \in Nat
      BY <3>4, LenProperties DEF Numbers
    <3>6. pulls'[n].head = Ref
      BY <3>4
    <3> HIDE DEF n, new
    <3> QED
      BY <1>1, <3>1, <3>5, <3>6, CInvFound
  <2> QED
    BY <2>1, <2>2
<1> QED
  BY <1>2, <1>3, <1>4

\* Setting the labels.
LEMMA CInvLabels ==
    ASSUME IInv, CInv, SetLabels
    PROVE  CInv'
<1>1. pc = "label" /\ job \in Jobs /\ GitHubTypeOK
  BY JobInHandler DEF SetLabels, WorkerPcs, IInv, TypeOK
<1>2. job.pr \in Numbers /\ pulls[job.pr].head = Ref
  BY <1>1 DEF CInv, JobSound
<1>3. pulls[job.pr] \in PullRequest
  BY <1>1, <1>2, PullType
<1>4. /\ Numbers' = Numbers
      /\ pulls'[job.pr].head = Ref
      /\ pulls'[job.pr].conflict = (job.path = "conflict")
  BY <1>2, <1>3 DEF SetLabels, Numbers, PullRequest
<1>5. job' = job /\ Ref' = Ref /\ UNCHANGED origin
  BY <1>1 DEF SetLabels, memVars, Goto, Return, Jobs, Ref
<1>6. CASE job.path = "update"
  BY <1>1, <1>2, <1>4, <1>5, <1>6
     DEF SetLabels, Goto, CInv, JobSound, CheckedPrFetched, Synced
<1>7. CASE job.path # "update"
  BY <1>1, <1>2, <1>4, <1>5, <1>7
     DEF SetLabels, Return, CInv, JobSound, CheckedPrFetched, Synced
<1> QED
  BY <1>6, <1>7

\* The three force-pushes.
LEMMA CInvPush ==
    ASSUME IInv, CInv, PushDummy \/ PushNewBranch \/ PushUpdate
    PROVE  CInv'
<1>1. pc \in WorkerPcs /\ job \in Jobs /\ Ref \in Refs /\ GitHubTypeOK /\ MemTypeOK
  BY JobInHandler DEF PushDummy, PushNewBranch, PushUpdate, WorkerPcs, IInv, TypeOK
<1>2. CASE PushDummy
  BY <1>2 DEF PushDummy, Goto, CInv, JobSound, CheckedPrFetched, Synced
<1>3. CASE PushNewBranch
  <2>1. origin'[Ref] = job.series /\ Ref' = Ref /\ job' = job
    BY <1>1, <1>3 DEF PushNewBranch, GitPush, Goto, Ref, MemTypeOK
  <2> QED
    BY <1>3, <2>1 DEF PushNewBranch, Goto, CInv, JobSound, CheckedPrFetched, Synced
<1>4. CASE PushUpdate
  <2>1. CASE pc' = "raised"
    BY <2>1, CInvElsewhere DEF SoundPcs
  <2>2. CASE Return(job.pr)
    <3>1. origin'[Ref] = job.series /\ Ref' = Ref /\ job' = job
      BY <1>1, <1>4, <2>2 DEF PushUpdate, GitPush, Return, Ref, MemTypeOK, Jobs
    <3>2. job.pr \in Numbers /\ pulls[job.pr].head = Ref /\ ~pulls[job.pr].conflict
      BY <1>4 DEF PushUpdate, CInv, JobSound
    <3>3. pulls[job.pr] \in PullRequest
      BY <1>1, <3>2, PullType
    <3>4. pulls'[job.pr].head = Ref /\ ~pulls'[job.pr].conflict
      BY <1>4, <3>2, <3>3 DEF PushUpdate, GitPush, ForcePush, Frozen, PullRequest
    <3> QED
      BY <1>4, <2>2, <3>1, <3>4
         DEF PushUpdate, Return, CInv, JobSound, CheckedPrFetched, Synced
  <2> QED
    BY <1>4, <2>1, <2>2 DEF PushUpdate
<1> QED
  BY <1>2, <1>3, <1>4

\* Every step keeps it.
LEMMA CInvNext == IInv /\ CInv /\ [Next]_vars => CInv'
<1> SUFFICES ASSUME IInv, CInv, [Next]_vars PROVE CInv'
  OBVIOUS
<1>1. Synced => job.pr \in Numbers
  <2>1. pc = "returned" => job.pr \in Numbers \cup {NoPR}
    BY DEF IInv, TypeOK, JobTypeOK, JobPcs
  <2> QED
    BY <2>1 DEF Synced
<1>2. CASE UNCHANGED vars
  BY <1>1, <1>2, CInvFrame DEF vars, workerVars, memVars, ghVars, Numbers
<1>3. CASE People
  <2>1. UNCHANGED <<pc, job, origin>>
    BY <1>3 DEF People, ClosePrByHand, workerVars, memVars
  <2>2. /\ Numbers' = Numbers
        /\ \A n \in Numbers : /\ pulls'[n].head = pulls[n].head
                              /\ pulls'[n].conflict = pulls[n].conflict
    <3>1. CASE UNCHANGED pulls
      BY <3>1 DEF Numbers
    <3>2. ASSUME NEW n \in Numbers, pulls' = Closed(n)
          PROVE  <2>2
      <4>1. \A m \in Numbers : pulls[m] \in PullRequest
        BY PullType DEF IInv, TypeOK
      <4> QED
        BY <3>2, <4>1 DEF Closed, Numbers, PullRequest
    <3> QED
      BY <1>3, <3>1, <3>2 DEF People, ClosePrByHand, ghVars
  <2> QED
    BY <1>1, <2>1, <2>2, CInvFrame
<1>4. CASE Fault
  BY <1>4, CInvElsewhere DEF Fault, SoundPcs
<1>5. CASE Patching
  BY <1>5, CInvChoice, CInvOpen, CInvLabels, CInvPush DEF Patching, CheckoutAndPatch
<1>6. CASE Daemon /\ ~Patching
  <2>1. pc' \notin SoundPcs
    <3>1. CASE StartCycle \/ (\E w \in Workers : Refresh(w)) \/ FetchSubjects
                 \/ (\E t \in Subjects : PickSubject(t)) \/ TryTarget \/ NoTargetLeft
      BY <3>1 DEF StartCycle, Refresh, FetchSubjects, PickSubject, TryTarget,
                  NoTargetLeft, Raise, SoundPcs
    <3>2. CASE NoPrReturned \/ SyncChecks \/ (\E n \in Numbers : CloseOther(n))
                 \/ SubjectDone \/ AllSubjectsDone
      BY <3>2 DEF NoPrReturned, SyncChecks, CloseOther, SubjectDone,
                  AllSubjectsDone, SoundPcs
    <3>3. CASE (\E w \in Workers : StartScan(w)) \/ ScanRaises
                 \/ (\E t \in Subjects : SkipOldPr(t) \/ SyncOldPr(t)) \/ ScanDone
                 \/ ExpireBranches \/ EndCycle
      BY <3>3 DEF StartScan, ScanRaises, Raise, SkipOldPr, SyncOldPr, ScanDone,
                  ExpireBranches, EndCycle, ForgetAll, workerVars, SoundPcs
    <3> QED
      BY <1>6, <3>1, <3>2, <3>3 DEF Daemon
  <2> QED
    BY <2>1, CInvElsewhere
<1> QED
  BY <1>2, <1>3, <1>4, <1>5, <1>6 DEF Next

(***************************************************************************)
(* The clone's view of the branches.                                       *)
(***************************************************************************)
\* A handler only runs for a worker that was refreshed in this cycle, and to
\* such a worker's clone every branch is what it is on GitHub, or it was
\* deleted since by a GitHub call.
CloneFresh ==
    /\ pc \in WorkerPcs \cup {"returned"} => job.worker \in sync
    /\ \A r \in Refs : TargetOf(r) \in Refreshed => heads[r] \in {origin[r], Gone}

\* A step that refreshes no worker and changes no branch but by git push, for a
\* job of the same worker or outside of the handler.
LEMMA CloneFreshKept ==
    ASSUME IInv, CloneFresh, UNCHANGED sync, Refreshed' \subseteq Refreshed,
           \A r \in Refs : \/ heads'[r] = heads[r] /\ origin'[r] = origin[r]
                          \/ heads'[r] \in {origin'[r], Gone},
           \/ pc' \notin WorkerPcs \cup {"returned"}
           \/ pc \in WorkerPcs \cup {"returned"} /\ job'.worker = job.worker
    PROVE  CloneFresh'
BY DEF CloneFresh

\* The handler changes branches by git push and by delete_branch, and works for
\* the same target all along.
LEMMA CloneFreshPatching ==
    ASSUME IInv, CloneFresh, Patching
    PROVE  CloneFresh'
<1>1. pc \in WorkerPcs /\ job \in Jobs /\ Ref \in Refs /\ GitHubTypeOK /\ MemTypeOK
  <2>1. pc \in WorkerPcs
    BY DEF Patching, CheckoutAndPatch, CloseSeriesPr, DeleteClosedBranch, Apply,
           UseOpenPr, ReopenPr, NoPrToUse, SkipEmptyPr, PushDummy, CreatePr,
           SetLabels, PushNewBranch, PushUpdate, WorkerPcs
  <2> QED
    BY <2>1, JobInHandler DEF IInv, TypeOK
<1>2. job'.worker = job.worker
  BY <1>1 DEF Patching, CheckoutAndPatch, CloseSeriesPr, DeleteClosedBranch, Apply,
         UseOpenPr, ReopenPr, NoPrToUse, SkipEmptyPr, PushDummy, CreatePr,
         SetLabels, PushNewBranch, PushUpdate, Goto, ReturnNone, Return, FoundPr,
         Raise, Jobs
<1>3. UNCHANGED sync
  BY DEF Patching, cycleVars
<1>4. Refreshed' \subseteq Refreshed
  <2>1. pc' # "refresh" /\ pc \notin {"refresh", "raised"}
    BY <1>1 DEF Patching, CheckoutAndPatch, CloseSeriesPr, DeleteClosedBranch, Apply,
           UseOpenPr, ReopenPr, NoPrToUse, SkipEmptyPr, PushDummy, CreatePr,
           SetLabels, PushNewBranch, PushUpdate, Goto, ReturnNone, Return, Raise,
           WorkerPcs
  <2> QED
    BY <1>3, <2>1, RefreshedKept
<1>5. ASSUME NEW r \in Refs
      PROVE  \/ heads'[r] = heads[r] /\ origin'[r] = origin[r]
             \/ heads'[r] \in {origin'[r], Gone}
  <2>1. \/ UNCHANGED <<heads, origin>>
        \/ DeleteRefs({Ref}) /\ UNCHANGED origin
        \/ GitPush(Outdated) \/ GitPush(job.series)
    BY DEF Patching, CheckoutAndPatch, CloseSeriesPr, DeleteClosedBranch, Apply,
           UseOpenPr, ReopenPr, NoPrToUse, SkipEmptyPr, PushDummy, CreatePr,
           SetLabels, PushNewBranch, PushUpdate, Raise, ghVars, memVars
  <2>2. ASSUME NEW contents, GitPush(contents)
        PROVE  \/ heads'[r] = heads[r] /\ origin'[r] = origin[r]
               \/ heads'[r] \in {origin'[r], Gone}
    BY <1>1, <2>2 DEF GitPush, ForcePush, GitHubTypeOK, MemTypeOK
  <2> QED
    BY <2>1, <2>2 DEF DeleteRefs
<1> QED
  BY <1>1, <1>2, <1>3, <1>4, <1>5, CloneFreshKept

\* git fetch, after do_sync.
LEMMA CloneFreshRefresh ==
    ASSUME IInv, CloneFresh, NEW w \in Workers, Refresh(w)
    PROVE  CloneFresh'
<1>1. pc' \in {"fetch", "refresh"} /\ Refreshed' \subseteq Refreshed \cup {w}
  BY DEF Refresh, Refreshed
<1>2. ASSUME NEW r \in Refs, TargetOf(r) \in Refreshed'
      PROVE  heads'[r] \in {origin'[r], Gone}
  <2>1. CASE TargetOf(r) = w
    BY <2>1 DEF Refresh, Fetch
  <2>2. CASE TargetOf(r) # w
    <3>1. heads'[r] = heads[r] /\ origin'[r] = origin[r]
      BY <2>2 DEF Refresh, Fetch, MoveUpstream
    <3> QED
      BY <1>1, <1>2, <2>2, <3>1 DEF CloneFresh
  <2> QED
    BY <2>1, <2>2
<1> QED
  BY <1>1, <1>2 DEF CloneFresh, WorkerPcs

\* Every step keeps it.
LEMMA CloneFreshNext == IInv /\ CloneFresh /\ [Next]_vars => CloneFresh'
<1> SUFFICES ASSUME IInv, CloneFresh, [Next]_vars PROVE CloneFresh'
  OBVIOUS
<1>1. CASE UNCHANGED vars
  BY <1>1 DEF vars, ghVars, workerVars, memVars, cycleVars, CloneFresh, Refreshed
<1>2. CASE People
  <2>1. UNCHANGED <<heads, origin, pc, job, sync, todo>>
    BY <1>2 DEF People, ClosePrByHand, ghVars, workerVars, memVars, cycleVars
  <2> QED
    BY <2>1 DEF CloneFresh, Refreshed
<1>3. CASE Fault
  BY <1>3 DEF Fault, CloneFresh, Refreshed, WorkerPcs
<1>4. CASE Patching
  BY <1>4, CloneFreshPatching
<1>5. CASE \E w \in Workers : Refresh(w)
  BY <1>5, CloneFreshRefresh
<1>6. CASE StartCycle
  BY <1>6 DEF StartCycle, CloneFresh, Refreshed, WorkerPcs
<1>7. CASE EndCycle
  BY <1>7 DEF EndCycle, ForgetAll, CloneFresh, Refreshed, WorkerPcs
<1>8. CASE FetchSubjects \/ (\E t \in Subjects : PickSubject(t)) \/ NoTargetLeft
             \/ NoPrReturned \/ SyncChecks \/ (\E n \in Numbers : CloseOther(n))
             \/ SubjectDone \/ AllSubjectsDone
  <2>1. /\ UNCHANGED <<heads, origin, sync>>
        /\ pc \notin {"refresh", "raised"} /\ pc' # "refresh"
        /\ pc' \notin WorkerPcs \cup {"returned"}
    BY <1>8 DEF FetchSubjects, PickSubject, NoTargetLeft, NoPrReturned, SyncChecks,
            CloseOther, SubjectDone, AllSubjectsDone, ghVars, memVars, cycleVars,
            WorkerPcs
  <2> QED
    BY <2>1, RefreshedKept, CloneFreshKept
<1>9. CASE (\E w \in Workers : StartScan(w)) \/ ScanRaises
             \/ (\E t \in Subjects : SkipOldPr(t)) \/ ScanDone
  <2>1. /\ UNCHANGED <<heads, origin, sync>>
        /\ pc \notin {"refresh", "raised"} /\ pc' # "refresh"
        /\ pc' \notin WorkerPcs \cup {"returned"}
    BY <1>9 DEF StartScan, ScanRaises, Raise, SkipOldPr, ScanDone, ghVars, memVars,
            workerVars, cycleVars, WorkerPcs
  <2> QED
    BY <2>1, RefreshedKept, CloneFreshKept
<1>10. CASE ExpireBranches
  <2>1. /\ \A r \in Refs : heads'[r] \in {heads[r], Gone} /\ origin'[r] = origin[r]
        /\ UNCHANGED sync /\ pc = "expire" /\ pc' \in {"done", "scan"}
    BY <1>10 DEF ExpireBranches, DeleteRefs, memVars
  <2> QED
    BY <2>1, RefreshedKept, CloneFreshKept DEF WorkerPcs
<1>11. CASE TryTarget
  <2>1. /\ UNCHANGED <<heads, origin, sync>>
        /\ pc = "target" /\ pc' \in {"target", "patch", "raised"}
    BY <1>11 DEF TryTarget, Raise, ghVars, memVars, cycleVars
  <2>2. pc' = "patch" => job'.worker \in sync
    <3>1. job \in Jobs
      BY <2>1 DEF IInv, TypeOK, JobTypeOK, JobPcs
    <3> QED
      BY <1>11, <2>1, <3>1 DEF TryTarget, Raise, Jobs
  <2>3. Refreshed' \subseteq Refreshed
    BY <2>1, RefreshedKept
  <2> QED
    BY <2>1, <2>2, <2>3 DEF CloneFresh, WorkerPcs
<1>12. ASSUME NEW t \in Subjects, SyncOldPr(t)
       PROVE  CloneFresh'
  <2>1. /\ UNCHANGED <<heads, origin, sync>>
        /\ pc = "old" /\ pc' \in {"old", "patch"}
    BY <1>12 DEF SyncOldPr
  <2>2. pc' = "patch" => job'.worker \in sync
    BY <1>12, <2>1
       DEF SyncOldPr, NewJob, IInv, TypeOK, JobTypeOK, ScanSound, ScanOfCycle
  <2>3. Refreshed' \subseteq Refreshed
    BY <2>1, RefreshedKept
  <2> QED
    BY <2>1, <2>2, <2>3 DEF CloneFresh, WorkerPcs
<1> QED
  BY <1>1, <1>2, <1>3, <1>4, <1>5, <1>6, <1>7, <1>8, <1>9, <1>10, <1>11, <1>12
     DEF Next, Daemon

(***************************************************************************)
(* The open pull request of a branch is its newest one.                    *)
(***************************************************************************)
Newest(n) == \A m \in Numbers : pulls[m].head = pulls[n].head => m <= n

\* What is taken for closed in memory is closed: only the daemon re-opens.
ClosedSeen == seenClosed \subseteq ClosedPulls

\* A pull request that cannot be re-opened is closed, and none can be while its
\* branch is gone.
FrozenIsClosed ==
    \A n \in Numbers :
        /\ pulls[n].frozen => ~pulls[n].open
        /\ heads[pulls[n].head] = Gone => pulls[n].frozen

\* An older pull request of a branch is never open, whatever became of the newest.
OpenIsNewest == \A n \in OpenPulls : Newest(n)

\* The pull request _guess_pr takes for that of the branch may be an old one only
\* if it cannot be re-opened.
KnownIsNewest ==
    \A r \in Refs : all_prs[r] # NoPR =>
        pulls[all_prs[r]].frozen \/ Newest(all_prs[r])

\* When a new pull request is about to be created, a known one was refused.
RefusedIsFrozen ==
    pc \in {"create", "dummy"} /\ all_prs[Ref] # NoPR => pulls[all_prs[Ref]].frozen

GInv ==
    /\ ClosedSeen /\ FrozenIsClosed /\ OpenIsNewest
    /\ KnownIsNewest /\ RefusedIsFrozen

\* One pull request is edited, or none: not opened, moved or frozen.
EditOf(n, p) ==
    /\ n \in Numbers /\ p \in PullRequest
    /\ p.head = pulls[n].head /\ p.frozen = pulls[n].frozen
    /\ p.open => pulls[n].open
    /\ pulls' = [pulls EXCEPT ![n] = p]

Edited == UNCHANGED pulls \/ \E n, p : EditOf(n, p)

\* What an edit leaves as it was.
LEMMA EditedKeeps ==
    ASSUME GitHubTypeOK, Edited
    PROVE  /\ PullsKept
           /\ \A n \in Numbers : pulls'[n].frozen = pulls[n].frozen
<1>1. CASE UNCHANGED pulls
  BY <1>1, SamePullsKept
<1>2. ASSUME NEW n, NEW p, EditOf(n, p)
      PROVE  /\ PullsKept
             /\ \A m \in Numbers : pulls'[m].frozen = pulls[m].frozen
  <2>1. ASSUME NEW m \in Numbers
        PROVE  /\ pulls'[m] \in PullRequest
               /\ pulls'[m].head = pulls[m].head
               /\ pulls'[m].open => pulls[m].open
               /\ pulls'[m].frozen = pulls[m].frozen
    BY <1>2, PullType DEF EditOf, Numbers
  <2>2. pulls' \in [Numbers -> PullRequest]
    BY <1>2, <2>1 DEF EditOf, Numbers
  <2> QED
    BY <2>1, <2>2, ChangedPullsKept
<1> QED
  BY <1>1, <1>2 DEF Edited

\* Frame of the steps that open none and thaw none.
LEMMA GInvKept ==
    ASSUME IInv, GInv, PullsKept, UNCHANGED all_prs,
           \A n \in Numbers : pulls[n].frozen => pulls'[n].frozen,
           ClosedSeen', FrozenIsClosed', RefusedIsFrozen'
    PROVE  GInv'
<1>1. \A n \in Numbers : Newest(n) => Newest(n)'
  BY DEF PullsKept, Newest
<1>2. OpenIsNewest'
  BY <1>1 DEF PullsKept, GInv, OpenIsNewest, OpenPulls
<1>3. KnownIsNewest'
  BY <1>1 DEF PullsKept, GInv, KnownIsNewest, IInv, TypeOK, MemTypeOK
<1> QED
  BY <1>2, <1>3 DEF GInv

\* Frame of the steps that only edit.
LEMMA GInvEdited ==
    ASSUME IInv, GInv, Edited, UNCHANGED all_prs,
           \A r \in Refs : heads'[r] = Gone => heads[r] = Gone,
           ClosedSeen', RefusedIsFrozen'
    PROVE  GInv'
<1>1. GitHubTypeOK
  BY DEF IInv, TypeOK
<1>2. PullsKept /\ \A n \in Numbers : pulls'[n].frozen = pulls[n].frozen
  BY <1>1, EditedKeeps
<1>3. \A n \in Numbers : pulls[n].head \in Refs
  BY <1>1, PullType DEF PullRequest
<1>4. FrozenIsClosed'
  BY <1>2, <1>3 DEF PullsKept, GInv, FrozenIsClosed
<1> QED
  BY <1>2, <1>4, GInvKept

\* The pull requests taken for closed stay closed when none is opened.
LEMMA ClosedSeenEdited ==
    ASSUME IInv, GInv, Edited,
           \A n \in seenClosed' \ seenClosed : n \in Numbers /\ ~pulls'[n].open
    PROVE  ClosedSeen'
BY EditedKeeps
   DEF IInv, TypeOK, GInv, ClosedSeen, ClosedPulls, OpenPulls, PullsKept

\* The steps of the cycle, of people and of failures that change no pull request
\* and no branch, and are not about to create.
LEMMA GInvQuiet ==
    ASSUME IInv, GInv, UNCHANGED <<pulls, heads, all_prs, seenClosed>>,
           pc' \notin {"create", "dummy"} \/ UNCHANGED <<pc, job>>
    PROVE  GInv'
<1>1. Edited
  BY DEF Edited
<1>2. ClosedSeen'
  BY <1>1, ClosedSeenEdited
<1>3. RefusedIsFrozen'
  BY DEF GInv, RefusedIsFrozen, Ref
<1> QED
  BY <1>1, <1>2, <1>3, GInvEdited

\* Closing and renaming.
LEMMA CloseSeriesPrEdits ==
    ASSUME IInv, CloseSeriesPr
    PROVE  /\ Edited
           /\ \A n \in seenClosed' \ seenClosed : n \in Numbers /\ ~pulls'[n].open
<1>1. pc \in WorkerPcs /\ GitHubTypeOK
  BY DEF CloseSeriesPr, WorkerPcs, IInv, TypeOK
<1>2. ASSUME NEW n \in GuessPr(Ref),
             pulls' = [pulls EXCEPT ![n].open = FALSE, ![n].conflict = FALSE],
             seenClosed' = seenClosed \cup {n}
      PROVE  Edited /\ n \in Numbers /\ ~pulls'[n].open
  <2>1. n \in Numbers /\ pulls[n] \in PullRequest
    BY <1>1, GuessPrType, PullType
  <2> DEFINE p == [pulls[n] EXCEPT !.open = FALSE, !.conflict = FALSE]
  <2>2. pulls' = [pulls EXCEPT ![n] = p]
    BY <1>2
  <2>3. EditOf(n, p) /\ ~p.open
    BY <2>1, <2>2 DEF EditOf, PullRequest
  <2> HIDE DEF p
  <2> QED
    BY <2>1, <2>2, <2>3 DEF Edited, Numbers
<1> QED
  BY <1>2 DEF CloseSeriesPr, Edited

LEMMA ClosedEdits ==
    ASSUME GitHubTypeOK, NEW n \in Numbers, pulls' = Closed(n)
    PROVE  Edited /\ ~pulls'[n].open
<1> DEFINE p == [pulls[n] EXCEPT !.open = FALSE]
<1>1. pulls[n] \in PullRequest
  BY PullType
<1>2. pulls' = [pulls EXCEPT ![n] = p]
  BY DEF Closed
<1>3. EditOf(n, p) /\ ~p.open
  BY <1>1, <1>2 DEF EditOf, PullRequest
<1> HIDE DEF p
<1> QED
  BY <1>2, <1>3 DEF Edited, Numbers

LEMMA SetLabelsEdits ==
    ASSUME IInv, CInv, SetLabels
    PROVE  Edited
<1>1. pc = "label" /\ GitHubTypeOK
  BY DEF SetLabels, IInv, TypeOK
<1>2. job.pr \in Numbers
  BY <1>1 DEF CInv, JobSound
<1> DEFINE p == [pulls[job.pr] EXCEPT !.conflict = (job.path = "conflict")]
<1>3. pulls[job.pr] \in PullRequest
  BY <1>1, <1>2, PullType
<1>4. pulls' = [pulls EXCEPT ![job.pr] = p]
  BY DEF SetLabels
<1>5. EditOf(job.pr, p)
  BY <1>2, <1>3, <1>4 DEF EditOf, PullRequest
<1> QED
  BY <1>5 DEF Edited

\* The pull request an old subject's entry stands for, and the subject of its
\* series.
OldPr(t) == prs[scan.worker][t]
OldSubject(t) == series[SeriesOf(pulls[OldPr(t)].head)].subject

LEMMA OldPrType ==
    ASSUME IInv, NEW t \in Subjects, SyncOldPr(t)
    PROVE  OldPr(t) \in Numbers /\ OldSubject(t) \in Subjects
<1>1. scan \in Scans /\ scan.worker \in Workers /\ ScanSound
  BY DEF SyncOldPr, IInv, TypeOK, JobTypeOK, ScanSound, ScanOfCycle, Scans
<1>2. t \in Keys(scan.worker)
  BY <1>1 DEF SyncOldPr, ScanSound
<1>3. OldPr(t) \in Numbers
  BY <1>1, <1>2 DEF OldPr, Keys, IInv, TypeOK, MemTypeOK
<1>4. pulls[OldPr(t)] \in PullRequest
  BY <1>3, PullType DEF IInv, TypeOK
<1>5. SeriesOf(pulls[OldPr(t)].head) \in BranchNames \ {NoSeries}
  BY <1>4 DEF SyncOldPr, IsUnparsed, OldPr, PullRequest, Refs, SeriesOf
<1>6. /\ SeriesOf(pulls[OldPr(t)].head) \in Series
      /\ Posted(SeriesOf(pulls[OldPr(t)].head))
  BY <1>3, <1>5 DEF IInv, Grounded, Named, BranchNames
<1>7. OldSubject(t) \in Subjects
  BY <1>6
     DEF OldSubject, IInv, TypeOK, PatchworkTypeOK, Posted, NotPosted, PostedSeries
<1> QED
  BY <1>3, <1>7

LEMMA SyncOldPrEdits ==
    ASSUME IInv, NEW t \in Subjects, SyncOldPr(t)
    PROVE  /\ Edited
           /\ \A n \in seenClosed' \ seenClosed : n \in Numbers /\ ~pulls'[n].open
<1> DEFINE n == OldPr(t)
           subject == OldSubject(t)
<1>1. n \in Numbers /\ subject \in Subjects /\ pulls[n] \in PullRequest
  BY OldPrType, PullType DEF IInv, TypeOK
<1>2. ASSUME NEW open \in {FALSE, pulls[n].open},
             pulls' = [pulls EXCEPT ![n].title = subject, ![n].open = open]
      PROVE  Edited /\ pulls'[n].open = open
  <2> DEFINE p == [pulls[n] EXCEPT !.title = subject, !.open = open]
  <2>1. pulls' = [pulls EXCEPT ![n] = p]
    BY <1>2
  <2>2. EditOf(n, p) /\ p.open = open
    BY <1>1, <2>1 DEF EditOf, PullRequest
  <2> HIDE DEF p, n
  <2> QED
    BY <1>1, <2>1, <2>2 DEF Edited, Numbers
<1>3. CASE /\ pulls' = [pulls EXCEPT ![n].title = subject, ![n].open = FALSE]
           /\ seenClosed' = seenClosed \cup {n}
  BY <1>1, <1>2, <1>3
<1>4. CASE pulls' = [pulls EXCEPT ![n].title = subject] /\ UNCHANGED seenClosed
  <2> DEFINE p == [pulls[n] EXCEPT !.title = subject]
  <2>1. pulls' = [pulls EXCEPT ![n] = p]
    BY <1>4
  <2>2. EditOf(n, p)
    BY <1>1, <2>1 DEF EditOf, PullRequest
  <2> QED
    BY <1>4, <2>2 DEF Edited
<1> QED
  BY <1>3, <1>4 DEF SyncOldPr, OldPr, OldSubject

\* The three force-pushes: only closed pull requests are frozen.
LEMMA GInvPush ==
    ASSUME IInv, GInv, NEW ref \in Refs, NEW contents \in Contents \ {Gone},
           ForcePush(ref, contents), UNCHANGED <<all_prs, seenClosed>>,
           (pc = "create" /\ UNCHANGED job) \/ pc' \notin {"create", "dummy"}
    PROVE  GInv'
<1>1. GitHubTypeOK
  BY DEF IInv, TypeOK
<1>2. PullsKept
  BY <1>1, ForcePushKeeps
<1>3. ASSUME NEW n \in Numbers
      PROVE  /\ pulls'[n].open = pulls[n].open
             /\ pulls[n].frozen => pulls'[n].frozen
             /\ pulls'[n].frozen => pulls[n].frozen \/ ~pulls[n].open
  BY <1>1, PullType DEF ForcePush, Frozen, PullRequest
<1>4. ClosedSeen'
  BY <1>2, <1>3 DEF PullsKept, GInv, ClosedSeen, ClosedPulls, OpenPulls
<1>5. \A r \in Refs : heads'[r] = Gone => heads[r] = Gone
  BY <1>1 DEF ForcePush, GitHubTypeOK
<1>6. \A n \in Numbers : pulls[n].head \in Refs
  BY <1>1, PullType DEF PullRequest
<1>7. FrozenIsClosed'
  BY <1>2, <1>3, <1>5, <1>6 DEF PullsKept, GInv, FrozenIsClosed
<1>8. RefusedIsFrozen'
  <2>1. UNCHANGED job => Ref' = Ref
    BY DEF Ref
  <2>2. pc = "create" => Ref \in Refs
    BY JobInHandler DEF WorkerPcs
  <2> QED
    BY <1>3, <2>1, <2>2 DEF GInv, RefusedIsFrozen, IInv, TypeOK, MemTypeOK
<1> QED
  BY <1>2, <1>3, <1>4, <1>7, <1>8, GInvKept

LEMMA GInvPushes ==
    ASSUME IInv, GInv, PushDummy \/ PushNewBranch \/ PushUpdate
    PROVE  GInv'
<1>1. pc \in WorkerPcs
  BY DEF PushDummy, PushNewBranch, PushUpdate, WorkerPcs
<1>2. Ref \in Refs /\ job.series \in Series
  BY <1>1, JobInHandler DEF Jobs
<1>3. Outdated \in Contents \ {Gone} /\ job.series \in Contents \ {Gone}
  BY <1>2, PatchworkAssumption DEF Contents, Outdated, Gone, Series
<1> QED
  BY <1>2, <1>3, GInvPush
     DEF PushDummy, PushNewBranch, PushUpdate, GitPush, Goto, Return

\* Deleted branches: their pull requests are closed and frozen.
LEMMA GInvDelete ==
    ASSUME IInv, GInv, NEW refs, DeleteRefs(refs),
           UNCHANGED <<all_prs, seenClosed>>, pc' \notin {"create", "dummy"}
    PROVE  GInv'
<1>1. GitHubTypeOK
  BY DEF IInv, TypeOK
<1>2. PullsKept
  BY <1>1, DeleteRefsKeeps
<1>3. ASSUME NEW n \in Numbers
      PROVE  /\ pulls[n].frozen => pulls'[n].frozen
             /\ pulls[n].head \in Refs
             /\ pulls[n].head \in refs => pulls'[n].frozen
             /\ pulls'[n].frozen => pulls[n].frozen \/ ~pulls'[n].open
  BY <1>1, PullType DEF DeleteRefs, PullRequest
<1>4. ClosedSeen'
  BY <1>2 DEF PullsKept, GInv, ClosedSeen, ClosedPulls, OpenPulls
<1>5. FrozenIsClosed'
  BY <1>2, <1>3 DEF DeleteRefs, PullsKept, GInv, FrozenIsClosed
<1>6. RefusedIsFrozen'
  BY DEF RefusedIsFrozen
<1> QED
  BY <1>2, <1>3, <1>4, <1>5, <1>6, GInvKept

\* A worker is refreshed: of each branch it takes the open pull request.
LEMMA GInvRefresh ==
    ASSUME IInv, GInv, NEW w \in Workers, Refresh(w)
    PROVE  GInv'
<1>1. GitHubTypeOK /\ UNCHANGED <<pulls, seenClosed>> /\ pc' \in {"fetch", "refresh"}
  BY DEF Refresh, IInv, TypeOK
<1>2. \A n \in Numbers : pulls[n].head \in Refs
  BY <1>1, PullType DEF PullRequest
<1>3. \A r \in Refs : heads'[r] = Gone => heads[r] = Gone
  BY <1>1 DEF Refresh, MoveUpstream, GitHubTypeOK, Outdated, Gone
<1>4. FrozenIsClosed'
  BY <1>1, <1>2, <1>3 DEF GInv, FrozenIsClosed, Numbers
<1>5. ASSUME NEW r \in Refs, all_prs'[r] # NoPR
      PROVE  all_prs'[r] \in OpenFrom(r) \/ all_prs'[r] = all_prs[r]
  BY <1>5 DEF Refresh, GetPulls
<1>6. KnownIsNewest'
  <2> SUFFICES ASSUME NEW r \in Refs, all_prs'[r] # NoPR
               PROVE  pulls[all_prs'[r]].frozen \/ Newest(all_prs'[r])
    BY <1>1 DEF KnownIsNewest, Newest, Numbers
  <2> QED
    BY <1>5 DEF GInv, KnownIsNewest, OpenIsNewest, OpenFrom
<1> QED
  BY <1>1, <1>4, <1>6
     DEF GInv, ClosedSeen, ClosedPulls, OpenPulls, OpenIsNewest, Newest, Numbers,
         RefusedIsFrozen

\* A new cycle remembers nothing.
LEMMA GInvEndCycle ==
    ASSUME IInv, GInv, EndCycle
    PROVE  GInv'
BY DEF EndCycle, ForgetAll, ghVars, NoRefs, GInv, ClosedSeen, FrozenIsClosed,
       OpenIsNewest, OpenPulls, KnownIsNewest, RefusedIsFrozen, Newest, Numbers

\* A pull request GitHub re-opens is the newest of its branch: a known one was
\* not frozen, and one found among the closed is the most recent of them.
LEMMA ReopenedIsNewest ==
    ASSUME IInv, GInv, pc = "comment", NEW n \in GuessPr(Ref),
           pulls[n].open \/ CanReopen(n)
    PROVE  Newest(n) /\ ~pulls[n].frozen
<1>1. n \in Numbers /\ n \in Nat /\ pulls[n].head = Ref /\ Ref \in Refs
  BY GuessPrType, JobInHandler DEF WorkerPcs
<1>2. CASE pulls[n].open
  BY <1>1, <1>2 DEF GInv, OpenIsNewest, FrozenIsClosed, OpenPulls
<1>3. CASE CanReopen(n) /\ all_prs[Ref] # NoPR
  BY <1>1, <1>3 DEF CanReopen, GuessPr, GInv, KnownIsNewest
<1>4. CASE CanReopen(n) /\ all_prs[Ref] = NoPR
  <2>1. n \in FilterClosedPr(Ref) /\ OpenFrom(Ref) = {}
    BY <1>1, <1>4 DEF GuessPr, CanReopen, CanCreate
  <2> QED
    BY <1>1, <1>4, <2>1
       DEF FilterClosedPr, OpenFrom, ClosedPulls, CanReopen, Newest
<1> QED
  BY <1>2, <1>3, <1>4

\* A known pull request GitHub does not re-open is frozen: its branch is there
\* and has no other one open, or it would have been frozen before.
LEMMA NotReopenedIsFrozen ==
    ASSUME IInv, GInv, pc = "comment", NEW n \in GuessPr(Ref),
           ~pulls[n].open, ~CanReopen(n), all_prs[Ref] # NoPR
    PROVE  n = all_prs[Ref] /\ pulls[n].frozen
<1>1. n \in Numbers /\ n \in Nat /\ pulls[n].head = Ref /\ Ref \in Refs
  BY GuessPrType, JobInHandler DEF WorkerPcs
<1>2. n = all_prs[Ref]
  BY DEF GuessPr
<1>3. CASE OpenFrom(Ref) # {} /\ ~pulls[n].frozen
  <2>1. PICK m \in OpenFrom(Ref) : TRUE
    BY <1>3
  <2>2. m \in Numbers /\ pulls[m].head = Ref /\ Newest(m) /\ m \in Nat /\ pulls[m].open
    BY <2>1, NumbersArePositive
       DEF OpenFrom, OpenPulls, GInv, OpenIsNewest, IInv, TypeOK
  <2>3. Newest(n)
    BY <1>1, <1>2, <1>3 DEF GInv, KnownIsNewest
  <2> QED
    BY <1>1, <2>2, <2>3 DEF Newest
<1> QED
  BY <1>1, <1>2, <1>3 DEF CanReopen, CanCreate, GInv, FrozenIsClosed

LEMMA GInvReopen ==
    ASSUME IInv, GInv, ReopenPr
    PROVE  GInv'
<1>1. pc = "comment" /\ GitHubTypeOK /\ MemTypeOK /\ Ref \in Refs /\ job \in Jobs
  BY JobInHandler DEF ReopenPr, WorkerPcs, IInv, TypeOK
<1>2. PICK n \in GuessPr(Ref) :
        \/ /\ pulls[n].open \/ CanReopen(n)
           /\ pulls' = [pulls EXCEPT ![n].open = TRUE]
           /\ AddPr(Ref, n)
           /\ seenClosed' = seenClosed \ {n}
           /\ FoundPr(n)
           /\ pc' = "label"
        \/ /\ ~pulls[n].open /\ ~CanReopen(n)
           /\ pc' = "create"
           /\ UNCHANGED <<pulls, all_prs, prs, seenClosed, job>>
  BY DEF ReopenPr
<1>3. n \in Numbers /\ pulls[n].head = Ref /\ heads' = heads
  BY <1>1, GuessPrType DEF ReopenPr, WorkerPcs
<1>4. CASE pc' = "label"
  <2>1. Newest(n) /\ ~pulls[n].frozen
    BY <1>1, <1>2, <1>4, ReopenedIsNewest
  <2>2. Numbers' = Numbers
    BY <1>2, <1>4 DEF Numbers
  <2>3. \A m \in Numbers : /\ pulls'[m].head = pulls[m].head
                           /\ pulls'[m].frozen = pulls[m].frozen
                           /\ pulls'[m].open <=> pulls[m].open \/ m = n
    <3>1. \A m \in Numbers : pulls[m] \in PullRequest
      BY <1>1, PullType
    <3> QED
      BY <1>2, <1>3, <1>4, <3>1 DEF PullRequest, Numbers
  <2>4. ClosedSeen'
    BY <1>2, <1>4, <2>2, <2>3 DEF GInv, ClosedSeen, ClosedPulls, OpenPulls
  <2>5. FrozenIsClosed'
    BY <1>3, <2>1, <2>2, <2>3 DEF GInv, FrozenIsClosed
  <2>6. \A m \in Numbers : Newest(m)' <=> Newest(m)
    BY <2>2, <2>3 DEF Newest
  <2>7. OpenIsNewest'
    BY <2>1, <2>2, <2>3, <2>6 DEF GInv, OpenIsNewest, OpenPulls
  <2>8. \A r \in Refs : all_prs'[r] = all_prs[r] \/ all_prs'[r] = n
    BY <1>1, <1>2, <1>4 DEF AddPr, MemTypeOK
  <2>9. KnownIsNewest'
    BY <1>1, <1>3, <2>1, <2>3, <2>6, <2>8 DEF GInv, KnownIsNewest, MemTypeOK
  <2> QED
    BY <1>4, <2>4, <2>5, <2>7, <2>9 DEF GInv, RefusedIsFrozen
<1>5. CASE UNCHANGED <<pulls, all_prs, prs, seenClosed, job>> /\ pc' = "create"
           /\ ~pulls[n].open /\ ~CanReopen(n)
  <2>1. all_prs[Ref] # NoPR => pulls[all_prs[Ref]].frozen
    BY <1>1, <1>5, NotReopenedIsFrozen
  <2> QED
    BY <1>3, <1>5, <2>1
       DEF GInv, ClosedSeen, FrozenIsClosed, OpenIsNewest, KnownIsNewest,
           RefusedIsFrozen, OpenPulls, ClosedPulls, Newest, Numbers, Ref
<1> QED
  BY <1>2, <1>4, <1>5

\* What CreatePr does unless GitHub refuses.
Created(n) ==
    /\ Numbers' = Numbers \cup {n} /\ n \notin Numbers /\ n \in Nat /\ n # NoPR
    /\ \A m \in Numbers : pulls'[m] = pulls[m] /\ m <= n
    /\ pulls'[n].head = Ref /\ pulls'[n].title = job.subject
    /\ pulls'[n].open /\ ~pulls'[n].frozen
    /\ CanCreate(Ref) /\ AddPr(Ref, n) /\ TrackPr(job.worker, job.subject, n)
    /\ job' = [job EXCEPT !.pr = n] /\ pc' = "label"
    /\ UNCHANGED <<heads, branches, seenClosed>>

LEMMA CreatedPr ==
    ASSUME IInv, CreatePr, ~Raise
    PROVE  Created(Len(pulls) + 1)
<1> DEFINE n == Len(pulls) + 1
           new == [head |-> Ref, title |-> job.subject, open |-> TRUE,
                   conflict |-> FALSE, frozen |-> FALSE]
<1>1. GitHubTypeOK /\ Ref \in Refs /\ job \in Jobs
  BY JobInHandler DEF CreatePr, WorkerPcs, IInv, TypeOK
<1>2. /\ CanCreate(Ref) /\ pulls' = Append(pulls, new) /\ AddPr(Ref, n)
      /\ TrackPr(job.worker, job.subject, n) /\ pc' = "label"
      /\ job' = [job EXCEPT !.pr = n] /\ UNCHANGED <<heads, branches, seenClosed>>
  BY DEF CreatePr, CreatedPull, FoundPr
<1>3. new \in PullRequest
  BY <1>1 DEF PullRequest, Jobs
<1>4. /\ pulls' \in Seq(PullRequest) /\ Len(pulls') = n /\ pulls'[n] = new
      /\ \A m \in 1..Len(pulls) : pulls'[m] = pulls[m]
      /\ Len(pulls) \in Nat
  BY <1>1, <1>2, <1>3, AppendProperties, LenProperties DEF GitHubTypeOK
<1>5. Numbers' = 1..n /\ Numbers = 1..Len(pulls)
  BY <1>1, <1>4, LenProperties, NumbersArePositive DEF Numbers
<1>6. /\ Numbers' = Numbers \cup {n} /\ n \notin Numbers /\ n \in Nat /\ n # NoPR
      /\ \A m \in Numbers : pulls'[m] = pulls[m] /\ m <= n
  BY <1>4, <1>5 DEF NoPR
<1>7. /\ pulls'[n].head = Ref /\ pulls'[n].title = job.subject
      /\ pulls'[n].open /\ ~pulls'[n].frozen
  BY <1>4
<1> HIDE DEF n, new
<1>8. Created(n)
  BY <1>2, <1>6, <1>7 DEF Created
<1> QED
  BY <1>8 DEF n

\* A pull request is only created where none is open.
LEMMA GInvCreate ==
    ASSUME IInv, GInv, CreatePr
    PROVE  GInv'
<1>1. /\ pc \in {"create", "dummy"} /\ GitHubTypeOK /\ MemTypeOK
      /\ Ref \in Refs /\ job \in Jobs
  BY JobInHandler DEF CreatePr, WorkerPcs, IInv, TypeOK
<1>2. CASE Raise
  BY <1>2, GInvQuiet DEF Raise, ghVars, memVars
<1>3. ASSUME NEW CONSTANT n, Created(n)
      PROVE  GInv'
  <2>1. /\ CanCreate(Ref) /\ AddPr(Ref, n) /\ pc' = "label"
        /\ UNCHANGED <<heads, seenClosed>>
    BY <1>3 DEF Created
  <2>2. /\ Numbers' = Numbers \cup {n} /\ n \notin Numbers /\ n \in Nat
        /\ \A m \in Numbers : pulls'[m] = pulls[m] /\ m <= n
    BY <1>3 DEF Created
  <2>3. pulls'[n].head = Ref /\ pulls'[n].open /\ ~pulls'[n].frozen
    BY <1>3 DEF Created
  <2>4. heads[Ref] # Gone /\ \A m \in Numbers : pulls[m].head = Ref => ~pulls[m].open
    BY <2>1 DEF CanCreate, OpenFrom, OpenPulls
  <2>5. ClosedSeen'
    BY <2>1, <2>2 DEF GInv, ClosedSeen, ClosedPulls, OpenPulls
  <2>6. FrozenIsClosed'
    BY <2>1, <2>2, <2>3, <2>4 DEF GInv, FrozenIsClosed
  <2>7. Newest(n)' /\ \A m \in Numbers : pulls[m].head # Ref /\ Newest(m) => Newest(m)'
    BY <2>2, <2>3 DEF Newest
  <2>8. OpenIsNewest'
    BY <2>2, <2>4, <2>7 DEF GInv, OpenIsNewest, OpenPulls
  <2>9. KnownIsNewest'
    <3> SUFFICES ASSUME NEW r \in Refs, all_prs'[r] # NoPR
                 PROVE  (pulls[all_prs[r]].frozen \/ Newest(all_prs[r]))'
      BY DEF KnownIsNewest
    <3>1. CASE r = Ref /\ all_prs[Ref] = NoPR
      BY <1>1, <2>1, <2>7, <3>1 DEF AddPr, MemTypeOK
    <3>2. CASE r = Ref /\ all_prs[Ref] # NoPR
      BY <1>1, <2>1, <2>2, <3>2 DEF AddPr, MemTypeOK, GInv, RefusedIsFrozen
    <3>3. CASE r # Ref
      <4>1. all_prs'[r] = all_prs[r] /\ all_prs[r] \in Numbers
        BY <1>1, <2>1, <3>3 DEF AddPr, MemTypeOK
      <4>2. pulls[all_prs[r]].head = r
        BY <4>1, NumbersArePositive, <1>1 DEF IInv, PrHeads
      <4> QED
        BY <2>2, <2>7, <3>3, <4>1, <4>2, NumbersArePositive, <1>1 DEF GInv, KnownIsNewest
    <3> QED
      BY <3>1, <3>2, <3>3
  <2> QED
    BY <2>1, <2>5, <2>6, <2>8, <2>9 DEF GInv, RefusedIsFrozen
<1> QED
  BY <1>2, <1>3, CreatedPr

\* The handler.
LEMMA GInvPatching ==
    ASSUME IInv, CInv, GInv, Patching
    PROVE  GInv'
<1>1. pc \in WorkerPcs /\ GitHubTypeOK
  BY DEF Patching, CheckoutAndPatch, CloseSeriesPr, DeleteClosedBranch, Apply,
         UseOpenPr, ReopenPr, NoPrToUse, SkipEmptyPr, PushDummy, CreatePr,
         SetLabels, PushNewBranch, PushUpdate, WorkerPcs, IInv, TypeOK
<1>2. CASE CloseSeriesPr
  <2>1. Edited /\ ClosedSeen'
    BY <1>2, CloseSeriesPrEdits, ClosedSeenEdited
  <2>2. pc' \notin {"create", "dummy"}
    BY <1>2 DEF CloseSeriesPr, Goto, ReturnNone, Return
  <2> QED
    BY <1>2, <2>1, <2>2, GInvEdited DEF CloseSeriesPr, RefusedIsFrozen
<1>3. CASE DeleteClosedBranch
  <2>1. CASE Raise
    BY <2>1, GInvQuiet DEF Raise, ghVars, memVars
  <2>2. CASE DeleteRefs({Ref}) /\ ReturnNone /\ UNCHANGED memVars
    BY <2>2, GInvDelete DEF ReturnNone, Return, memVars
  <2> QED
    BY <1>3, <2>1, <2>2 DEF DeleteClosedBranch
<1>4. CASE Apply
  BY <1>4, GInvQuiet DEF Apply, ReturnNone, Return, memVars
<1>5. CASE UseOpenPr \/ SkipEmptyPr
  BY <1>5, GInvQuiet DEF UseOpenPr, SkipEmptyPr, ReturnNone, Return, ghVars, memVars
<1>6. CASE NoPrToUse
  <2>1. Edited /\ ClosedSeen'
    BY <1>6, ClosedSeenEdited DEF NoPrToUse, ghVars, memVars, Edited
  <2>2. RefusedIsFrozen'
    BY <1>6 DEF NoPrToUse, Goto, memVars, GuessPr, RefusedIsFrozen, Ref
  <2> QED
    BY <1>6, <2>1, <2>2, GInvEdited DEF NoPrToUse, ghVars, memVars
<1>7. CASE SetLabels
  <2>1. Edited /\ ClosedSeen'
    BY <1>7, SetLabelsEdits, ClosedSeenEdited DEF SetLabels, memVars
  <2>2. pc' \notin {"create", "dummy"}
    BY <1>7 DEF SetLabels, Goto, Return
  <2> QED
    BY <1>7, <2>1, <2>2, GInvEdited DEF SetLabels, memVars, RefusedIsFrozen
<1> QED
  BY <1>2, <1>3, <1>4, <1>5, <1>6, <1>7, GInvReopen, GInvCreate, GInvPushes
     DEF Patching, CheckoutAndPatch

\* Every step keeps it.
LEMMA GInvNext == IInv /\ CInv /\ GInv /\ [Next]_vars => GInv'
<1> SUFFICES ASSUME IInv, CInv, GInv, [Next]_vars PROVE GInv'
  OBVIOUS
<1> USE DEF ghVars, workerVars, memVars
<1>1. GitHubTypeOK
  BY DEF IInv, TypeOK
<1>2. CASE UNCHANGED vars \/ Fault
  BY <1>2, GInvQuiet DEF vars, Fault
<1>3. CASE People
  <2>1. ASSUME NEW n \in Numbers, ClosePrByHand(n)
        PROVE  GInv'
    <3>1. Edited /\ UNCHANGED <<heads, all_prs, seenClosed, pc, job>>
      BY <1>1, <2>1, ClosedEdits DEF ClosePrByHand
    <3>2. ClosedSeen'
      BY <3>1, ClosedSeenEdited
    <3>3. RefusedIsFrozen'
      BY <1>1, <3>1, EditedKeeps, JobInHandler
         DEF GInv, RefusedIsFrozen, Ref, WorkerPcs, IInv, TypeOK, MemTypeOK
    <3> QED
      BY <3>1, <3>2, <3>3, GInvEdited
  <2> QED
    BY <1>3, <2>1, GInvQuiet DEF People
<1>4. CASE StartCycle \/ FetchSubjects \/ (\E t \in Subjects : PickSubject(t))
             \/ TryTarget \/ NoTargetLeft
  BY <1>4, GInvQuiet
     DEF StartCycle, FetchSubjects, PickSubject, TryTarget, Raise, NoTargetLeft
<1>5. CASE NoPrReturned \/ SubjectDone \/ AllSubjectsDone
             \/ (\E w \in Workers : StartScan(w)) \/ ScanRaises
             \/ (\E t \in Subjects : SkipOldPr(t)) \/ ScanDone
  BY <1>5, GInvQuiet
     DEF NoPrReturned, SubjectDone, AllSubjectsDone, StartScan, ScanRaises,
         Raise, SkipOldPr, ScanDone
<1>6. CASE SyncChecks
  <2>1. job.pr \in Numbers
    BY <1>6 DEF SyncChecks, IInv, TypeOK, JobTypeOK, JobPcs
  <2>2. Edited /\ UNCHANGED <<pulls, heads, all_prs>>
    BY <1>6 DEF SyncChecks, Edited
  <2>3. ClosedSeen'
    BY <1>6, <2>1, <2>2, ClosedSeenEdited DEF SyncChecks
  <2>4. RefusedIsFrozen'
    BY <1>6 DEF SyncChecks, RefusedIsFrozen
  <2> QED
    BY <2>2, <2>3, <2>4, GInvEdited
<1>7. ASSUME NEW n \in Numbers, CloseOther(n)
      PROVE  GInv'
  <2>1. /\ Edited /\ ~pulls'[n].open
        /\ UNCHANGED <<heads, all_prs, pc>>
    BY <1>1, <1>7, ClosedEdits DEF CloseOther
  <2>2. ClosedSeen'
    BY <1>7, <2>1, ClosedSeenEdited DEF CloseOther
  <2>3. RefusedIsFrozen'
    BY <1>7 DEF CloseOther, RefusedIsFrozen
  <2> QED
    BY <2>1, <2>2, <2>3, GInvEdited
<1>8. ASSUME NEW t \in Subjects, SyncOldPr(t)
      PROVE  GInv'
  <2>1. Edited /\ ClosedSeen'
    BY <1>8, SyncOldPrEdits, ClosedSeenEdited
  <2>2. RefusedIsFrozen' /\ UNCHANGED <<heads, all_prs>>
    BY <1>8 DEF SyncOldPr, RefusedIsFrozen
  <2> QED
    BY <2>1, <2>2, GInvEdited
<1>9. CASE ExpireBranches
  BY <1>9, GInvDelete DEF ExpireBranches
<1> QED
  BY <1>2, <1>3, <1>4, <1>5, <1>6, <1>7, <1>8, <1>9, GInvPatching, GInvRefresh,
     GInvEndCycle
     DEF Next, Daemon

\* Together.
BranchInv == IInv /\ CInv /\ CloneFresh /\ GInv

LEMMA InitBranchInv == Init => BranchInv
<1> SUFFICES ASSUME Init PROVE BranchInv
  OBVIOUS
<1>1. CInv
  BY DEF Init, WorkerInit, CInv, JobSound, CheckedPrFetched, Synced
<1>2. Numbers = {}
  BY DEF Init, GitHubInit, Numbers
<1>3. GInv
  BY <1>2 DEF Init, WorkerInit, NoRefs, GInv, ClosedSeen, FrozenIsClosed,
              OpenIsNewest, OpenPulls, KnownIsNewest, RefusedIsFrozen
<1>4. CloneFresh
  BY DEF Init, WorkerInit, CloneFresh, Refreshed, WorkerPcs
<1> QED
  BY <1>1, <1>3, <1>4, InitIInv DEF BranchInv

LEMMA NextBranchInv == BranchInv /\ [Next]_vars => BranchInv'
BY NextIInv, CInvNext, CloneFreshNext, GInvNext DEF BranchInv

LEMMA BranchInvariant == Spec => []BranchInv
BY InitBranchInv, NextBranchInv, PTL DEF Spec

\* However pull requests are closed, frozen, re-opened and created, by the
\* daemon and by people, the open pull request of a branch is its newest one:
\* an older one, which _guess_pr no longer finds, is never open behind its back.
THEOREM OpenPrIsNewest == Spec => []OpenIsNewest
<1>1. BranchInv => OpenIsNewest
  BY DEF BranchInv, GInv
<1> QED
  BY <1>1, BranchInvariant, PTL

\* Whatever people, caches and failures do, the pull request whose CI results are
\* reported for a series comes from the series' own branch and is labelled
\* merge-conflict, or the last commit pushed there is the series on the current
\* base: it is still the branch's, or the branch was deleted earlier in the same
\* cycle, and then the pull request is closed.
THEOREM CheckedPrsMatch == Spec => []CheckedPrMatches
<1>1. ASSUME BranchInv PROVE CheckedPrMatches
  <2> SUFFICES ASSUME Synced
               PROVE  /\ pulls[job.pr].head = Ref
                      /\ pulls[job.pr].conflict <=> job.path = "conflict"
                      /\ job.path # "conflict" =>
                            /\ origin[Ref] = job.series
                            /\ \/ heads[Ref] = job.series
                               \/ heads[Ref] = Gone /\ ~pulls[job.pr].open
    BY DEF CheckedPrMatches
  <2>1. /\ pulls[job.pr].head = Ref
        /\ pulls[job.pr].conflict <=> job.path = "conflict"
        /\ job.path # "conflict" => origin[Ref] = job.series
    BY <1>1 DEF BranchInv, CInv, CheckedPrFetched
  <2>2. job \in Jobs /\ job.pr \in Numbers
    BY <1>1 DEF BranchInv, Synced, IInv, TypeOK, JobTypeOK, JobPcs
  <2>3. Ref \in Refs /\ TargetOf(Ref) = job.worker
    BY <2>2 DEF Ref, Refs, Jobs, BranchNames, TargetOf
  <2>4. TargetOf(Ref) \in Refreshed
    BY <1>1, <2>3 DEF BranchInv, CloneFresh, Synced, Refreshed
  <2>5. heads[Ref] \in {origin[Ref], Gone}
    BY <1>1, <2>3, <2>4 DEF BranchInv, CloneFresh
  <2>6. heads[Ref] = Gone => ~pulls[job.pr].open
    BY <1>1, <2>1, <2>2 DEF BranchInv, GInv, FrozenIsClosed
  <2> QED
    BY <2>1, <2>5, <2>6
<1> QED
  BY <1>1, BranchInvariant, PTL
=============================================================================
