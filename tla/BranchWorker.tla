---------------------------- MODULE BranchWorker ----------------------------
(***************************************************************************)
(* checkout_and_patch of branch_worker.py: bring the branch and the pull   *)
(* request of one series on one target in line with Patchwork.             *)
(*                                                                         *)
(* One action per GitHub call that changes something, since every such     *)
(* call can raise, and Patchwork and people move between any two of them.  *)
(* The in-memory pull requests of all workers are modelled together: a     *)
(* branch and a pull request name their worker.                            *)
(***************************************************************************)
EXTENDS GitHub

VARIABLES
    prs,          \* worker.prs: title |-> number, NoPR if not a key
    all_prs,      \* worker.all_prs[ref][base][0], NoPR if ref is not a key
    branches,     \* worker.branches, the snapshot taken by the refresh
    seenClosed,   \* pull requests whose in-memory state is "closed"
    origin,       \* remotes/origin/<branch> of the worker's clone
    pc,           \* which step of the sync cycle comes next
    job           \* arguments and locals of the handler that runs

memVars == <<prs, all_prs, branches, seenClosed, origin>>
workerVars == <<memVars, pc, job>>

NoPR == 0
NoJob == [path |-> "none"]

\* subject, series, worker, branch: arguments; branch is the series whose id
\* names the branch, or NoSeries.  pr, path: the pull request found and the arm of
\* apply_push_comment taken.  rest: target branches still to try; old: called
\* from the loop over old subjects.
Paths == {"none", "conflict", "update", "new", "touch"}
Jobs ==
    [subject: Subjects, series: Series, worker: Workers, branch: BranchNames,
     pr: Nat, path: Paths, rest: Seq(Workers), old: BOOLEAN]

WorkerPcs == {"patch", "delete", "dummy", "comment", "create", "label", "push"}

Ref == <<job.branch, job.worker>>

\* A worker as it is constructed.
NoPrs == [w \in Workers |-> [t \in Subjects |-> NoPR]]
NoRefs == [r \in Refs |-> NoPR]
NothingFetched == [r \in Refs |-> Gone]

WorkerInit ==
    /\ prs = NoPrs /\ all_prs = NoRefs
    /\ branches = {} /\ seenClosed = {}
    /\ origin = NothingFetched
    /\ pc = "idle" /\ job = NoJob

\* The clone stays on disk, but nothing reads it before the next cycle's
\* `git fetch --prune' has brought origin up to date.
ForgetAll ==
    /\ prs' = NoPrs /\ all_prs' = NoRefs
    /\ branches' = {} /\ seenClosed' = {}
    /\ origin' = NothingFetched
    /\ pc' = "idle" /\ job' = NoJob

\* checkout_and_patch returns pr, or None, or raises NewPRWithNoChange, which
\* checkout_and_patch_safe turns into None.
Return(pr) == pc' = "returned" /\ job' = [job EXCEPT !.pr = pr]
ReturnNone == Return(NoPR)

\* An exception nobody catches before KernelPatchesDaemon.run.
Raise == pc' = "raised" /\ UNCHANGED <<job, memVars, ghVars>>

Goto(label) == pc' = label /\ UNCHANGED job

(***************************************************************************)
(* Finding the pull request of a branch.                                   *)
(***************************************************************************)
\* closed_prs and filter_closed_pr: the most recent one with this head.
FilterClosedPr(ref) ==
    {n \in ClosedPulls :
        /\ pulls[n].head = ref
        /\ \A m \in ClosedPulls : pulls[m].head = ref => m <= n}

\* Mutant: only closed pull requests are looked for.
GuessPrClosedOnly(ref) == FilterClosedPr(ref)

\* Mutant: closed pull requests are not looked for.
GuessPrKnownOnly(ref) == {all_prs[ref]} \ {NoPR}

\* _guess_pr, an Optional.
GuessPr(ref) ==
    IF all_prs[ref] # NoPR THEN {all_prs[ref]} ELSE FilterClosedPr(ref)

\* Mutant: every pull request found is taken for an open one.
LooksClosedNever(n) == FALSE

\* state of the object _guess_pr returned: what this process last saw.
LooksClosed(n) == all_prs[Ref] = NoPR \/ n \in seenClosed

\* Mutant: a pull request re-opened or created is not tracked.
AddPrForgotten(ref, n) == UNCHANGED all_prs

\* add_pr: appends, so an entry that is there already stays first.
AddPr(ref, n) ==
    all_prs' = [all_prs EXCEPT ![ref] = IF @ = NoPR THEN n ELSE @]

TrackPr(w, title, n) == prs' = [prs EXCEPT ![w][title] = n]

(***************************************************************************)
(* The refresh: fetch_repo, get_pulls and the branch snapshot.  GitHub     *)
(* lists the newest pull request first, so the oldest of those with one    *)
(* title stays in prs.                                                     *)
(***************************************************************************)
OldestOf(numbers) == {n \in numbers : \A m \in numbers : n <= m}

GetPulls(w) ==
    LET listed(t) == {n \in OpenPulls : /\ TargetOf(pulls[n].head) = w
                                        /\ pulls[n].title = t}
        AnyOf(numbers) == IF numbers = {} THEN NoPR ELSE CHOOSE n \in numbers : TRUE
    IN /\ prs' = [prs EXCEPT ![w] =
                     [t \in Subjects |-> AnyOf(OldestOf(listed(t)))]]
       /\ all_prs' = [r \in Refs |->
                         IF TargetOf(r) = w THEN AnyOf(OpenFrom(r))
                                            ELSE all_prs[r]]

\* Mutant: the base of the comparison is the one before do_sync.
FetchBeforeSync(w) ==
    origin' = [r \in Refs |-> IF TargetOf(r) = w THEN heads[r] ELSE origin[r]]

\* Like heads, origin says what the branch is worth on the current base.
Fetch(w) ==
    origin' = [r \in Refs |-> IF TargetOf(r) = w THEN heads'[r] ELSE origin[r]]

GetBranches(w) ==
    branches' = branches \cup {r \in Refs : TargetOf(r) = w /\ heads'[r] # Gone}

(***************************************************************************)
(* _pr_closed: the series needs no pull request, close it.                 *)
(***************************************************************************)
\* _comment_series_pr(close = True) replaces the labels, which drops
\* merge-conflict, and closes; a pull request already closed is left alone.
CloseSeriesPr ==
    /\ pc = "patch"
    /\ IsPrClosed(job.series)
    /\ \/ /\ \E n \in GuessPr(Ref) :
                /\ ~LooksClosed(n)
                /\ pulls' = [pulls EXCEPT ![n].open = FALSE, ![n].conflict = FALSE]
                /\ seenClosed' = seenClosed \cup {n}
       \/ /\ \A n \in GuessPr(Ref) : LooksClosed(n)
          /\ UNCHANGED <<pulls, seenClosed>>
    /\ IF IsClosed(job.series) /\ all_prs[Ref] # NoPR /\ Ref \in branches
       THEN Goto("delete")
       ELSE ReturnNone
    /\ UNCHANGED <<heads, applies, prs, all_prs, branches, origin>>

\* delete_branch: GitHub answers 404 if the branch is gone already.
DeleteClosedBranch ==
    /\ pc = "delete"
    /\ \/ /\ heads[Ref] # Gone
          /\ DeleteRefs({Ref})
          /\ ReturnNone
          /\ UNCHANGED <<applies, memVars>>
       \/ heads[Ref] = Gone /\ Raise

(***************************************************************************)
(* apply_push_comment: choose what to do with the result of `git am'.      *)
(***************************************************************************)
\* try_apply_mailbox_series: the result is not known before the first try.
TryApply(i, w) ==
    IF applies[<<i, w>>] = Unknown THEN Outcomes ELSE {applies[<<i, w>>]}

Learn(i, w, outcome) == applies' = [applies EXCEPT ![<<i, w>>] = outcome]

\* Mutant: a branch that exists is never compared.
IsBranchChangedNever == origin[Ref] = Gone

\* _is_branch_changed compares with the clone's view of the remote branch,
\* which delete_branch does not touch.
IsBranchChanged == origin[Ref] # job.series

\* Mutant: pushes before it looks for the pull request to re-open.
PathForPushFirst(outcome) ==
    IF outcome = "conflict" THEN "conflict"
    ELSE IF Ref \notin branches \/ all_prs[Ref] = NoPR \/ IsBranchChanged THEN "new"
    ELSE "touch"

\* A branch that is new, needs an update, or needs nothing.
PathFor(outcome) ==
    IF outcome = "conflict" THEN "conflict"
    ELSE IF Ref \notin branches THEN "new"
    ELSE IF all_prs[Ref] = NoPR \/ IsBranchChanged THEN "update"
    ELSE "touch"

Apply ==
    /\ pc = "patch"
    /\ ~IsPrClosed(job.series)
    /\ \E outcome \in TryApply(job.series, job.worker) :
          /\ Learn(job.series, job.worker, outcome)
          /\ LET path == PathFor(outcome) IN
             \/ /\ outcome = "merged" \/ (path = "new" /\ outcome = "empty")
                /\ ReturnNone
             \/ /\ outcome # "merged" /\ ~(path = "new" /\ outcome = "empty")
                /\ job' = [job EXCEPT !.path = path]
                /\ pc' = IF path = "new" THEN "push" ELSE "comment"
    /\ UNCHANGED <<heads, pulls, memVars>>

\* git push: GitHub's branch and the clone's view of it change together.
GitPush(contents) ==
    /\ ForcePush(Ref, contents)
    /\ origin' = [origin EXCEPT ![Ref] = contents]
    /\ UNCHANGED <<applies, prs, all_prs, branches, seenClosed>>

(***************************************************************************)
(* _comment_series_pr(can_create = True), or without it on path "touch".   *)
(***************************************************************************)
FoundPr(n) == job' = [job EXCEPT !.pr = n]

UseOpenPr ==
    /\ pc = "comment"
    /\ \E n \in GuessPr(Ref) :
          /\ ~LooksClosed(n) \/ job.path = "touch"
          /\ FoundPr(n)
    /\ pc' = "label"
    /\ UNCHANGED <<ghVars, memVars>>

\* If GitHub refuses, the pull request is treated as if it did not exist.
ReopenPr ==
    /\ pc = "comment"
    /\ job.path # "touch"
    /\ \E n \in GuessPr(Ref) :
          /\ LooksClosed(n)
          /\ \/ /\ pulls[n].open \/ CanReopen(n)
                /\ pulls' = [pulls EXCEPT ![n].open = TRUE]
                /\ AddPr(Ref, n)
                /\ TrackPr(job.worker, pulls[n].title, n)
                /\ seenClosed' = seenClosed \ {n}
                /\ FoundPr(n)
                /\ pc' = "label"
             \/ /\ ~pulls[n].open /\ ~CanReopen(n)
                /\ pc' = "create"
                /\ UNCHANGED <<pulls, all_prs, prs, seenClosed, job>>
    /\ UNCHANGED <<heads, applies, branches, origin>>

NoPrToUse ==
    /\ pc = "comment"
    /\ GuessPr(Ref) = {}
    /\ Goto("create")
    /\ UNCHANGED <<ghVars, memVars>>

\* NewPRWithNoChangeException: a pull request is not created for nothing.
SkipEmptyPr ==
    /\ pc = "create"
    /\ applies[<<job.series, job.worker>>] = "empty"
    /\ ReturnNone
    /\ UNCHANGED <<ghVars, memVars>>

\* _create_dummy_commit: a failed series still gets a branch and, next, a
\* pull request that carries the merge-conflict label.
PushDummy ==
    /\ pc = "create"
    /\ job.path = "conflict"
    /\ GitPush(Outdated)
    /\ Goto("dummy")

\* _create_new_pull_request.
CreatePr ==
    /\ \/ pc = "dummy"
       \/ /\ pc = "create"
          /\ job.path # "conflict"
          /\ applies[<<job.series, job.worker>>] # "empty"
    /\ \/ /\ CanCreate(Ref)
          /\ pulls' = CreatedPull(Ref, job.subject)
          /\ LET n == Len(pulls) + 1 IN
             /\ TrackPr(job.worker, job.subject, n)
             /\ AddPr(Ref, n)
             /\ FoundPr(n)
          /\ pc' = "label"
          /\ UNCHANGED <<heads, applies, branches, seenClosed, origin>>
       \/ ~CanCreate(Ref) /\ Raise

\* set_labels replaces all labels but the CI status ones.
SetLabels ==
    /\ pc = "label"
    /\ pulls' = [pulls EXCEPT ![job.pr].conflict = (job.path = "conflict")]
    /\ IF job.path = "update" THEN Goto("push") ELSE Return(job.pr)
    /\ UNCHANGED <<heads, applies, memVars>>

(***************************************************************************)
(* The force-push, before the pull request is looked for when the branch   *)
(* is new, after it was found or opened when the branch was known.         *)
(***************************************************************************)
PushNewBranch ==
    /\ pc = "push"
    /\ job.path = "new"
    /\ GitPush(job.series)
    /\ Goto("comment")

\* pr.update() until the head has the pushed commit, which a pull request
\* that is not open never gets: RuntimeError after 30 attempts.
PushUpdate ==
    /\ pc = "push"
    /\ job.path = "update"
    /\ GitPush(job.series)
    /\ IF pulls[job.pr].open
       THEN Return(job.pr)
       ELSE pc' = "raised" /\ UNCHANGED job

CheckoutAndPatch ==
    \/ CloseSeriesPr \/ DeleteClosedBranch
    \/ Apply
    \/ UseOpenPr \/ ReopenPr \/ NoPrToUse
    \/ SkipEmptyPr \/ PushDummy \/ CreatePr \/ SetLabels
    \/ PushNewBranch \/ PushUpdate

(***************************************************************************)
(* expire_branches: delete the target's branches that no known pull        *)
(* request uses and whose last closed one is older than BRANCH_TTL, `aged' *)
(* being the closed pull requests that are.  A branch named for no series  *)
(* is not one parse_pr_ref understands.                                    *)
(***************************************************************************)
\* Mutant: does not ask whether a known pull request uses the branch.
ExpirableBranchesInUse(w, aged) ==
    {r \in branches :
        /\ TargetOf(r) = w /\ SeriesOf(r) # NoSeries
        /\ FilterClosedPr(r) \subseteq aged}

ExpirableBranches(w, aged) ==
    {r \in branches :
        /\ TargetOf(r) = w /\ SeriesOf(r) # NoSeries
        /\ all_prs[r] = NoPR
        /\ FilterClosedPr(r) \subseteq aged}
=============================================================================
