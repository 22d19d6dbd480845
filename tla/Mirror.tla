------------------------------- MODULE Mirror -------------------------------
(***************************************************************************)
(* What a branch worker does in a cycle before and between the series: it  *)
(* brings its clones up to date, mirrors upstream, makes the base branch   *)
(* of the pull requests out of upstream and the CI files, and keeps one    *)
(* pull request open that tests upstream itself (the end-to-end one).      *)
(* Series are applied on top of the base branch.  In the end it closes     *)
(* pull requests of other users that have seen no commit for long.         *)
(*                                                                         *)
(* The clones outlive the cycle and the process, whatever state they are   *)
(* left in.                                                                *)
(***************************************************************************)
EXTENDS Naturals

CONSTANTS
    MaxEvents,    \* bound: changes of upstream, CI files and by people
    MaxFaults,    \* bound: failures of git, GitHub and of the process
    MaxApplies,   \* bound: series tried in one cycle
    SharedCi,     \* do other workers use the same CI clone
    PeopleRename  \* do people rename the pull request

ASSUME MirrorAssumption ==
    /\ MaxEvents \in Nat /\ MaxFaults \in Nat /\ MaxApplies \in Nat
    /\ SharedCi \in BOOLEAN /\ PeopleRename \in BOOLEAN

VARIABLES
    upstream, ci, \* versions of the upstream branch and of the CI files
    mirror,       \* GitHub: version the mirror branch has
    base, test,   \* GitHub: contents of <branch>_base and <branch>_test
    pr,           \* GitHub: the pull request of <branch>_test
    userPr,       \* GitHub: a pull request of somebody else
    clone,        \* disk: the two clones
    originBase, originTest,  \* disk: remotes/origin/<branch>_base, _test
    upRef,        \* disk: upstream/<branch>
    ciTree,       \* disk: version the CI clone has checked out
    am,           \* disk: is a `git am' in progress
    head,         \* disk: contents the base branch was last prepared with
    pc,           \* next step
    at,           \* clone at work on
    use,          \* what the base branch is being prepared for
    prSeen,       \* does prs have the pull request, by its title
    testSeen,     \* do branches have <branch>_test
    pushed,       \* was <branch>_test pushed in this cycle
    left,         \* series still to try in this cycle
    userPrs,      \* listing: age of the head commit it had, if it was open
    cancelled,    \* has the task been cancelled while a thread ran
    events, faults \* how much of the bounds is used up

outside == <<upstream, ci, events>>
testPr == <<test, pr>>
github == <<mirror, base, testPr, userPr>>
tracking == <<originBase, originTest>>
worktree == <<upRef, ciTree, am, head>>
disk == <<clone, tracking, worktree>>
memory == <<at, use, prSeen, testSeen, pushed, left, userPrs>>
vars == <<outside, github, disk, memory, pc, cancelled, faults>>

Clones == {"repo", "ci"}
Versions == 0..MaxEvents
NoBranch == [up |-> 0, ci |-> MaxEvents + 1]
Content == [up: Versions, ci: Versions] \cup {NoBranch}

\* torn: `.git' is there and the remote `origin' is not.  broken: git fails.
CloneStates == {"absent", "good", "broken", "torn"}

\* fetch_repo_branch, get_pulls, do_sync and update_e2e_test_branch_and_update_pr
\* run in a thread each, the base of a series is made by the event loop.
InThread ==
    \/ pc \in {"fetch", "remove", "removing", "clone", "pulls", "upstream",
               "mirror", "test", "pr", "expire", "outdated", "note", "close"}
    \/ pc \in {"base", "pushbase"} /\ use = "test"

DataOK ==
    /\ upstream \in Versions /\ ci \in Versions /\ events \in 0..MaxEvents
    /\ upstream <= events /\ ci <= events
    /\ mirror \in Versions
    /\ base \in Content /\ test \in Content
    /\ pr \in {"none", "open", "renamed", "closed"}
    /\ userPr \in {"none", "fresh", "stale", "closed"}
    /\ userPrs \in {"none", "fresh", "stale"}
    /\ clone \in [Clones -> CloneStates]
    /\ originBase \in Content /\ originTest \in Content
    /\ upRef \in Versions /\ ciTree \in Versions /\ head \in Content
    /\ pc \in {"down", "construct", "fetch", "remove", "removing", "clone",
               "pulls", "upstream", "mirror", "branches", "base", "pushbase",
               "test", "pr", "series", "am", "expire", "outdated", "note",
               "close", "sleep"}
    /\ at \in Clones
    /\ use \in {"test", "series"}
    /\ left \in 0..MaxApplies
    /\ faults \in 0..MaxFaults

FlagsOK ==
    /\ am \in BOOLEAN /\ cancelled \in BOOLEAN
    /\ prSeen \in BOOLEAN /\ testSeen \in BOOLEAN /\ pushed \in BOOLEAN

CancelledInThread == cancelled => InThread

TypeOK == DataOK /\ FlagsOK /\ CancelledInThread

Init ==
    /\ upstream = 0 /\ ci = 0 /\ events = 0
    /\ mirror = 0
    /\ base = NoBranch /\ test = NoBranch
    /\ pr = "none" /\ userPr = "none"
    /\ clone = [c \in Clones |-> "absent"]
    /\ originBase = NoBranch /\ originTest = NoBranch
    /\ upRef = 0 /\ ciTree = 0 /\ am = FALSE /\ head = NoBranch
    /\ pc = "down"
    /\ at = "repo" /\ use = "test" /\ prSeen = FALSE /\ testSeen = FALSE
    /\ pushed = FALSE /\ left = 0 /\ userPrs = "none"
    /\ cancelled = FALSE /\ faults = 0

(***************************************************************************)
(* Outside: upstream and CI developers, people on GitHub.                  *)
(***************************************************************************)
SpendEvent == events < MaxEvents /\ events' = events + 1

UpstreamMoves == upstream' = upstream + 1 /\ UNCHANGED <<ci, testPr, userPr>>

CiFilesMove == ci' = ci + 1 /\ UNCHANGED <<upstream, testPr, userPr>>

\* With its branch, perhaps, as GitHub offers to.
PeopleClosePr ==
    /\ pr \in {"open", "renamed"}
    /\ pr' = "closed"
    /\ test' \in {test, NoBranch}
    /\ UNCHANGED <<upstream, ci, userPr>>

PeopleRenamePr ==
    /\ PeopleRename
    /\ pr = "open" /\ pr' = "renamed"
    /\ UNCHANGED <<upstream, ci, test, userPr>>

\* A new pull request, or new commits for one.
UserPushes ==
    /\ userPr' = "fresh"
    /\ UNCHANGED <<upstream, ci, testPr>>

\* PULL_REQUEST_TTL goes by.
UserPrAges ==
    /\ userPr = "fresh" /\ userPr' = "stale"
    /\ UNCHANGED <<upstream, ci, testPr>>

\* It may have been closed with a commit that is new (CloseUserPr).
UserReopens ==
    /\ userPr = "closed" /\ userPr' \in {"fresh", "stale"}
    /\ UNCHANGED <<upstream, ci, testPr>>

Outside ==
    /\ SpendEvent
    /\ \/ UpstreamMoves \/ CiFilesMove \/ PeopleClosePr \/ PeopleRenamePr
       \/ UserPushes \/ UserPrAges \/ UserReopens
    /\ UNCHANGED <<mirror, base, disk, memory, pc, cancelled, faults>>

(***************************************************************************)
(* How a step ends.                                                        *)
(***************************************************************************)
\* When a thread is done there is nobody to go on if the task was cancelled.
EndThread(next) ==
    /\ pc' = IF cancelled THEN "down" ELSE next
    /\ cancelled' = FALSE

GoOn(next) == pc' = next /\ UNCHANGED cancelled

\* An exception ends the thread, and the cycle.
Raise == EndThread("sleep")

SpendFault == faults < MaxFaults /\ faults' = faults + 1

(***************************************************************************)
(* fetch_repo_branch: fetch_repo and full_sync, for both clones.           *)
(***************************************************************************)
\* What git knows of a clone that is up to date.
UpToDate ==
    IF at = "repo"
    THEN originBase' = base /\ originTest' = test /\ UNCHANGED ciTree
    ELSE ciTree' = ci /\ UNCHANGED tracking

CloneReady ==
    IF at = "repo" THEN at' = "ci" /\ GoOn("fetch")
                   ELSE at' = "repo" /\ EndThread("pulls")

\* Mutant: `git am --abort' is left out.
AmAfterResetKept == am

\* _reset_repo.
AmAfterReset == FALSE

FetchClone ==
    /\ pc = "fetch" /\ clone[at] = "good"
    /\ UpToDate
    /\ am' = IF at = "repo" THEN AmAfterReset ELSE am
    /\ CloneReady
    /\ UNCHANGED <<outside, github, clone, upRef, head, use, prSeen, testSeen,
                   pushed, left, userPrs, faults>>

\* Not there, or git fails: falling back to full_sync.
FallBack ==
    /\ pc = "fetch"
    /\ \/ clone[at] \in {"absent", "broken"} /\ UNCHANGED faults
       \/ clone[at] = "good" /\ SpendFault
    /\ GoOn("remove")
    /\ UNCHANGED <<outside, github, disk, memory>>

\* Repo.remote raises a ValueError, which is no GitCommandError.
FetchRaises ==
    /\ pc = "fetch" /\ clone[at] = "torn"
    /\ Raise
    /\ UNCHANGED <<outside, github, disk, memory, faults>>

\* rmtree, which takes its time.
StartRemove ==
    /\ pc = "remove"
    /\ clone' = [clone EXCEPT ![at] =
                    IF @ = "absent" THEN "absent" ELSE "torn"]
    /\ GoOn("removing")
    /\ UNCHANGED <<outside, github, tracking, worktree, memory, faults>>

EndRemove ==
    /\ pc = "removing"
    /\ clone' = [clone EXCEPT ![at] = "absent"]
    /\ am' = IF at = "repo" THEN FALSE ELSE am
    /\ GoOn("clone")
    /\ UNCHANGED <<outside, github, tracking, upRef, ciTree, head, memory, faults>>

CloneFrom ==
    /\ pc = "clone"
    /\ clone' = [clone EXCEPT ![at] = "good"]
    /\ UpToDate
    /\ CloneReady
    /\ UNCHANGED <<outside, github, upRef, am, head, use, prSeen, testSeen,
                   pushed, left, userPrs, faults>>

(***************************************************************************)
(* get_pulls, do_sync and the list of branches.                            *)
(***************************************************************************)
\* Mutant: only the pull requests of series are kept.
IsPrKnownNever == FALSE

\* prs is keyed by title.
IsPrKnown == pr = "open"

GetPulls ==
    /\ pc = "pulls"
    /\ prSeen' = IsPrKnown
    /\ EndThread("upstream")
    /\ UNCHANGED <<outside, github, disk, at, use, testSeen, pushed, left, userPrs, faults>>

FetchUpstream ==
    /\ pc = "upstream"
    /\ upRef' = upstream
    /\ am' = AmAfterReset
    /\ GoOn("mirror")
    /\ UNCHANGED <<outside, github, clone, tracking, ciTree, head, memory, faults>>

PushMirror ==
    /\ pc = "mirror"
    /\ mirror' = upRef
    /\ EndThread("branches")
    /\ UNCHANGED <<outside, base, testPr, userPr, disk, memory, faults>>

\* Other workers are refreshed after this one.
ListBranches ==
    /\ pc = "branches"
    /\ testSeen' = (test # NoBranch)
    /\ ciTree' \in {ciTree} \cup IF SharedCi THEN {ci} ELSE {}
    /\ use' = "test"
    /\ GoOn("base")
    /\ UNCHANGED <<outside, github, clone, tracking, upRef, am, head, at, prSeen,
                   pushed, left, userPrs, faults>>

(***************************************************************************)
(* _update_pr_base_branch.                                                 *)
(***************************************************************************)
\* Mutant: the base branch is upstream as it was when the clone was made.
BaseContentOld == [up |-> 0, ci |-> ciTree]

BaseContent == [up |-> upRef, ci |-> ciTree]

AfterBase == IF use = "test" THEN "test" ELSE "am"

\* Mutant: the base branch is pushed once.
IsBaseChangedOnce == originBase = NoBranch

IsBaseChanged == originBase # BaseContent

\* _reset_repo to upstream and _add_ci_files.
PrepareBase ==
    /\ pc = "base"
    /\ head' = BaseContent
    /\ am' = AmAfterReset
    /\ GoOn(IF IsBaseChanged THEN "pushbase" ELSE AfterBase)
    /\ UNCHANGED <<outside, github, clone, tracking, upRef, ciTree, memory, faults>>

PushBase ==
    /\ pc = "pushbase"
    /\ base' = head /\ originBase' = head
    /\ GoOn(AfterBase)
    /\ UNCHANGED <<outside, mirror, testPr, userPr, clone, originTest, worktree,
                   memory, faults>>

(***************************************************************************)
(* update_e2e_test_branch_and_update_pr, _update_e2e_pr.                   *)
(***************************************************************************)
\* Mutant: commits are compared instead of contents.
IsTestChangedAlways == TRUE

\* git diff of contents: a new dummy commit is no change.
IsTestChanged == ~testSeen \/ originTest # head

PushTest ==
    /\ pc = "test"
    /\ IF IsTestChanged
       THEN test' = head /\ originTest' = head /\ pushed' = TRUE
       ELSE UNCHANGED <<test, originTest, pushed>>
    /\ GoOn("pr")
    /\ UNCHANGED <<outside, mirror, base, pr, userPr, clone, originBase, worktree, at,
                   use, prSeen, testSeen, left, userPrs, faults>>

\* A comment if the branch was pushed.
KeepPr ==
    /\ pc = "pr" /\ prSeen
    /\ EndThread("series")
    /\ UNCHANGED <<outside, github, disk, memory, faults>>

\* GitHub has no open one for this branch, and has the branch.
CanCreatePr == pr \notin {"open", "renamed"} /\ test # NoBranch

CreatePr ==
    /\ pc = "pr" /\ ~prSeen /\ CanCreatePr
    /\ pr' = "open"
    /\ EndThread("series")
    /\ UNCHANGED <<outside, mirror, base, test, userPr, disk, memory, faults>>

CreateRaises ==
    /\ pc = "pr" /\ ~prSeen /\ ~CanCreatePr
    /\ Raise
    /\ UNCHANGED <<outside, github, disk, memory, faults>>

(***************************************************************************)
(* try_apply_mailbox_series.                                               *)
(***************************************************************************)
NextSeries ==
    /\ pc = "series" /\ left > 0
    /\ left' = left - 1
    /\ use' = "series"
    /\ GoOn("base")
    /\ UNCHANGED <<outside, github, disk, at, prSeen, testSeen, pushed, userPrs,
                   faults>>

\* A failure leaves a `git am' in progress.
GitAm ==
    /\ pc = "am"
    /\ am' \in BOOLEAN
    /\ GoOn("series")
    /\ UNCHANGED <<outside, github, clone, tracking, upRef, ciTree, head, memory,
                   faults>>

SeriesDone ==
    /\ pc = "series" /\ left = 0
    /\ GoOn("expire")
    /\ UNCHANGED <<outside, github, disk, memory, faults>>

(***************************************************************************)
(* expire_user_prs.                                                        *)
(***************************************************************************)
ListUserPrs ==
    /\ pc = "expire"
    /\ userPrs' = IF userPr \in {"fresh", "stale"} THEN userPr ELSE "none"
    /\ GoOn("outdated")
    /\ UNCHANGED <<outside, github, disk, at, use, prSeen, testSeen, pushed, left,
                   faults>>

\* Mutant: the age is compared the wrong way round.
IsOutdatedYoung == userPrs = "fresh"

\* _is_outdated_pr: by the commit that was its last one when it was listed, which
\* is at least as old as the last one now.
IsOutdated == userPrs = "stale" \/ (userPrs = "fresh" /\ userPr = "stale")

CheckUserPr ==
    /\ pc = "outdated"
    /\ IF IsOutdated THEN GoOn("note") ELSE EndThread("sleep")
    /\ UNCHANGED <<outside, github, disk, memory, faults>>

\* "Err on the side of keeping the PR": the commit cannot be had.
CommitIsGone ==
    /\ pc = "outdated" /\ SpendFault
    /\ EndThread("sleep")
    /\ UNCHANGED <<outside, github, disk, memory>>

\* "Automatically cleaning up stale PR; feel free to reopen if needed".
NoteStale ==
    /\ pc = "note"
    /\ GoOn("close")
    /\ UNCHANGED <<outside, github, disk, memory, faults>>

CloseUserPr ==
    /\ pc = "close"
    /\ userPr' = "closed"
    /\ EndThread("sleep")
    /\ UNCHANGED <<outside, mirror, base, testPr, disk, memory, faults>>

Worker ==
    \/ FetchClone \/ FallBack \/ FetchRaises \/ StartRemove \/ EndRemove \/ CloneFrom
    \/ GetPulls \/ FetchUpstream \/ PushMirror \/ ListBranches
    \/ PrepareBase \/ PushBase \/ PushTest \/ KeepPr \/ CreatePr \/ CreateRaises
    \/ NextSeries \/ GitAm \/ SeriesDone
    \/ ListUserPrs \/ CheckUserPr \/ CommitIsGone \/ NoteStale \/ CloseUserPr
=============================================================================
