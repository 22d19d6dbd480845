# A formal model of kernel-patches-daemon

TLA+ modules, TLC configurations and TLAPS proofs for kernel-patches-daemon
(KPD): the daemon that turns patch series in Patchwork into branches and pull
requests on GitHub, and reports what CI says of them back to Patchwork and by
mail. Paths below are relative to `src/kernel_patches_daemon/` unless they start
with `src/`.

## 1. Inventory

| Component | Source | State | Operations | Talks to |
| --- | --- | --- | --- | --- |
| Daemon loop | `daemon.py` | the current `GithubSync` | `run`, `reset_github_sync`, `stop` | makes a new `GithubSync` per cycle, swallows every exception |
| Sync cycle | `github_sync.py` | `workers`, `subjects` | `sync_patches`, `sync_relevant_subject`, `select_target_branches_for_subject`, `close_existing_prs_for_series` | every `BranchWorker`, Patchwork |
| Branch worker, one per target | `branch_worker.py` | `prs`, `all_prs`, `branches`, `_closed_prs`, a clone | `get_pulls`, `checkout_and_patch`, `_comment_series_pr`, `apply_push_comment`, `_pr_closed`, `expire_branches` | GitHub, git |
| CI reporting | `branch_worker.py`, `patchwork.py`, `status.py` | none of its own: labels on GitHub, checks in Patchwork | `sync_checks`, `set_check`, `post_check_for_patch_id`, `evaluate_ci_result` | GitHub Actions, Patchwork, mail |
| Series and subjects | `patchwork.py` | one-entry TTL caches | `get_relevant_subjects`, `latest_series`, `is_closed`, `is_expired`, `has_matching_patches` | Patchwork API |
| Comment forwarding | `branch_worker.py:390-476`, `1528-1638` | comments on GitHub | `forward_pr_comments` | GitHub, mail |
| End-to-end pull request | `branch_worker.py:744-795` | one pull request | `update_e2e_test_branch_and_update_pr` | GitHub |
| Expiry of other users' pull requests | `branch_worker.py:634-666`, `1500-1514` | none | `expire_user_prs` | GitHub |
| Clones and base branch | `branch_worker.py:803-899`, `1073-1111` | two clones on disk, which outlive the process | `fetch_repo_branch`, `do_sync`, `_update_pr_base_branch`, `try_apply_mailbox_series` | git, GitHub |
| Connector, logs, configuration, metrics, CLI | other files | tokens, counters | | |

What makes them correct, and what is hard about it:

* **Sync cycle and branch workers.** A relevant subject ends up with one open
  pull request, that of its latest series, carrying its patches; a closed one
  with none. Nothing is remembered between cycles, and within a cycle memory is a
  snapshot: series, pull requests and branches change between any two calls, a
  subject may be listed more than once, and any call may raise, which ends the
  cycle between two changes that belong together (push and create, label and
  push). GitHub adds rules of its own: no second open pull request for a branch,
  no re-opening after a force-push or deletion of the branch.
* **CI reporting.** A check that has a result keeps one, checks come to say what
  CI says, the submitter is told each result once. Each check is posted by a task
  that reads and then posts, next to the tasks of the other checks; when one
  raises, `asyncio.gather` returns and leaves the others running.
* **Patchwork.** Which series counts as the latest, and whether a subject is
  relevant, must be one answer within a cycle; pages, caches and requests of
  several moments make it several.
* **Comment forwarding.** A comment goes out once. What went out is remembered in
  comments only, which are posted before the email, and can be refused.
* **Clones, base branch, end-to-end pull request.** Series are applied to the base
  that GitHub has. The files on disk are as the last cycle, or crash, left them;
  GitHub may be ahead of what the worker thinks; threads are not cancelled.
* **Daemon loop.** It must go on, and it must be possible to stop it.

`PROJECT.json` lists the hazards at their lines, with the properties that would
catch them going wrong.

## 2. Modules

| Module | Models | Lines that matter most |
| --- | --- | --- |
| `Patchwork` | series, their relevance, and what people do to them | `patchwork.py:314-344`, `749-841` |
| `GitHub` (external) | branches, pull requests, the calls that change them | calls made in `branch_worker.py` |
| `BranchWorker` | `checkout_and_patch` and everything below it, `get_pulls`, what `expire_branches` may delete | `branch_worker.py:916-1223` |
| `GithubSync` | `sync_patches`, both loops, exceptions, the run loop; the specification and its properties | `github_sync.py:148-402` |
| `MCGithubSync` | mappings and model values for TLC | |
| `BranchLife` | abstract specification of one branch's pull requests: at most one open, re-opened as long as it can be | |
| `GithubSyncProofs` | proofs about `GithubSync`: types, `OpenPrsKnown`, expiry of branches | |
| `PullRequestProofs` | proofs about `GithubSync`: what is checked, which pull request of a branch can be open | |
| `BranchLifeProofs` | proofs about `GithubSync`: duplicates, deletions, force-pushes, the refinement of `BranchLife` | |
| `ReplacementProofs` | proofs about `GithubSync`: closing of replaced pull requests | |
| `CiReports` | `sync_checks`, the posting tasks, `evaluate_ci_result`; specification and properties | `branch_worker.py:1323-1476`, `patchwork.py:656-731`, `status.py` |
| `MCCiReports` | runs, jobs and names for TLC | |
| `CiReportsProofs` | proofs about `CiReports` | |
| `Search` | `get_relevant_subjects`: patterns, pages, latest series, caches | `patchwork.py:314-344`, `604-629`, `749-841` |
| `MCSearch`, `SearchProofs` | instance for TLC, proofs | |
| `PrComments` | `forward_pr_comments` | `branch_worker.py:1562-1638` |
| `MCPrComments`, `PrCommentsProofs` | instance for TLC, proofs | |
| `Mirror` | a worker's clones, mirror, base and test branches, end-to-end pull request, `expire_user_prs` | `branch_worker.py:570-580`, `744-899` |
| `Daemon` | the run loop around `Mirror`: construct, cycle, failures, sleep, stop, kill; specification and properties | `daemon.py:45-133` |
| `DaemonProofs` | proofs about `Daemon` | |

`GithubSync` EXTENDS `BranchWorker` EXTENDS `GitHub` EXTENDS `Patchwork`: one
state machine of four layers, which implements `BranchLife` (`Life == INSTANCE
BranchLife WITH ...`): the life of a branch is `open`, `closed`, `lost` or `none` by
whether it has a pull request that is open, one that GitHub would re-open, one at
all, or none. `CiReports` is a second one, of one pull request:
what it shares with the first is that a pull request is commented on
(`set_labels`), perhaps force-pushed, and then has its checks synced, once for
every time its subject is listed. `Search` is what `GithubSync` takes for granted when
it puts a relevant subject on its queue once per pattern (`RelevantSubjects`,
`FetchSubjects`): `SearchIsRight` says when that is so, duplicates included.
`Daemon` EXTENDS `Mirror`, which is what `Refresh` and `TryApply` of `GithubSync`
take for granted: a base branch that is up to date and no leftovers in the clone.
`PrComments` shares nothing with the others but the pull request it is called for.

### 2.1 Pull requests: state and actions

*Patchwork.* `series[i]` is what Patchwork has of series `i`; numbers follow the
dates, so the latest series of a subject is the greatest. A status stands for the
states of all patches: `relevant`; `lapsed` (older than the lookback or archived,
so not found by the search, though it counts as a series of the subject);
`expired` (in a TTL state for too long); `closed` (a patch in an
`IRRELEVANT_STATES` state); `unmatched` (no patch matches the patterns any more).
`targets` is the order of branches that `tag_to_branch_mapping` gives.

*GitHub.* A branch (`Refs`) is named `series/<id>=><target>`, here a pair.
`heads` is its contents: absent, out of date, or a series' patches on the current
base. A pull request has a head, a title, the merge-conflict label, and is
`frozen` when GitHub would refuse to re-open it. `applies` is what `git am` says
of a series on a target, unknown until tried and after upstream moved.

*BranchWorker.* `prs`, `all_prs`, `branches` are the attributes of the same name,
of all workers together, `seenClosed` the pull requests whose object in memory
says closed. `origin` is `remotes/origin/<branch>` in the worker's clone: what
GitHub had at the fetch of the refresh, and what was pushed since; a deletion through
GitHub's API does not change it. `pc` and `job` are the step and the locals of the handler that runs.
Every GitHub call that changes something is an action of its own:

| Code | Actions |
| --- | --- |
| `_pr_closed` | `CloseSeriesPr`, `DeleteClosedBranch` |
| `apply_push_comment` | `Apply` (chooses the path), `PushNewBranch`, `PushUpdate` |
| `_comment_series_pr` | `UseOpenPr`, `ReopenPr`, `NoPrToUse`, `SkipEmptyPr`, `PushDummy`, `CreatePr`, `SetLabels` |
| `sync_patches`, refresh | `StartCycle`, `Refresh`, `FetchSubjects` |
| `sync_relevant_subject` | `PickSubject`, `TryTarget`, `NoTargetLeft`, `NoPrReturned`, `SyncChecks` |
| `close_existing_prs_for_series` | `SyncChecks` (collects), `CloseOther`, `SubjectDone` |
| loop over old subjects | `AllSubjectsDone`, `StartScan`, `SkipOldPr`, `SyncOldPr`, `ScanRaises`, `ScanDone` |
| `expire_branches` | `ExpireBranches` |
| `KernelPatchesWorker.run` | `EndCycle`, `Fault` |

`Fault` is an exception at any step of a cycle, or a restart: either way the next
cycle starts with nothing. It may come *between* any two calls.

Decisions a reader should know of:

* The refresh of one worker is one step; so are setting the label and closing in
  `_comment_series_pr(close=True)`, and all deletions of one `expire_branches`.
* A closed pull request whose branch was force-pushed or deleted cannot be
  re-opened, which is what the comment at `branch_worker.py:1162` guards against.
* `edit(state="close")` (`github_sync.py:175`, `370`) is taken to close.
* The most recently updated closed pull request of a branch (`filter_closed_pr`) is
  taken to be the one with the highest number. Of what is modelled only re-opening and
  closing again updates a closed pull request, and that can happen to the newest only
  (`OpenPrIsNewest`); somebody who comments on an older one later on makes it the one
  found, which is left out. With any closed pull request of the branch in its place TLC
  finds every property of the four sync runs true but one: `PushKeepsReopenable`, as
  the newest may then be lost to the push.
* `_closed_prs` is read at its first use in a cycle. Every branch whose pull
  request is closed later in the cycle is a key of `all_prs`, which is asked first,
  so that the list could be older makes no difference and it is read fresh.
* People post, re-mail, change, rename series and close pull requests; they do not
  re-open pull requests or delete the daemon's branches.
* A worker short of rate limit (`can_do_sync`) costs a fault: its clone and pull
  requests are missing, and using it raises.
* `subjects` with several search patterns may hold a subject up to `NumPatterns`
  times (`patchwork.py:808-839`).
* With `CacheExpires` the latest series is asked again when the branch is named
  (`relevant_series` is cached for ten minutes, in one entry for all subjects).
  If no series is relevant any more then, the branch is named `None=><target>`
  (`NoSeries`): the daemon pushes it and makes a pull request of it as of any other, but
  the loop over old subjects and `expire_branches` do not understand its name and leave
  both alone for good.
* `_is_branch_changed` compares with `origin`, not with GitHub. When an earlier visit of
  the same cycle deleted the branch and the series is wanted again, nothing seems to have
  changed, only labels are updated, and the closed pull request goes on to `sync_checks`
  with its branch gone (`SyncCrash` reaches this; the next cycle pushes the branch
  anew). `heads` and `origin` hold what a branch is worth on the current base, so
  `Fetch` takes the values of after `do_sync`.
* When no worker has rate limit to spare the cycle ends at once (`StartCycle` with no
  worker).

### 2.2 CI reports: state and actions

`ci` holds the state of every job of the pull request's head commit; a run's
conclusion follows from its jobs. `interrupted` is a failed job with a step that
never ended: `RunStatus` makes such a run pending. `checks` maps a patch and a
context to the latest check; its URL is the job it tells of. `tasks` are the
coroutines of `asyncio.gather`, each about to read (`get`) or about to post, with
the number of the exception-free batch it belongs to. `seen` is `pr.labels` in
memory. `mailed` is the result the submitter was last told.

| Code | Actions |
| --- | --- |
| label read at refresh, `set_labels`, force-push | `StartCycle`, `CommentSeriesPr`, `Push` |
| `sync_checks` | `ReportConflict`, `ListRuns`, `ReadRun`, `SubmitReport`, `Gathered` |
| `post_check_for_patch_id` | `GetCheck`, `PostCheck` |
| `evaluate_ci_result` | `EvaluateCiResult`, `AddLabel`, `SendEmail` |

A run's conclusion and its jobs are read by two calls, with CI going on between.
`Fault` may lose all tasks (restart), one (it raised), or none; those it leaves
run on. The merge-conflict check has the context `<target>_PR`, the summary
`<target>-PR`; the model keeps them apart as the code does, so the former is never
replaced when the conflict is gone.

### 2.3 Search: state and actions

A series is a number, its patches and its subject constants; a patch has a state
(one of `RELEVANT_STATES`; the same, but too old by `TTL`; one of
`IRRELEVANT_STATES`), the set of search patterns it matches, and may be hidden
(archived, or older than the lookback). Each of these may change between any two
requests (`Change`).

| Code | Actions |
| --- | --- |
| `get_relevant_subjects`, start and end | `StartSearch`, `NextPattern`, `SearchDone` |
| `__get_objects_recursive` | `ReadPage`, `SearchPattern` (the last page), `SearchRaises` (the page is gone) |
| `fetch_latest_series`, `relevant_series`, `cached` | `FetchLatestSeries`, `AllFetched` |
| `is_expired`, `is_closed` | `JudgeSubject` |

Pages are numbered in the results as they are when a page is asked for, which is
what Patchwork does. `subjects` outlives a round, so that a subject found by the
first pattern is judged again after the second: this is where duplicates come from.
The two caches have one entry for all objects of their class: `cache` is the subject
whose series are kept, and `get_patches` may answer from its own or not
(`liveThen`). The series of a subject and their patches, which `relevant_series` asks for
one by one, are read in one step, as are the states `is_expired` and `is_closed` look at;
the requests of different subjects interleave. A patch is in one series; `series.name` that is empty, and a subject
that is blank, are `NoSubject`.

### 2.4 Comments: state and actions

`tag[c]` is what comment `c` says: the text of its `In-Reply-To-Subject` line, or
`NoTag`, also when the author is not in `commenter_allowlist`. `InNames[t]` are the
patches whose name contains `t` (`patch_by_subject` looks for a substring).
`notes` are the comments "Forwarding comment [id] ... via email". `ListComments` is
`get_issue_comments`, which is fetched once and gone through twice; `IgnoreComment`,
`PostNote`, `FetchMbox`, `SendEmail` are the second loop. GitHub's limit on comments
is `Room`. `CurlFails` is a `send_email` that logs and goes on.

### 2.5 Worker and run loop: state and actions

Contents of branches are pairs of versions, of upstream and of the CI files
(`Content`): what `git diff` would compare. `clone` says what a clone is on disk:
`absent`, `good`, `broken` (git fails) or `torn` (`.git` is there and the remote
`origin` is not, as in the middle of `rmtree`). `originBase`, `originTest`, `upRef`
are the clone's remote-tracking branches, `head` what the base branch was last
prepared with, `am` whether a `git am` is in progress. `pc` is the next step; those
in `InThread` run in the executor.

| Code | Actions |
| --- | --- |
| `fetch_repo_branch`, `fetch_repo`, `full_sync` | `FetchClone`, `FallBack`, `FetchRaises`, `StartRemove`, `EndRemove`, `CloneFrom` |
| `get_pulls`, `do_sync`, branches | `GetPulls`, `FetchUpstream`, `PushMirror`, `ListBranches` |
| `_update_pr_base_branch`, `_add_ci_files` | `PrepareBase`, `PushBase` |
| `update_e2e_test_branch_and_update_pr`, `_update_e2e_pr` | `PushTest`, `KeepPr`, `CreatePr`, `CreateRaises` |
| `try_apply_mailbox_series` | `NextSeries`, `PrepareBase`, `PushBase`, `GitAm` |
| `expire_user_prs`, `_is_outdated_pr` | `ListUserPrs`, `CheckUserPr`, `CommitIsGone`, `NoteStale`, `CloseUserPr` |
| `KernelPatchesWorker.run`, `reset_github_sync` | `Construct`, `ConstructFails`, `SleepEnds`, `StepFails` |
| `KernelPatchesDaemon.start`, `stop` | `Start`, `Stop` |

A thread that runs when the task is cancelled goes on to its end (`cancelled`,
`EndThread`); the process waits for it, as `asyncio.run` does. `StepFails` is an
exception of git, GitHub or Patchwork in any step, and `Kill` the end of the process
in any step; in both the push or request of the step may have arrived (`Arrived`).
A kill while cloning leaves a broken clone, one while removing a torn one. A failed
`Repo.clone_from` cleans up after itself. `userPrs` is the age of the commit that was the
head of the user's pull request when it was listed, which is the one
`_is_outdated_pr` asks for; `CommitIsGone` is that call failing. Other workers come in only as users of the
same CI clone (`SharedCi`), which may change its files after this worker looked.
There is one pull request of another user, and one end-to-end pull request.

## 3. Runs

All runs use model values for targets, patches, runs and jobs and no symmetry, as
liveness is checked in most of them. Bounds: `MaxEvents` (changes people and
upstream make), `MaxFaults`, `MaxSeries`, `NumPatterns`, `MaxMoves`, `MaxSyncs`.

| Run | Instance | Shows |
| --- | --- | --- |
| `SyncCrash` | 1 target, 2 series of 1 subject, 4 events, 2 patterns, 1 fault | types, `OpenPrsKnown`, `NoDuplicatePr`, `CheckedPrMatches`, `BranchOutlivesPr`, `ImplementsBranchLife` with an exception at any step; `CycleEnds`, `Settles`, `Converges`, `ClosedPrsEnd` |
| `SyncPeople` | people close pull requests, cache expires, re-delegation, series that map to no branch | `NoDuplicatePr`, `BranchOutlivesPr`: none is created twice, none loses its branch |
| `SyncRename` | 2 subjects, series renamed between them | `CheckedPrMatches`, `PushKeepsReopenable`; `ScanRaises` happens here |
| `SyncTargets` | 2 targets, 3 events, 1 fault | `CheckedPrMatches`, `ReplacedByOpenPr` with pull requests that replace those on another target; `Settles`, `Converges` |
| `CiChecks` | 2 runs, jobs that end in every way, a re-run or move | types, `ConclusiveStays`, `EmailIsNews`, `SubmitterIsTold` |
| `CiFaults` | subject listed twice, 1 fault, a re-run or move | `ChecksConverge`, `LabelsConverge`, `ReportsSettle` |
| `Search` | 3 series of 1 patch, 2 subjects, 2 patterns, pages of 1, 2 changes | types, `SearchIsRight`, `OneChangeIsHarmless` |
| `Comments` | 3 comments, 2 patches, tags that name one or both, 1 edit, 1 fault | types, `SentOnce`, `WantedIsSent` |
| `Daemon` | 3 events, 2 faults, up to 1 series in a cycle, a shared CI clone | types, `AppliesToPublishedBase`, `StopSparesClones`, `StopEnds`, `MirrorSettles`, `PushesCease`, `SeriesGetTheirTurn`, `StalePrsClose` |

`PushKeepsReopenable`, `ImplementsBranchLife` and `ReplacedByOpenPr` are not claimed
where people close pull requests: one who closes it between the refresh and the push
makes the daemon push over a closed pull request, which `NoDuplicatePr`,
`BranchOutlivesPr` and `CheckedPrMatches` survive.

The properties, in words, are in the comments above their definitions. Why the
bounds are enough: two series are what it takes for a newer version to replace an
older one, two targets for one to replace the other, two subjects for a rename;
four events let a series be posted, replaced, closed and come back, and each event
may fall between any two of the daemon's steps. Cycles are *not* bounded: the
daemon runs for ever in every run, so what one cycle leaves behind is met by all
later ones. In `Search` three results on pages of one make a page that is neither
first nor last, and two changes let one patch leave and another come, in any of the
moments between requests. In `Comments` two comments can name patches while a third
stands between, and the edit may tag an old one. In `Daemon` two faults are what it
takes to meet a clone that a kill left half removed (the first makes the worker
remove it), or a push cut off and then a failure before it is noticed; a third event
can follow after upstream and CI files have moved. `CiReports` has two contexts per report at least, which is what two
racing tasks need. Its patches are independent but for the `gather` they share, so the
runs have one; the proofs are for any number.

**Fairness.** `WF_vars(Daemon)`: `run` is a `while True` that catches every
exception, and every call it waits for ends, by an answer or a timeout. In
`CiReports` also weak fairness of the tasks of each batch, which are coroutines
the event loop runs. In `Daemon` the fairness is weak for `Running` (thread, cycle,
construction and sleep go on) and strong for `Stop`, because the handler of a signal
runs at the next await, and awaits come and go; no fairness for `Start`, as nothing
in the repository starts the process again. Calls that construct may fail, finitely
often, before one succeeds. `Search` claims safety only. People, upstream and CI are under no fairness, and faults are
bounded: the liveness properties say what happens once these are done
(`<>[]`). `Converges` asks for a pull request only if the series applies
somewhere, or conflicts on its last target, and no target has it merged already
(`Wanted`): while `git am` says "already applied" the daemon waits for Patchwork.
`MirrorSettles`, `SeriesGetTheirTurn` and `StalePrsClose` except a clone that a kill
left half removed (`IsTorn`): `fetch_repo` expects `GitCommandError`, gets the
`ValueError` of `Repo.remote`, and every later cycle ends there until somebody removes
the directory. `StopSparesClones` says that only a kill can do that.

### 3.1 Where comments and code disagree

Three runs check what a comment, docstring or message says, and TLC finds a
behaviour of the code that does otherwise:

| Run | Said | Found |
| --- | --- | --- |
| `ClosedSubjects` | message `branch_worker.py:1043` | version 1's pull request leaks when version 2 is closed before it had one |
| `CommentLimit` | comment `branch_worker.py:1575-1576` | when GitHub takes no more comments the note is missing and the same email goes out in every cycle |
| `EndToEndRename` | docstring `branch_worker.py:747` | a renamed end-to-end pull request is not found by its title; creating another is refused, and no cycle gets to the series |

Others met while modelling have no run of their own; each can be seen by changing
one constant of a run, or is a matter of reading:

* `NumPatterns = 3` in `SyncCrash.cfg`, with `MaxSeries = 1` and the statuses `relevant`
  and `closed`, violates `BranchOutlivesPr`: "delete branch if there is no more PRs left from
  this branch" (`branch_worker.py:1062`) is decided by `len(prs)`, which counts base
  branches. The first turn of a subject closes the pull request and deletes the branch,
  the series is wanted again and the second turn creates another one, the series is
  closed again, and in the third turn `_guess_pr` returns the first, already closed, and
  the branch goes under the second, which is open.
* `MaxSyncs = 2` in `CiChecks.cfg` violates `EmailIsNews`: a subject listed twice
  loses its CI label to stale `pr.labels`, and the email is sent again; the comment
  at `branch_worker.py:1463-1464` says that this is news.
* `MaxFaults = 1` in `CiChecks.cfg` violates `ConclusiveStays`: a task left behind by
  `gather` posts pending over a result, which `patchwork.py:708-709` says cannot be;
  and it violates `SubmitterIsTold`: the label is added before the email is sent.
* `NameOf <- SharedName` in `CiChecks.cfg` violates `ReportsSettle`: the context is made
  of the job's name, not its index as `branch_worker.py:1390-1392` says; equal names
  flip one check for ever.
* `close_existing_prs_for_series` (docstring `github_sync.py:151-154`) does not find an
  older pull request of the same title: the new one has overwritten `prs[title]` by
  then. `Converges` holds all the same, because the next cycle comes upon it.
* The comment at `github_sync.py:248` says that the branch is named for the first
  known series; `Subject.branch` names it for the latest (`patchwork.py:309`).
* The comment of `expire_user_prs`, "feel free to reopen if needed"
  (`branch_worker.py:1511`): a pull request that is re-opened without a new commit is
  as old as before and is closed again in the next cycle, as `UserReopens` and
  `CloseUserPr` do.
* A patch, of whatever subject, that leaves the results between two pages makes the
  next page skip one; `SearchIsRight` holds for searches this does not happen to
  (`~shifted`).
* With two search patterns that exclude each other no series is relevant:
  `_is_patch_matching` asks for all of them, and a subject found by one is dropped.

## 4. Proofs

Checked by TLAPS for every value of the constants that satisfies the named
assumptions (`PatchworkAssumption`, `GithubSyncAssumption`, `CiReportsAssumption`,
`PrCommentsAssumption`, `SearchAssumption`, `MirrorAssumption`):

* `GithubSyncProofs!TypeCorrect`: `Spec => []TypeOK`. More than types: `TypeOK`
  says that a job is there whenever a step reads one, that an iteration's keys are
  keys of `prs` as long as it does not raise, and that pull request numbers in
  memory exist on GitHub.
* `GithubSyncProofs!OpenPrsAreKnown`: `Spec => []OpenPrsKnown`, whatever people,
  caches and failures do, for any number of targets, subjects and patterns.
* `GithubSyncProofs!ExpirySpares`: `expire_branches` never deletes a branch with
  an open pull request.
* `PullRequestProofs!CheckedPrsMatch`: `Spec => []CheckedPrMatches`, and
  `OpenPrIsNewest`: of the pull requests of a branch only the newest is ever open;
  both whatever people, caches, failures and duplicates do.
* `BranchLifeProofs!NoDuplicates` and `BranchesOutlivePrs`: `Spec => []NoDuplicatePr`
  and `Spec => BranchOutlivesPr` if a branch has one visit in a cycle (`OneVisit`).
* `BranchLifeProofs!PushesKeepReopenable` and `BranchLifeImplemented`: `Spec =>
  PushKeepsReopenable` and `Spec => ImplementsBranchLife` if, besides, only the daemon
  closes pull requests (`~PeopleClose`).
* `ReplacementProofs!ReplacementIsOpen`: `Spec => []ReplacedByOpenPr` if, besides, no
  mapping lists a target twice (`TargetsDistinct`).
* `CiReportsProofs!TypeCorrect`: `Spec => []TypeOK`.
* `CiReportsProofs!ConclusiveChecksStay`: `Spec => ConclusiveStays` if contexts are
  distinct and `MaxFaults = 0`. Both are needed (3.1).
* `CiReportsProofs!EmailsAreNews`: `Spec => []EmailIsNews` if `MaxSyncs = 1` and
  `MaxFaults = 0`; the former is needed (3.1).
* `PrCommentsProofs!TypeCorrect`, and `CommentsAreSentOnce`: `Spec => []SentOnce` if
  GitHub has room for a note for every comment (`Room >= 2 * NumComments`), which
  `CommentLimit` shows to be needed; edits, faults and lost emails are free.
* `SearchProofs!TypeCorrect`, and `SearchesAreRight`: `Spec => []SearchIsRight`, for any
  patches, series, patterns and page size; `OneChangeHarmless`: `Spec =>
  []OneChangeIsHarmless`, likewise.
* `DaemonProofs!TypeCorrect`, `SeriesApplyToPublishedBase` and `StoppingSparesClones`:
  `Spec => []` of `DaemonTypeOK`, `AppliesToPublishedBase`, `StopSparesClones`, for any
  number of events, faults and series.

*The argument for pull requests.* `OpenPrsKnown` is not inductive: a step that
creates or re-opens a pull request records it under the branch of the job, so one
needs that what `all_prs` has for a branch comes from that branch (`PrHeads`), and
that the series a branch is named for was posted (`Grounded`), so that the subject
of an old pull request exists. `IInv` is the conjunction of these with `TypeOK`;
`NextIInv` takes one lemma per action. `ExpirySpares` then follows from the guard
of `ExpirableBranches` and `OpenPrsKnown`.

*The argument for the pull request that is checked.* `JobSound` says what a handler
has established before each of its calls: on the paths that push nothing more `origin`
has the series already, what `job.pr` names comes from the branch, and it has no
merge-conflict label when the push comes last. With the part of `CheckedPrMatches` that
speaks of `origin` (`CheckedPrFetched`) this is inductive; caches and people do not
enter, because they change neither `origin` nor `job`. For the rest, `CloneFresh` says
that GitHub's branches of a worker that was refreshed are what its clone knows, or
gone; and of a branch that is gone no pull request is open, by the invariant behind
`OpenPrIsNewest`: a deletion freezes the pull requests of the branch, and those that are
frozen are closed (`FrozenIsClosed`).

*The argument for the newest pull request.* A pull request can be re-opened only if it
is the newest of its branch or `_guess_pr` says so: `KnownIsNewest` says that the one
`all_prs` has is the newest or is frozen, and `RefusedIsFrozen` that a new one is
created next to a known one only after GitHub refused to re-open that.

*The argument for branches.* With one pattern, no renaming and, when caches expire,
one subject (`OneVisit`) the state
tells which visits to a branch are still to come in the cycle: `Ahead` looks into the
queue, or after it into the pull requests the old-subject loop has left, and the visit
at hand is not among them (`VisitOK`). `VisitInv` says that as long as one is to come,
the pull request that `_guess_pr` takes for the branch's is the newest (`AheadKnown`);
an old one is left there only by a visit that created another after a refused
re-opening, and no other visit follows that one. `NoDuplicatePr` and
`BranchOutlivesPr` are consequences. `KeepInv` adds what force-pushes need: a branch
not in the snapshot is not on GitHub (`AheadBranches`), a new pull request is created
only where no other can be re-opened (`NothingToReopen`), and only the newest can be
(`ReopenableIsNewest`). `CloseInv` adds that a known pull request that is closed was
seen closed (`ClosedIsSeen`), so that a branch is updated under an open one
(`UpdatedOpen`). For the refinement, each step that moves `heads` or `pulls` maps to
one of the five actions of `BranchLife`, or stutters; `StepKinds` lists them.

*What the conditions are for.* That a branch has one visit in a cycle is what the
repository's own configuration (`configs/kpd.json`, one search pattern) gives, as long
as nobody renames a series in mid-cycle and the cached series do not expire between the
choice of a series and the naming of its branch: then two subjects may visit the one
branch `None=><target>`. (For two subjects, with the constants of `SyncPeople` otherwise
but one pattern and five events, TLC finds `NoDuplicatePr` and `BranchOutlivesPr` true.)
It cannot just be dropped: with
`NumPatterns = 3` TLC finds all of `BranchOutlivesPr` (3.1), `NoDuplicatePr` and `PushKeepsReopenable` violated, because after a close, a re-open
and another close between the turns `all_prs[ref][0]` is an old pull request. With two
patterns TLC finds them true (`SyncCrash`, `SyncPeople`), which is not proved. A renamed
series may have a visit under its old and under its new subject, like one that two
patterns find; TLC finds none of the three violated with one series and three subjects
for it, and the theorems leave it open. `~PeopleClose` is needed, as said in section 3.
A mapping that lists a target twice makes the loop over targets visit it twice: TLC finds
`ReplacedByOpenPr` violated with `Mappings = {<<w1, w1>>, <<w2>>}` and four events.

*The argument for replacements.* `sync_relevant_subject` closes what it finds for the
same series on other targets on the word of an object in memory. `ReplaceInv` says that
before its visit in a cycle the pull request of a branch is open as at the refresh
(`ToComeOpen`), that a visit which finds one keeps it open (`FoundOpen`), and that all
that is to be closed for it belongs to the same subject and is another one
(`OthersOK`).

*The argument for checks.* A task about to post pending is harmless while the check
is still what it read. `PInv` says: tasks exist only while the report is awaited
(no orphans without faults), no two tasks have the same patch and unit, and a
pending one about to post sees no result. With distinct contexts no other task can
have posted to the same check.

*The argument for emails.* `EInv`: between cycles the CI label on GitHub is the
result last mailed, or absent if none was; the copy in memory agrees until
`set_labels` has written it back; at `label` and `mail` the new result differs from
the last one mailed.

*The argument for comments.* What was sent has a note, or is about to be mailed under
one; the notes known at the listing only grow afterwards, and the second loop goes up,
so no comment that is past it comes again. The step that could break this is a note
that GitHub refuses, which the assumption on `Room` excludes.

*The argument for the search.* `SearchInv` says of a subject nobody touched, unless the
pages shifted: it is among `subjects` just if one of the patterns searched so far finds
it (`FoundOK`), its latest series is known as it is, whether from the request or the
cache (`LatestOK`), the rounds that listed it are those that should have (`ListedOK`), and
the pages read so far hold just the first results (`ListingOK`). That a change cannot
break the last one is a fact about cardinalities: when nothing leaves the results,
nothing moves to an earlier place (`PlaceGrows`).

*The argument for one change.* `SearchInv` knows nothing of subjects that are touched.
`HarmlessInv` says of these: a pattern that finds the subject at all moments has found
it, or one of its patches is on a page still to come (`ToComeOK`, `KeptOK`; a patch
that enters takes a later place or a new one, and never moves another to a page that was
read); and if all moments agree whether it is live, so do the two answers it is judged
by (`AnswersOK`), because one change is of the states, and leaves the latest series
what it is, or of something else, and leaves the states (`ChangeIsOne`).

*The argument for the worker.* `AppliesToPublishedBase` needs that the clone's idea of
the base branch is GitHub's from its fetch on to the end of the cycle (`BaseIsKnown`),
that no `git am` is in progress once the base is prepared (`AmIsClean`), and that
`head` is that content when a series is applied (`HeadIsBase`). `StopSparesClones` needs
that a clone is torn only while a thread removes it (`TornInRemoval`), and that a
cancelled task is gone only after its thread (`CancelledInThread`).

Model-checked only: every liveness property (`CycleEnds`, `Settles`, `Converges`,
`ClosedPrsEnd`, `SubmitterIsTold`, `ChecksConverge`, `LabelsConverge`, `ReportsSettle`,
`WantedIsSent`, `StopEnds`, `MirrorSettles`, `PushesCease`, `SeriesGetTheirTurn`,
`StalePrsClose`): liveness under fairness is out of the prover's reach. Every safety
property of a passing run has a theorem, those of the sync cycle under the conditions
named; that `NoDuplicatePr` and `BranchOutlivesPr` hold with two patterns, and
`PushKeepsReopenable` with renamed series, is model-checked only.

## 5. Not modelled, and why

HTTP sessions and their retries, authentication, log extraction, the text of emails
and comments (the rewriting of AI reviews among it), metrics, counters, the command
line and the configuration are I/O or text: their failures are faults. The token in
the URL of a clone is good for half an hour at least when the cycle fetches
(`github_connector.py:142`); a push after that fails like any other. Time is
abstracted: statuses expire, branches and pull requests age at any moment, so
`BRANCH_TTL` (172800 seconds, though its comment says one week, `branch_worker.py:99`)
plays no part. With no workflow run listed yet the summary is "skipped", which
Patchwork is told as success and which pending does not replace afterwards; the model
does the same. `Mirror` has one pull request of other users: that closing some while
the list is read page by page may skip others until the next cycle is not in it. `git
commit` with nothing to commit, and a CI repository without files, raise: a
`StepFails`.

## 6. Plan

Done: the four layers of the sync cycle and CI reporting, in this order because
everything else depends on which pull request a series has; then the search, comment
forwarding, the worker's clones and branches and the run loop. Next, in order:

1. Proofs: `NoDuplicates` and `BranchesOutlivePrs` for two visits in a cycle
   (`NumPatterns = 2`), which needs what the first visit leaves behind in `all_prs`; in
   `CiReports` that labels are never both pass and fail once a cycle has evaluated.
2. An abstract specification of "one pull request per series" that a cycle of
   `GithubSync` without people and faults implements, by refinement: `BranchLife` speaks
   of one branch at a time.
3. `Search` as an instance within `GithubSync`, in place of `RelevantSubjects`, on a
   smaller instance of both.
