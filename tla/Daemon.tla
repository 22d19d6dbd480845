------------------------------- MODULE Daemon -------------------------------
(***************************************************************************)
(* The run loop around the cycles: KernelPatchesWorker.run makes a new     *)
(* GithubSync, lets it sync, sleeps, and starts over whatever happened; a  *)
(* signal cancels the task that runs it.  A thread of the executor does    *)
(* not notice: the process ends when the thread does.  The process may     *)
(* also be killed, at any step, and started again.                         *)
(***************************************************************************)
EXTENDS Mirror

VARIABLES
    signal,       \* SIGTERM or SIGINT came and stop has not run yet
    killed        \* history: the process was killed at least once

allVars == <<vars, signal, killed>>

DaemonTypeOK == TypeOK /\ signal \in BOOLEAN /\ killed \in BOOLEAN

DaemonInit == Init /\ signal = FALSE /\ killed = FALSE

IsUp == pc # "down"

(***************************************************************************)
(* The process.                                                            *)
(***************************************************************************)
\* KernelPatchesDaemon.start.
Start ==
    /\ pc = "down"
    /\ pc' = "construct"
    /\ UNCHANGED <<outside, github, disk, memory, cancelled, faults, signal, killed>>

\* reset_github_sync: everything in memory is new.
Construct ==
    /\ pc = "construct"
    /\ at' = "repo" /\ use' = "test"
    /\ prSeen' = FALSE /\ testSeen' = FALSE /\ pushed' = FALSE
    /\ left' \in 0..MaxApplies /\ userPrs' = "none"
    /\ GoOn("fetch")
    /\ UNCHANGED <<outside, github, disk, faults, signal, killed>>

\* It fails, and `continue' tries again without an await.
ConstructFails ==
    /\ pc = "construct" /\ SpendFault
    /\ UNCHANGED <<outside, github, disk, memory, pc, cancelled, signal, killed>>

SleepEnds ==
    /\ pc = "sleep"
    /\ GoOn("construct")
    /\ UNCHANGED <<outside, github, disk, memory, faults, signal, killed>>

\* What a push or a request that failed, or was cut off, may have done.
Arrived ==
    \/ UNCHANGED github
    \/ /\ pc = "mirror" /\ mirror' = upRef
       /\ UNCHANGED <<base, testPr, userPr>>
    \/ /\ pc = "pushbase" /\ base' = head
       /\ UNCHANGED <<mirror, testPr, userPr>>
    \/ /\ pc = "test" /\ IsTestChanged /\ test' = head
       /\ UNCHANGED <<mirror, base, pr, userPr>>
    \/ /\ pc = "pr" /\ ~prSeen /\ CanCreatePr /\ pr' = "open"
       /\ UNCHANGED <<mirror, base, test, userPr>>
    \/ /\ pc = "close" /\ userPr' = "closed"
       /\ UNCHANGED <<mirror, base, testPr>>

\* git, GitHub or Patchwork fails.  Cloning cleans up after itself.
StepFails ==
    /\ IsUp /\ pc \notin {"construct", "sleep", "fetch", "remove", "removing"}
    /\ SpendFault
    /\ Raise
    /\ Arrived
    /\ UNCHANGED <<outside, disk, memory, signal, killed>>

(***************************************************************************)
(* Stopping.                                                               *)
(***************************************************************************)
SendSignal ==
    /\ IsUp /\ ~signal /\ ~cancelled
    /\ SpendEvent
    /\ signal' = TRUE
    /\ UNCHANGED <<upstream, ci, github, disk, memory, pc, cancelled, faults, killed>>

\* Steps during which the event loop is free to run the handler.
IsAwaiting == InThread \/ pc \in {"series", "am", "sleep"}

\* Mutant: a thread ends with the task.
AfterCancelAtOnce == pc' = "down" /\ UNCHANGED cancelled

\* Mutant: the task is looked at when a thread ends, and not otherwise.
AfterCancelLater == cancelled' = TRUE /\ UNCHANGED pc

\* Mutant: run catches the CancelledError as it does any exception.
AfterCancelCaught ==
    /\ pc' = IF InThread THEN pc ELSE "sleep"
    /\ UNCHANGED cancelled

AfterCancel ==
    IF InThread THEN cancelled' = TRUE /\ UNCHANGED pc
                ELSE pc' = "down" /\ UNCHANGED cancelled

\* stop, and the CancelledError that run does not catch.
Stop ==
    /\ signal /\ IsAwaiting
    /\ signal' = FALSE
    /\ AfterCancel
    /\ UNCHANGED <<outside, github, disk, memory, faults, killed>>

Kill ==
    /\ IsUp /\ SpendFault
    /\ pc' = "down" /\ cancelled' = FALSE /\ signal' = FALSE
    /\ killed' = TRUE
    /\ Arrived
    /\ clone' = IF pc = "clone" THEN [clone EXCEPT ![at] = "broken"] ELSE clone
    /\ UNCHANGED <<outside, tracking, worktree, memory>>

Running ==
    \/ (Worker /\ UNCHANGED <<signal, killed>>)
    \/ Construct \/ SleepEnds

Next ==
    \/ Running \/ Stop \/ Start
    \/ ConstructFails \/ StepFails \/ Kill \/ SendSignal
    \/ (Outside /\ UNCHANGED <<signal, killed>>)

Spec == DaemonInit /\ [][Next]_allVars

\* Calls end, the event loop runs handlers when it can; nothing has to start the
\* process again.
FairSpec == Spec /\ WF_allVars(Running) /\ SF_allVars(Stop)

(***************************************************************************)
(* Safety.                                                                 *)
(***************************************************************************)
\* "Reset the repository into a known good state" (_reset_repo), "The pull
\* request will be created against repo_pr_base_branch.  So prepare it for that"
\* (try_apply_mailbox_series): when a series is applied no earlier `git am' is in
\* progress, and what it is applied to is what GitHub has as base branch,
\* whatever earlier cycles and crashes left behind.
AppliesToPublishedBase == pc = "am" => ~am /\ head = base

\* A stop by signal waits for the thread: unless the process is killed, no clone
\* is left half removed, which the next process could not use or replace.
StopSparesClones ==
    pc = "down" /\ ~killed => \A c \in Clones : clone[c] # "torn"

(***************************************************************************)
(* Liveness.                                                               *)
(***************************************************************************)
\* A signal ends the process, though constructing may fail first and though the
\* event loop is blocked most of the time.
StopEnds == signal ~> ~IsUp

Settled ==
    /\ mirror = upstream
    /\ base = [up |-> upstream, ci |-> ci] /\ test = base
    /\ pr = "open"

IsTorn == \E c \in Clones : clone[c] = "torn"

\* When upstream, CI files, people and failures are done, the mirror, the base
\* branch and the pull request that tests upstream come to be what they should
\* be, unless a kill left a clone half removed.
MirrorSettles == <>[](IsUp /\ ~IsTorn) => <>[]Settled

\* "Force push only if there is no branch or code changes" (update_e2e_test_...):
\* then its CI is not started again and again.
PushesCease == <>[]IsUp => <>[](~pushed)

\* Whatever fails in between, every cycle that is not cut short gets to the
\* series: the worker's own pull request and branches never keep it from them.
SeriesGetTheirTurn == <>[](IsUp /\ ~IsTorn) => []<>(pc = "series")

\* "Close user-created ... pull requests that have not seen an update in a while"
\* (expire_user_prs): in the end no such pull request is open.
StalePrsClose == <>[](IsUp /\ ~IsTorn) => <>[](userPr # "stale")
=============================================================================
