----------------------------- MODULE CiReports -----------------------------
(***************************************************************************)
(* What the daemon tells the world about the CI of one pull request:       *)
(* sync_checks posts a Patchwork check per patch for every job, one for    *)
(* the pull request as a whole and one for a merge conflict;               *)
(* evaluate_ci_result keeps a ci-pass or ci-fail label and mails the       *)
(* submitter when it changes.                                              *)
(*                                                                         *)
(* Checks are posted by concurrent tasks, each of which reads the latest   *)
(* check before it posts.  When one of them raises, asyncio.gather raises  *)
(* at once and the others run on, into the next cycle if they are slow.    *)
(* GitHub's workflow runs change at any time.                              *)
(***************************************************************************)
EXTENDS Naturals, FiniteSets

CONSTANTS
    Patches,      \* patches of the series
    Runs,         \* workflow runs of a head commit
    Jobs,         \* jobs of all the runs
    JobsOf,       \* jobs of each run
    NameOf,       \* job |-> its name, as slugify_check_context leaves it
    MailRuns,     \* runs whose name email_ignore_workflows does not match
    Conclusions,  \* how a job can end, see JobEnds
    MaxSyncs,     \* how often one cycle may list the subject
    MaxMoves,     \* bound: upstream moves and re-runs, all together
    MaxFaults     \* bound: exceptions and restarts

\* interrupted: a failure with a step that never ended, or was cancelled.
JobEnds == {"success", "failure", "skipped", "cancelled", "interrupted"}

ASSUME CiReportsAssumption ==
    /\ Patches # {} /\ IsFiniteSet(Patches)
    /\ JobsOf \in [Runs -> SUBSET Jobs]
    /\ DOMAIN NameOf = Jobs
    /\ Jobs \cap {"summary", "conflict"} = {}
    /\ MailRuns \subseteq Runs
    /\ Conclusions \subseteq JobEnds
    /\ MaxSyncs \in Nat \ {0} /\ MaxMoves \in Nat /\ MaxFaults \in Nat

VARIABLES
    ci,           \* GitHub: state of every job of the pull request's head
    upstream,     \* does the next `git am' give the same, another or no branch
    labels,       \* GitHub: the pull request's labels
    checks,       \* Patchwork: the latest check by patch and context
    mailed,       \* result the submitter was last told
    pc,           \* next step of the daemon
    syncs,        \* how often the subject is still to come in this cycle
    seen,         \* pr.labels, as of the last pr.update() or get_pulls
    listing,      \* conclusions of the runs still to be read
    statuses,     \* status of each run read
    jobsSeen,     \* jobs of the runs read
    result,       \* email_status
    tasks,        \* tasks of asyncio.gather, orphans included
    moves, faults \* how many of the bounds are used up

githubVars == <<ci, upstream, labels>>
readVars == <<listing, statuses, jobsSeen>>
vars == <<githubVars, checks, mailed, pc, syncs, seen, readVars, result,
          tasks, moves, faults>>

Statuses == {"skipped", "pending", "success", "failure", "conflict"}
JobStates == {"absent", "running"} \cup JobEnds
CiLabels == {"ci-pass", "ci-fail"}
Labels == CiLabels \cup {"merge-conflict"}
Units == Jobs \cup {"summary", "conflict"}
Contexts == {NameOf[j] : j \in Jobs} \cup {"summary", "conflict"}
NoCheck == [state |-> "none"]
Check == [state: {"pending", "success", "fail"}, url: Units] \cup {NoCheck}
Task ==
    [patch: Patches, unit: Units, status: Statuses, step: {"get", "post"},
     batch: 0..MaxFaults]
RunConclusions == {"none", "success", "failure", "cancelled", "skipped"}

TypeOK ==
    /\ ci \in [Jobs -> JobStates]
    /\ upstream \in {"same", "moved", "conflict"}
    /\ labels \subseteq Labels /\ seen \subseteq Labels
    /\ checks \in [Patches \X Contexts -> Check]
    /\ mailed \in {"none"} \cup CiLabels
    /\ pc \in {"idle", "comment", "push", "sync", "runs", "report",
               "evaluate", "label", "mail"}
    /\ syncs \in 0..MaxSyncs
    /\ listing \in [Runs -> RunConclusions \cup {"absent", "read"}]
    /\ statuses \in [Runs -> Statuses]
    /\ jobsSeen \in [Jobs -> JobStates]
    /\ result \in Statuses
    /\ tasks \subseteq Task
    /\ moves \in 0..MaxMoves /\ faults \in 0..MaxFaults

NoJobs == [j \in Jobs |-> "absent"]
NoListing == [r \in Runs |-> "absent"]
NoStatuses == [r \in Runs |-> "skipped"]

Init ==
    /\ ci = NoJobs /\ upstream = "same" /\ labels = {}
    /\ checks = [key \in Patches \X Contexts |-> NoCheck]
    /\ mailed = "none"
    /\ pc = "idle" /\ syncs = 0 /\ seen = {}
    /\ listing = NoListing /\ statuses = NoStatuses /\ jobsSeen = NoJobs
    /\ result = "skipped"
    /\ tasks = {}
    /\ moves = 0 /\ faults = 0

(***************************************************************************)
(* Statuses.                                                               *)
(***************************************************************************)
GhConclusionToStatus(conclusion) ==
    CASE conclusion \in {"none", "running", "cancelled"} -> "pending"
      [] conclusion \in {"failure", "interrupted"} -> "failure"
      [] conclusion = "success" -> "success"
      [] OTHER -> "skipped"

\* "failure" is sticky, "pending" hides a success, "skipped" is neutral: the
\* order in which process_statuses walks over the statuses plays no part.
ProcessStatuses(all) ==
    CASE "failure" \in all -> "failure"
      [] "pending" \in all -> "pending"
      [] "success" \in all -> "success"
      [] OTHER -> "skipped"

\* PW_CHECK_STATES.
PwCheckState(status) ==
    CASE status = "pending" -> "pending"
      [] status \in {"success", "skipped"} -> "success"
      [] status \in {"failure", "conflict"} -> "fail"

\* Mutant: every check has the name of the summary.
ContextOfTarget(unit) == "summary"

\* slugify_check_context of "<target>_<job>", "<target>-PR", "<target>_PR".
Context(unit) == IF unit \in Jobs THEN NameOf[unit] ELSE unit

\* A failed run with a step that is not over, or was cancelled, is pending.
RunStatus(conclusion, r, jobs) ==
    LET status == GhConclusionToStatus(conclusion)
        cut == \E j \in JobsOf[r] : jobs[j] \in {"running", "cancelled", "interrupted"}
    IN  IF status = "failure" /\ cut THEN "pending" ELSE status

(***************************************************************************)
(* GitHub Actions, external to src/: a run ends when its jobs did.         *)
(***************************************************************************)
Listed == {r \in Runs : \E j \in JobsOf[r] : ci[j] # "absent"}

RunConclusion(r) ==
    LET ends == {ci[j] : j \in JobsOf[r]} IN
    CASE "running" \in ends -> "none"
      [] ends \cap {"failure", "interrupted"} # {} -> "failure"
      [] "cancelled" \in ends -> "cancelled"
      [] "success" \in ends -> "success"
      [] OTHER -> "skipped"

SpendMove == moves < MaxMoves /\ moves' = moves + 1

StartRun(r) ==
    /\ \/ r \notin Listed /\ UNCHANGED moves
       \/ r \in Listed /\ RunConclusion(r) # "none" /\ SpendMove
    /\ ci' = [j \in Jobs |-> IF j \in JobsOf[r] THEN "running" ELSE ci[j]]
    /\ UNCHANGED <<upstream, labels>>

EndJob(j) ==
    /\ ci[j] = "running"
    /\ \E end \in Conclusions : ci' = [ci EXCEPT ![j] = end]
    /\ UNCHANGED <<upstream, labels, moves>>

MoveUpstream ==
    /\ SpendMove
    /\ upstream' \in {"same", "moved", "conflict"} \ {upstream}
    /\ UNCHANGED <<ci, labels>>

Environment ==
    /\ (\E r \in Runs : StartRun(r)) \/ (\E j \in Jobs : EndJob(j)) \/ MoveUpstream
    /\ UNCHANGED <<checks, mailed, pc, syncs, seen, readVars, result, tasks, faults>>

(***************************************************************************)
(* The pull request before its checks.                                     *)
(***************************************************************************)
\* get_pulls reads the labels once per cycle, however often the subject is
\* listed in it.
StartCycle ==
    /\ pc = "idle"
    /\ pc' = "comment"
    /\ syncs' \in 1..MaxSyncs
    /\ seen' = labels
    /\ UNCHANGED <<githubVars, checks, mailed, readVars, result, tasks, moves, faults>>

\* set_labels of _comment_series_pr: the CI labels are those in memory.
CommentSeriesPr ==
    /\ pc = "comment"
    /\ labels' = (seen \cap CiLabels) \cup
                     IF upstream = "conflict" THEN {"merge-conflict"} ELSE {}
    /\ pc' = IF upstream = "moved" THEN "push" ELSE "sync"
    /\ UNCHANGED <<ci, upstream, checks, mailed, syncs, seen, readVars, result,
                   tasks, moves, faults>>

\* The force-push of apply_push_comment, and pr.update() after it: no workflow
\* ran for the new head yet.
Push ==
    /\ pc = "push"
    /\ ci' = NoJobs
    /\ upstream' = IF upstream = "moved" THEN "same" ELSE upstream
    /\ seen' = labels
    /\ pc' = "sync"
    /\ UNCHANGED <<labels, checks, mailed, syncs, readVars, result, tasks, moves, faults>>

(***************************************************************************)
(* sync_checks.                                                            *)
(***************************************************************************)
Tasks(unit, status) ==
    [patch: Patches, unit: {unit}, status: {status}, step: {"get"}, batch: {faults}]

ReportConflict ==
    /\ pc = "sync"
    /\ "merge-conflict" \in labels
    /\ seen' = labels
    /\ tasks' = tasks \cup Tasks("conflict", "conflict")
    /\ result' = "conflict"
    /\ pc' = "report"
    /\ UNCHANGED <<githubVars, checks, mailed, syncs, readVars, moves, faults>>

ListRuns ==
    /\ pc = "sync"
    /\ "merge-conflict" \notin labels
    /\ seen' = labels
    /\ listing' = [r \in Runs |->
                      IF r \in Listed THEN RunConclusion(r) ELSE "absent"]
    /\ pc' = "runs"
    /\ UNCHANGED <<githubVars, checks, mailed, syncs, statuses, jobsSeen,
                   result, tasks, moves, faults>>

\* The jobs of a run are read after its conclusion was.
ReadRun(r) ==
    /\ pc = "runs"
    /\ listing[r] \notin {"absent", "read"}
    /\ listing' = [listing EXCEPT ![r] = "read"]
    /\ statuses' = [statuses EXCEPT ![r] = RunStatus(listing[r], r, ci)]
    /\ jobsSeen' = [j \in Jobs |-> IF j \in JobsOf[r] THEN ci[j] ELSE jobsSeen[j]]
    /\ UNCHANGED <<githubVars, checks, mailed, pc, syncs, seen, result, tasks,
                   moves, faults>>

\* Mutant: emails tell of every workflow.
EmailRunsAll(read) == read

\* email_ignore_workflows.
EmailRuns(read) == read \cap MailRuns

SubmitReport ==
    LET read == {r \in Runs : listing[r] = "read"}
        summary == ProcessStatuses({statuses[r] : r \in read})
        jobs == {j \in Jobs : jobsSeen[j] # "absent"}
    IN
    /\ pc = "runs"
    /\ \A r \in Runs : listing[r] \in {"absent", "read"}
    /\ tasks' = tasks \cup Tasks("summary", summary) \cup
                    UNION {Tasks(j, GhConclusionToStatus(jobsSeen[j])) : j \in jobs}
    /\ result' = ProcessStatuses({statuses[r] : r \in EmailRuns(read)})
    /\ listing' = NoListing /\ statuses' = NoStatuses /\ jobsSeen' = NoJobs
    /\ pc' = "report"
    /\ UNCHANGED <<githubVars, checks, mailed, syncs, seen, moves, faults>>

(***************************************************************************)
(* post_check_for_patch_id, as a task.                                     *)
(***************************************************************************)
\* Mutant: a conclusive check is replaced by a pending one.
LeavesCheckUnguarded(k, check) ==
    check = [state |-> PwCheckState(k.status), url |-> k.unit]

\* Mutant: the state is not compared.
LeavesCheckOfUrl(k, check) == check # NoCheck /\ check.url = k.unit

\* A pending state never replaces a conclusive one, and the same is not posted
\* twice.
LeavesCheck(k, check) ==
    \/ /\ k.status = "pending"
       /\ check.state \notin {"none", "pending"}
    \/ check = [state |-> PwCheckState(k.status), url |-> k.unit]

GetCheck(k) ==
    /\ k.step = "get"
    /\ tasks' = (tasks \ {k}) \cup
                    IF LeavesCheck(k, checks[<<k.patch, Context(k.unit)>>]) THEN {}
                    ELSE {[k EXCEPT !.step = "post"]}
    /\ UNCHANGED checks

PostCheck(k) ==
    /\ k.step = "post"
    /\ checks' = [checks EXCEPT ![<<k.patch, Context(k.unit)>>] =
                     [state |-> PwCheckState(k.status), url |-> k.unit]]
    /\ tasks' = tasks \ {k}

TaskStep(batch) ==
    /\ \E k \in tasks : k.batch = batch /\ (GetCheck(k) \/ PostCheck(k))
    /\ UNCHANGED <<githubVars, mailed, pc, syncs, seen, readVars, result, moves, faults>>

Gathered ==
    /\ pc = "report"
    /\ \A k \in tasks : k.batch # faults
    /\ pc' = "evaluate"
    /\ UNCHANGED <<githubVars, checks, mailed, syncs, seen, readVars, result,
                   tasks, moves, faults>>

(***************************************************************************)
(* evaluate_ci_result.                                                     *)
(***************************************************************************)
\* Mutant: a cycle never runs out of subjects.
NextSyncPastEnd == pc' = "comment" /\ syncs' = syncs - 1

\* On to the next time the subject is listed, or to the end of the cycle.
NextSync ==
    /\ syncs' = syncs - 1
    /\ pc' = IF syncs = 1 THEN "idle" ELSE "comment"

LabelOf(status) == IF status = "success" THEN "ci-pass" ELSE "ci-fail"

\* Mutant: the label of the previous result is left where it is.
UnusedLabelsNone(new) == {}

UnusedLabels(new) == CiLabels \ {new}

\* Mutant: does not look whether the label is there.
IsNewLabelAlways(new) == TRUE

IsNewLabel(new) == new \notin labels

\* pr.update(), and the label of the other result goes.
EvaluateCiResult ==
    /\ pc = "evaluate"
    /\ IF result \in {"pending", "skipped"}
       THEN NextSync /\ UNCHANGED <<labels, seen>>
       ELSE LET new == LabelOf(result) IN
            /\ seen' = labels
            /\ labels' = labels \ UnusedLabels(new)
            /\ IF IsNewLabel(new) THEN pc' = "label" /\ UNCHANGED syncs
                                  ELSE NextSync
    /\ UNCHANGED <<ci, upstream, checks, mailed, readVars, result, tasks, moves, faults>>

AddLabel ==
    /\ pc = "label"
    /\ labels' = labels \cup {LabelOf(result)}
    /\ pc' = "mail"
    /\ UNCHANGED <<ci, upstream, checks, mailed, syncs, seen, readVars, result,
                   tasks, moves, faults>>

\* The logs of failed jobs are fetched first; send_email does not raise.
SendEmail ==
    /\ pc = "mail"
    /\ mailed' = LabelOf(result)
    /\ NextSync
    /\ UNCHANGED <<githubVars, checks, seen, readVars, result, tasks, moves, faults>>

(***************************************************************************)
(* The specification.                                                      *)
(***************************************************************************)
\* A task or any other step raises, or the process restarts.
Fault ==
    /\ pc # "idle"
    /\ faults < MaxFaults /\ faults' = faults + 1
    /\ \E lost \in {{}, tasks} \cup {{k} : k \in tasks} : tasks' = tasks \ lost
    /\ pc' = "idle" /\ syncs' = 0 /\ seen' = {}
    /\ listing' = NoListing /\ statuses' = NoStatuses /\ jobsSeen' = NoJobs
    /\ UNCHANGED <<githubVars, checks, mailed, result, moves>>

Daemon ==
    \/ StartCycle \/ CommentSeriesPr \/ Push
    \/ ReportConflict \/ ListRuns \/ (\E r \in Runs : ReadRun(r)) \/ SubmitReport
    \/ Gathered \/ EvaluateCiResult \/ AddLabel \/ SendEmail

Next == Daemon \/ (\E b \in 0..MaxFaults : TaskStep(b)) \/ Fault \/ Environment

Spec == Init /\ [][Next]_vars

\* The daemon goes on and requests end, by answer or timeout; CI need not.
FairSpec ==
    /\ Spec
    /\ WF_vars(Daemon)
    /\ \A b \in 0..MaxFaults : WF_vars(TaskStep(b))

(***************************************************************************)
(* Safety.                                                                 *)
(***************************************************************************)
\* "existing state ... can't be changed to pending state" (the log message of
\* post_check_for_patch_id): a conclusive check never goes back to pending,
\* though reading it and posting are two requests and CI, re-runs and
\* force-pushes make jobs pending again.
ConclusiveStays ==
    [][\A key \in Patches \X Contexts :
          checks[key].state \in {"success", "fail"} => checks'[key].state # "pending"]_vars

\* "Either this is the first run we had for this patch version (no label was
\* there) or we switched states" (evaluate_ci_result): no email repeats the
\* result the submitter was told last.
EmailIsNews == pc = "mail" => mailed # LabelOf(result)

(***************************************************************************)
(* Liveness, once CI, upstream and failures are done.                      *)
(***************************************************************************)
StatusNow(runs) ==
    ProcessStatuses({RunStatus(RunConclusion(r), r, ci) : r \in Listed \cap runs})

StateAt(p, unit) == checks[<<p, Context(unit)>>].state

\* Every patch ends up with a check that tells how the job ended, one that
\* tells how the pull request did, unless that is pending, and a failed one
\* while the series conflicts.  Orphaned tasks and lost ones are made up for.
ChecksConverge ==
    <>[](\A p \in Patches :
            IF upstream = "conflict" THEN StateAt(p, "conflict") = "fail"
            ELSE /\ LET status == StatusNow(Runs) IN
                    status # "pending" => StateAt(p, "summary") = PwCheckState(status)
                 /\ \A j \in Jobs :
                       LET status == GhConclusionToStatus(ci[j]) IN
                       ci[j] # "absent" /\ status # "pending" =>
                           StateAt(p, j) = PwCheckState(status))

\* "In order to keep PW contexts somewhat deterministic" (sync_checks): when CI
\* is over the same checks are reported cycle after cycle, so none changes.
ReportsSettle == <>[][checks' = checks]_vars

ResultNow == IF upstream = "conflict" THEN "conflict" ELSE StatusNow(MailRuns)
IsResult == ResultNow \notin {"pending", "skipped"}

\* "we eventually converge on having only one pass/fail label for each version,
\* come whatever" (evaluate_ci_result): that of the present result.
LabelsConverge == <>[](IsResult => labels \cap CiLabels = {LabelOf(ResultNow)})

\* "Either way, send an email notifying the submitter" (evaluate_ci_result):
\* the result CI ends with is the last one the submitter was told.
SubmitterIsTold == <>[](IsResult => mailed = LabelOf(ResultNow))
=============================================================================
