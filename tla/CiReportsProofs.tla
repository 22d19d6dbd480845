--------------------------- MODULE CiReportsProofs ---------------------------
(***************************************************************************)
(* Proofs about CiReports: types; that a conclusive check never goes back  *)
(* to pending when no task is left behind and jobs have names of their     *)
(* own; that no email repeats the last one when no subject is listed twice *)
(* and no step raises.                                                     *)
(***************************************************************************)
EXTENDS CiReports, TLAPS

(***************************************************************************)
(* What the operators return.                                              *)
(***************************************************************************)
\* Statuses stay among the members of Status, whatever GitHub says.
LEMMA StatusOfConclusion ==
    ASSUME NEW c
    PROVE  GhConclusionToStatus(c) \in Statuses
  BY DEF GhConclusionToStatus, Statuses

\* What sync_checks makes of a run is a status.
LEMMA StatusOfRun ==
    ASSUME NEW c, NEW r, NEW jobs
    PROVE  RunStatus(c, r, jobs) \in Statuses
  BY StatusOfConclusion DEF RunStatus, Statuses

\* process_statuses returns a status.
LEMMA StatusOfAll ==
    ASSUME NEW all
    PROVE  ProcessStatuses(all) \in Statuses
  BY DEF ProcessStatuses, Statuses

\* A listed run has one of the conclusions GitHub knows.
LEMMA ConclusionOfRun ==
    ASSUME NEW r
    PROVE  RunConclusion(r) \in RunConclusions
  BY DEF RunConclusion, RunConclusions

\* Every status has a check state, and the pending one is only that of pending.
LEMMA CheckStates ==
    ASSUME NEW s \in Statuses
    PROVE  /\ PwCheckState(s) \in {"pending", "success", "fail"}
           /\ PwCheckState(s) = "pending" => s = "pending"
  BY DEF PwCheckState, Statuses

\* Every check is posted under one of the contexts.
LEMMA ContextsOfUnits ==
    ASSUME NEW u \in Units
    PROVE  Context(u) \in Contexts
  BY DEF Context, Contexts, Units

\* set_check creates well-typed tasks.
LEMMA TypesOfTasks ==
    ASSUME NEW u \in Units, NEW s \in Statuses, faults \in 0..MaxFaults
    PROVE  Tasks(u, s) \subseteq Task
  BY DEF Tasks, Task

\* A result is told by one of the two CI labels.
LEMMA LabelsOfStatuses ==
    ASSUME NEW s
    PROVE  LabelOf(s) \in CiLabels
  BY DEF LabelOf, CiLabels

(***************************************************************************)
(* Type correctness.                                                       *)
(***************************************************************************)
Pcs == {"idle", "comment", "push", "sync", "runs", "report", "evaluate",
        "label", "mail"}

\* While the daemon works on a subject, it is still on the list.
InCycle == pc # "idle" => syncs \in 1..MaxSyncs

TInv == TypeOK /\ InCycle

\* Going on to the next subject never reads past the end of the list.
LEMMA NextSyncKeeps ==
    ASSUME TInv, pc # "idle", NextSync
    PROVE  /\ pc' \in Pcs /\ syncs' \in 0..MaxSyncs
           /\ pc' # "idle" => syncs' \in 1..MaxSyncs
  <1>1. syncs \in 1..MaxSyncs /\ MaxSyncs \in Nat
    BY CiReportsAssumption DEF TInv, InCycle
  <1> QED
    BY <1>1 DEF NextSync, Pcs

\* The initial state is well typed.
LEMMA InitTypes == Init => TInv
  BY CiReportsAssumption
  DEF Init, TInv, TypeOK, InCycle, NoJobs, NoListing, NoStatuses, JobStates,
      Statuses, Labels, Check, NoCheck

\* GitHub Actions and upstream keep the types.
LEMMA EnvironmentTypes ==
    ASSUME TInv, Environment
    PROVE  TInv'
  <1>1. ci' \in [Jobs -> JobStates] /\ upstream' \in {"same", "moved", "conflict"}
        /\ labels' \subseteq Labels /\ moves' \in 0..MaxMoves
    <2>1. CASE \E r \in Runs : StartRun(r)
      BY <2>1, CiReportsAssumption
      DEF TInv, TypeOK, StartRun, SpendMove, JobStates
    <2>2. CASE \E j \in Jobs : EndJob(j)
      BY <2>2, CiReportsAssumption
      DEF TInv, TypeOK, EndJob, JobStates
    <2>3. CASE MoveUpstream
      BY <2>3, CiReportsAssumption DEF TInv, TypeOK, MoveUpstream, SpendMove
    <2> QED
      BY <2>1, <2>2, <2>3 DEF Environment
  <1> QED
    BY <1>1 DEF TInv, TypeOK, InCycle, Environment, readVars

\* A task's read or post keeps the types.
LEMMA TaskTypes ==
    ASSUME TInv, NEW b \in 0..MaxFaults, TaskStep(b)
    PROVE  TInv'
  <1>1. PICK k \in tasks : GetCheck(k) \/ PostCheck(k)
    BY DEF TaskStep
  <1>2. k \in Task /\ tasks \subseteq Task
    BY DEF TInv, TypeOK
  <1>3. [k EXCEPT !.step = "post"] \in Task
    BY <1>2 DEF Task
  <1>4. tasks' \subseteq Task
    BY <1>1, <1>2, <1>3 DEF GetCheck, PostCheck
  <1>5. [state |-> PwCheckState(k.status), url |-> k.unit] \in Check
    BY <1>2, CheckStates DEF Task, Check
  <1>6. checks' \in [Patches \X Contexts -> Check]
    BY <1>1, <1>5 DEF GetCheck, PostCheck, TInv, TypeOK
  <1> QED
    BY <1>4, <1>6 DEF TInv, TypeOK, InCycle, TaskStep, githubVars, readVars

\* An exception or restart keeps the types.
LEMMA FaultTypes ==
    ASSUME TInv, Fault
    PROVE  TInv'
  <1>1. faults' \in 0..MaxFaults
    BY CiReportsAssumption DEF Fault, TInv, TypeOK
  <1>2. tasks' \subseteq Task
    BY DEF Fault, TInv, TypeOK
  <1> QED
    BY <1>1, <1>2, CiReportsAssumption
    DEF TInv, TypeOK, InCycle, Fault, githubVars, NoJobs, NoListing,
        NoStatuses, JobStates, Statuses

\* Every step of the daemon keeps the types, action by action.
LEMMA DaemonTypes ==
    ASSUME TInv, Daemon
    PROVE  TInv'
  <1>1. CASE StartCycle
    BY <1>1, CiReportsAssumption
    DEF TInv, TypeOK, InCycle, StartCycle, githubVars, readVars
  <1>2. CASE CommentSeriesPr
    BY <1>2 DEF TInv, TypeOK, InCycle, CommentSeriesPr, readVars, Labels, CiLabels
  <1>3. CASE Push
    BY <1>3 DEF TInv, TypeOK, InCycle, Push, readVars, NoJobs, JobStates
  <1>4. CASE ReportConflict
    <2>1. tasks' \subseteq Task
      BY <1>4, TypesOfTasks DEF ReportConflict, TInv, TypeOK, Units, Statuses
    <2> QED
      BY <1>4, <2>1 DEF TInv, TypeOK, InCycle, ReportConflict, githubVars,
         readVars, Statuses
  <1>5. CASE ListRuns
    <2>1. listing' \in [Runs -> RunConclusions \cup {"absent", "read"}]
      BY <1>5, ConclusionOfRun DEF ListRuns
    <2> QED
      BY <1>5, <2>1 DEF TInv, TypeOK, InCycle, ListRuns, githubVars
  <1>6. CASE \E r \in Runs : ReadRun(r)
    <2>1. PICK r \in Runs : ReadRun(r)
      BY <1>6
    <2>2. statuses' \in [Runs -> Statuses]
      BY <2>1, StatusOfRun DEF ReadRun, TInv, TypeOK
    <2>3. jobsSeen' \in [Jobs -> JobStates]
      BY <2>1 DEF ReadRun, TInv, TypeOK
    <2>4. listing' \in [Runs -> RunConclusions \cup {"absent", "read"}]
      BY <2>1 DEF ReadRun, TInv, TypeOK
    <2> QED
      BY <2>1, <2>2, <2>3, <2>4 DEF TInv, TypeOK, InCycle, ReadRun, githubVars
  <1>7. CASE SubmitReport
    <2>1. tasks' \subseteq Task
      <3>1. Tasks("summary", ProcessStatuses({statuses[r] : r \in
               {r \in Runs : listing[r] = "read"}})) \subseteq Task
        BY TypesOfTasks, StatusOfAll DEF TInv, TypeOK, Units
      <3>2. \A j \in Jobs :
               Tasks(j, GhConclusionToStatus(jobsSeen[j])) \subseteq Task
        BY TypesOfTasks, StatusOfConclusion DEF TInv, TypeOK, Units
      <3> QED
        BY <1>7, <3>1, <3>2 DEF SubmitReport, TInv, TypeOK
    <2>2. result' \in Statuses
      BY <1>7, StatusOfAll DEF SubmitReport
    <2> QED
      BY <1>7, <2>1, <2>2 DEF TInv, TypeOK, InCycle, SubmitReport, githubVars,
         NoListing, NoStatuses, NoJobs, Statuses, JobStates
  <1>8. CASE Gathered
    BY <1>8 DEF TInv, TypeOK, InCycle, Gathered, githubVars, readVars
  <1>9. CASE EvaluateCiResult
    <2>1. CASE result \in {"pending", "skipped"}
      <3>1. NextSync /\ UNCHANGED <<labels, seen>> /\ pc # "idle"
        BY <1>9, <2>1 DEF EvaluateCiResult
      <3> QED
        BY <1>9, <3>1, NextSyncKeeps
        DEF TInv, TypeOK, InCycle, EvaluateCiResult, readVars, Pcs
    <2>2. CASE result \notin {"pending", "skipped"}
      <3>1. labels' \subseteq Labels /\ seen' \subseteq Labels
        BY <1>9, <2>2 DEF EvaluateCiResult, TInv, TypeOK
      <3>2. \/ pc' = "label" /\ UNCHANGED syncs
            \/ NextSync
        BY <1>9, <2>2 DEF EvaluateCiResult
      <3>3. pc # "idle"
        BY <1>9 DEF EvaluateCiResult
      <3> QED
        BY <1>9, <3>1, <3>2, <3>3, NextSyncKeeps
        DEF TInv, TypeOK, InCycle, EvaluateCiResult, readVars, Pcs
    <2> QED
      BY <2>1, <2>2
  <1>10. CASE AddLabel
    BY <1>10, LabelsOfStatuses
    DEF TInv, TypeOK, InCycle, AddLabel, readVars, Labels
  <1>11. CASE SendEmail
    <2>1. pc # "idle" /\ NextSync
      BY <1>11 DEF SendEmail
    <2> QED
      BY <1>11, <2>1, NextSyncKeeps, LabelsOfStatuses
      DEF TInv, TypeOK, InCycle, SendEmail, githubVars, readVars, Pcs
  <1> QED
    BY <1>1, <1>2, <1>3, <1>4, <1>5, <1>6, <1>7, <1>8, <1>9, <1>10, <1>11
    DEF Daemon

\* A step that changes nothing keeps the types.
LEMMA StutterTypes ==
    ASSUME TInv, UNCHANGED vars
    PROVE  TInv'
  BY DEF TInv, TypeOK, InCycle, vars, githubVars, readVars

\* The type invariant is inductive.
LEMMA TypesKept == TInv /\ [Next]_vars => TInv'
  BY EnvironmentTypes, TaskTypes, FaultTypes, DaemonTypes, StutterTypes DEF Next

\* Types, and a list that is not empty while a subject is worked on.
LEMMA TypeInvariant == Spec => []TInv
  BY InitTypes, TypesKept, PTL DEF Spec

\* Every variable of the reporting keeps its type for any patches, runs, jobs
\* and bounds; in particular the list of subjects is never read past its end.
THEOREM TypeCorrect == Spec => []TypeOK
  BY TypeInvariant, PTL DEF TInv

(***************************************************************************)
(* A conclusive check stays conclusive, if jobs have names of their own    *)
(* and no task outlives its report.  Inductive: there are tasks only while *)
(* the report is awaited, no two of them write one check, and one about to *)
(* post pending still sees what it read.                                   *)
(***************************************************************************)
OwnContexts == \A u, v \in Units : Context(u) = Context(v) => u = v

TaskPerCheck ==
    \A k, m \in tasks : k.patch = m.patch /\ k.unit = m.unit => k = m

PendingAwaited ==
    \A k \in tasks :
        k.step = "post" /\ k.status = "pending" =>
            checks[<<k.patch, Context(k.unit)>>].state \in {"none", "pending"}

PInv == (pc # "report" => tasks = {}) /\ TaskPerCheck /\ PendingAwaited

\* The tasks of one report: one per patch and unit, all about to read.
LEMMA ReportTasks ==
    ASSUME NEW U \in SUBSET Units, NEW S,
           tasks' = UNION {Tasks(u, S[u]) : u \in U}
    PROVE  /\ \A k, m \in tasks' : k.patch = m.patch /\ k.unit = m.unit => k = m
           /\ \A k \in tasks' : k.step = "get"
  <1>1. ASSUME NEW k \in tasks'
        PROVE  k = [patch |-> k.patch, unit |-> k.unit, status |-> S[k.unit],
                    step |-> "get", batch |-> faults]
    BY DEF Tasks
  <1> QED
    BY <1>1

\* One task's read or post, next to the other tasks of its report.
LEMMA TaskStepKeeps ==
    ASSUME TInv, PInv, OwnContexts, MaxFaults = 0, TaskStep(0)
    PROVE  /\ PInv'
           /\ \A key \in Patches \X Contexts :
                 checks[key].state \in {"success", "fail"} =>
                     checks'[key].state # "pending"
  <1>1. PICK k \in tasks : GetCheck(k) \/ PostCheck(k)
    BY DEF TaskStep
  <1>2. tasks \subseteq Task /\ checks \in [Patches \X Contexts -> Check]
    BY DEF TInv, TypeOK
  <1>3. pc = "report" /\ pc' = pc
    BY <1>1 DEF PInv, TaskStep
  <1>4. <<k.patch, Context(k.unit)>> \in Patches \X Contexts
    BY <1>2, ContextsOfUnits DEF Task
  <1>5. CASE GetCheck(k)
    <2> DEFINE asked == [k EXCEPT !.step = "post"]
    <2>1. checks' = checks /\ tasks' \subseteq (tasks \ {k}) \cup {asked}
      BY <1>5 DEF GetCheck
    <2>2. asked \in Task /\ asked.patch = k.patch /\ asked.unit = k.unit
          /\ asked.status = k.status
      BY <1>2 DEF Task
    <2>3. TaskPerCheck'
      <3> SUFFICES ASSUME NEW m \in tasks', NEW n \in tasks',
                          m.patch = n.patch, m.unit = n.unit
                   PROVE  m = n
        BY DEF TaskPerCheck
      <3> HIDE DEF asked
      <3>1. m \in tasks \ {k} \/ m = asked
        BY <2>1
      <3>2. n \in tasks \ {k} \/ n = asked
        BY <2>1
      <3>3. \A l \in tasks : l.patch = k.patch /\ l.unit = k.unit => l = k
        BY <1>1 DEF PInv, TaskPerCheck
      <3>4. CASE m \in tasks \ {k} /\ n \in tasks \ {k}
        BY <3>4 DEF PInv, TaskPerCheck
      <3> QED
        BY <3>1, <3>2, <3>3, <3>4, <2>2
    <2>4. asked \in tasks' /\ k.status = "pending" =>
             checks[<<k.patch, Context(k.unit)>>].state \in {"none", "pending"}
      <3>1. asked # k
        BY <1>5, <1>2 DEF GetCheck, Task
      <3>2. ASSUME asked \in tasks', asked \in tasks
            PROVE  FALSE
        BY <3>1, <3>2, <2>2, <1>1 DEF PInv, TaskPerCheck
      <3>3. asked \in tasks' => ~LeavesCheck(k, checks[<<k.patch, Context(k.unit)>>])
        BY <1>5, <3>2 DEF GetCheck
      <3> QED
        BY <3>3 DEF LeavesCheck
    <2>5. PendingAwaited'
      <3> SUFFICES ASSUME NEW m \in tasks', m.step = "post", m.status = "pending"
                   PROVE  checks'[<<m.patch, Context(m.unit)>>].state
                              \in {"none", "pending"}
        BY DEF PendingAwaited
      <3>1. CASE m \in tasks
        BY <3>1, <2>1 DEF PInv, PendingAwaited
      <3>2. CASE m = asked
        BY <3>2, <2>1, <2>2, <2>4
      <3> QED
        BY <3>1, <3>2, <2>1
    <2>6. \A key \in Patches \X Contexts :
             checks[key].state \in {"success", "fail"} => checks'[key].state # "pending"
      BY <2>1
    <2> QED
      BY <2>3, <2>5, <2>6, <1>3 DEF PInv
  <1>6. CASE PostCheck(k)
    <2> DEFINE at == <<k.patch, Context(k.unit)>>
               new == [state |-> PwCheckState(k.status), url |-> k.unit]
    <2>1. checks' = [checks EXCEPT ![at] = new] /\ tasks' = tasks \ {k}
          /\ k.step = "post"
      BY <1>6 DEF PostCheck
    <2>2. k \in Task /\ at \in Patches \X Contexts /\ at \in DOMAIN checks
      BY <1>1, <1>2, <1>4
    <2>3. TaskPerCheck'
      BY <2>1 DEF TaskPerCheck, PInv
    <2>4. PendingAwaited'
      <3> SUFFICES ASSUME NEW m \in tasks', m.step = "post", m.status = "pending"
                   PROVE  checks'[<<m.patch, Context(m.unit)>>].state
                              \in {"none", "pending"}
        BY DEF PendingAwaited
      <3>1. m \in tasks /\ m # k /\ m \in Task
        BY <2>1, <1>2
      <3>2. ~(m.patch = k.patch /\ m.unit = k.unit)
        BY <3>1, <1>1 DEF PInv, TaskPerCheck
      <3>3. m.unit \in Units /\ k.unit \in Units
        BY <3>1, <2>2 DEF Task
      <3>4. <<m.patch, Context(m.unit)>> # at
        BY <3>2, <3>3 DEF OwnContexts
      <3>5. <<m.patch, Context(m.unit)>> \in Patches \X Contexts
        BY <3>1, ContextsOfUnits DEF Task
      <3>6. checks'[<<m.patch, Context(m.unit)>>] = checks[<<m.patch, Context(m.unit)>>]
        BY <3>4, <3>5, <2>1, <1>2
      <3> QED
        BY <3>1, <3>6 DEF PInv, PendingAwaited
    <2>5. ASSUME NEW key \in Patches \X Contexts,
                 checks[key].state \in {"success", "fail"}
          PROVE  checks'[key].state # "pending"
      <3>1. CASE key # at
        <4>1. checks'[key] = checks[key]
          BY <3>1, <2>1, <1>2
        <4> QED
          BY <4>1, <2>5
      <3>2. CASE key = at
        <4>1. checks'[key].state = PwCheckState(k.status)
          BY <3>2, <2>1, <2>2
        <4>2. k.status \in Statuses
          BY <2>2 DEF Task
        <4>3. k.status # "pending"
          BY <3>2, <2>1, <2>5, <1>1 DEF PInv, PendingAwaited
        <4> QED
          BY <4>1, <4>2, <4>3, CheckStates
      <3> QED
        BY <3>1, <3>2
    <2> QED
      BY <2>3, <2>4, <2>5, <1>3 DEF PInv
  <1> QED
    BY <1>1, <1>5, <1>6

\* The invariant about tasks is inductive, and implies the action property.
LEMMA PInvKept ==
    ASSUME TInv, PInv, OwnContexts, MaxFaults = 0, [Next]_vars
    PROVE  /\ PInv'
           /\ \A key \in Patches \X Contexts :
                 checks[key].state \in {"success", "fail"} =>
                     checks'[key].state # "pending"
  <1>1. ASSUME UNCHANGED <<checks, tasks>>, pc' # "report" => pc # "report" \/ tasks = {}
        PROVE  PInv'
    BY <1>1 DEF PInv, TaskPerCheck, PendingAwaited
  <1>2. ASSUME NEW U \in SUBSET Units, NEW S, pc' = "report",
               tasks' = UNION {Tasks(u, S[u]) : u \in U}
        PROVE  PInv'
    <2>1. /\ \A k, m \in tasks' : k.patch = m.patch /\ k.unit = m.unit => k = m
          /\ \A k \in tasks' : k.step = "get"
      BY <1>2, ReportTasks
    <2>2. TaskPerCheck'
      BY <2>1 DEF TaskPerCheck
    <2>3. PendingAwaited'
      BY <2>1 DEF PendingAwaited
    <2> QED
      BY <1>2, <2>2, <2>3 DEF PInv
  <1>3. CASE Daemon
    <2>1. checks' = checks
      BY <1>3 DEF Daemon, StartCycle, CommentSeriesPr, Push, ReportConflict,
         ListRuns, ReadRun, SubmitReport, Gathered, EvaluateCiResult, AddLabel,
         SendEmail
    <2>2. CASE ReportConflict
      <3> DEFINE S == [u \in Units |-> "conflict"]
      <3>1. tasks' = Tasks("conflict", "conflict")
        BY <2>2 DEF ReportConflict, PInv
      <3>2. S["conflict"] = "conflict" /\ {"conflict"} \in SUBSET Units
        BY DEF Units
      <3>3. tasks' = UNION {Tasks(u, S[u]) : u \in {"conflict"}}
        BY <3>1, <3>2
      <3> HIDE DEF S
      <3> QED
        BY <3>2, <3>3, <2>1, <2>2, <1>2 DEF ReportConflict
    <2>3. CASE SubmitReport
      <3> DEFINE read == {r \in Runs : listing[r] = "read"}
                 jobs == {j \in Jobs : jobsSeen[j] # "absent"}
                 summary == ProcessStatuses({statuses[r] : r \in read})
                 S == [u \in Units |-> IF u = "summary" THEN summary
                                      ELSE GhConclusionToStatus(jobsSeen[u])]
      <3>1. tasks' = Tasks("summary", summary) \cup
                         UNION {Tasks(j, GhConclusionToStatus(jobsSeen[j])) : j \in jobs}
        BY <2>3 DEF SubmitReport, PInv
      <3>2. /\ \A j \in jobs : S[j] = GhConclusionToStatus(jobsSeen[j])
            /\ S["summary"] = summary
        BY CiReportsAssumption DEF Units
      <3> HIDE DEF S, summary, jobs
      <3>3. tasks' = UNION {Tasks(u, S[u]) : u \in jobs \cup {"summary"}}
        BY <3>1, <3>2
      <3>4. jobs \cup {"summary"} \in SUBSET Units
        BY DEF Units, jobs
      <3>5. pc' = "report"
        BY <2>3 DEF SubmitReport
      <3>6. PInv'
        BY <3>3, <3>4, <3>5, <1>2
      <3> QED
        BY <3>6, <2>1
    <2>4. CASE Gathered
      <3>1. \A k \in tasks : k.batch = faults
        BY DEF TInv, TypeOK, Task
      <3>2. tasks = {}
        BY <2>4, <3>1 DEF Gathered
      <3> QED
        BY <3>2, <2>1, <2>4, <1>1 DEF Gathered
    <2>5. CASE ~(ReportConflict \/ SubmitReport \/ Gathered)
      <3>1. UNCHANGED tasks /\ pc # "report"
        BY <1>3, <2>5 DEF Daemon, StartCycle, CommentSeriesPr, Push, ListRuns,
           ReadRun, EvaluateCiResult, AddLabel, SendEmail
      <3> QED
        BY <3>1, <2>1, <1>1
    <2>6. PInv'
      BY <2>2, <2>3, <2>4, <2>5
    <2> QED
      BY <2>1, <2>6
  <1>4. CASE \E b \in 0..MaxFaults : TaskStep(b)
    <2>1. TaskStep(0)
      BY <1>4
    <2> QED
      BY <2>1, TaskStepKeeps
  <1>5. CASE Fault
    BY <1>5 DEF Fault, TInv, TypeOK
  <1>6. CASE Environment \/ UNCHANGED vars
    <2>1. UNCHANGED <<checks, tasks, pc>>
      BY <1>6 DEF Environment, vars
    <2> QED
      BY <2>1, <1>1 DEF PInv
  <1> QED
    BY <1>3, <1>4, <1>5, <1>6 DEF Next

\* "existing state can't be changed to pending state"
\* (post_check_for_patch_id): true for any number of patches, runs and jobs, if
\* no two checks share a context and no call fails.
THEOREM ConclusiveChecksStay ==
    ASSUME OwnContexts, MaxFaults = 0
    PROVE  Spec => ConclusiveStays
  <1>1. Init => PInv
    BY DEF Init, PInv, TaskPerCheck, PendingAwaited
  <1>2. TInv /\ PInv /\ [Next]_vars => PInv'
    BY PInvKept
  <1>3. TInv /\ PInv /\ [Next]_vars =>
           [\A key \in Patches \X Contexts :
               checks[key].state \in {"success", "fail"} =>
                   checks'[key].state # "pending"]_vars
    BY PInvKept
  <1> QED
    BY <1>1, <1>2, <1>3, TypeInvariant, PTL DEF Spec, ConclusiveStays

(***************************************************************************)
(* No email repeats the last one, if a subject is listed once per cycle    *)
(* and no step raises.  Inductive: the CI label on GitHub, and in memory   *)
(* until set_labels wrote it back, is the result last mailed.              *)
(***************************************************************************)
Told(set) == set \cap CiLabels = IF mailed = "none" THEN {} ELSE {mailed}

EInv ==
    /\ pc \notin {"label", "mail"} => Told(labels)
    /\ pc = "comment" => Told(seen)
    /\ pc = "label" => labels \cap CiLabels = {} /\ mailed # LabelOf(result)
    /\ pc = "mail" =>
          labels \cap CiLabels = {LabelOf(result)} /\ mailed # LabelOf(result)

\* The invariant about labels is inductive, one step per action.
LEMMA EInvKept ==
    ASSUME TInv, EInv, MaxSyncs = 1, MaxFaults = 0, [Next]_vars
    PROVE  EInv'
  <1>1. ASSUME NextSync, pc # "idle"
        PROVE  pc' = "idle"
    BY <1>1 DEF NextSync, TInv, InCycle
  <1>2. CASE StartCycle
    BY <1>2 DEF StartCycle, EInv, Told, githubVars
  <1>3. CASE CommentSeriesPr
    BY <1>3 DEF CommentSeriesPr, EInv, Told, CiLabels
  <1>4. CASE EvaluateCiResult
    <2>1. Told(labels) /\ pc # "idle"
      BY <1>4 DEF EvaluateCiResult, EInv
    <2>2. CASE result \in {"pending", "skipped"}
      <3>1. pc' = "idle" /\ UNCHANGED <<labels, mailed>>
        BY <1>1, <1>4, <2>1, <2>2 DEF EvaluateCiResult
      <3> QED
        BY <3>1, <2>1 DEF EInv, Told
    <2>3. CASE result \notin {"pending", "skipped"}
      <3> DEFINE new == LabelOf(result)
      <3>1. labels' = labels \ (CiLabels \ {new}) /\ UNCHANGED <<mailed, result>>
        BY <1>4, <2>3 DEF EvaluateCiResult, UnusedLabels
      <3>2. new \in CiLabels /\ "none" \notin CiLabels
        BY LabelsOfStatuses DEF CiLabels
      <3>3. CASE new \notin labels
        <4>1. pc' = "label"
          BY <1>4, <2>3, <3>3 DEF EvaluateCiResult, IsNewLabel
        <4>2. mailed # new
          BY <2>1, <3>3, <3>2 DEF Told
        <4>3. labels' \cap CiLabels = {}
          BY <3>1, <3>3
        <4> QED
          BY <4>1, <4>2, <4>3, <3>1 DEF EInv, LabelOf
      <3>4. CASE new \in labels
        <4>1. pc' = "idle"
          BY <1>1, <1>4, <2>1, <2>3, <3>4 DEF EvaluateCiResult, IsNewLabel
        <4>2. mailed = new /\ mailed # "none"
          BY <2>1, <3>2, <3>4 DEF Told
        <4>3. labels' \cap CiLabels = {new}
          BY <3>1, <3>2, <3>4
        <4> QED
          BY <4>1, <4>2, <4>3, <3>1 DEF EInv, Told
      <3> QED
        BY <3>3, <3>4
    <2> QED
      BY <2>2, <2>3
  <1>5. CASE AddLabel
    BY <1>5, LabelsOfStatuses DEF AddLabel, EInv, LabelOf
  <1>6. CASE SendEmail
    <2>1. pc' = "idle"
      BY <1>1, <1>6 DEF SendEmail
    <2>2. LabelOf(result) # "none"
      BY DEF LabelOf
    <2> QED
      BY <1>6, <2>1, <2>2 DEF SendEmail, EInv, Told, githubVars
  <1>7. CASE \/ Push \/ ReportConflict \/ ListRuns
             \/ (\E r \in Runs : ReadRun(r)) \/ SubmitReport \/ Gathered
    <2>1. /\ pc \notin {"label", "mail"} /\ pc' \notin {"comment", "label", "mail"}
          /\ UNCHANGED <<labels, mailed>>
      BY <1>7 DEF Push, ReportConflict, ListRuns, ReadRun, SubmitReport,
         Gathered, githubVars
    <2> QED
      BY <2>1 DEF EInv, Told
  <1>8. CASE \E b \in 0..MaxFaults : TaskStep(b)
    <2>1. UNCHANGED <<labels, mailed, pc, seen, result>>
      BY <1>8 DEF TaskStep, githubVars
    <2> QED
      BY <2>1 DEF EInv, Told, LabelOf
  <1>9. CASE Environment \/ UNCHANGED vars
    <2>1. UNCHANGED <<labels, mailed, pc, seen, result>>
      BY <1>9 DEF Environment, StartRun, EndJob, MoveUpstream, vars, githubVars
    <2> QED
      BY <2>1 DEF EInv, Told, LabelOf
  <1>10. CASE Fault
    BY <1>10 DEF Fault, TInv, TypeOK
  <1> QED
    BY <1>2, <1>3, <1>4, <1>5, <1>6, <1>7, <1>8, <1>9, <1>10 DEF Next, Daemon

\* "Either this is the first run we had for this patch version (no label was
\* there) or we switched states" (evaluate_ci_result): true of every email, for
\* any runs and jobs, if subjects are listed once and no step raises.
THEOREM EmailsAreNews ==
    ASSUME MaxSyncs = 1, MaxFaults = 0
    PROVE  Spec => []EmailIsNews
  <1>1. Init => EInv
    BY DEF Init, EInv, Told
  <1>2. TInv /\ EInv /\ [Next]_vars => EInv'
    BY EInvKept
  <1>3. EInv => EmailIsNews
    BY DEF EInv, EmailIsNews
  <1> QED
    BY <1>1, <1>2, <1>3, TypeInvariant, PTL DEF Spec
=============================================================================
