---------------------------- MODULE DaemonProofs ----------------------------
(***************************************************************************)
(* Proofs about Daemon, for every number of events, failures and series:   *)
(* types, that a series is applied to the base branch GitHub has, with no  *)
(* `git am' left in progress, and that a stop leaves no clone half removed.*)
(***************************************************************************)
EXTENDS Daemon, TLAPS

(***************************************************************************)
(* The invariant.                                                          *)
(***************************************************************************)
\* From the moment its clone is up to date, a cycle knows the base branch.
KnowsBase ==
    \/ pc \in {"pulls", "upstream", "mirror", "branches", "base", "pushbase",
               "test", "pr", "series", "am"}
    \/ pc \in {"fetch", "remove", "removing", "clone"} /\ at = "ci"

BaseIsKnown == KnowsBase => originBase = base

AmIsClean == pc \in {"pushbase", "am"} => ~am

HeadIsBase == pc = "am" => head = base

\* A clone is half removed only while it is being removed, if nobody killed.
TornInRemoval ==
    ~killed => \A c \in Clones : clone[c] = "torn" => pc = "removing" /\ c = at

IInv ==
    DaemonTypeOK /\ BaseIsKnown /\ AmIsClean /\ HeadIsBase /\ TornInRemoval

-----------------------------------------------------------------------------
(* Types.  Flags are for Zenon, the rest for SMT, so they are kept apart. *)

\* How a thread ends.
LEMMA Ended ==
    ASSUME NEW next, EndThread(next)
    PROVE  cancelled' = FALSE /\ (pc' = "down" \/ pc' = next)
BY Zenon DEF EndThread

LEMMA ContentTyped == ASSUME DataOK PROVE BaseContent \in Content
BY DEF DataOK, BaseContent, Content

LEMMA WorkerFlags == ASSUME FlagsOK, Worker PROVE FlagsOK'
<1> USE DEF FlagsOK, outside, github, disk, tracking, worktree, memory, testPr,
        GoOn, EndThread
<1>1. CASE FetchClone
  BY <1>1, Zenon DEF FetchClone, AmAfterReset, CloneReady, UpToDate
<1>2. CASE FallBack
  BY <1>2, Zenon DEF FallBack
<1>3. CASE FetchRaises
  BY <1>3, Zenon DEF FetchRaises, Raise
<1>4. CASE StartRemove
  BY <1>4, Zenon DEF StartRemove
<1>5. CASE EndRemove
  BY <1>5, Zenon DEF EndRemove
<1>6. CASE CloneFrom
  BY <1>6, Zenon DEF CloneFrom, CloneReady, UpToDate
<1>7. CASE GetPulls
  BY <1>7, Zenon DEF GetPulls, IsPrKnown
<1>8. CASE FetchUpstream
  BY <1>8, Zenon DEF FetchUpstream, AmAfterReset
<1>9. CASE PushMirror
  BY <1>9, Zenon DEF PushMirror
<1>10. CASE ListBranches
  BY <1>10, Zenon DEF ListBranches
<1>11. CASE PrepareBase
  BY <1>11, Zenon DEF PrepareBase, AmAfterReset
<1>12. CASE PushBase
  BY <1>12, Zenon DEF PushBase
<1>13. CASE PushTest
  BY <1>13, Zenon DEF PushTest
<1>14. CASE KeepPr
  BY <1>14, Zenon DEF KeepPr
<1>15. CASE CreatePr
  BY <1>15, Zenon DEF CreatePr
<1>16. CASE CreateRaises
  BY <1>16, Zenon DEF CreateRaises, Raise
<1>17. CASE NextSeries
  BY <1>17, Zenon DEF NextSeries
<1>18. CASE GitAm
  BY <1>18, Zenon DEF GitAm
<1>19. CASE SeriesDone
  BY <1>19, Zenon DEF SeriesDone
<1>20. CASE ListUserPrs
  BY <1>20, Zenon DEF ListUserPrs
<1>21. CASE CheckUserPr
  BY <1>21, Zenon DEF CheckUserPr
<1>22. CASE NoteStale
  BY <1>22, Zenon DEF NoteStale
<1>23. CASE CloseUserPr
  BY <1>23, Zenon DEF CloseUserPr
<1>24. CASE CommitIsGone
  BY <1>24, Zenon DEF CommitIsGone
<1>25. QED
  BY <1>1, <1>2, <1>3, <1>4, <1>5, <1>6, <1>7, <1>8, <1>9, <1>10, <1>11, <1>12,
     <1>13, <1>14, <1>15, <1>16, <1>17, <1>18, <1>19, <1>20, <1>21, <1>22, <1>23,
     <1>24
     DEF Worker

LEMMA WorkerData == ASSUME MirrorAssumption, DataOK, Worker PROVE DataOK'
<1> USE DEF MirrorAssumption, DataOK, outside, github, disk, tracking, worktree,
        memory, testPr, GoOn
<1>1. CASE FetchClone
  BY <1>1, Ended DEF FetchClone, CloneReady, UpToDate, Clones, Versions
<1>2. CASE FallBack
  BY <1>2 DEF FallBack, SpendFault
<1>3. CASE FetchRaises
  BY <1>3, Ended DEF FetchRaises, Raise
<1>4. CASE StartRemove
  BY <1>4 DEF StartRemove, CloneStates
<1>5. CASE EndRemove
  BY <1>5 DEF EndRemove, CloneStates
<1>6. CASE CloneFrom
  BY <1>6, Ended DEF CloneFrom, CloneReady, UpToDate, CloneStates, Clones, Versions
<1>7. CASE GetPulls
  BY <1>7, Ended DEF GetPulls
<1>8. CASE FetchUpstream
  BY <1>8 DEF FetchUpstream
<1>9. CASE PushMirror
  BY <1>9, Ended DEF PushMirror
<1>10. CASE ListBranches
  BY <1>10 DEF ListBranches
<1>11. CASE PrepareBase
  BY <1>11, ContentTyped DEF PrepareBase, AfterBase
<1>12. CASE PushBase
  BY <1>12 DEF PushBase, AfterBase
<1>13. CASE PushTest
  BY <1>13 DEF PushTest
<1>14. CASE KeepPr
  BY <1>14, Ended DEF KeepPr
<1>15. CASE CreatePr
  BY <1>15, Ended DEF CreatePr
<1>16. CASE CreateRaises
  BY <1>16, Ended DEF CreateRaises, Raise
<1>17. CASE NextSeries
  BY <1>17 DEF NextSeries
<1>18. CASE GitAm
  BY <1>18 DEF GitAm
<1>19. CASE SeriesDone
  BY <1>19 DEF SeriesDone
<1>20. CASE ListUserPrs
  <2>1. userPrs' \in {"none", "fresh", "stale"}
    BY <1>20 DEF ListUserPrs
  <2>2. QED
    BY <2>1, <1>20 DEF ListUserPrs
<1>21. CASE CheckUserPr
  BY <1>21, Ended DEF CheckUserPr
<1>22. CASE NoteStale
  BY <1>22 DEF NoteStale
<1>23. CASE CloseUserPr
  BY <1>23, Ended DEF CloseUserPr
<1>24. CASE CommitIsGone
  <2>1. EndThread("sleep") /\ faults' \in 0..MaxFaults
    BY <1>24 DEF CommitIsGone, SpendFault
  <2>2. pc' = "down" \/ pc' = "sleep"
    BY <2>1, Ended
  <2>3. QED
    BY <1>24, <2>1, <2>2 DEF CommitIsGone
<1>25. QED
  BY <1>1, <1>2, <1>3, <1>4, <1>5, <1>6, <1>7, <1>8, <1>9, <1>10, <1>11, <1>12,
     <1>13, <1>14, <1>15, <1>16, <1>17, <1>18, <1>19, <1>20, <1>21, <1>22, <1>23,
     <1>24
     DEF Worker

LEMMA WorkerCancelled ==
    ASSUME CancelledInThread, Worker PROVE CancelledInThread'
<1> USE DEF CancelledInThread, InThread, memory, GoOn
<1>1. CASE FetchClone
  BY <1>1, Ended DEF FetchClone, CloneReady
<1>2. CASE FallBack
  BY <1>2 DEF FallBack
<1>3. CASE FetchRaises
  BY <1>3, Ended DEF FetchRaises, Raise
<1>4. CASE StartRemove
  BY <1>4 DEF StartRemove
<1>5. CASE EndRemove
  BY <1>5 DEF EndRemove
<1>6. CASE CloneFrom
  BY <1>6, Ended DEF CloneFrom, CloneReady
<1>7. CASE GetPulls
  BY <1>7, Ended DEF GetPulls
<1>8. CASE FetchUpstream
  BY <1>8 DEF FetchUpstream
<1>9. CASE PushMirror
  BY <1>9, Ended DEF PushMirror
<1>10. CASE ListBranches
  BY <1>10 DEF ListBranches
<1>11. CASE PrepareBase
  BY <1>11 DEF PrepareBase, AfterBase
<1>12. CASE PushBase
  BY <1>12 DEF PushBase, AfterBase
<1>13. CASE PushTest
  BY <1>13 DEF PushTest
<1>14. CASE KeepPr
  BY <1>14, Ended DEF KeepPr
<1>15. CASE CreatePr
  BY <1>15, Ended DEF CreatePr
<1>16. CASE CreateRaises
  BY <1>16, Ended DEF CreateRaises, Raise
<1>17. CASE NextSeries
  BY <1>17 DEF NextSeries
<1>18. CASE GitAm
  BY <1>18 DEF GitAm
<1>19. CASE SeriesDone
  BY <1>19 DEF SeriesDone
<1>20. CASE ListUserPrs
  BY <1>20 DEF ListUserPrs
<1>21. CASE CheckUserPr
  BY <1>21, Ended DEF CheckUserPr
<1>22. CASE NoteStale
  BY <1>22 DEF NoteStale
<1>23. CASE CloseUserPr
  BY <1>23, Ended DEF CloseUserPr
<1>24. CASE CommitIsGone
  BY <1>24, Ended DEF CommitIsGone
<1>25. QED
  BY <1>1, <1>2, <1>3, <1>4, <1>5, <1>6, <1>7, <1>8, <1>9, <1>10, <1>11, <1>12,
     <1>13, <1>14, <1>15, <1>16, <1>17, <1>18, <1>19, <1>20, <1>21, <1>22, <1>23,
     <1>24
     DEF Worker

LEMMA OutsideTyped ==
    ASSUME MirrorAssumption, TypeOK, Outside PROVE TypeOK'
<1> USE DEF TypeOK
<1>1. FlagsOK'
  BY Zenon DEF Outside, FlagsOK, UpstreamMoves, CiFilesMove, PeopleClosePr,
     PeopleRenamePr, UserPushes, UserPrAges, UserReopens, testPr, disk,
     worktree, memory
<1>2. DataOK'
  <2> USE DEF MirrorAssumption, DataOK, Outside, SpendEvent, Versions, testPr, disk, tracking, worktree, memory
  <2>1. NoBranch \in Content
    BY DEF Content
  <2>2. CASE UpstreamMoves
    BY <2>2 DEF UpstreamMoves
  <2>3. CASE CiFilesMove
    BY <2>3 DEF CiFilesMove
  <2>4. CASE PeopleClosePr
    BY <2>1, <2>4 DEF PeopleClosePr
  <2>5. CASE PeopleRenamePr
    BY <2>5 DEF PeopleRenamePr
  <2>6. CASE UserPushes
    BY <2>6 DEF UserPushes
  <2>7. CASE UserPrAges
    BY <2>7 DEF UserPrAges
  <2>8. CASE UserReopens
    BY <2>8 DEF UserReopens
  <2>9. QED
    BY <2>2, <2>3, <2>4, <2>5, <2>6, <2>7, <2>8
<1>3. CancelledInThread'
  BY DEF CancelledInThread, InThread, Outside, memory
<1>4. QED
  BY <1>1, <1>2, <1>3

LEMMA WorkerTyped ==
    ASSUME MirrorAssumption, TypeOK, Worker PROVE TypeOK'
BY WorkerFlags, WorkerData, WorkerCancelled DEF TypeOK

\* What a call that was cut off did to GitHub has the types it would have had.
LEMMA ArrivedTyped ==
    ASSUME DataOK, Arrived
    PROVE  /\ mirror' \in Versions /\ base' \in Content /\ test' \in Content
           /\ pr' \in {"none", "open", "renamed", "closed"}
           /\ userPr' \in {"none", "fresh", "stale", "closed"}
BY DEF DataOK, Arrived, github, testPr

LEMMA ProcessTyped ==
    ASSUME MirrorAssumption, TypeOK,
           Construct \/ SleepEnds \/ Stop \/ Start \/ ConstructFails \/ SendSignal
    PROVE  TypeOK'
<1> USE DEF TypeOK, outside, github, disk, tracking, worktree, memory, testPr, GoOn
<1>1. CASE Construct
  <2>1. FlagsOK'
    BY <1>1, Zenon DEF Construct, FlagsOK
  <2>2. DataOK'
    BY <1>1 DEF Construct, DataOK, MirrorAssumption, Clones
  <2>3. CancelledInThread'
    BY <1>1 DEF Construct, CancelledInThread, InThread
  <2>4. QED
    BY <2>1, <2>2, <2>3
<1>2. CASE SleepEnds
  <2>1. FlagsOK'
    BY <1>2, Zenon DEF SleepEnds, FlagsOK
  <2>2. DataOK'
    BY <1>2 DEF SleepEnds, DataOK
  <2>3. CancelledInThread'
    BY <1>2 DEF SleepEnds, CancelledInThread, InThread
  <2>4. QED
    BY <2>1, <2>2, <2>3
<1>3. CASE Stop
  <2>1. FlagsOK'
    BY <1>3, Zenon DEF Stop, AfterCancel, FlagsOK
  <2>2. pc' = pc \/ pc' = "down"
    BY <1>3, Zenon DEF Stop, AfterCancel
  <2>3. DataOK'
    BY <1>3, <2>2 DEF Stop, DataOK
  <2>4. CancelledInThread'
    BY <1>3 DEF Stop, AfterCancel, CancelledInThread, InThread
  <2>5. QED
    BY <2>1, <2>3, <2>4
<1>4. CASE Start
  <2>1. FlagsOK'
    BY <1>4, Zenon DEF Start, FlagsOK
  <2>2. DataOK'
    BY <1>4 DEF Start, DataOK
  <2>3. CancelledInThread'
    BY <1>4 DEF Start, CancelledInThread, InThread
  <2>4. QED
    BY <2>1, <2>2, <2>3
<1>5. CASE ConstructFails
  <2>1. FlagsOK'
    BY <1>5, Zenon DEF ConstructFails, FlagsOK
  <2>2. DataOK'
    BY <1>5 DEF ConstructFails, SpendFault, DataOK, MirrorAssumption
  <2>3. CancelledInThread'
    BY <1>5 DEF ConstructFails, CancelledInThread, InThread
  <2>4. QED
    BY <2>1, <2>2, <2>3
<1>6. CASE SendSignal
  <2>1. FlagsOK'
    BY <1>6, Zenon DEF SendSignal, FlagsOK
  <2>2. DataOK'
    BY <1>6 DEF SendSignal, SpendEvent, DataOK, MirrorAssumption, Versions
  <2>3. CancelledInThread'
    BY <1>6 DEF SendSignal, CancelledInThread, InThread
  <2>4. QED
    BY <2>1, <2>2, <2>3
<1>7. QED
  BY <1>1, <1>2, <1>3, <1>4, <1>5, <1>6

LEMMA FailureTyped ==
    ASSUME MirrorAssumption, TypeOK, StepFails \/ Kill PROVE TypeOK'
<1> USE DEF TypeOK, outside, disk, tracking, worktree, memory
<1>1. CASE StepFails
  <2>1. EndThread("sleep")
    BY <1>1 DEF StepFails, Raise
  <2>2. cancelled' = FALSE /\ (pc' = "down" \/ pc' = "sleep")
    BY <2>1, Ended
  <2>3. FlagsOK'
    BY <1>1, <2>2, Zenon DEF StepFails, FlagsOK
  <2>4. DataOK'
    BY <1>1, <2>2, ArrivedTyped DEF StepFails, SpendFault, DataOK, MirrorAssumption
  <2>5. CancelledInThread'
    BY <2>2 DEF CancelledInThread
  <2>6. QED
    BY <2>3, <2>4, <2>5
<1>2. CASE Kill
  <2>1. FlagsOK'
    BY <1>2, Zenon DEF Kill, FlagsOK
  <2>2. DataOK'
    BY <1>2, ArrivedTyped DEF Kill, SpendFault, DataOK, MirrorAssumption, CloneStates
  <2>3. CancelledInThread'
    BY <1>2 DEF Kill, CancelledInThread
  <2>4. QED
    BY <2>1, <2>2, <2>3
<1>3. QED
  BY <1>1, <1>2

LEMMA NextTyped ==
    ASSUME MirrorAssumption, TypeOK, Next PROVE TypeOK'
BY OutsideTyped, WorkerTyped, ProcessTyped, FailureTyped DEF Next, Running

\* The two flags Daemon adds.
LEMMA SignalFlags ==
    ASSUME signal \in BOOLEAN, killed \in BOOLEAN, Next
    PROVE  signal' \in BOOLEAN /\ killed' \in BOOLEAN
<1>1. CASE Running
  BY <1>1, Zenon DEF Running, Construct, SleepEnds
<1>2. CASE Stop
  BY <1>2, Zenon DEF Stop
<1>3. CASE Start
  BY <1>3, Zenon DEF Start
<1>4. CASE ConstructFails
  BY <1>4, Zenon DEF ConstructFails
<1>5. CASE StepFails
  BY <1>5, Zenon DEF StepFails
<1>6. CASE Kill
  BY <1>6, Zenon DEF Kill
<1>7. CASE SendSignal
  BY <1>7, Zenon DEF SendSignal
<1>8. CASE Outside /\ UNCHANGED <<signal, killed>>
  BY <1>8, Zenon
<1>9. QED
  BY <1>1, <1>2, <1>3, <1>4, <1>5, <1>6, <1>7, <1>8 DEF Next

LEMMA InitTyped == ASSUME MirrorAssumption, DaemonInit PROVE DaemonTypeOK
<1> USE DEF DaemonInit, Init
<1>1. NoBranch \in Content
  BY DEF Content
<1>2. DataOK
  BY <1>1 DEF DataOK, MirrorAssumption, Versions, Clones, CloneStates
<1>3. FlagsOK /\ signal \in BOOLEAN /\ killed \in BOOLEAN
  BY Zenon DEF FlagsOK
<1>4. CancelledInThread
  BY DEF CancelledInThread
<1>5. QED
  BY <1>2, <1>3, <1>4 DEF DaemonTypeOK, TypeOK

LEMMA StepTyped ==
    ASSUME MirrorAssumption, DaemonTypeOK, [Next]_allVars
    PROVE  DaemonTypeOK'
<1>1. CASE Next
  BY <1>1, NextTyped, SignalFlags DEF DaemonTypeOK
<1>2. CASE UNCHANGED allVars
  <2> USE <1>2 DEF allVars, vars, outside, github, disk, tracking, worktree, memory,
          testPr, DaemonTypeOK, TypeOK
  <2>1. FlagsOK' /\ signal' \in BOOLEAN /\ killed' \in BOOLEAN
    BY Zenon DEF FlagsOK
  <2>2. DataOK'
    BY DEF DataOK
  <2>3. CancelledInThread'
    BY DEF CancelledInThread, InThread
  <2>4. QED
    BY <2>1, <2>2, <2>3
<1>3. QED
  BY <1>1, <1>2

\* Type correctness, and that a task is marked as cancelled only in a thread.
THEOREM TypeCorrect ==
    ASSUME MirrorAssumption
    PROVE  Spec => []DaemonTypeOK
<1>1. DaemonInit => DaemonTypeOK
  BY InitTyped
<1>2. DaemonTypeOK /\ [Next]_allVars => DaemonTypeOK'
  BY StepTyped
<1>3. QED
  BY <1>1, <1>2, PTL DEF Spec

-----------------------------------------------------------------------------
(* Safety. *)

\* What a series is applied to: base, head and `git am' together.
BaseInv == BaseIsKnown /\ AmIsClean /\ HeadIsBase

LEMMA WorkerKeepsBase ==
    ASSUME TypeOK, BaseInv, Worker PROVE BaseInv'
<1> USE DEF BaseInv, BaseIsKnown, KnowsBase, AmIsClean, HeadIsBase, github, disk,
        tracking, worktree, memory, GoOn, Clones, TypeOK, DataOK
<1>1. CASE FetchClone
  <2>1. at = "repo" \/ at = "ci"
    OBVIOUS
  <2>2. base' = base
    BY <1>1, Zenon DEF FetchClone
  <2>3. CASE at = "repo"
    <3>1. pc' = "fetch" /\ originBase' = base
      BY <1>1, <2>3, Zenon DEF FetchClone, CloneReady, UpToDate
    <3>2. QED
      BY <3>1, <2>2
  <2>4. CASE at = "ci"
    <3>1. EndThread("pulls") /\ originBase' = originBase /\ KnowsBase
      BY <1>1, <2>4 DEF FetchClone, CloneReady, UpToDate
    <3>2. pc' = "down" \/ pc' = "pulls"
      BY <3>1, Ended
    <3>3. QED
      BY <3>1, <3>2, <2>2
  <2>5. QED
    BY <2>1, <2>3, <2>4
<1>2. CASE FallBack
  BY <1>2 DEF FallBack
<1>3. CASE FetchRaises
  <2>1. pc' = "down" \/ pc' = "sleep"
    BY <1>3, Ended DEF FetchRaises, Raise
  <2>2. QED
    BY <1>3, <2>1 DEF FetchRaises
<1>4. CASE StartRemove
  BY <1>4 DEF StartRemove
<1>5. CASE EndRemove
  BY <1>5 DEF EndRemove
<1>6. CASE CloneFrom
  <2>1. at = "repo" \/ at = "ci"
    OBVIOUS
  <2>2. base' = base
    BY <1>6, Zenon DEF CloneFrom
  <2>3. CASE at = "repo"
    <3>1. pc' = "fetch" /\ originBase' = base
      BY <1>6, <2>3, Zenon DEF CloneFrom, CloneReady, UpToDate
    <3>2. QED
      BY <3>1, <2>2
  <2>4. CASE at = "ci"
    <3>1. EndThread("pulls") /\ originBase' = originBase /\ KnowsBase
      BY <1>6, <2>4 DEF CloneFrom, CloneReady, UpToDate
    <3>2. pc' = "down" \/ pc' = "pulls"
      BY <3>1, Ended
    <3>3. QED
      BY <3>1, <3>2, <2>2
  <2>5. QED
    BY <2>1, <2>3, <2>4
<1>7. CASE GetPulls
  <2>1. pc' = "down" \/ pc' = "upstream"
    BY <1>7, Ended DEF GetPulls
  <2>2. QED
    BY <1>7, <2>1 DEF GetPulls
<1>8. CASE FetchUpstream
  BY <1>8 DEF FetchUpstream
<1>9. CASE PushMirror
  <2>1. pc' = "down" \/ pc' = "branches"
    BY <1>9, Ended DEF PushMirror
  <2>2. QED
    BY <1>9, <2>1 DEF PushMirror
<1>10. CASE ListBranches
  BY <1>10 DEF ListBranches
<1>11. CASE PrepareBase
  BY <1>11 DEF PrepareBase, AfterBase, AmAfterReset, IsBaseChanged
<1>12. CASE PushBase
  BY <1>12 DEF PushBase, AfterBase
<1>13. CASE PushTest
  BY <1>13 DEF PushTest
<1>14. CASE KeepPr
  <2>1. pc' = "down" \/ pc' = "series"
    BY <1>14, Ended DEF KeepPr
  <2>2. QED
    BY <1>14, <2>1 DEF KeepPr
<1>15. CASE CreatePr
  <2>1. pc' = "down" \/ pc' = "series"
    BY <1>15, Ended DEF CreatePr
  <2>2. QED
    BY <1>15, <2>1 DEF CreatePr
<1>16. CASE CreateRaises
  <2>1. pc' = "down" \/ pc' = "sleep"
    BY <1>16, Ended DEF CreateRaises, Raise
  <2>2. QED
    BY <1>16, <2>1 DEF CreateRaises
<1>17. CASE NextSeries
  BY <1>17 DEF NextSeries
<1>18. CASE GitAm
  BY <1>18 DEF GitAm
<1>19. CASE SeriesDone
  BY <1>19 DEF SeriesDone
<1>20. CASE ListUserPrs
  BY <1>20 DEF ListUserPrs
<1>21. CASE CheckUserPr
  <2>1. pc' \in {"note", "down", "sleep"}
    BY <1>21, Ended DEF CheckUserPr
  <2>2. QED
    BY <1>21, <2>1 DEF CheckUserPr
<1>22. CASE NoteStale
  BY <1>22 DEF NoteStale
<1>23. CASE CloseUserPr
  <2>1. pc' = "down" \/ pc' = "sleep"
    BY <1>23, Ended DEF CloseUserPr
  <2>2. QED
    BY <1>23, <2>1 DEF CloseUserPr
<1>24. CASE CommitIsGone
  <2>1. pc' = "down" \/ pc' = "sleep"
    BY <1>24, Ended DEF CommitIsGone
  <2>2. QED
    BY <1>24, <2>1 DEF CommitIsGone
<1>25. QED
  BY <1>1, <1>2, <1>3, <1>4, <1>5, <1>6, <1>7, <1>8, <1>9, <1>10, <1>11, <1>12,
     <1>13, <1>14, <1>15, <1>16, <1>17, <1>18, <1>19, <1>20, <1>21, <1>22, <1>23,
     <1>24
     DEF Worker

LEMMA NextKeepsBase ==
    ASSUME TypeOK, BaseInv, Next PROVE BaseInv'
<1> USE DEF BaseInv, BaseIsKnown, KnowsBase, AmIsClean, HeadIsBase, github, disk,
        tracking, worktree, memory
<1>1. CASE Worker
  BY <1>1, WorkerKeepsBase
<1>2. CASE Construct
  BY <1>2 DEF Construct, GoOn
<1>3. CASE SleepEnds
  BY <1>3 DEF SleepEnds, GoOn
<1>4. CASE Stop
  BY <1>4 DEF Stop, AfterCancel
<1>5. CASE Start
  BY <1>5 DEF Start
<1>6. CASE ConstructFails
  BY <1>6 DEF ConstructFails
<1>7. CASE StepFails
  <2>1. pc' = "down" \/ pc' = "sleep"
    BY <1>7, Ended DEF StepFails, Raise
  <2>2. QED
    BY <2>1
<1>8. CASE Kill
  BY <1>8 DEF Kill
<1>9. CASE SendSignal
  BY <1>9 DEF SendSignal
<1>10. CASE Outside
  BY <1>10 DEF Outside
<1>11. QED
  BY <1>1, <1>2, <1>3, <1>4, <1>5, <1>6, <1>7, <1>8, <1>9, <1>10 DEF Next, Running

\* Only a kill can leave a removal half done.
LEMMA WorkerKeepsClones ==
    ASSUME TypeOK, TornInRemoval, Worker, UNCHANGED killed PROVE TornInRemoval'
<1> USE DEF TornInRemoval, disk, memory, GoOn, Clones, TypeOK, DataOK
<1>1. CASE FetchClone
  BY <1>1, Ended DEF FetchClone, CloneReady
<1>2. CASE FallBack
  BY <1>2 DEF FallBack
<1>3. CASE FetchRaises
  BY <1>3, Ended DEF FetchRaises, Raise
<1>4. CASE StartRemove
  BY <1>4 DEF StartRemove
<1>5. CASE EndRemove
  BY <1>5 DEF EndRemove
<1>6. CASE CloneFrom
  BY <1>6, Ended DEF CloneFrom, CloneReady
<1>7. CASE GetPulls
  BY <1>7, Ended DEF GetPulls
<1>8. CASE FetchUpstream
  BY <1>8 DEF FetchUpstream
<1>9. CASE PushMirror
  BY <1>9, Ended DEF PushMirror
<1>10. CASE ListBranches
  BY <1>10 DEF ListBranches
<1>11. CASE PrepareBase
  BY <1>11 DEF PrepareBase, AfterBase
<1>12. CASE PushBase
  BY <1>12 DEF PushBase, AfterBase
<1>13. CASE PushTest
  BY <1>13 DEF PushTest
<1>14. CASE KeepPr
  BY <1>14, Ended DEF KeepPr
<1>15. CASE CreatePr
  BY <1>15, Ended DEF CreatePr
<1>16. CASE CreateRaises
  BY <1>16, Ended DEF CreateRaises, Raise
<1>17. CASE NextSeries
  BY <1>17 DEF NextSeries
<1>18. CASE GitAm
  BY <1>18 DEF GitAm
<1>19. CASE SeriesDone
  BY <1>19 DEF SeriesDone
<1>20. CASE ListUserPrs
  BY <1>20 DEF ListUserPrs
<1>21. CASE CheckUserPr
  BY <1>21, Ended DEF CheckUserPr
<1>22. CASE NoteStale
  BY <1>22 DEF NoteStale
<1>23. CASE CloseUserPr
  BY <1>23, Ended DEF CloseUserPr
<1>24. CASE CommitIsGone
  BY <1>24, Ended DEF CommitIsGone
<1>25. QED
  BY <1>1, <1>2, <1>3, <1>4, <1>5, <1>6, <1>7, <1>8, <1>9, <1>10, <1>11, <1>12,
     <1>13, <1>14, <1>15, <1>16, <1>17, <1>18, <1>19, <1>20, <1>21, <1>22, <1>23,
     <1>24
     DEF Worker

LEMMA NextKeepsClones ==
    ASSUME TypeOK, TornInRemoval, Next PROVE TornInRemoval'
<1> USE DEF TornInRemoval, disk, memory
<1>1. CASE Worker /\ UNCHANGED <<signal, killed>>
  BY <1>1, WorkerKeepsClones
<1>2. CASE Construct
  BY <1>2 DEF Construct
<1>3. CASE SleepEnds
  BY <1>3 DEF SleepEnds
<1>4. CASE Stop
  BY <1>4 DEF Stop, AfterCancel, InThread
<1>5. CASE Start
  BY <1>5 DEF Start
<1>6. CASE ConstructFails
  BY <1>6 DEF ConstructFails
<1>7. CASE StepFails
  BY <1>7 DEF StepFails
<1>8. CASE Kill
  BY <1>8 DEF Kill
<1>9. CASE SendSignal
  BY <1>9 DEF SendSignal
<1>10. CASE Outside /\ UNCHANGED <<signal, killed>>
  BY <1>10 DEF Outside
<1>11. QED
  BY <1>1, <1>2, <1>3, <1>4, <1>5, <1>6, <1>7, <1>8, <1>9, <1>10 DEF Next, Running

LEMMA InitSafe == ASSUME MirrorAssumption, DaemonInit PROVE IInv
<1>1. DaemonTypeOK
  BY InitTyped
<1>2. BaseInv
  BY DEF BaseInv, BaseIsKnown, KnowsBase, AmIsClean, HeadIsBase, DaemonInit, Init
<1>3. TornInRemoval
  BY DEF TornInRemoval, DaemonInit, Init
<1>4. QED
  BY <1>1, <1>2, <1>3 DEF IInv, BaseInv

LEMMA StepSafe ==
    ASSUME MirrorAssumption, IInv, [Next]_allVars PROVE IInv'
<1>1. DaemonTypeOK'
  BY StepTyped DEF IInv
<1>2. CASE Next
  BY <1>1, <1>2, NextKeepsBase, NextKeepsClones DEF IInv, BaseInv, DaemonTypeOK
<1>3. CASE UNCHANGED allVars
  <2> USE <1>3 DEF allVars, vars, github, disk, tracking, worktree, memory, IInv
  <2>1. BaseIsKnown' /\ HeadIsBase'
    BY DEF BaseIsKnown, KnowsBase, HeadIsBase
  <2>2. AmIsClean'
    BY DEF AmIsClean
  <2>3. TornInRemoval'
    BY DEF TornInRemoval
  <2>4. QED
    BY <1>1, <2>1, <2>2, <2>3
<1>4. QED
  BY <1>2, <1>3

LEMMA Invariance == ASSUME MirrorAssumption PROVE Spec => []IInv
<1>1. DaemonInit => IInv
  BY InitSafe
<1>2. IInv /\ [Next]_allVars => IInv'
  BY StepSafe
<1>3. QED
  BY <1>1, <1>2, PTL DEF Spec

\* Whatever state failures, kills and earlier cycles left the clone and GitHub in,
\* a series is applied to the base branch GitHub has, with no other `git am' in
\* progress.
THEOREM SeriesApplyToPublishedBase ==
    ASSUME MirrorAssumption
    PROVE  Spec => []AppliesToPublishedBase
<1>1. IInv => AppliesToPublishedBase
  BY DEF IInv, AmIsClean, HeadIsBase, AppliesToPublishedBase
<1>2. QED
  BY <1>1, Invariance, PTL

\* A process that stops by a signal, and not by a kill, leaves no clone half
\* removed.
THEOREM StoppingSparesClones ==
    ASSUME MirrorAssumption
    PROVE  Spec => []StopSparesClones
<1>1. IInv => StopSparesClones
  BY DEF IInv, TornInRemoval, StopSparesClones
<1>2. QED
  BY <1>1, Invariance, PTL
=============================================================================
