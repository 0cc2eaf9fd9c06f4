------------------------------ MODULE PilotProofs ------------------------------
(***************************************************************************)
(* What a pilot run moves the main branch to, for any number of tasks,     *)
(* faults and commits of the owner.                                        *)
(***************************************************************************)
EXTENDS Pilot, TLAPS

\* Where run_one and run_all are, as opposed to prove_criteria or nowhere.
Running == {"preflight", "insert", "bootstrap", "engine", "ask", "cancel",
            "report", "merge", "remove", "next"}

Report == [task : Nat, phase : TaskPhase \cup {"none"}]

PilotTypes ==
    /\ row \in [Task -> TaskPhase \cup {"none"}]
    /\ task \in Nat
    /\ pc \in Running => task \in Task
    /\ reports \in Seq(Report)

\* A merge is preceded by a report that says ready. The row may say otherwise.
MergeIsReported == pc = "merge" => \E r \in ReadyReports : r.task = task

\* The last report is among them.
LEMMA AppendedIsMember ==
    ASSUME NEW S, NEW s \in Seq(S), NEW e \in S
    PROVE  /\ Append(s, e) \in Seq(S)
           /\ e \in ToSet(Append(s, e))
PROOF
  <1>1. /\ Append(s, e) \in Seq(S)
        /\ Len(s) + 1 \in DOMAIN Append(s, e)
        /\ Append(s, e)[Len(s) + 1] = e
    OBVIOUS
  <1> QED
    BY <1>1 DEF ToSet

\* The variables of a pilot run keep their types, and while it is running it is
\* at one of its tasks.
THEOREM PilotTypesInvariant == Spec => []PilotTypes
PROOF
  <1>1. Init => PilotTypes
    BY CountAssumption DEF Init, PilotTypes, Task, Report, Running
  <1>2. ASSUME PilotTypes, [Next]_vars PROVE PilotTypes'
    <2> USE CountAssumption, <1>2 DEF PilotTypes, Running, Task
    <2>1. ASSUME NEW t \in Task, NEW p \in TaskPhase, Moved(t, p)
          PROVE  row' \in [Task -> TaskPhase \cup {"none"}]
      BY <2>1 DEF Moved
    <2>2. CASE Preflight
      BY <2>2 DEF Preflight, Raise
    <2>3. CASE Insert
      BY <2>3, <2>1 DEF Insert, TaskPhase
    <2>4. CASE Bootstrap
      <3>1. CASE \E n \in 1..4 :
                   /\ row[task] = Bootstrapped[n]
                   /\ Moved(task, Bootstrapped[n + 1])
                   /\ pc' = IF n = 4 THEN "engine" ELSE pc
        <4>1. PICK n \in 1..4 : /\ Moved(task, Bootstrapped[n + 1])
                                /\ pc' = IF n = 4 THEN "engine" ELSE pc
          BY <3>1
        <4>2. Bootstrapped[n + 1] \in TaskPhase
          BY DEF Bootstrapped, TaskPhase
        <4> QED
          BY <2>4, <4>1, <4>2, <2>1 DEF Bootstrap
      <3>2. CASE Raise /\ UNCHANGED row
        BY <2>4, <3>2 DEF Bootstrap, Raise
      <3> QED
        BY <2>4, <3>1, <3>2 DEF Bootstrap
    <2>5. CASE EngineOpens \/ EngineCommits
      BY <2>5 DEF EngineOpens, EngineCommits
    <2>6. CASE EngineReturns
      <3>1. {"CHECKPOINT_READY", "SAFE_HALT", "FAILED"} \subseteq TaskPhase
        BY DEF TaskPhase, READY_PHASES
      <3>2. row' \in [Task -> TaskPhase \cup {"none"}]
        BY <2>6, <3>1, <2>1 DEF EngineReturns
      <3> QED
        BY <2>6, <3>2 DEF EngineReturns
    <2>7. CASE EngineRaises \/ Ask
      BY <2>7 DEF EngineRaises, Raise, Ask
    <2>8. CASE OwnerCancel
      <3>1. "CANCELLED" \in TaskPhase
        BY DEF TaskPhase
      <3> QED
        BY <2>8, <3>1, <2>1 DEF OwnerCancel, Raise
    <2>9. CASE RunOneReturns
      <3>1. [task |-> task, phase |-> row[task]] \in Report
        BY <2>9 DEF RunOneReturns, Report
      <3>2. reports' \in Seq(Report)
        BY <2>9, <3>1, AppendedIsMember DEF RunOneReturns
      <3> QED
        BY <2>9, <3>2 DEF RunOneReturns
    <2>10. CASE Merge \/ RemoveWorktree
      BY <2>10 DEF Merge, RemoveWorktree, Raise
    <2>11. CASE NextTask
      BY <2>11 DEF NextTask
    <2>12. CASE ProveCriteria
      BY <2>12 DEF ProveCriteria, PhaseChainLegal, ChangesWithinAllowed,
         EvidencePolicyChain, FinalPhaseConsistent, BudgetHaltInjected,
         SampleMainUntouched, Found
    <2>13. ASSUME NEW t \in Task, Cancel(t) PROVE PilotTypes'
      <3>1. "CANCELLED" \in TaskPhase
        BY DEF TaskPhase
      <3> QED
        BY <2>13, <3>1, <2>1 DEF Cancel
    <2>14. CASE OwnerCommits \/ OwnerEdits \/ UNCHANGED vars
      BY <2>14 DEF OwnerCommits, OwnerEdits, vars
    <2> QED
      BY <2>2, <2>3, <2>4, <2>5, <2>6, <2>7, <2>8, <2>9, <2>10, <2>11, <2>12,
         <2>13, <2>14 DEF Next, RunOne, RunAll
  <1> QED
    BY <1>1, <1>2, PTL DEF Spec

\* Every step but the report itself leaves the reports alone, and none of them
\* arrives at the merge.
LEMMA OnlyReportsLeadToMerge ==
    ASSUME [Next]_vars, ~ RunOneReturns
    PROVE  /\ reports' = reports
           /\ pc' = "merge" => pc = "merge" /\ task' = task
PROOF
  <1>1. CASE Preflight \/ Insert \/ EngineOpens \/ EngineCommits \/ EngineRaises \/ Ask
    BY <1>1 DEF Preflight, Insert, EngineOpens, EngineCommits, EngineRaises, Ask, Raise
  <1>2. CASE Bootstrap
    BY <1>2 DEF Bootstrap, Raise
  <1>3. CASE EngineReturns \/ OwnerCancel
    BY <1>3 DEF EngineReturns, OwnerCancel, Raise
  <1>4. CASE Merge \/ RemoveWorktree \/ NextTask
    BY <1>4 DEF Merge, RemoveWorktree, NextTask, Raise
  <1>5. CASE ProveCriteria
    BY <1>5 DEF ProveCriteria, PhaseChainLegal, ChangesWithinAllowed,
       EvidencePolicyChain, FinalPhaseConsistent, BudgetHaltInjected,
       SampleMainUntouched, Found
  <1>6. ASSUME NEW t \in Task, Cancel(t)
        PROVE  reports' = reports /\ pc' = pc /\ task' = task
    BY <1>6 DEF Cancel
  <1>7. CASE OwnerCommits \/ OwnerEdits \/ UNCHANGED vars
    BY <1>7 DEF OwnerCommits, OwnerEdits, vars
  <1> QED
    BY <1>1, <1>2, <1>3, <1>4, <1>5, <1>6, <1>7 DEF Next, RunOne, RunAll

LEMMA MergeIsReportedInvariant == Spec => []MergeIsReported
PROOF
  <1>1. Init => MergeIsReported
    BY DEF Init, MergeIsReported
  <1>2. ASSUME PilotTypes, MergeIsReported, [Next]_vars PROVE MergeIsReported'
    <2>1. CASE RunOneReturns
      <3> DEFINE r == [task |-> task, phase |-> row[task]]
      <3>1. r \in Report
        BY <1>2, <2>1 DEF RunOneReturns, PilotTypes, Running, Report
      <3>2. r \in ToSet(reports')
        BY <1>2, <2>1, <3>1, AppendedIsMember DEF RunOneReturns, PilotTypes
      <3>3. pc' = "merge" => row[task] \in READY_PHASES
        BY <2>1 DEF RunOneReturns, AfterReport
      <3> QED
        BY <2>1, <3>2, <3>3 DEF RunOneReturns, MergeIsReported, ReadyReports
    <2>2. CASE ~ RunOneReturns
      BY <1>2, <2>2, OnlyReportsLeadToMerge DEF MergeIsReported, ReadyReports
    <2> QED
      BY <2>1, <2>2
  <1> QED
    BY <1>1, <1>2, PilotTypesInvariant, PTL DEF Spec

\* For any number of tasks and any commits of the owner: the program moves the
\* main branch only to the tip of a branch whose task was reported ready and
\* which has all of main below it.
THEOREM MainStaysTested == Spec => MainIsTested
PROOF
  <1>1. MergeIsReported /\ [Next]_vars
          => [main' # main => OwnerCommits \/ Promotes]_vars
    <2> SUFFICES ASSUME MergeIsReported, [Next]_vars, main' # main, ~ OwnerCommits
                 PROVE  Promotes
      OBVIOUS
    <2>1. CASE Merge
      <3>1. CASE IsPrefix(main, branch[task]) /\ main' = branch[task]
        BY <2>1, <3>1 DEF Merge, MergeIsReported, Promotes
      <3>2. CASE UNCHANGED main
        BY <3>2
      <3> QED
        BY <2>1, <3>1, <3>2 DEF Merge
    <2>2. CASE \/ Preflight \/ Insert \/ Bootstrap \/ EngineOpens \/ EngineCommits
               \/ EngineReturns \/ EngineRaises \/ Ask \/ OwnerCancel
      BY <2>2 DEF Preflight, Insert, Bootstrap, EngineOpens, EngineCommits,
         EngineReturns, EngineRaises, Ask, OwnerCancel, repo
    <2>3. CASE RunOneReturns \/ RemoveWorktree \/ NextTask
      BY <2>3 DEF RunOneReturns, RemoveWorktree, NextTask, repo
    <2>4. CASE ProveCriteria
      BY <2>4 DEF ProveCriteria, PhaseChainLegal, ChangesWithinAllowed,
         EvidencePolicyChain, FinalPhaseConsistent, BudgetHaltInjected,
         SampleMainUntouched, Found, repo
    <2>5. ASSUME NEW t \in Task, Cancel(t) PROVE UNCHANGED main
      BY <2>5 DEF Cancel, repo
    <2>6. CASE OwnerEdits \/ UNCHANGED vars
      BY <2>6 DEF OwnerEdits, vars, repo
    <2> QED
      BY <2>1, <2>2, <2>3, <2>4, <2>5, <2>6 DEF Next, RunOne, RunAll
  <1> QED
    BY <1>1, MergeIsReportedInvariant, PTL DEF Spec, MainIsTested

-------------------------------------------------------------------------------
(* What the criteria tell of the main branch                               *)

\* run_one before its report, and prove_criteria after its first criterion.
Before  == {"preflight", "insert", "bootstrap", "engine", "ask", "cancel", "report"}
Proving == {"changes", "chain", "finals", "budget", "main", "proved"}

Ready == {r.task : r \in ReadyReports}

Branches == main \in Seq(Nat) /\ branch \in [Task -> Seq(Nat)]

\* Each task is reported once, and none before its turn.
InOrder ==
    /\ \A r \in ToSet(reports) : /\ r.task \in Task /\ r.task <= task
                                 /\ pc \in Before => r.task < task
    /\ \A r, q \in ToSet(reports) : r.task = q.task => r = q

\* A task's checkpoint is in main, or in the branch of another task, only if
\* the task was reported ready.
OnlyReported ==
    /\ \A t \in Task : t \in ToSet(main) => t \in Ready
    /\ \A t, b \in Task : t \in ToSet(branch[b]) => t \in Ready \/ t = b

\* A task that is ready, or was reported so, has its checkpoint.
Committed ==
    \A t \in Task : row[t] \in READY_PHASES \/ t \in Ready => t \in ToSet(branch[t])

Merged ==
    pc # "raised" => \A t \in Ready : t \in ToSet(main) \/ (pc = "merge" /\ t = task)

\* A merge that came too late shows: no row becomes ready after its report.
LateIsSeen ==
    /\ \A t \in late : t \in Ready /\ row[t] \notin READY_PHASES
    /\ pc \in Proving => late = {} \/ failed # {}

PilotInv == Branches /\ InOrder /\ OnlyReported /\ Committed /\ Merged /\ LateIsSeen

\* A step that moves no branch, reports nothing and makes no task ready.
Quiet ==
    /\ UNCHANGED <<main, branch, reports, late>>
    /\ failed \subseteq failed'
    /\ \A t \in Task : row'[t] \in READY_PHASES => row[t] \in READY_PHASES
    /\ task' \in {task, task + 1}
    /\ pc' \in Before => pc \in Before \/ task' = task + 1
    /\ pc = "merge" => pc' \in {"merge", "raised"}
    /\ pc' = "merge" => pc = "merge" /\ task' = task
    /\ pc = "raised" => pc' = "raised"
    /\ pc' \in Proving => pc \in Proving

LEMMA Members ==
    ASSUME NEW S, NEW s \in Seq(S)
    PROVE  /\ \A e \in S : Append(s, e) \in Seq(S) /\ ToSet(Append(s, e)) = ToSet(s) \cup {e}
           /\ \A t \in Seq(S) : IsPrefix(s, t) => ToSet(s) \subseteq ToSet(t)
           /\ s # <<>> => Last(s) \in ToSet(s)
PROOF
  <1>1. ASSUME NEW e \in S
        PROVE  Append(s, e) \in Seq(S) /\ ToSet(Append(s, e)) = ToSet(s) \cup {e}
    <2>1. /\ Append(s, e) \in Seq(S)
          /\ DOMAIN Append(s, e) = DOMAIN s \cup {Len(s) + 1}
          /\ \A i \in DOMAIN s : Append(s, e)[i] = s[i]
          /\ Append(s, e)[Len(s) + 1] = e
      OBVIOUS
    <2> QED
      BY <2>1 DEF ToSet
  <1>2. ASSUME NEW t \in Seq(S), IsPrefix(s, t) PROVE ToSet(s) \subseteq ToSet(t)
    <2>1. ASSUME NEW i \in DOMAIN s PROVE i \in DOMAIN t /\ s[i] = t[i]
      <3>1. Len(s) <= Len(t) /\ SubSeq(s, 1, Len(s)) = SubSeq(t, 1, Len(s))
        BY <1>2 DEF IsPrefix
      <3>2. i \in 1..Len(s) /\ i \in 1..Len(t)
        BY <3>1
      <3>3. SubSeq(s, 1, Len(s))[i] = s[i] /\ SubSeq(t, 1, Len(s))[i] = t[i]
        BY <3>1, <3>2
      <3> QED
        BY <3>1, <3>2, <3>3
    <2> QED
      BY <2>1 DEF ToSet
  <1>3. ASSUME s # <<>> PROVE Last(s) \in ToSet(s)
    <2>1. Len(s) \in DOMAIN s
      BY <1>3
    <2> QED
      BY <2>1 DEF Last, ToSet
  <1> QED
    BY <1>1, <1>2, <1>3

LEMMA QuietKeeps == PilotTypes /\ PilotInv /\ Quiet => PilotInv'
PROOF
  <1> SUFFICES ASSUME PilotTypes, PilotInv, Quiet PROVE PilotInv'
    OBVIOUS
  <1>1. Ready' = Ready /\ Branches'
    BY DEF Quiet, Ready, ReadyReports, PilotInv, Branches
  <1>2. Ready \subseteq Task
    BY DEF PilotInv, InOrder, Ready, ReadyReports
  <1>3. InOrder'
    BY DEF Quiet, PilotInv, InOrder, PilotTypes, Task
  <1>4. OnlyReported' /\ Committed'
    BY <1>1 DEF Quiet, PilotInv, OnlyReported, Committed
  <1>5. Merged' /\ LateIsSeen'
    BY <1>1, <1>2 DEF Quiet, PilotInv, Merged, LateIsSeen
  <1> QED
    BY <1>1, <1>3, <1>4, <1>5 DEF PilotInv

LEMMA QuietSteps ==
    ASSUME PilotTypes, [Next]_vars,
           ~ (EngineOpens \/ EngineCommits \/ EngineReturns \/ RunOneReturns
              \/ Merge \/ PhaseChainLegal \/ OwnerCommits)
    PROVE  Quiet
PROOF
  <1> USE DEF Quiet, PilotTypes, Before, Proving, repo
  <1>1. ASSUME NEW t, NEW p \in TaskPhase \ READY_PHASES, Moved(t, p)
        PROVE  \A b \in Task : row'[b] \in READY_PHASES => row[b] \in READY_PHASES
    BY <1>1 DEF Moved
  <1>2. {"CREATED", "CANCELLED"} \subseteq TaskPhase \ READY_PHASES
    BY DEF TaskPhase, READY_PHASES
  <1>3. CASE Preflight \/ EngineRaises \/ Ask
    BY <1>3 DEF Preflight, EngineRaises, Ask, Raise
  <1>4. CASE Insert \/ OwnerCancel
    <2>1. \A b \in Task : row'[b] \in READY_PHASES => row[b] \in READY_PHASES
      BY <1>1, <1>2, <1>4 DEF Insert, OwnerCancel
    <2> QED
      BY <1>4, <2>1 DEF Insert, OwnerCancel, Raise
  <1>5. CASE Bootstrap
    <2>1. \A b \in Task : row'[b] \in READY_PHASES => row[b] \in READY_PHASES
      <3>1. \A n \in 1..4 : Bootstrapped[n + 1] \in TaskPhase \ READY_PHASES
        BY DEF Bootstrapped, TaskPhase, READY_PHASES
      <3> QED
        BY <1>1, <1>5, <3>1 DEF Bootstrap
    <2> QED
      BY <1>5, <2>1 DEF Bootstrap, Raise
  <1>6. CASE RemoveWorktree \/ NextTask
    BY <1>6 DEF RemoveWorktree, NextTask, Raise
  <1>7. CASE ProveCriteria
    BY <1>7 DEF ProveCriteria, ChangesWithinAllowed, EvidencePolicyChain,
       FinalPhaseConsistent, BudgetHaltInjected, SampleMainUntouched, Found
  <1>8. ASSUME NEW t \in Task, Cancel(t) PROVE Quiet
    <2>1. \A b \in Task : row'[b] \in READY_PHASES => row[b] \in READY_PHASES
      BY <1>1, <1>2, <1>8 DEF Cancel
    <2> QED
      BY <1>8, <2>1 DEF Cancel
  <1>9. CASE OwnerEdits \/ UNCHANGED vars
    BY <1>9 DEF OwnerEdits, vars
  <1> QED
    BY <1>3, <1>4, <1>5, <1>6, <1>7, <1>8, <1>9 DEF Next, RunOne, RunAll

\* The engine works on the branch of the task at hand, which is not reported.
LEMMA EngineKeeps ==
    PilotTypes /\ PilotInv /\ (EngineOpens \/ EngineCommits \/ EngineReturns) => PilotInv'
PROOF
  <1> SUFFICES ASSUME PilotTypes, PilotInv, EngineOpens \/ EngineCommits \/ EngineReturns
               PROVE  PilotInv'
    OBVIOUS
  <1>1. /\ task \in Task /\ pc \in Before /\ pc' \in Before
        /\ UNCHANGED <<main, reports, late, failed, task>>
    BY DEF EngineOpens, EngineCommits, EngineReturns, PilotTypes, Running, Before, repo
  <1>2. Ready' = Ready /\ task \notin Ready
    <2>1. \A r \in ToSet(reports) : r.task < task
      BY <1>1 DEF PilotInv, InOrder
    <2> QED
      BY <1>1, <2>1 DEF Ready, ReadyReports, Task
  <1>3. /\ branch' \in [Task -> Seq(Nat)]
        /\ \A t, b \in Task : t \in ToSet(branch'[b]) =>
             t \in ToSet(branch[b]) \/ t \in ToSet(main) \/ t = b
        /\ \A b \in Task : b \in ToSet(branch[b]) => b \in ToSet(branch'[b])
    <2>1. CASE EngineOpens
      <3>1. branch' = [branch EXCEPT ![task] = main] /\ branch[task] = <<>>
        BY <2>1 DEF EngineOpens
      <3>2. ToSet(branch[task]) = {}
        BY <3>1 DEF ToSet
      <3> QED
        BY <1>1, <3>1, <3>2 DEF PilotInv, Branches
    <2>2. CASE EngineCommits
      <3>1. branch' = [branch EXCEPT ![task] = Append(branch[task], task)]
        BY <2>2 DEF EngineCommits
      <3>2. /\ Append(branch[task], task) \in Seq(Nat)
            /\ ToSet(Append(branch[task], task)) = ToSet(branch[task]) \cup {task}
        BY <1>1, Members DEF PilotInv, Branches, Task
      <3> QED
        BY <1>1, <3>1, <3>2 DEF PilotInv, Branches
    <2>3. CASE EngineReturns
      BY <2>3 DEF EngineReturns, repo, PilotInv, Branches
    <2> QED
      BY <2>1, <2>2, <2>3
  <1>4. \A t \in Task : row'[t] \in READY_PHASES =>
          \/ row[t] \in READY_PHASES
          \/ t = task /\ t \in ToSet(branch'[t])
    <2>1. CASE EngineOpens \/ EngineCommits
      BY <2>1 DEF EngineOpens, EngineCommits
    <2>2. CASE EngineReturns
      <3>1. branch' = branch
        BY <2>2 DEF EngineReturns, repo
      <3>2. \/ Moved(task, "CHECKPOINT_READY") /\ branch[task] # <<>> /\ Last(branch[task]) = task
            \/ Moved(task, "SAFE_HALT") \/ Moved(task, "FAILED") \/ UNCHANGED row
        BY <2>2 DEF EngineReturns
      <3>3. branch[task] # <<>> => Last(branch[task]) \in ToSet(branch[task])
        BY <1>1, Members DEF PilotInv, Branches
      <3> QED
        BY <1>1, <3>1, <3>2, <3>3 DEF Moved, PilotTypes, READY_PHASES
    <2> QED
      BY <2>1, <2>2
  <1>5. InOrder'
    BY <1>1 DEF PilotInv, InOrder
  <1>6. OnlyReported'
    BY <1>1, <1>2, <1>3 DEF PilotInv, OnlyReported
  <1>7. Committed'
    BY <1>2, <1>3, <1>4 DEF PilotInv, Committed
  <1>8. Merged' /\ LateIsSeen'
    <2>1. Ready \subseteq Task
      BY DEF PilotInv, InOrder, Ready, ReadyReports
    <2>2. \A t \in late : row'[t] \notin READY_PHASES
      BY <1>2, <1>4, <2>1 DEF PilotInv, LateIsSeen
    <2> QED
      BY <1>1, <1>2, <2>2 DEF PilotInv, Merged, LateIsSeen, Before, Proving
  <1> QED
    BY <1>1, <1>3, <1>5, <1>6, <1>7, <1>8 DEF PilotInv, Branches

LEMMA ReportKeeps == PilotTypes /\ PilotInv /\ RunOneReturns => PilotInv'
PROOF
  <1> SUFFICES ASSUME PilotTypes, PilotInv, RunOneReturns PROVE PilotInv'
    OBVIOUS
  <1> DEFINE r == [task |-> task, phase |-> row[task]]
  <1>1. /\ pc = "report" /\ task \in Task /\ pc' = AfterReport(row[task])
        /\ UNCHANGED <<main, branch, row, task, late, failed>>
    BY DEF RunOneReturns, PilotTypes, Running, repo
  <1>2. ToSet(reports') = ToSet(reports) \cup {r}
    <2>1. r \in Report /\ reports' = Append(reports, r) /\ reports \in Seq(Report)
      BY <1>1 DEF RunOneReturns, PilotTypes, Report
    <2> QED
      BY <2>1, Members
  <1>3. \A q \in ToSet(reports) : q.task \in Task /\ q.task < task
    BY <1>1 DEF PilotInv, InOrder, Before
  <1>4. /\ pc' \in {"merge", "phases", "next"}
        /\ pc' = "merge" <=> row[task] \in READY_PHASES
    BY <1>1 DEF AfterReport, READY_PHASES
  <1>5. Ready' = IF row[task] \in READY_PHASES THEN Ready \cup {task} ELSE Ready
    <2>1. r.task = task /\ r.phase = row[task]
      OBVIOUS
    <2>2. ReadyReports' = IF row[task] \in READY_PHASES THEN ReadyReports \cup {r}
                                                        ELSE ReadyReports
      BY <1>2, <2>1 DEF ReadyReports
    <2> HIDE DEF r
    <2> QED
      BY <2>1, <2>2 DEF Ready
  <1>6. InOrder'
    BY <1>1, <1>2, <1>3, <1>4 DEF InOrder, PilotInv, Before, Task
  <1>7. OnlyReported' /\ Committed'
    BY <1>1, <1>5 DEF PilotInv, OnlyReported, Committed
  <1>8. Merged' /\ LateIsSeen'
    BY <1>1, <1>4, <1>5 DEF PilotInv, Merged, LateIsSeen, Proving
  <1> QED
    BY <1>1, <1>6, <1>7, <1>8 DEF PilotInv, Branches

LEMMA MergeKeeps == PilotTypes /\ PilotInv /\ MergeIsReported /\ Merge => PilotInv'
PROOF
  <1> SUFFICES ASSUME PilotTypes, PilotInv, MergeIsReported, Merge PROVE PilotInv'
    OBVIOUS
  <1>1. /\ pc = "merge" /\ task \in Task /\ task \in Ready
        /\ UNCHANGED <<branch, row, task, reports, failed>>
    BY DEF Merge, PilotTypes, Running, MergeIsReported, Ready
  <1>2. Ready' = Ready /\ InOrder'
    BY <1>1 DEF Ready, ReadyReports, PilotInv, InOrder, Merge, Before, Raise
  <1>3. CASE UNCHANGED <<main, late>> /\ pc' = "raised"
    BY <1>1, <1>2, <1>3
       DEF PilotInv, Branches, OnlyReported, Committed, Merged, LateIsSeen, Proving
  <1>4. CASE /\ IsPrefix(main, branch[task]) /\ main' = branch[task] /\ pc' = "remove"
             /\ late' = IF row[task] \in READY_PHASES THEN late ELSE late \cup {task}
    <2>1. main \in Seq(Nat) /\ branch[task] \in Seq(Nat)
      BY <1>1 DEF PilotInv, Branches
    <2>2. ToSet(main) \subseteq ToSet(main') /\ task \in ToSet(main')
      BY <1>1, <1>4, <2>1, Members DEF PilotInv, Committed
    <2>3. OnlyReported' /\ Committed'
      BY <1>1, <1>2, <1>4 DEF PilotInv, OnlyReported, Committed
    <2>4. Merged' /\ LateIsSeen'
      BY <1>1, <1>2, <1>4, <2>2 DEF PilotInv, Merged, LateIsSeen, Proving
    <2> QED
      BY <1>1, <1>2, <1>4, <2>1, <2>3, <2>4 DEF PilotInv, Branches
  <1> QED
    BY <1>3, <1>4 DEF Merge, Raise

\* The first criterion fails if a row is not what was reported.
LEMMA PhaseChainKeeps == PilotTypes /\ PilotInv /\ PhaseChainLegal => PilotInv'
PROOF
  <1> SUFFICES ASSUME PilotTypes, PilotInv, PhaseChainLegal PROVE PilotInv'
    OBVIOUS
  <1>1. /\ pc = "phases" /\ pc' = "changes"
        /\ UNCHANGED <<main, branch, row, task, reports, late>>
        /\ failed' # {} \/ \A r \in ToSet(reports) : Agrees(r)
    BY DEF PhaseChainLegal, Found, repo
  <1>2. late = {} \/ failed' # {}
    <2> SUFFICES ASSUME NEW t \in late PROVE \E r \in ToSet(reports) : ~ Agrees(r)
      BY <1>1
    <2>1. PICK r \in ReadyReports : r.task = t
      BY DEF PilotInv, LateIsSeen, Ready
    <2> QED
      BY <2>1 DEF ReadyReports, Agrees, PilotInv, LateIsSeen
  <1>3. Ready' = Ready
    BY <1>1 DEF Ready, ReadyReports
  <1>4. InOrder' /\ OnlyReported' /\ Committed'
    BY <1>1, <1>3 DEF PilotInv, InOrder, OnlyReported, Committed, Before
  <1>5. Merged' /\ LateIsSeen'
    BY <1>1, <1>2, <1>3 DEF PilotInv, Merged, LateIsSeen
  <1> QED
    BY <1>1, <1>4, <1>5 DEF PilotInv, Branches

LEMMA OwnerKeeps == PilotTypes /\ PilotInv /\ OwnerCommits => PilotInv'
PROOF
  <1> SUFFICES ASSUME PilotTypes, PilotInv, OwnerCommits PROVE PilotInv'
    OBVIOUS
  <1>1. UNCHANGED <<branch, row, pc, task, reports, failed, late>>
    BY DEF OwnerCommits
  <1>2. main' \in Seq(Nat) /\ ToSet(main') = ToSet(main) \cup {Owner} /\ Owner \notin Task
    <2>1. main \in Seq(Nat) /\ Owner \in Nat /\ Owner \notin Task
      BY CountAssumption DEF PilotInv, Branches, Owner, Task
    <2> QED
      BY <2>1, Members DEF OwnerCommits
  <1>3. Ready' = Ready
    BY <1>1 DEF Ready, ReadyReports
  <1> QED
    BY <1>1, <1>2, <1>3 DEF PilotInv, Branches, InOrder, OnlyReported, Committed, Merged,
       LateIsSeen

LEMMA PilotInvariant == Spec => [](PilotTypes /\ PilotInv)
PROOF
  <1>1. Init => PilotInv
    <2> SUFFICES ASSUME Init PROVE PilotInv
      OBVIOUS
    <2>1. ToSet(<<>>) = {} /\ ToSet(<<Baseline>>) = {0} /\ Baseline \notin Task
      BY DEF ToSet, Baseline, Task
    <2>2. Ready = {}
      BY <2>1 DEF Init, Ready, ReadyReports
    <2>3. Branches /\ InOrder /\ OnlyReported
      BY <2>1 DEF Init, Branches, InOrder, OnlyReported, Baseline, Task
    <2>4. Committed /\ Merged /\ LateIsSeen
      BY <2>2 DEF Init, Committed, Merged, LateIsSeen, READY_PHASES, Proving
    <2> QED
      BY <2>3, <2>4 DEF PilotInv
  <1>2. PilotTypes /\ PilotInv /\ MergeIsReported /\ [Next]_vars => PilotInv'
    BY QuietKeeps, QuietSteps, EngineKeeps, ReportKeeps, MergeKeeps, PhaseChainKeeps, OwnerKeeps
  <1> QED
    BY <1>1, <1>2, PilotTypesInvariant, MergeIsReportedInvariant, PTL DEF Spec

\* For any number of tasks, faults, cancels and commits of the owner: a run
\* whose criteria all hold has in main the tasks that were reported ready and
\* no others, and merged none of them after it was cancelled.
THEOREM CriteriaKeepToMain == Spec => []CriteriaTellMain
PROOF
  <1>1. PilotTypes /\ PilotInv => CriteriaTellMain
    <2> SUFFICES ASSUME PilotInv, pc = "proved", failed = {}, NEW r \in ToSet(reports)
                 PROVE  late = {} /\ (r.phase \in READY_PHASES <=> r.task \in ToSet(main))
      BY DEF CriteriaTellMain, PilotInv, LateIsSeen, Proving
    <2>1. r.task \in Task /\ (r.phase \in READY_PHASES <=> r.task \in Ready)
      BY DEF PilotInv, InOrder, Ready, ReadyReports
    <2>2. r.task \in Ready <=> r.task \in ToSet(main)
      BY <2>1 DEF PilotInv, OnlyReported, Merged
    <2> QED
      BY <2>1, <2>2 DEF PilotInv, LateIsSeen, Proving
  <1> QED
    BY <1>1, PilotInvariant, PTL
===============================================================================
