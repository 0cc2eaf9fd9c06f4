--------------------------------- MODULE Pilot ---------------------------------
(***************************************************************************)
(* A pilot run (pilot/run.py): tasks one after the other, each on the main *)
(* branch of the sample repository as the one before it left it, and the   *)
(* criteria that are to prove afterwards what the run did. Meanwhile the   *)
(* owner works in that repository and an operator cancels tasks. The       *)
(* engine is what module Engine shows of it: it returns with a final row   *)
(* or raises. The ledger tells the rows (module StateService), so a task's *)
(* last event is its phase.                                                *)
(***************************************************************************)
EXTENDS TaskPhases, Naturals, SequencesExt

CONSTANTS Count,        \* how many tasks run_all is given
          Faulty,       \* those of them with the fault "budget"
          Interactive,  \* whether the owner is asked after each task
          MaxCommits    \* bound on the owner's own commits

ASSUME CountAssumption       == Count \in Nat \ {0} /\ MaxCommits \in Nat
ASSUME FaultyAssumption      == Faulty \subseteq 1..Count
ASSUME InteractiveAssumption == Interactive \in BOOLEAN

VARIABLES
  live,      \* whether real agents are called, which know of no faults
  main,      \* commits of the sample's main branch, oldest first
  clean,     \* whether its checkout is
  row,       \* phase of each task's row, or none
  branch,    \* commits of each task's branch; empty before the worktree is
  worktree,  \* tasks whose worktree is there
  pc,        \* what run_all or prove_criteria does next
  task,      \* the task run_one is at
  reports,   \* those of run_all, in order
  failed,    \* criteria found false
  owned,     \* the owner's commits
  late       \* history: tasks that were merged when their row was not ready

repo == <<main, clean, branch, worktree, owned>>
vars == <<live, repo, row, pc, task, reports, failed, late>>

Task == 1..Count

\* Commits: a task's checkpoint is its number.
Baseline == 0
Owner    == Count + 1

Init ==
    /\ live \in BOOLEAN
    /\ main = <<Baseline>> /\ clean \in BOOLEAN
    /\ row      = [t \in Task |-> "none"]
    /\ branch   = [t \in Task |-> <<>>]
    /\ worktree = {}
    /\ pc = "preflight" /\ task = 1
    /\ reports = <<>> /\ failed = {}
    /\ owned = 0 /\ late = {}

\* The demonstration agent of a task with the fault runs out of its budget.
Injected(t) == t \in Faulty /\ ~ live

Moved(t, phase) == row' = [row EXCEPT ![t] = phase]

-------------------------------------------------------------------------------
(* run_one                                                                 *)

\* No exception is caught in run_one or run_all: the reports go with it.
Raise == pc' = "raised"

Preflight ==
    /\ pc = "preflight"
    /\ IF clean THEN pc' = "insert" ELSE Raise
    /\ UNCHANGED <<live, repo, row, task, reports, failed, late>>

\* Cycle, task and approval in one commit.
Insert ==
    /\ pc = "insert"
    /\ Moved(task, "CREATED")
    /\ pc' = "bootstrap"
    /\ UNCHANGED <<live, repo, task, reports, failed, late>>

Bootstrapped == <<"CREATED", "BASELINING", "PLAN_READY", "AWAITING_PLAN_APPROVAL",
                  "EDIT_AUTHORIZED">>

\* A task cancelled meanwhile cannot be moved on.
Bootstrap ==
    /\ pc = "bootstrap"
    /\ \/ \E n \in 1..4 :
            /\ row[task] = Bootstrapped[n]
            /\ Moved(task, Bootstrapped[n + 1])
            /\ pc' = IF n = 4 THEN "engine" ELSE pc
       \/ row[task] \in TERMINAL_TASK_PHASES /\ Raise /\ UNCHANGED row
    /\ UNCHANGED <<live, repo, task, reports, failed, late>>

\* The worktree's base is HEAD by now, not the baseline that was approved.
EngineOpens ==
    /\ pc = "engine"
    /\ branch[task] = <<>>
    /\ branch'   = [branch EXCEPT ![task] = main]
    /\ worktree' = worktree \cup {task}
    /\ UNCHANGED <<live, main, clean, owned, row, pc, task, reports, failed, late>>

EngineCommits ==
    /\ pc = "engine"
    /\ branch[task] # <<>> /\ Last(branch[task]) # task /\ ~ Injected(task)
    /\ branch' = [branch EXCEPT ![task] = Append(@, task)]
    /\ UNCHANGED <<live, main, clean, worktree, owned, row, pc, task, reports, failed, late>>

\* Ready on a committed checkpoint, or stopped at any point, or cancelled.
EngineReturns ==
    /\ pc = "engine"
    /\ \/ /\ row[task] \notin TERMINAL_TASK_PHASES /\ ~ Injected(task)
          /\ branch[task] # <<>> /\ Last(branch[task]) = task
          /\ Moved(task, "CHECKPOINT_READY")
       \/ /\ row[task] \notin TERMINAL_TASK_PHASES
          /\ \E p \in {"SAFE_HALT", "FAILED"} : Moved(task, p)
       \/ row[task] \in TERMINAL_TASK_PHASES /\ UNCHANGED row
    /\ pc' = IF Interactive THEN "ask" ELSE "report"
    /\ UNCHANGED <<live, repo, task, reports, failed, late>>

EngineRaises ==
    /\ pc = "engine"
    /\ Raise
    /\ UNCHANGED <<live, repo, row, task, reports, failed, late>>

\* continue, replan and adjust do nothing.
Ask ==
    /\ pc = "ask"
    /\ \/ pc' = "report"
       \/ row[task] \notin TERMINAL_TASK_PHASES /\ pc' = "cancel"
    /\ UNCHANGED <<live, repo, row, task, reports, failed, late>>

OwnerCancel ==
    /\ pc = "cancel"
    /\ \/ /\ CanTransition(row[task], "CANCELLED")
          /\ Moved(task, "CANCELLED")
          /\ pc' = "report"
       \/ ~ CanTransition(row[task], "CANCELLED") /\ Raise /\ UNCHANGED row
    /\ UNCHANGED <<live, repo, task, reports, failed, late>>

-------------------------------------------------------------------------------
(* run_all                                                                 *)

\* A cancelled task ends the run.
AfterReport(phase) == CASE phase \in READY_PHASES -> "merge"
                        [] phase = "CANCELLED"    -> "phases"
                        [] OTHER                  -> "next"

RunOneReturns ==
    /\ pc = "report"
    /\ reports' = Append(reports, [task |-> task, phase |-> row[task]])
    /\ pc' = AfterReport(row[task])
    /\ UNCHANGED <<live, repo, row, task, failed, late>>

\* Mutant: without --ff-only git makes a merge commit where it has to.
MergeAnyway ==
    /\ pc = "merge"
    /\ main' = IF IsPrefix(main, branch[task]) THEN branch[task] ELSE Append(main, task)
    /\ pc' = "remove"
    /\ late' = IF row[task] \in READY_PHASES THEN late ELSE late \cup {task}
    /\ UNCHANGED <<live, clean, branch, worktree, owned, row, task, reports, failed>>

\* _promote looks at the report, not at the row. Local changes may be in the
\* way of the merge.
Merge ==
    /\ pc = "merge"
    /\ \/ /\ IsPrefix(main, branch[task])
          /\ main' = branch[task]
          /\ late' = IF row[task] \in READY_PHASES THEN late ELSE late \cup {task}
          /\ pc' = "remove"
       \/ /\ ~ IsPrefix(main, branch[task]) \/ ~ clean
          /\ Raise
          /\ UNCHANGED <<live, main, late>>
    /\ UNCHANGED <<live, clean, branch, worktree, owned, row, task, reports, failed>>

RemoveWorktree ==
    /\ pc = "remove"
    /\ \/ worktree' = worktree \ {task} /\ pc' = "next"
       \/ Raise /\ UNCHANGED worktree
    /\ UNCHANGED <<live, main, clean, branch, owned, row, task, reports, failed, late>>

NextTask ==
    /\ pc = "next"
    /\ task' = task + 1
    /\ pc' = IF task < Count THEN "preflight" ELSE "phases"
    /\ UNCHANGED <<live, repo, row, reports, failed, late>>

-------------------------------------------------------------------------------
(* prove_criteria                                                          *)

ReadyReports == {r \in ToSet(reports) : r.phase \in READY_PHASES}

\* Mutant: a task that has ended since is not held against its report.
AgreesOrEnded(r) == row[r.task] = r.phase \/ row[r.task] \in TERMINAL_TASK_PHASES

\* The last event and the row are those of the report.
Agrees(r) == row[r.task] = r.phase

Found(criterion, ok, next) ==
    /\ failed' = IF ok THEN failed ELSE failed \cup {criterion}
    /\ pc' = next
    /\ UNCHANGED <<live, repo, row, task, reports, late>>

PhaseChainLegal ==
    /\ pc = "phases"
    /\ Found("phase_chain_legal",
             reports # <<>> /\ \A r \in ToSet(reports) : Agrees(r), "changes")

\* What the last commit of the branch changed is within the files approved:
\* true of a checkpoint (module Workspace), and there is one.
ChangesWithinAllowed ==
    /\ pc = "changes"
    /\ Found("changes_within_allowed",
             /\ ReadyReports # {}
             /\ \A r \in ReadyReports : Last(branch[r.task]) = r.task, "chain")

\* The events of a task that was reported ready pass through the evidence, the
\* review and the policy (module Engine), whatever became of it since.
EvidencePolicyChain ==
    /\ pc = "chain"
    /\ Found("evidence_policy_chain", ReadyReports # {}, "finals")

FinalPhaseConsistent ==
    /\ pc = "finals"
    /\ Found("final_phase_consistent", \A r \in ToSet(reports) : Agrees(r), "budget")

\* The fault has to have been injected, and to have halted its task safely.
BudgetHaltInjected ==
    /\ pc = "budget"
    /\ LET faulty == {r \in ToSet(reports) : r.task \in Faulty}
       IN Found("budget_halt_injected",
                faulty # {} /\ \A r \in faulty : r.phase = "SAFE_HALT", "main")

SampleMainUntouched ==
    /\ pc = "main"
    /\ Found("sample_main_untouched",
             /\ reports # <<>> /\ clean
             /\ \A r \in ReadyReports : IsPrefix(branch[r.task], main), "proved")

-------------------------------------------------------------------------------
(* The others                                                              *)

\* aotf cancel, at any time, whatever the pilot is at.
Cancel(t) ==
    /\ row[t] # "none" /\ CanTransition(row[t], "CANCELLED")
    /\ Moved(t, "CANCELLED")
    /\ UNCHANGED <<live, repo, pc, task, reports, failed, late>>

OwnerCommits ==
    /\ owned < MaxCommits
    /\ main' = Append(main, Owner)
    /\ owned' = owned + 1
    /\ UNCHANGED <<live, clean, branch, worktree, row, pc, task, reports, failed, late>>

OwnerEdits ==
    /\ clean' = ~ clean
    /\ UNCHANGED <<live, main, branch, worktree, owned, row, pc, task, reports, failed, late>>

RunOne == \/ Preflight \/ Insert \/ Bootstrap
          \/ EngineOpens \/ EngineCommits \/ EngineReturns \/ EngineRaises
          \/ Ask \/ OwnerCancel

RunAll == RunOneReturns \/ Merge \/ RemoveWorktree \/ NextTask

ProveCriteria == \/ PhaseChainLegal \/ ChangesWithinAllowed \/ EvidencePolicyChain
                 \/ FinalPhaseConsistent \/ BudgetHaltInjected \/ SampleMainUntouched

Next == \/ RunOne \/ RunAll \/ ProveCriteria
        \/ \E t \in Task : Cancel(t)
        \/ OwnerCommits \/ OwnerEdits

Spec == Init /\ [][Next]_vars

-------------------------------------------------------------------------------
(* Properties                                                              *)

\* Main moves to the tip of a branch whose task was reported ready.
Promotes == \E r \in ReadyReports : main' = branch[r.task] /\ IsPrefix(main, main')

\* Nothing reaches the main branch but what was checked: the program moves it
\* only to the tip of a branch whose task was reported ready and which has all
\* of main below it, so never to a combination that no evidence is about
\* (run.py:263-267), whatever the owner commits meanwhile.
MainIsTested == [][main' # main => OwnerCommits \/ Promotes]_vars

\* A run whose criteria all hold has promoted what it says: the tasks in main
\* are those reported ready, and none of them was cancelled between its report
\* and its merge, which nothing in run_all looks at (run.py:282-292, 332-411).
CriteriaTellMain ==
    pc = "proved" /\ failed = {} =>
      /\ late = {}
      /\ \A r \in ToSet(reports) : r.phase \in READY_PHASES <=> r.task \in ToSet(main)
===============================================================================
