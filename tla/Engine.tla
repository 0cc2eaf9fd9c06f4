-------------------------------- MODULE Engine --------------------------------
(***************************************************************************)
(* The closed loop of one task (orchestrate.py): engine processes that run *)
(* it, die and are started again, an operator who cancels it, other        *)
(* writers of the database, and agents that answer, fail or misbehave.     *)
(* A transition commits a move and everything its connection wrote before, *)
(* or fails in one of the ways that StateService models in more detail.    *)
(***************************************************************************)
EXTENDS TaskPhases, Naturals, FiniteSets

CONSTANTS Engines,       \* processes that run run_task_closed_loop on the task
          Free, Other,   \* values of lock that are no engine
          MaxStarts,     \* bound on the process starts
          OtherWriters,  \* whether other tasks write to the database meanwhile
          Unlisted,      \* whether a runner raises what the engine's except
                         \* clause does not list (snapshot_files does)
          Baselines      \* whether the row has a baseline_tree: a set of BOOLEAN

ASSUME EngineAssumption == {Free, Other} \cap Engines = {} /\ Free # Other
ASSUME BoundAssumption  == MaxStarts \in Nat
ASSUME FlagAssumption   == /\ OtherWriters \in BOOLEAN /\ Unlisted \in BOOLEAN
                           /\ Baselines \in SUBSET BOOLEAN \ {{}}

VARIABLES
  \* the database, the git worktree and the world
  row,       \* phase and version of the task's committed row
  baseline,  \* TaskRecord.baseline_tree is not None
  approval,  \* whether it covers the plan, and whether it has expired
  runs,      \* committed agent_runs: pairs of role and status
  tree,      \* the task's worktree
  lock,      \* who holds SQLite's write lock
  \* each engine process
  pc,        \* what it does next
  phase,     \* self.task.phase
  delta,     \* engines with self.delta
  evidence,  \* the status of the evidence in self.evidence
  verdict,   \* self.review_verdict
  move,      \* the transition it is making
  seen,      \* the row that transition read
  begun,     \* engines in a transaction that has written nothing
  fresh,     \* those whose snapshot is still the last commit
  pending,   \* agent_runs written and not committed
  \* history
  starts,    \* process starts
  asked      \* how often each role's agent was started, over all processes

db      == <<row, runs, lock, begun, fresh, pending>>
world   == <<baseline, approval, tree>>
memory  == <<phase, delta, evidence, verdict>>
vars    == <<db, world, memory, pc, move, seen, starts, asked>>

FINAL_PHASES == TERMINAL_TASK_PHASES \cup READY_PHASES

\* Phases whose role and evidence context lives in the process alone.
MIDDLE_PHASES == {"IMPLEMENTING", "DELTA_CAPTURED", "EVIDENCE_RUNNING",
                  "REVIEWING", "POLICY_EVALUATING"}

Roles    == {"implementer", "reviewer"}
Statuses == {"completed", "failed"}      \* what the runner gave; failed: any other
Verdicts == {"PASS", "CONCERNS", "BLOCK", "missing"}
Results  == {"PASS", "FAIL", "INCOMPLETE"}

Row  == [phase : TaskPhase, version : Nat]
Move == [to : TaskPhase, ctx : {"body", "stop", "fallback"}]

NoMove == [to |-> "SAFE_HALT", ctx |-> "body"]

Init ==
    /\ \E p \in {"AWAITING_PLAN_APPROVAL", "EDIT_AUTHORIZED"} :
         row = [phase |-> p, version |-> 0]
    /\ baseline \in Baselines
    /\ approval \in [covers : BOOLEAN, expired : {FALSE}]
    /\ tree \in {"absent", "baseline"}   \* a directory left by an earlier database
    /\ runs = {}  /\ lock = Free
    /\ pc       = [e \in Engines |-> "off"]
    /\ phase    = [e \in Engines |-> "CREATED"]
    /\ evidence = [e \in Engines |-> "none"]
    /\ verdict  = [e \in Engines |-> "missing"]
    /\ move     = [e \in Engines |-> NoMove]
    /\ seen     = [e \in Engines |-> row]
    /\ pending  = [e \in Engines |-> {}]
    /\ delta = {}  /\ begun = {}  /\ fresh = {}
    /\ starts = 0  /\ asked = [r \in Roles |-> 0]

-------------------------------------------------------------------------------
(* Where control goes.                                                     *)

Goto(e, l) == pc' = [pc EXCEPT ![e] = l] /\ UNCHANGED move

Transition(e, to, ctx) ==
    /\ pc'   = [pc EXCEPT ![e] = "read"]
    /\ move' = [move EXCEPT ![e] = [to |-> to, ctx |-> ctx]]

Advance(e, to)     == Transition(e, to, "body")
Stop(e, to)        == Transition(e, to, "stop")
Halt(e)            == Stop(e, "SAFE_HALT")
Fail(e)            == Transition(e, "SAFE_HALT", "fallback")

\* Mutant: the connection goes back to its user with what it has written.
HangUpKeeping(e) == /\ lock'  = IF lock = e THEN Free ELSE lock
                    /\ begun' = begun \ {e}
                    /\ fresh' = fresh \ {e}
                    /\ UNCHANGED <<row, runs, pending>>

\* The connection is closed, its transaction rolled back.
HangUp(e) == /\ lock'    = IF lock = e THEN Free ELSE lock
             /\ begun'   = begun \ {e}
             /\ fresh'   = fresh \ {e}
             /\ pending' = [pending EXCEPT ![e] = {}]
             /\ UNCHANGED <<row, runs>>

\* An exception leaves run_task_closed_loop; the caller closes the connection.
Escape(e) == Goto(e, "raised") /\ HangUp(e)

\* Every commit makes older snapshots stale.
Commit(e) == /\ runs'    = runs \cup pending[e]
             /\ lock'    = Free
             /\ begun'   = begun \ {e}
             /\ fresh'   = {}
             /\ pending' = [pending EXCEPT ![e] = {}]

-------------------------------------------------------------------------------
(* _move: state.transition reads the row, then updates it and commits.     *)

\* Mutant: the fallback takes the row it finds for a finished one.
FallbackTrusting(e, l, b, view) ==
    /\ Goto(e, "cleanup")
    /\ phase' = [phase EXCEPT ![e] = view.phase]
    /\ lock' = l /\ begun' = b
    /\ UNCHANGED <<row, runs, fresh, pending>>

\* The handler of engine errors could not persist SAFE_HALT either.
Fallback(e, l, b, view) ==
    \/ /\ view.phase \in TERMINAL_TASK_PHASES
       /\ Goto(e, "cleanup")
       /\ phase' = [phase EXCEPT ![e] = view.phase]
       /\ lock' = l /\ begun' = b
       /\ UNCHANGED <<row, runs, fresh, pending>>
    \/ view.phase \notin TERMINAL_TASK_PHASES /\ Escape(e) /\ UNCHANGED phase

\* A transition raised, with the lock l and the transactions b it leaves.
MoveFails(e, l, b, view) ==
    /\ \/ /\ move[e].ctx = "body"
          /\ Fail(e)
          /\ lock' = l /\ begun' = b
          /\ UNCHANGED <<row, runs, fresh, pending, phase>>
       \/ move[e].ctx = "stop" /\ Escape(e) /\ UNCHANGED phase
       \/ move[e].ctx = "fallback" /\ Fallback(e, l, b, view)
    /\ UNCHANGED <<world, delta, evidence, verdict, starts, asked>>

\* The first read after BUSY pins the snapshot of the transaction.
Read(e) == seen' = [seen EXCEPT ![e] = row]

MoveReads(e) ==
    /\ pc[e] = "read"
    /\ CanTransition(row.phase, move[e].to)
    /\ Read(e)
    /\ Goto(e, "write")
    /\ fresh' = fresh \cup {e}
    /\ UNCHANGED <<row, runs, lock, begun, pending, world, memory, starts, asked>>

MoveRefused(e) ==
    /\ pc[e] = "read"
    /\ ~ CanTransition(row.phase, move[e].to)
    /\ Read(e)
    /\ MoveFails(e, lock, begun, row)

\* The statement can have the write lock, on a snapshot that is not stale.
Writable(e) == \/ lock = e
               \/ lock = Free /\ (e \in begun => e \in fresh)

\* The row that transition reads again after the commit (state.py:119) is not
\* used but for its phase, which the engine sets from what it asked for.
MoveCommits(e) ==
    /\ pc[e] = "write"
    /\ Writable(e)
    /\ row.version = seen[e].version
    /\ row' = [phase |-> move[e].to, version |-> row.version + 1]
    /\ Commit(e)
    /\ phase' = [phase EXCEPT ![e] = move[e].to]
    /\ Goto(e, IF move[e].ctx = "body" THEN "loop" ELSE "cleanup")
    /\ UNCHANGED <<world, delta, evidence, verdict, seen, starts, asked>>

\* VERSION_CONFLICT; the UPDATE that matched nothing keeps the lock.
MoveConflicts(e) ==
    /\ pc[e] = "write"
    /\ Writable(e)
    /\ row.version # seen[e].version
    /\ MoveFails(e, e, begun \ {e}, row)
    /\ UNCHANGED seen

\* Mutant: the statement waits for the lock without a timeout.
MoveWaits(e) ==
    /\ pc[e] = "write"
    /\ lock = Free /\ ~ Writable(e)
    /\ MoveFails(e, lock, begun \cup {e}, seen[e])
    /\ UNCHANGED seen

\* The lock did not come free within busy_timeout, or the snapshot is stale.
MoveBusy(e) ==
    /\ pc[e] = "write"
    /\ ~ Writable(e)
    /\ MoveFails(e, lock, begun \cup {e}, IF e \in begun THEN seen[e] ELSE row)
    /\ UNCHANGED seen

-------------------------------------------------------------------------------
(* run_task_closed_loop, up to the transition each part of it makes        *)

\* Mutant: a middle phase is taken up where it was left.
StartResuming(e) ==
    /\ pc[e] = "off"
    /\ starts < MaxStarts
    /\ starts' = starts + 1
    /\ phase' = [phase EXCEPT ![e] = row.phase]
    /\ Goto(e, "loop")
    /\ UNCHANGED <<db, world, delta, evidence, verdict, seen, asked>>

\* A snapshot of an earlier process, if load_snapshot found one, has the same
\* effect as a middle phase: SAFE_HALT.
Start(e) ==
    /\ pc[e] = "off"
    /\ starts < MaxStarts
    /\ starts' = starts + 1
    /\ phase' = [phase EXCEPT ![e] = row.phase]
    /\ IF row.phase \in MIDDLE_PHASES THEN Halt(e) ELSE Goto(e, "loop")
    /\ UNCHANGED <<db, world, delta, evidence, verdict, seen, asked>>

At(e, p) == pc[e] = "loop" /\ phase[e] = p

Done(e) ==
    /\ pc[e] = "loop" /\ phase[e] \in FINAL_PHASES
    /\ Goto(e, "cleanup")
    /\ UNCHANGED <<db, world, memory, seen, starts, asked>>

\* Phases before EDIT_AUTHORIZED are not the engine's to move.
Unsupported(e) ==
    /\ pc[e] = "loop"
    /\ phase[e] \notin FINAL_PHASES \cup MIDDLE_PHASES \cup {"EDIT_AUTHORIZED"}
    /\ Halt(e)
    /\ UNCHANGED <<db, world, memory, seen, starts, asked>>

\* Mutant: the scope and the decision are not looked at.
AuthorizeByExpiry(e) ==
    /\ At(e, "EDIT_AUTHORIZED")
    /\ IF approval.expired THEN Halt(e) ELSE Advance(e, "IMPLEMENTING")
    /\ UNCHANGED <<db, world, memory, seen, starts, asked>>

Authorize(e) ==
    /\ At(e, "EDIT_AUTHORIZED")
    /\ IF approval.covers /\ ~ approval.expired
       THEN Advance(e, "IMPLEMENTING") ELSE Halt(e)
    /\ UNCHANGED <<db, world, memory, seen, starts, asked>>

Ask(e, r) == /\ Goto(e, r)
             /\ asked' = [asked EXCEPT ![r] = @ + 1]

\* _ensure_worktree and the call of the implementer; a refused or failed
\* creation, or a path that is taken, halts the task.
OpenWorktree(e) ==
    /\ At(e, "IMPLEMENTING")
    /\ \/ /\ tree = "absent"
          /\ tree' = "baseline"
          /\ Ask(e, "implementer")
       \/ /\ tree # "absent"
          /\ Ask(e, "implementer")
          /\ UNCHANGED tree
       \/ (Fail(e) \/ Halt(e)) /\ UNCHANGED <<tree, asked>>
    /\ UNCHANGED <<db, baseline, approval, memory, seen, starts>>

\* An implementer that reaches the worktree by itself.
AgentTouches(e) ==
    /\ pc[e] = "implementer"
    /\ tree = "baseline"
    /\ tree' = "dirty"
    /\ UNCHANGED <<db, baseline, approval, memory, pc, move, seen, starts, asked>>

\* run_with_retry gave up or the report is malformed: no run is recorded.
AgentRaises(e) ==
    /\ pc[e] \in Roles
    /\ \/ Halt(e) /\ UNCHANGED db
       \/ Fail(e) /\ UNCHANGED db
       \/ Unlisted /\ Escape(e)
    /\ UNCHANGED <<world, memory, seen, starts, asked>>

\* Mutant: only runs that went wrong are recorded.
RecordsFailures(e, r, s) ==
    /\ lock' = e
    /\ pending' = [pending EXCEPT ![e] = IF s = "completed" THEN {} ELSE {<<r, s>>}]
    /\ UNCHANGED <<row, runs, begun, fresh>>

\* record_run: an INSERT that opens a transaction and keeps it open.
Records(e, r, s) == /\ lock' = e
                    /\ pending' = [pending EXCEPT ![e] = {<<r, s>>}]
                    /\ UNCHANGED <<row, runs, begun, fresh>>

AgentUnrecorded(e) ==
    /\ pc[e] \in Roles
    /\ lock \notin {Free, e}
    /\ Fail(e)
    /\ begun' = begun \cup {e}
    /\ UNCHANGED <<row, runs, lock, fresh, pending, world, memory, seen, starts, asked>>

\* The status is recorded as it was given: a run that is completed, but late or
\* too dear, is on record as completed and halts the task.
AgentFailsWith(e, s) ==
    /\ pc[e] \in Roles
    /\ lock \in {Free, e}
    /\ Records(e, pc[e], s)
    /\ Halt(e)
    /\ UNCHANGED <<world, memory, seen, starts, asked>>

AgentFails(e) == \E s \in Statuses : AgentFailsWith(e, s)

\* _save_snapshot refuses an empty baseline_tree with SnapshotError, which no
\* handler of the engine catches: what record_run wrote is rolled back.
SnapshotRefused(e) ==
    /\ pc[e] = "implementer"
    /\ lock \in {Free, e}
    /\ ~ baseline
    /\ Escape(e)
    /\ UNCHANGED <<world, memory, seen, starts, asked>>

ImplementerAnswers(e) ==
    /\ pc[e] = "implementer"
    /\ lock \in {Free, e}
    /\ baseline
    /\ Records(e, "implementer", "completed")
    /\ \/ tree # "dirty" /\ Goto(e, "apply")
       \/ tree = "dirty" /\ Halt(e)
       \/ Fail(e)                                  \* preflight itself failed
    /\ UNCHANGED <<world, memory, seen, starts, asked>>

\* apply_mutations: all of the batch, or, refused or rolled back, none, or,
\* when the rollback fails too, a part.
Apply(e) ==
    /\ pc[e] = "apply"
    /\ \/ tree' = "applied" /\ Goto(e, "checkpoint")
       \/ tree' \in {tree, "dirty"} /\ Halt(e)
       \/ Fail(e) /\ UNCHANGED tree
    /\ UNCHANGED <<db, baseline, approval, memory, seen, starts, asked>>

\* checkpoint_commit and capture_delta, which may fail after the commit.
Checkpoint(e) ==
    /\ pc[e] = "checkpoint"
    /\ \/ /\ tree' = "committed"
          /\ delta' = delta \cup {e}
          /\ Advance(e, "DELTA_CAPTURED")
       \/ /\ tree' \in {tree, "committed"}
          /\ Halt(e) \/ Fail(e)
          /\ UNCHANGED delta
    /\ UNCHANGED <<db, baseline, approval, phase, evidence, verdict, seen, starts, asked>>

ProduceEvidence(e) ==
    /\ At(e, "DELTA_CAPTURED")
    /\ \/ /\ e \in delta
          /\ \E s \in Results : evidence' = [evidence EXCEPT ![e] = s]
          /\ Advance(e, "EVIDENCE_RUNNING")
       \/ (Halt(e) \/ Fail(e)) /\ UNCHANGED evidence
    /\ UNCHANGED <<db, world, phase, delta, verdict, seen, starts, asked>>

EvidenceAdvance(e) ==
    /\ At(e, "EVIDENCE_RUNNING")
    /\ Advance(e, "REVIEWING")
    /\ UNCHANGED <<db, world, memory, seen, starts, asked>>

OpenReview(e) ==
    /\ At(e, "REVIEWING")
    /\ \/ e \in delta /\ Ask(e, "reviewer")
       \/ (Halt(e) \/ Fail(e)) /\ UNCHANGED asked
    /\ UNCHANGED <<db, world, memory, seen, starts>>

ReviewerAnswers(e) ==
    /\ pc[e] = "reviewer"
    /\ lock \in {Free, e}
    /\ Records(e, "reviewer", "completed")
    /\ \E v \in Verdicts :
         \/ v = "PASS" /\ verdict' = [verdict EXCEPT ![e] = v]
                       /\ Advance(e, "POLICY_EVALUATING")
         \/ v # "PASS" /\ Halt(e) /\ UNCHANGED verdict
    /\ UNCHANGED <<world, phase, delta, evidence, seen, starts, asked>>

\* evaluate, given the facts the engine passes.
PolicyResult(e) == IF verdict[e] # "PASS" THEN "ERROR" ELSE evidence[e]

\* Mutant: whatever is not a FAIL is good enough.
PolicyLenient(e) ==
    /\ At(e, "POLICY_EVALUATING")
    /\ IF PolicyResult(e) = "FAIL" THEN Stop(e, "FAILED")
       ELSE Advance(e, "CHECKPOINT_READY")
    /\ UNCHANGED <<db, world, memory, seen, starts, asked>>

Policy(e) ==
    /\ At(e, "POLICY_EVALUATING")
    /\ \/ PolicyResult(e) = "PASS" /\ Advance(e, "CHECKPOINT_READY")
       \/ PolicyResult(e) = "FAIL" /\ Stop(e, "FAILED")
       \/ PolicyResult(e) \notin {"PASS", "FAIL"} /\ Halt(e)
       \/ Fail(e)                                  \* PolicyError
    /\ UNCHANGED <<db, world, memory, seen, starts, asked>>

\* delete_snapshots_for_task commits whatever the connection has written.
Cleanup(e) ==
    /\ pc[e] = "cleanup"
    /\ \/ Writable(e) /\ Goto(e, "returned") /\ Commit(e) /\ UNCHANGED row
       \/ ~ Writable(e) /\ Escape(e)
    /\ UNCHANGED <<world, memory, seen, starts, asked>>

-------------------------------------------------------------------------------
(* The world around the engines                                            *)

\* The process dies: SQLite rolls back, the worktree stays.
Crash(e) ==
    /\ pc[e] \notin {"off", "returned", "raised"}
    /\ Goto(e, "off")
    /\ HangUp(e)
    /\ delta'    = delta \ {e}
    /\ evidence' = [evidence EXCEPT ![e] = "none"]
    /\ verdict'  = [verdict EXCEPT ![e] = "missing"]
    /\ UNCHANGED <<world, phase, seen, starts, asked>>

\* The operator's aotf cancel; while the lock is taken it fails.
Cancel ==
    /\ lock = Free
    /\ CanTransition(row.phase, "CANCELLED")
    /\ row' = [phase |-> "CANCELLED", version |-> row.version + 1]
    /\ fresh' = {}
    /\ UNCHANGED <<runs, lock, begun, pending, world, memory, pc, move, seen, starts, asked>>

\* Other tasks' connections write, and commit or roll back.
OthersWrite ==
    /\ OtherWriters
    /\ \/ lock = Free  /\ lock' = Other /\ UNCHANGED fresh
       \/ lock = Other /\ lock' = Free  /\ fresh' \in {fresh, {}}
    /\ UNCHANGED <<row, runs, begun, pending, world, memory, pc, move, seen, starts, asked>>

Expire ==
    /\ ~ approval.expired
    /\ approval' = [covers |-> approval.covers, expired |-> TRUE]
    /\ UNCHANGED <<db, baseline, tree, memory, pc, move, seen, starts, asked>>

Moves(e) == MoveReads(e) \/ MoveRefused(e) \/ MoveCommits(e)
            \/ MoveConflicts(e) \/ MoveBusy(e)

\* The engine's own steps, and those that wait for an agent to answer.
Works(e) == \/ Moves(e)
            \/ Done(e) \/ Unsupported(e) \/ Authorize(e) \/ OpenWorktree(e)
            \/ Apply(e) \/ Checkpoint(e) \/ ProduceEvidence(e)
            \/ EvidenceAdvance(e) \/ OpenReview(e) \/ Policy(e) \/ Cleanup(e)

Answers(e) == \/ AgentRaises(e) \/ AgentUnrecorded(e) \/ AgentFails(e)
              \/ SnapshotRefused(e) \/ ImplementerAnswers(e) \/ ReviewerAnswers(e)

Next == \/ \E e \in Engines : \/ Start(e) \/ Works(e) \/ Answers(e)
                              \/ AgentTouches(e) \/ Crash(e)
        \/ Cancel \/ OthersWrite \/ Expire

Spec == Init /\ [][Next]_vars

\* A running process goes on. Agents may never answer (the SDK's query has no
\* timeout), and others may keep the write lock for ever.
FairSpec == Spec /\ \A e \in Engines : WF_vars(Works(e))

-------------------------------------------------------------------------------
(* Properties.                                                             *)

TypeOK ==
    /\ row \in Row
    /\ baseline \in BOOLEAN
    /\ approval \in [covers : BOOLEAN, expired : BOOLEAN]
    /\ runs \in SUBSET (Roles \X Statuses)
    /\ tree \in {"absent", "baseline", "dirty", "applied", "committed"}
    /\ lock \in Engines \cup {Free, Other}
    /\ pc \in [Engines -> {"off", "loop", "read", "write", "apply", "checkpoint",
                           "cleanup", "returned", "raised"} \cup Roles]
    /\ phase \in [Engines -> TaskPhase]
    /\ delta \in SUBSET Engines
    /\ evidence \in [Engines -> Results \cup {"none"}]
    /\ verdict \in [Engines -> Verdicts]
    /\ move \in [Engines -> Move]
    /\ seen \in [Engines -> Row]
    /\ begun \in SUBSET Engines /\ fresh \in SUBSET Engines
    /\ pending \in [Engines -> SUBSET (Roles \X Statuses)]
    /\ \A e \in Engines : pending[e] # {} => lock = e
    /\ starts \in 0..MaxStarts
    /\ asked \in [Roles -> Nat]

\* An engine has in hand what a ready task takes.
SomeoneEarned ==
    \E e \in Engines : e \in delta /\ evidence[e] = "PASS" /\ verdict[e] = "PASS"

\* A task is ready only by the act of an engine that holds a delta, evidence
\* the policy passes and a PASS of the reviewer (orchestrate.py:26-27).
ReadyIsEarned ==
    [][row'.phase \in READY_PHASES /\ row.phase \notin READY_PHASES => SomeoneEarned]_vars

\* Over all processes, crashes and restarts each agent is asked at most once
\* (orchestrate.py:30-31: no agent and no side effect twice).
AskedOnce == \A r \in Roles : asked[r] <= 1

\* What the row claims is on record: a checkpoint in git and the completed run
\* of each agent that got the task so far, in the same or an earlier commit.
PhaseIsBacked ==
    /\ row.phase \in {"DELTA_CAPTURED", "EVIDENCE_RUNNING", "REVIEWING",
                      "POLICY_EVALUATING", "FAILED"} \cup READY_PHASES
         => tree = "committed" /\ <<"implementer", "completed">> \in runs
    /\ row.phase \in {"POLICY_EVALUATING", "FAILED"} \cup READY_PHASES
         => <<"reviewer", "completed">> \in runs

\* No agent is asked and nothing is committed to git on an approval that does
\* not cover the plan, whichever process got past it (orchestrate.py:187-199).
EditsAreApproved ==
    asked["implementer"] > 0 \/ tree \in {"applied", "committed"} => approval.covers

\* run_task_closed_loop returns only when the task is ready or terminal
\* (orchestrate.py:441).
ReturnsFinal == \A e \in Engines : pc[e] = "returned" => row.phase \in FINAL_PHASES

\* An engine that is at work comes to its end or waits for an agent, whoever
\* keeps the write lock, however it is cancelled and whatever fails.
Working(e) == pc[e] \notin {"off", "returned", "raised"} \cup Roles

EngineEnds == \A e \in Engines : Working(e) ~> ~ Working(e)

\* Claim of orchestrate.py:17: every mechanical error ends in SAFE_HALT.
FailsClosed == \A e \in Engines : pc[e] = "raised" => row.phase \in FINAL_PHASES

\* Claim of policy/engine.py:9-10: an approval that is no longer valid stops
\* the task at the policy, it does not become ready.
ReadyIsApproved ==
    [][\A e \in Engines :
          At(e, "POLICY_EVALUATING") /\ approval.expired /\ Policy(e)
            => move'[e].to # "CHECKPOINT_READY"]_vars
===============================================================================
