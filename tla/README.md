# AOTF: specifications, model checking and proofs

AOTF runs coding tasks for AI agents under a controller: a task is a row of a
SQLite database that moves through phases, an engine asks an implementer and a
reviewer agent, applies the proposed edits itself, runs tests, and lets a
mechanical policy decide. These modules model that control in TLA+. Paths
below are relative to `src/src/aotf/`.

## 1. The system

| Part | State | Operations | Talks to |
|---|---|---|---|
| task phases (`models.py`, `state.py`) | – | `can_transition` | everything |
| state service (`state.py`, `store.py`, `db.py`) | tables `tasks`, `events`; each connection's transaction | `transition`, `insert_task`, `get_task` | SQLite in WAL mode, one writer |
| event ledger, recovery (`ledger.py`, `recovery.py`) | – (reads) | `event_stream`, `fold_task_stream`, `verify_task`, `diagnose_task`, `propose_successor` | the two tables |
| lease (`lease.py`) | table `controller_leases` | `acquire`, `heartbeat`, `release`, `check_held` | called by no module yet |
| engine (`orchestrate.py`, `orchestrator.py`, `snapshot.py`) | memory of one process; `agent_runs`, `agent_snapshots` | `run_task_closed_loop` | state service, agents, git, evidence, policy |
| controlled mutations (`controller.py`) | files of a worktree | `snapshot_files`, `apply_mutations` | the engine and the pilot's runner |
| git (`git/`) | worktrees, branches, commits | `create_worktree`, `preflight`, `checkpoint_commit`, `capture_delta`, `archive_worktree`, `remove_worktree` | the engine; an operator cleans up |
| evidence and artifacts (`evidence/`, `artifacts/`) | files | `produce_evidence`, `ingest` | the engine |
| policy (`policy/`) | – (pure) | `evaluate`, `validate_gates` | the engine |
| outbox (`outbox.py`) | table `outbox` | `insert_outbox`, `process_due` | called by no module yet |
| approvals (`approval_cli.py`, `attest.py`) | tables `approvals`, `approval_signatures` | create, sign, verify, list | the engine reads approvals, not signatures |
| operator commands (`cli.py`) | – | `doctor`, `health`, `task`, `recover`, `cancel` | state service, ledger |
| pilot (`pilot/`) | a sample repository | `run_one`, `run_all`, `prove_criteria` | engine, git |
| agents (`agents/`, `runner.py`, `retry.py`, `pilot/adapter.py`) | the call at hand | `run_with_retry`, a role's run | the engine awaits them; they reach a model by the SDK or the CLI |

What is hard to test here, and what each part therefore has to guarantee:

* **State service.** Python's `sqlite3` opens a deferred transaction before
  the first write and nothing but commit, rollback or close ends it. The row
  is read outside that transaction, the event is appended after the row was
  changed, and a call that fails half-way returns to a caller that may go on
  with the connection. The committed events of a task must always be the
  chain that ends in its row; a terminal row must stay; what was acknowledged
  must be durable; an event id must name one event.
* **Lease.** Every operation reads, decides and writes, and leases expire in
  between. Two holders must never both believe in their lease, and a
  generation that was taken over must be refused.
* **Engine.** It keeps the outcome of each step in memory, awaits agents for
  a long time, can be killed, started twice, cancelled, and locked out of the
  database while it tries to record a failure. No agent may be asked twice,
  what a phase claims must be on record, a task is ready only by evidence,
  policy and review, and the loop must end.
* **Agent calls.** Retries, a stream of results, an exit code, a timeout, two
  budgets and a deadline meet. An answer must be used exactly if it was
  earned, an answered model must not be paid again, a call must end.
* **Worktree and evidence.** Some twenty git commands and file operations on a
  directory that an agent, a hook or a human can write to at any time, and
  every one can fail. What is tested, reviewed and merged must be one tree, in
  scope, and nobody else's evidence; a refusal must leave nothing behind; a
  removal must lose nothing. What git ignores is in none of git's answers.
* **Pilot.** Tasks build on each other in a repository the owner also works
  in, and may be cancelled after their report. Only what was tested may reach
  main, and the criteria must tell what happened.
* **Policy.** The order of early returns decides what a combination of
  failed, missing and deferred gates gives. Showing less must never help.
* **Outbox.** Rows are read before any lock, messages sent before they are
  marked, marks committed per batch.

`PROJECT.json` lists every component with its status and every hazard with
its line and the properties aimed at it.

## 2. Modules

| Module | What it is | Code |
|---|---|---|
| `TaskPhases` | phases, terminal phases, transition matrix | `models.py`, `state.py` |
| `TaskLedger` | abstract: a task moves by atomic steps of row and event | what `state.py:3-5` promises |
| `StateService` | `transition` on several connections of one database; shown to implement `TaskLedger` | `state.py`, `store.py`, `db.py` |
| `EventLedger` | the replay, the recovery diagnosis and the operator commands that use it, as operators over the database | `ledger.py`, `recovery.py`, `cli.py` |
| `StateServiceProofs` | theorems about `StateService` and about the replay of its ledger | |
| `Lease` | the lease operations of several controllers on one resource | `lease.py`, `store.py` |
| `LeaseProofs` | exclusion, rising tokens, fencing | |
| `Engine` | engine processes on one task, operator, other writers, agents | `orchestrate.py`, `orchestrator.py`, `cli.py` |
| `EngineProofs` | all safety properties of `Engine`, and what moves its row | |
| `AgentCall` | one call of an agent, from the retries to the model and back | `retry.py`, `pilot/adapter.py`, `agents/claude_sdk.py` |
| `EngineCalls` | composes `Engine` and `AgentCall`: which answers the engine can get, and when | `orchestrate.py`, `orchestrator.py` |
| `EngineCallsProofs` | the composition implements `Engine`; which answers are used | |
| `Worktree` | creation, mutations, checkpoint and delta in one worktree, with strays | `git/`, `controller.py`, `orchestrate.py` |
| `Evidence` | extends it by tests, scratch files, artifact store and review | `evidence/`, `artifacts/store.py` |
| `Workspace` | composes both with the pilot's merge and the operator's removal | `git/cleanup.py`, `pilot/run.py` |
| `WorkspaceProofs` | all properties of the three modules before it | |
| `Pilot` | a pilot run, its criteria, an owner and an operator | `pilot/run.py` |
| `PilotProofs` | what main is moved to, and what the criteria tell of it | |
| `Policy` | `evaluate` as an operator, and a walk through its inputs | `policy/` |
| `PolicyProofs` | monotonicity of the verdict, and that a failure stays | |
| `Outbox` | workers running `process_due` | `outbox.py`, `store.py` |
| `OutboxProofs` | truth, finality and duplicates of the outbox | |
| `MC*` | small instances for TLC | |

Operators whose comment starts with "Mutant" are deliberate defects. They are
used in no behaviour; replacing a definition by one must break a property.

### State service

`db` is what is committed, `work` what the one writer (`lock`) sees, `txn` and
`snap` the transaction of each connection, `pc`, `req` and `ret` its call. A call
is split where another connection can get in: `Accept`/`Refuse` (`get_task`
and the checks), `CasHit`/`CasMiss`/`CasBusy` (the guarded UPDATE),
`AppendCommits`/`AppendRollsBack`/`AppendFails` (event, then commit, rollback
on `IntegrityError`, or an exception that does neither), `Reread`.
`CallerWrites`, `CallerCommits` and `Disconnect` are the caller's own use of
the connection. `Keepers` are callers that go on with a connection after a
failure (the engine), the others close it (the CLI). `UnrecordableIds` are
event ids for which no `EventRecord` can be built.
Of the terminal reason only what `TaskRecord` tells apart is kept: none, ok,
blank, and malformed (not blank, but refused when the row is read).

### Lease

One resource. `Read` actions fix the row and the time the caller passed;
`Insert`, `Takeover`, `Write`, `Delete` are the guarded statements. `grant` is what a
controller was last told, `issued` the generations in order; `staleServed`
and `released` are history. One clock serves all controllers, as
`MutualExclusion` needs: the code compares timestamps its callers supply.

### Engine

`row`, `runs`, `tree`, `approval`, `lock` are the world; `phase`, `delta`,
`evidence`, `verdict` the memory of each process, lost in a `Crash`. A
transition is `MoveReads` and then `MoveCommits`, `MoveConflicts`, `MoveBusy` or
`MoveRefused`: it is the state service in less detail, with the outcomes
`StateService` shows, and with the pending rows (`agent_runs`) that a commit
takes along. `move.ctx` says which handler a failure reaches: the body, the
stop handler, the fallback to SAFE_HALT. Agents answer, fail, raise, touch
the worktree, or never return. An agent's answer and `record_run` are one
step that waits for the write lock. A run is recorded with the status the runner
gave, before the deadline and the budget are looked at (`orchestrate.py:251-263`).

### Agent calls

`at` is where a call is, `attempt` the retries, `model` the process or stream
behind it, `result` its last result, `oc` the outcome or the exception. A
call goes through one of three channels (`Route`): the SDK's stream, which has
no timeout, the CC-Switch subprocess, which is killed at its timeout, or an
injected runner, which alone may raise what `run_with_retry` retries. Of a
result its error flag, its cost and what its text parses to are kept.
`EngineCalls` replaces the free answers of `Engine` by those of the call: an
engine step that asks an agent begins a call, and `TakeException` and
`TakeOutcome` end it. `Crash` leaves the model running.

### Worktree, evidence, workspace

`head`, `index` and `work` are trees: paths to where their content comes from
(base, the controller's batch, anybody else). `pc` walks through the engine's
calls, one git command or file operation per action. `Stray` is everybody
else: they write, stage or commit any file at any moment, as often as
`MaxStrays` allows. `blind` is `preflight`'s habit of taking a failed `git diff`
for an empty one. `DeltaReport` is the commit and the tree as they were read,
by two commands. A stopped engine does not resume (module `Engine`), so a
worktree has one run, and what is left of it when its process ends is the
directory, the branch and the store.

`Ignored` are the paths that `.gitignore` matches. Git does not show such a path
as long as it is not in the index: the code lists untracked files with
`--exclude-standard` (`preflight.py:118`, `checkpoint.py:118`, `cleanup.py:247`),
and `git status` (`bundle.py:89`, `cleanup.py:120`) and `git worktree remove` go by
the same rules. `Untracked`, and with it `Dirty`, `Clean`, `Changes` and
`CopyUntracked`, leaves these files out, `Hidden` names them, `git add` refuses them
(`Add`), and `IsCheckout(t, c)` says that files `t` are commit `c`'s but for them.
The controller itself goes by names and contents: `snapshot_files`,
`apply_mutations` and its rollback treat an ignored file like any other. So each
property of the worktree says what it promises of ignored files:
`DeltaIsTheBatch` that an approved new one never gets into the delta,
`TestedIsReviewed` that they may lie beside the reviewed tree when the tests run,
`RefusedLeavesNothing` that those of the batch are restored too, and
`OnlyIgnoredIsLost` that the archive holds nothing of them. The rules do not
change: a task that edits `.gitignore` itself is not modelled. `Add` reads the
staged deletions in the step in which it adds.

Some strays go unnoticed by construction of the code, and a property that
pretended otherwise would be false. `Forgiven` names them, and each property
says which it excepts: `early`, a commit made before the first preflight, which
looks only at what is not committed; `late`, any act between the preflight and
the reading of the checkpoint; `split`, a commit between the readings of
HEAD's commit and HEAD's tree; `after`, a commit on the branch after the
tests; `undone`, a change taken back before it was looked for; `blind`, a
dirty worktree that a failed git diff hid; `torn`, a restore that failed in the
rollback. Without these exceptions TLC shows each of them to be needed.

`Evidence` brings each check's output from the command through a scratch file
into the store (`IngestData`, `IngestMeta`) and compares. `OtherTask` is a task of
the same configuration, which uses the same scratch names. `Workspace` adds
the end: `_promote`, or `archive_worktree` and `remove_worktree` in the order of
their reads. `patch` is what `delta.patch` restores, `copied` the untracked
files. The operator comes when no engine runs (`Exit`); what a dead one had in
memory, in its scratch files and in `odd` matters to nobody then.

### Pilot

`pc` is what `run_all` or `prove_criteria` does next, `reports` and `failed` their
results. Commits are numbered by the task that made them. The engine appears
as what `Engine` guarantees of it: it returns a final row or raises. The owner
commits and edits, the operator cancels, at any time. `late` remembers what was
merged when its row was no longer ready.

### Policy

The input of `evaluate` is the one variable. The walk starts from acceptable
inputs and loses, spoils, defers, demands or supplies one thing at a time, so
that action properties can compare two verdicts.

### Outbox

`rows` is committed, `work` is the open transaction's table. `Begin` is the
SELECT outside a transaction, `Send` and `Mark` alternate, `MarkBusy` ends a
batch by an exception, `Commit` is the caller's. Times are relative: `wait` is
what is left until `next_attempt_at`. The backoff counts from the start of a
batch, so what is left of it when the mark is written is any part of it.

## 3. Runs

| Run | Checks | Bounds, and why they suffice |
|---|---|---|
| `state_service` | `TypeOK`, `NoDrift`, `LedgerTellsRows`, `IdsUnique`, `AcknowledgedIsDurable`, `TerminalIsFinal`, `ProposalStaysValid`, `ImplementsLedger`, `CallReturns` | 2 connections (one kept, one closed after failures), 1 task, 4 event ids of which the closed one may use one that cannot be recorded, 4 target phases (advance twice, halt, cancel), reasons ok and blank. Two writers give every race of a read, a CAS and an append; three ids allow two moves and a duplicate |
| `transition_atomicity` | violation of `LedgerTellsRows` | an unrecordable id on a kept connection |
| `lease` | `TypeOK`, `MutualExclusion`, `TokensRise`, `TakenOverIsFenced` | 3 controllers, time 0..3, durations 1 and 2: a holder and two that race for its expired lease; row versions to 2 for heartbeats |
| `lease_fencing` | violation of `SupersededIsFenced` | time and versions to 4: takeover, release, third acquire |
| `engine` | `TypeOK`, `AskedOnce`, `PhaseIsBacked`, `EditsAreApproved`, `ReturnsFinal`, `ReadyIsEarned` | 2 engines and 3 starts: two at once, one after a crash of either; rows with and without a baseline |
| `engine_ends` | `AnswerIsEarned`, `PaidOnce`, `EngineEnds`, `CallsEnd` | 1 engine, 2 starts, other writers; all three channels; budgets 0 and 1 against costs 0 to 2; a deadline of 1 and a timeout of 2 on a clock to 3, so that an answer comes in time, late, or after the kill; 2 attempts |
| `engine_fails_closed` | violation of `FailsClosed` | 1 engine, 1 start |
| `engine_expired_approval` | violation of `ReadyIsApproved` | 1 engine, 1 start |
| `workspace` | `TypeOK`, `DeltaInScope`, `DeltaIsTheBatch`, `RefusedLeavesNothing`, `TestedIsReviewed`, `PromotedIsReviewed`, `BundleIsOwn`, `SidecarIsTrue`, `OnlyIgnoredIsLost` | 4 files: approved and tracked; approved and new; approved, new and ignored; tracked, binary and out of scope. 2 acts of others, so that one can undo another; that a path in the checkpoint's list becomes hidden before `git add` would take 3 and is left to the proofs. 1 check and the record itself |
| `pilot` | `CriteriaTellMain`, `MainIsTested` | 3 tasks, the last with the budget fault that the criteria ask for: two merges on top of each other and a halt; 2 commits of the owner; cancels at any time |
| `policy_monotone` | `LessNeverRaises`, `FailureIsNotBuried` | 3 gates, so that a failed, a missing and a passed one meet; at most 1 bad fact, since one decides as much as many |
| `outbox` | `TableIsTruthful`, `DuplicatesNeedACrash`, `SettledIsFinal`, `Settles` | 2 workers, 2 messages, 2 attempts, 1 crash: a retry, a give-up, and a stale batch in each |

Deadlock is not checked where processes end (engine, agent calls, workspace,
pilot), where inputs run out (policy) and where all messages are settled
(outbox). Elsewhere it is.
Symmetry is used only in runs without liveness properties, over
controllers, engines and gates; no action names one of them.

What the passing runs show beyond a test: the ledger replays to the row in
every interleaving of two connections with failures between (`NoDrift`); a
successor proposed from a diagnosis stays justified (`ProposalStaysValid`);
a second engine or a restart never repeats an agent call, because leaving
EDIT_AUTHORIZED is a compare-and-swap and the middle phases are never resumed
(`AskedOnce`); a verdict cannot be improved by withholding (`LessNeverRaises`);
an answer with a bad exit code behind it still counts and one that is late or
too dear never does (`AnswerIsEarned`); a worktree that others write to yields
a delta in scope or none (`DeltaInScope`), and what is tested, reviewed and merged is
one tree but for ignored files and the named exceptions; criteria that all hold rule out that a
cancelled task was merged (`CriteriaTellMain`), because a cancel changes the
row the report is compared with.

The diagnosis of `NoDrift` is of one commit. `doctor`, `health` and `recover` open
the database with `immutable=1` (`cli.py:37`) and read row and events by separate
statements: a checkpoint of the write-ahead log between them can show them a
drift that no commit ever had, and what is not checkpointed they do not see.

The CAS on phase and version and the UNIQUE constraint on event versions are
redundant defences of the ledger: with one of them removed the other
still keeps `NoDrift`. The mutants therefore disable other definitions.

### Disagreements between text and code

1. `transition_atomicity`: `state.py:3-5` promises row and event in one
   transaction; an exception other than `IntegrityError` after the UPDATE
   leaves it pending, and the engine's next commit persists it alone.
2. `lease_fencing`: `release` deletes the row, so tokens restart at 1; a
   superseded controller with token 1 gets its heartbeat served.
3. `engine_fails_closed`: `orchestrate.py:17` promises SAFE_HALT for mechanical
   errors; `ControllerMutationError` from the runner's `snapshot_files` and
   `SnapshotError` are not in the except clause.
4. `engine_expired_approval`: the policy table's R1 halts on an approval no
   longer valid; the engine passes `approval_valid=True` as a constant.

Others were met and have no run of their own:

* `transition` accepts any reason that is not blank (`state.py:78`), `TaskRecord` only
  one without outer blanks and control characters (`models.py:346`). A row with
  another reason, such as `"engine error: "` of an exception without a text,
  can never be read again, and `doctor` fails for all tasks.
* `orchestrate.py:17-18` says that an agent that does not complete makes the task
  FAILED; the code halts it (`orchestrate.py:263`).
* `cleanup.py:21` and `:240` take git's diff to end with one newline. A binary patch ends
  with two, `run_git` strips both (`base.py:107`, whose comment at `:78` says one), and
  git refuses the archived `delta.patch` as corrupt (tried with git 2.39). What
  a forced removal destroys of a changed binary file is then lost. The model
  has it (`Garbled`), and `OnlyIgnoredIsLost` excepts it.
* `cleanup.py:9-10` says that untracked files are copied to the archive one by one and
  that force loses no data therefore ("force 因此数据无损"). Ignored files are not
  copied (`:247`), do not make the worktree dirty, and `git worktree remove` deletes
  them with the rest, asked for by force or not. `OnlyIgnoredIsLost` states what
  is true. With the text's claim, `Recovered = work`, in its place TLC finds it
  violated by one write of an ignored file and a removal that was not forced.
* `orchestrate.py:340-341` says that any dirty state before the controller's
  application halts the task ("never bless it post hoc"). A write to an ignored
  path is not seen by that look nor by those of `bundle.py:92-94`: the task goes
  on, and its tests run with the file. An approved new file that is ignored is
  applied and tested, and is missing from the commit, the patch that is
  reviewed and what is merged; a batch of such files alone halts with "no actual
  changes to checkpoint". (`docs/M0-C-ACCEPTANCE.md:72` tells of two source files
  of this repository that an `artifacts/` rule hid from git.)
* `cleanup.py:7-9` and `:284`: nothing is removed by force that the caller did not ask
  for. The second look (`:305`) adds `--force` for a worktree that became dirty
  meanwhile, whatever `force` was.
* A worktree's base is HEAD at its creation and is compared with nothing: the
  `baseline_tree` the approval names may be an older one (`orchestrate.py:206-223`).
* `docs/M1-DESIGN.md:18` promises retries of temporary failures. `ClaudeSdkRunner.run`
  turns every exception of a query into an ERROR outcome (`claude_sdk.py:353-360`),
  and no runner raises what `retry.py` retries: with the SDK and the CLI there
  is one attempt. `agent_max_retries=0` ends in `raise None`, a TypeError.
* A budget of 0 is no limit for the SDK's options, no answer for the CLI
  (`float(None)`, `claude_sdk.py:276`) and the tightest one for `normalize_status`.
* A call that the CLI's timeout ends reports no usage; an answer after the
  deadline or over the budget halts the task and is recorded as completed (`orchestrate.py:252-263`).
* `SimpleNamespace(event)` (`claude_sdk.py:220`) takes a positional mapping from
  Python 3.13 on; `pyproject.toml:5` admits 3.11. The model has the behaviour of 3.13.
* `verify_approval` gives the signature to the decoder as hex (`approval_cli.py:113`), which
  expects base64: no signature verifies.

## 4. Fairness

* `StateService!FairSpec`: the steps of a call that was accepted. The UPDATE
  waits for the write lock, but not longer than `busy_timeout` (`db.py:154`),
  after which it fails: so no fairness of the lock's holder is assumed, who
  may keep it for ever.
* `Engine!FairSpec`: the engine's own steps (`Works`), for the same reason. An
  agent's answer is not fair: the SDK's query has no timeout. `EngineEnds`
  therefore says that a working engine ends or comes to wait for an agent.
* `EngineCalls!CFairSpec`: the engine's steps outside and at the end of a call, the
  steps of the call that are the program's own (`CallWorks`), and time. Nothing is
  assumed of a model, which may never answer and never exit: `CallsEnd` is about
  the CLI channel, whose timeout and kill need only the clock.
* `Outbox!FairSpec`: a worker that is called again and again, and a clock
  that runs. Nothing in the repository calls `process_due` yet, so this is an
  assumption about its future caller; `Settles` says that then it suffices.

## 5. Proofs

`StateServiceProofs` (for any connections, tasks, ids, phases and reasons
that satisfy the named assumptions of `StateService`):

* `TypeInvariant`: `TypeOK` is inductive. In passing: no blank reason is written.
* Under `DisciplinedCallers` (callers that keep a connection after a failure
  supply only ids that can be recorded; those that close it may supply any),
  which is exactly what run `transition_atomicity` shows to be needed:
  `LedgerAlwaysTellsRows`, `ServiceImplementsLedger`, `TerminalStaysFinal`,
  `AcknowledgedStaysDurable`, `IdsStayUnique`, `ProposalsStayValid`,
  `LedgerNeverDrifts`, `JudgedTasksAreTold`.

The inductive invariant is `IInv`. `LedgerTellsRows` alone is not inductive: a
commit publishes `work`, of which it says nothing. `WriterInv` adds what is
true of a writer: between its UPDATE and its INSERT it is one row ahead of
`db` (`OneRowAhead`), and otherwise, unless it hit an unrecordable event,
`work = db`. `OneRowAhead` makes the commit an atomic `Advance` of
`TaskLedger`, every other step leaves `db` alone, and the remaining
theorems follow from that: `Chained` is preserved by appending an event
(`ChainedGrows`), rows of ended tasks have no legal move, events only grow.

`InductiveInvariant` states `IInv` of the specification as a whole; it also
records that a committed move stays in the ledger (`CommittedInvariant`).

Three theorems are about who reads the ledger. `ProposalsStayValid`: a successor
is proposed of an ended task, whose row and events no later step touches.
`LedgerNeverDrifts`: `event_stream` lists a chained ledger from 1 without a gap
(`StreamIsHistory`), each round of `fold_task_stream` accepts the next event
(`ChainedReplays`), so the fold ends in the row (`FoldIsReached`). This is an
induction over the ledger; it is done by the least event at which the replay
would differ (`Least`, from the library's `WFMin`), and that the recursive
function of `FoldLeft` exists is shown by giving it (`RoundsExist`).
`JudgedTasksAreTold`: the ledger of a task that is ready, completed or failed has
an event of each phase on the only way there (`OnlyWayTo`), from the approval to
the policy. That is the criterion `evidence_policy_chain` of the pilot's
`prove_criteria`, which `Pilot` therefore does not check again.

`EngineProofs` (for any number of engine processes, starts and crashes, with or
without other writers, unlisted exceptions and a missing baseline; nothing
is assumed but that `Free` and `Other` are no engines): all six properties
that run `engine` checks. `AskedOnce` is not inductive: nothing in it says why
an engine that is about to ask did not ask before. `EngineInv` says who may
act. The engine that moved the task to IMPLEMENTING owns it (`Owns`) until it
leaves the body of the loop, and

* there is one owner (`OneOwner`), because the row only goes to IMPLEMENTING
  from EDIT_AUTHORIZED, where no engine owns it;
* the row is where the owner left it, or the task was stopped (`Follows`);
* a row that still has the version a transition read is the row it read
  (`SeenIsPast`), so that the guarded UPDATE commits only legal moves;
* what the owner has in memory and in its open transaction is what its next
  move claims (`Earned`, `Recorded`, `Authorized`, `Unasked`), and where nobody
  has begun yet, nobody was asked (`Early`).

`UntouchedKeeps` and `RowMoves` show once that steps of other processes keep
an engine's part; each action then only has to answer for its own engine.
`ReadyStaysEarned` follows since only a `MoveCommits` makes a row ready
(`OnlyMovesMove`). `RowsMoveLegally` says that the row changes by one legal
transition and one version at a time, as `TaskLedger` has it, though an engine
decides on what it read before; `OneEngineOwns` states the ownership itself.

`EngineCallsProofs` (any budgets, costs, deadlines, timeouts and attempts).
`CallsImplementEngine`: each step of the composition is one of `Engine` or leaves
its variables alone, so `EnginePromisesHold` carries the theorems over.
`CallInv` is what the call needs for itself: at most one result is held, nothing
is paid at its beginning, and a finished call has an acceptable outcome exactly
if the model delivered (`OutcomeIsEarned` does `role_outcome` and the two
channels). With the deadline that gives `AnswersAreEarned`; `ModelIsPaidOnce` is a
conjunct, because no exception that follows a result is one `run_with_retry`
retries. `CompletedRunsAreDelivered` and `OnlyGoodAnswersAreUsed` relate call and
engine: of what `agent_runs` says and of what the engine does with an answer.
All four except injected runners (`Real`), which may return anything.

`WorkspaceProofs` (any files, approval, checks and number of acts of others): all
nine properties of run `workspace`. `IInv` follows the walk (`Quiet(c)` are the
ignored paths that commit `c` does not hold, of which it says little):

* `Applying`: what is written lies in the batch and the approval, and how much of
  it is done at each step;
* `Undisturbed`: from the preflight on the worktree is the commit with the part
  of the batch that is written, quiet paths aside, if nobody else acts (`Alone`),
  and what is still to be written is what the model saw; index, commit and delta
  then take over what is not quiet (`Target`). `DeltaIsWhatWasApplied` and `RefusalIsWhole` rest on it;
* `Testing`: the delta was compared with the scope when it was captured; commit
  and tree of the delta agree unless they were split; as long as the number of
  commits is the one that was bound, the branch holds the tree that what was
  tested is a checkout of, and a worktree that was dirty when a command ran still is, unless somebody undid
  it. `ScopeIsKept`, `TestsRunOnWhatIsReviewed`, `PromotionIsReviewed`;
* `Storing`: outputs that are no longer left are in the store and the command's
  own, and a sidecar is written after its data and compared. `BundlesAreOwn`,
  `SidecarsAreTrue`;
* `Archiving`: the operator acts when the engine does not, and the parts of the
  archive are what git showed as long as nobody acted since. `ArchiveIsComplete`.

Each part is shown to be kept by each action, with `CleanIsCommitted` (what git
shows as clean is a checkout of the commit, and the index is the commit) as the lemma that ties looks to contents.

`LeaseProofs` (any controllers and durations): `LeaseInv` says, as long as no
lease was released, that tokens count the generations, that of all grants only
the last one can still run and is the row's (`GrantIsRow`), and that what a
call read is not newer than the row (`CallIsPast`). `HoldersExclude`,
`TokensKeepRising` and `TakenOverStaysFenced` follow. After a release the token
starts again at 1: run `lease_fencing` shows what then happens.

`OutboxProofs` (any workers, messages, numbers of attempts and crashes):
`TableStaysTruthful` from `Truthful`, which also counts what is sent and not yet
marked; `SettledStaysFinal` from `OneWriter` (without a writer there is one table, and a
writer's open transaction leaves settled rows alone); `DuplicatesStayExplained` from
`Undisturbed` (without a crash and with one worker at a time, each send is
followed by its mark before the message is read again).

`PilotProofs` (any number of tasks, faults and acts of owner and operator):
`MainStaysTested`. The invariant `MergeIsReported` says that a merge is preceded
by a report that the task is ready; that main is below the branch is what
`git merge --ff-only` asks. `CriteriaKeepToMain` needs `PilotInv`: reports come in
the order of the tasks, one each (`InOrder`); a task's checkpoint reaches main or the branch of
another task only after the task was reported ready (`OnlyReported`), and a task
that is or was reported ready has one (`Committed`); once its merge is over it is
in main (`Merged`); a task merged late has a row that is not ready any more,
and the comparison of reports and rows fails (`LateIsSeen`).

`PolicyProofs`: `PolicyTypes`, and for every set of gates `VerdictIsMonotone` and
`FailuresStay`. `StandingIs` turns the early returns into two conjunctions over
all gates and facts; a weakening step can only make a conjunct false. `FailIs` does
the same for FAIL: a failed gate and nothing that returns earlier, which
more checks cannot change (`SupplyKeepsFailures`).

Only model-checked is liveness (`CallReturns`, `EngineEnds`, `CallsEnd`, `Settles`):
fairness and ENABLED are out of the prover's reach. Every other property of a
passing run is a theorem.

## 6. Not modelled, and the plan

Next come abstract specifications of the lease (a resource with a history of
holders) and of the outbox (a message and what is known of it) with proofs
that the modules implement them, and of the service as `Engine` uses it.

Not modelled:

* `approval_cli.py` and `attest.py`: pure functions of a record and a key with one
  INSERT; no other part calls them and nothing runs concurrently.
* Prompts, report parsing and tool permissions in `agents/`, canonical JSON
  encoding, the field checks of `models.py`, the sample repository and the
  metrics of the pilot: text and data that no property tells apart.
* Clocks that differ between controllers; several connections inside one
  engine process; power loss that SQLite or the file system does not survive.
