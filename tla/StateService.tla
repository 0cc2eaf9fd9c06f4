----------------------------- MODULE StateService -----------------------------
(***************************************************************************)
(* The state service of AOTF: state.transition and the part of store.py it *)
(* calls, run by several SQLite connections on one database in WAL mode.   *)
(*                                                                         *)
(* A call of transition is split where another connection can get in:      *)
(*                                                                         *)
(*    Accept/Refuse   get_task, outside any transaction unless the caller  *)
(*                    has one open, and the checks on the row it read      *)
(*    CasHit/CasMiss  the UPDATE guarded by that row's phase and version,  *)
(*                    which makes the connection the single writer         *)
(*    AppendEvent     the INSERT of the event, and commit or rollback      *)
(*    Reread          get_task again, for the value the caller receives    *)
(*                                                                         *)
(* Python's sqlite3 opens a deferred transaction before every UPDATE and   *)
(* INSERT, and nothing but commit, rollback or close ends it: a call that  *)
(* fails half-way leaves the connection in the middle of a transaction.    *)
(***************************************************************************)
EXTENDS TaskPhases, Naturals

CONSTANTS Conns,            \* connections to the database
          NoConn,           \* not a connection
          Tasks,            \* task ids
          EventIds,         \* event ids callers may supply
          UnrecordableIds,  \* those for which no EventRecord can be built
          Keepers,          \* connections used again after a failed call; the
                            \* others are closed after one call, as the CLI does
          KeeperIds,        \* the event ids that callers with such a
                            \* connection supply
          Targets,          \* the phases callers ask for
          Reasons           \* the terminal_reason arguments they give

ASSUME ConnAssumption   == NoConn \notin Conns
ASSUME SomeAssumption   == Tasks # {} /\ EventIds # {}
ASSUME IdAssumption     == UnrecordableIds \subseteq EventIds
ASSUME KeeperAssumption == Keepers \subseteq Conns /\ KeeperIds \subseteq EventIds
ASSUME TargetAssumption == Targets \subseteq TaskPhase
ASSUME ReasonAssumption == Reasons \subseteq {"none", "ok", "malformed", "blank"}

VARIABLES db,     \* what is committed: the tables tasks and events
          lock,   \* the connection that is SQLite's one writer, or NoConn
          work,   \* the tables as the writer sees them, uncommitted
          txn,    \* the transaction each connection is in
          snap,   \* the tables as a pinned read transaction sees them
          pc,     \* where in transition each connection is
          req,    \* arguments of the call and the row its first read returned
          ret     \* outcome of the connection's last call

vars == <<db, lock, work, txn, snap, pc, req, ret>>

\* The reasons a row may hold. The argument terminal_reason may also be blank,
\* which no row ever holds.
RowReason == {"none", "ok", "malformed"}

Row == [phase : TaskPhase, version : Nat, reason : RowReason]

\* A task id without a row.
NoRow      == [phase |-> "ABSENT", version |-> 0, reason |-> "none"]
CreatedRow == [phase |-> "CREATED", version |-> 0, reason |-> "none"]

Event == [id : EventIds, task : Tasks, version : Nat,
          from : TaskPhase, to : TaskPhase, reason : RowReason]

Database == [rows : [Tasks -> Row \cup {NoRow}], events : SUBSET Event]

EmptyDb == [rows |-> [t \in Tasks |-> NoRow], events |-> {}]

Request == [task : Tasks, to : TaskPhase, reason : RowReason, id : EventIds,
            from : TaskPhase, version : Nat]

NoRequest == [task |-> CHOOSE t \in Tasks : TRUE, to |-> "CREATED",
              reason |-> "none", id |-> CHOOSE e \in EventIds : TRUE,
              from |-> "CREATED", version |-> 0]

Refusals == {"VERSION_CONFLICT", "TERMINAL_STATE", "INVALID_STATE_TRANSITION",
             "INVALID_INPUT", "UNREADABLE"}

Outcomes == Refusals \cup {"NONE", "OK", "IDEMPOTENCY_CONFLICT", "BUSY",
                           "UNRECORDABLE"}

\* none: autocommit.  begun: BEGIN was executed but no statement has run in
\* the transaction yet.  pinned: a read has fixed the snapshot it sees.
\* writing: it holds the write lock.
TxnState == {"none", "begun", "pinned", "writing"}

-------------------------------------------------------------------------------
(* What a connection sees, and what it takes to become the writer.         *)

View(c) == CASE txn[c] = "writing" -> work
             [] txn[c] = "pinned"  -> snap[c]
             [] OTHER              -> db

\* A pinned transaction can be upgraded only while its snapshot is current.
CanWrite(c) == \/ lock = c
               \/ /\ lock = NoConn
                  /\ txn[c] = "pinned" => snap[c] = db

\* The first read of a deferred transaction pins its snapshot.
ReadThrough(c) ==
    IF txn[c] = "begun"
    THEN /\ txn'  = [txn  EXCEPT ![c] = "pinned"]
         /\ snap' = [snap EXCEPT ![c] = db]
    ELSE UNCHANGED <<txn, snap>>

BecomeWriter(c) == /\ lock' = c
                   /\ txn'  = [txn  EXCEPT ![c] = "writing"]
                   /\ snap' = [snap EXCEPT ![c] = EmptyDb]

\* commit, rollback and close: what they leave of the transaction.
EndTransaction(c, newDb) ==
    /\ db'   = newDb
    /\ txn'  = [txn  EXCEPT ![c] = "none"]
    /\ snap' = [snap EXCEPT ![c] = EmptyDb]
    /\ IF lock = c THEN lock' = NoConn /\ work' = EmptyDb
                   ELSE UNCHANGED <<lock, work>>

\* TaskRecord accepts the row: get_task returns it instead of raising.
Readable(row) == /\ row.reason # "malformed"
                 /\ row.phase \in TERMINAL_TASK_PHASES <=> row.reason # "none"

-------------------------------------------------------------------------------
Init == /\ db = EmptyDb
        /\ lock = NoConn
        /\ work = EmptyDb
        /\ txn  = [c \in Conns |-> "none"]
        /\ snap = [c \in Conns |-> EmptyDb]
        /\ pc   = [c \in Conns |-> "idle"]
        /\ req  = [c \in Conns |-> NoRequest]
        /\ ret  = [c \in Conns |-> "NONE"]

\* A task is inserted at version 0 and committed in one transaction.
CreateTask(t) ==
    /\ lock = NoConn
    /\ db.rows[t] = NoRow
    /\ db' = [rows   |-> [db.rows EXCEPT ![t] = CreatedRow],
              events |-> db.events]
    /\ UNCHANGED <<lock, work, txn, snap, pc, req, ret>>

\* Whether the caller issues another statement on this connection.
MayUse(c) == /\ pc[c] = "idle"
             /\ c \in Keepers \/ ret[c] = "NONE"

\* The event ids of its caller: the engine makes its own, an operator types.
Supplied(c) == IF c \in Keepers THEN KeeperIds ELSE EventIds

\* Mutant: only an absent reason is refused, not a blank one.
CheckTakesBlank(row, to, reason) ==
    CASE row = NoRow                         -> "VERSION_CONFLICT"
      [] row # NoRow /\ ~ CanTransition(row.phase, to)
                                             -> "TERMINAL_STATE"
      [] /\ row # NoRow /\ CanTransition(row.phase, to)
         /\ to \in TERMINAL_TASK_PHASES /\ reason = "none"
                                             -> "INVALID_INPUT"
      [] OTHER                               -> "OK"

(* The checks of transition on the row it read, in their order.            *)
Check(row, to, reason) ==
    CASE row = NoRow                        -> "VERSION_CONFLICT"
      [] row # NoRow /\ ~ Readable(row)     -> "UNREADABLE"
      [] /\ row # NoRow /\ Readable(row)
         /\ row.phase \in TERMINAL_TASK_PHASES
                                            -> "TERMINAL_STATE"
      [] /\ row # NoRow /\ Readable(row)
         /\ row.phase \notin TERMINAL_TASK_PHASES
         /\ ~ CanTransition(row.phase, to)  -> "INVALID_STATE_TRANSITION"
      [] /\ row # NoRow /\ Readable(row)
         /\ CanTransition(row.phase, to)
         /\ to \in TERMINAL_TASK_PHASES
         /\ reason \in {"none", "blank"}    -> "INVALID_INPUT"
      [] OTHER                              -> "OK"

Refuse(c, t, to, reason) ==
    /\ MayUse(c)
    /\ Check(View(c).rows[t], to, reason) # "OK"
    /\ ReadThrough(c)
    /\ req' = [req EXCEPT ![c] = NoRequest]
    /\ ret' = [ret EXCEPT ![c] = Check(View(c).rows[t], to, reason)]
    /\ UNCHANGED <<db, lock, work, pc>>

\* Mutant: the reason is kept whatever the target.
AcceptKeepingReason(c, t, to, reason, id) ==
    /\ MayUse(c)
    /\ Check(View(c).rows[t], to, reason) = "OK"
    /\ ReadThrough(c)
    /\ pc'  = [pc EXCEPT ![c] = "cas"]
    /\ req' = [req EXCEPT ![c] =
                 [task |-> t, to |-> to, id |-> id, reason |-> reason,
                  from    |-> View(c).rows[t].phase,
                  version |-> View(c).rows[t].version]]
    /\ ret' = [ret EXCEPT ![c] = "NONE"]
    /\ UNCHANGED <<db, lock, work>>

\* A reason given with a target that is not terminal is dropped.
Accept(c, t, to, reason, id) ==
    /\ MayUse(c)
    /\ Check(View(c).rows[t], to, reason) = "OK"
    /\ ReadThrough(c)
    /\ pc'  = [pc EXCEPT ![c] = "cas"]
    /\ req' = [req EXCEPT ![c] =
                 [task |-> t, to |-> to, id |-> id,
                  reason  |-> IF to \in TERMINAL_TASK_PHASES
                              THEN reason ELSE "none",
                  from    |-> View(c).rows[t].phase,
                  version |-> View(c).rows[t].version]]
    /\ ret' = [ret EXCEPT ![c] = "NONE"]
    /\ UNCHANGED <<db, lock, work>>

\* The tables the UPDATE runs on: it opens a transaction of its own, whose
\* snapshot is the last commit, unless the connection already writes.
Base(c) == IF lock = c THEN work ELSE db

Matches(c) == /\ Base(c).rows[req[c].task].phase   = req[c].from
              /\ Base(c).rows[req[c].task].version = req[c].version

CasHit(c) ==
    /\ pc[c] = "cas"
    /\ CanWrite(c)
    /\ Matches(c)
    /\ BecomeWriter(c)
    /\ work' = [rows   |-> [Base(c).rows EXCEPT ![req[c].task] =
                             [phase |-> req[c].to, version |-> @.version + 1,
                              reason |-> req[c].reason]],
                events |-> Base(c).events]
    /\ pc' = [pc EXCEPT ![c] = "append"]
    /\ UNCHANGED <<db, req, ret>>

\* An UPDATE that matches no row takes the write lock all the same, and
\* transition raises VERSION_CONFLICT without a rollback.
CasMiss(c) ==
    /\ pc[c] = "cas"
    /\ CanWrite(c)
    /\ ~ Matches(c)
    /\ BecomeWriter(c)
    /\ work' = Base(c)
    /\ pc'  = [pc  EXCEPT ![c] = "idle"]
    /\ req' = [req EXCEPT ![c] = NoRequest]
    /\ ret' = [ret EXCEPT ![c] = "VERSION_CONFLICT"]
    /\ UNCHANGED db

\* Mutant: no busy timeout, the UPDATE waits for the lock.
CasWaits(c) == /\ pc[c] = "cas"
               /\ ~ CanWrite(c)
               /\ UNCHANGED vars

\* database is locked: the busy timeout of the UPDATE ran out, or the
\* connection's snapshot is stale. BEGIN has been executed and stays.
CasBusy(c) ==
    /\ pc[c] = "cas"
    /\ ~ CanWrite(c)
    /\ txn' = [txn EXCEPT ![c] = IF @ = "none" THEN "begun" ELSE @]
    /\ pc'  = [pc  EXCEPT ![c] = "idle"]
    /\ req' = [req EXCEPT ![c] = NoRequest]
    /\ ret' = [ret EXCEPT ![c] = "BUSY"]
    /\ UNCHANGED <<db, lock, work, snap>>

\* Mutant: the event carries the version before the move.
NewEventOldVersion(c) == [id |-> req[c].id, task |-> req[c].task,
                          version |-> req[c].version,
                          from |-> req[c].from, to |-> req[c].to,
                          reason |-> req[c].reason]

NewEvent(c) == [id |-> req[c].id, task |-> req[c].task,
                version |-> req[c].version + 1,
                from |-> req[c].from, to |-> req[c].to,
                reason |-> req[c].reason]

\* Mutant: the schema without the primary key.
DuplicateVersion(c) == \E e \in work.events :
                         e.task = req[c].task /\ e.version = req[c].version + 1

\* PRIMARY KEY (event_id) and UNIQUE (type, aggregate, version).
Duplicate(c) == \E e \in work.events :
                  \/ e.id = req[c].id
                  \/ e.task = req[c].task /\ e.version = req[c].version + 1

\* The record cannot be built: the error leaves the UPDATE in the open
\* transaction.
AppendFails(c) ==
    /\ pc[c] = "append"
    /\ req[c].id \in UnrecordableIds
    /\ pc'  = [pc  EXCEPT ![c] = "idle"]
    /\ req' = [req EXCEPT ![c] = NoRequest]
    /\ ret' = [ret EXCEPT ![c] = "UNRECORDABLE"]
    /\ UNCHANGED <<db, lock, work, txn, snap>>

\* Mutant: the duplicate is reported without conn.rollback().
AppendWithoutRollback(c) ==
    /\ pc[c] = "append"
    /\ req[c].id \notin UnrecordableIds
    /\ Duplicate(c)
    /\ pc'  = [pc  EXCEPT ![c] = "idle"]
    /\ req' = [req EXCEPT ![c] = NoRequest]
    /\ ret' = [ret EXCEPT ![c] = "IDEMPOTENCY_CONFLICT"]
    /\ UNCHANGED <<db, lock, work, txn, snap>>

AppendRollsBack(c) ==
    /\ pc[c] = "append"
    /\ req[c].id \notin UnrecordableIds
    /\ Duplicate(c)
    /\ EndTransaction(c, db)
    /\ pc'  = [pc  EXCEPT ![c] = "idle"]
    /\ req' = [req EXCEPT ![c] = NoRequest]
    /\ ret' = [ret EXCEPT ![c] = "IDEMPOTENCY_CONFLICT"]

\* Mutant: the commit is left to the caller.
AppendWithoutCommit(c) ==
    /\ pc[c] = "append"
    /\ req[c].id \notin UnrecordableIds
    /\ ~ Duplicate(c)
    /\ work' = [rows |-> work.rows, events |-> work.events \cup {NewEvent(c)}]
    /\ pc' = [pc EXCEPT ![c] = "reread"]
    /\ UNCHANGED <<db, lock, txn, snap, req, ret>>

\* The commit takes along whatever the caller had pending.
AppendCommits(c) ==
    /\ pc[c] = "append"
    /\ req[c].id \notin UnrecordableIds
    /\ ~ Duplicate(c)
    /\ EndTransaction(c, [rows   |-> work.rows,
                          events |-> work.events \cup {NewEvent(c)}])
    /\ pc' = [pc EXCEPT ![c] = "reread"]
    /\ UNCHANGED <<req, ret>>

\* The record the caller gets is read after the commit: another connection
\* may have moved the task on, and a malformed reason makes it unreadable.
Reread(c) ==
    /\ pc[c] = "reread"
    /\ pc'  = [pc  EXCEPT ![c] = "idle"]
    /\ ret' = [ret EXCEPT ![c] = IF Readable(View(c).rows[req[c].task])
                                 THEN "OK" ELSE "UNREADABLE"]
    /\ UNCHANGED <<db, lock, work, txn, snap, req>>

-------------------------------------------------------------------------------
(* What callers do to the connection outside transition.                   *)

\* A row of the caller's own (record_run, save_snapshot): it opens the write
\* transaction that the next transition commits.
CallerWrites(c) ==
    /\ MayUse(c)
    /\ lock # c
    /\ CanWrite(c)
    /\ BecomeWriter(c)
    /\ work' = db
    /\ UNCHANGED <<db, pc, req, ret>>

CallerBusy(c) ==
    /\ MayUse(c)
    /\ txn[c] = "none"
    /\ ~ CanWrite(c)
    /\ txn' = [txn EXCEPT ![c] = "begun"]
    /\ UNCHANGED <<db, lock, work, snap, pc, req, ret>>

CallerCommits(c) ==
    /\ MayUse(c)
    /\ txn[c] # "none"
    /\ EndTransaction(c, IF lock = c THEN work ELSE db)
    /\ UNCHANGED <<pc, req, ret>>

\* conn.close() in the caller's finally, or the end of its process at any
\* step: SQLite rolls the open transaction back.
Disconnect(c) ==
    /\ txn[c] # "none" \/ pc[c] # "idle" \/ ret[c] # "NONE"
    /\ EndTransaction(c, db)
    /\ pc'  = [pc  EXCEPT ![c] = "idle"]
    /\ req' = [req EXCEPT ![c] = NoRequest]
    /\ ret' = [ret EXCEPT ![c] = "NONE"]

-------------------------------------------------------------------------------
Call(c) == \E t \in Tasks, to \in Targets, reason \in Reasons :
             \/ Refuse(c, t, to, reason)
             \/ \E id \in Supplied(c) : Accept(c, t, to, reason, id)

Update(c) == CasHit(c) \/ CasMiss(c) \/ CasBusy(c)

AppendEvent(c) == AppendFails(c) \/ AppendRollsBack(c) \/ AppendCommits(c)

Caller(c) == CallerWrites(c) \/ CallerBusy(c) \/ CallerCommits(c)

Next == \/ \E t \in Tasks : CreateTask(t)
        \/ \E c \in Conns : \/ Call(c)   \/ Update(c) \/ AppendEvent(c)
                            \/ Reread(c) \/ Caller(c) \/ Disconnect(c)

Spec == Init /\ [][Next]_vars

\* A call that was accepted runs to its end: the busy timeout bounds the wait
\* of the UPDATE, and the other steps wait for nothing. Nothing is assumed of
\* the callers, who may keep a transaction open for ever.
Fairness == \A c \in Conns : /\ WF_vars(Update(c))
                             /\ WF_vars(AppendEvent(c))
                             /\ WF_vars(Reread(c))

FairSpec == Spec /\ Fairness

-------------------------------------------------------------------------------
(* Properties.                                                             *)

\* Every variable has its type.
TypeOK == /\ db   \in Database
          /\ lock \in Conns \cup {NoConn}
          /\ work \in Database
          /\ txn  \in [Conns -> TxnState]
          /\ snap \in [Conns -> Database]
          /\ pc   \in [Conns -> {"idle", "cas", "append", "reread"}]
          /\ req  \in [Conns -> Request]
          /\ ret  \in [Conns -> Outcomes]

History(d, t) == {e \in d.events : e.task = t}

\* The events of a task form one unbroken chain of legal moves, numbered from
\* 1 without gap or repetition, that starts in CREATED and ends in its row.
Chained(d, t) ==
    LET row == d.rows[t] IN
    /\ \A v \in 1..row.version : \E e \in History(d, t) : e.version = v
    /\ row.version = 0 => row \in {NoRow, CreatedRow}
    /\ \A e \in History(d, t) :
         /\ e.version \in 1..row.version
         /\ CanTransition(e.from, e.to)
         /\ e.to \in TERMINAL_TASK_PHASES <=> e.reason # "none"
         /\ e.version = 1 => e.from = "CREATED"
         /\ e.version = row.version => e.to = row.phase /\ e.reason = row.reason
         /\ \A f \in History(d, t) :
              /\ f.version = e.version => f = e
              /\ f.version = e.version + 1 => f.from = e.to

\* What is committed is at every moment a ledger that tells each task's row,
\* whichever calls failed, lost a race or were cut off half-way
\* (state.py:3-5, "in a single transaction").
LedgerTellsRows == \A t \in Tasks : Chained(db, t)

\* An event id names one event: a call retried with its id is not applied
\* twice (the PRIMARY KEY of events, IDEMPOTENCY_CONFLICT).
IdsUnique == \A e, f \in db.events : e.id = f.id => e = f

\* A caller that was told OK finds its move in the committed ledger, and the
\* task at that version or beyond, whatever others did before the answer.
AcknowledgedIsDurable ==
    \A c \in Conns : ret[c] = "OK" =>
      /\ NewEvent(c) \in db.events
      /\ db.rows[req[c].task].version >= req[c].version + 1

Ended == {"COMPLETED", "FAILED", "CANCELLED", "SAFE_HALT"}

\* A task that has ended stays as it ended, and nothing is ever taken out of
\* the ledger (state.py:67-71).
TerminalIsFinal ==
    [][/\ db.events \subseteq db'.events
       /\ \A t \in Tasks : db.rows[t].phase \in Ended =>
            db'.rows[t] = db.rows[t]]_vars

\* Every call that was accepted returns, though another connection may hold
\* the write lock for ever (db.py:154, busy_timeout).
CallReturns == \A c \in Conns : pc[c] # "idle" ~> pc[c] = "idle"

-------------------------------------------------------------------------------
(* Why the ledger holds: the inductive invariant behind the proofs.        *)

\* No connection goes on using a transaction in which an event could not be
\* recorded: callers that keep theirs supply only ids that can be.
DisciplinedCallers == KeeperIds \cap UnrecordableIds = {}

\* What every accepted call asks for.
LegalRequest(r) == /\ CanTransition(r.from, r.to)
                   /\ r.to \in TERMINAL_TASK_PHASES <=> r.reason # "none"

\* Between its UPDATE and its INSERT a writer is exactly one row ahead of what
\* is committed.
OneRowAhead(c) ==
    LET r == req[c] IN
    /\ db.rows[r.task].phase   = r.from
    /\ db.rows[r.task].version = r.version
    /\ work = [rows   |-> [db.rows EXCEPT ![r.task] =
                             [phase |-> r.to, version |-> r.version + 1,
                              reason |-> r.reason]],
                events |-> db.events]

WriterInv ==
    \A c \in Conns :
      /\ txn[c] = "writing" <=> lock = c
      /\ pc[c] = "append" => lock = c /\ OneRowAhead(c)
      /\ pc[c] = "reread" => txn[c] = "none"
      /\ pc[c] # "idle" => /\ ret[c] = "NONE" /\ LegalRequest(req[c])
                        /\ req[c].id \in Supplied(c)
      /\ ret[c] = "UNRECORDABLE" => c \notin Keepers
      /\ lock = c /\ pc[c] # "append" /\ ret[c] # "UNRECORDABLE" => work = db

\* A committed move stays committed, from the commit on.
CommittedIsDurable ==
    \A c \in Conns : pc[c] = "reread" \/ ret[c] = "OK" =>
      /\ NewEvent(c) \in db.events
      /\ db.rows[req[c].task].version >= req[c].version + 1

IInv == /\ TypeOK
        /\ WriterInv
        /\ LedgerTellsRows
        /\ IdsUnique
        /\ CommittedIsDurable

-------------------------------------------------------------------------------
\* The service implements the atomic ledger.
Atomic == INSTANCE TaskLedger WITH rows <- db.rows, events <- db.events
ImplementsLedger == Atomic!Spec
===============================================================================
