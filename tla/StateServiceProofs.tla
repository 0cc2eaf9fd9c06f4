-------------------------- MODULE StateServiceProofs --------------------------
(***************************************************************************)
(* Proofs about StateService and what EventLedger reads from it, for any   *)
(* connections, tasks, ids and callers.                                    *)
(***************************************************************************)
EXTENDS EventLedger, FiniteSetTheorems, WellFoundedInduction, TLAPS

USE DEF RowReason, TxnState

\* What a call whose checks passed may rely on.
LEMMA CheckOk ==
    ASSUME NEW row \in Row \cup {NoRow}, NEW to \in Targets, NEW reason \in Reasons,
           Check(row, to, reason) = "OK"
    PROVE  /\ row \in Row
           /\ CanTransition(row.phase, to)
           /\ to \in TERMINAL_TASK_PHASES => reason \in {"ok", "malformed"}
PROOF
  <1>1. row # NoRow
    BY DEF Check
  <1>2. Readable(row)
    BY <1>1 DEF Check
  <1>3. row.phase \notin TERMINAL_TASK_PHASES
    BY <1>1, <1>2 DEF Check
  <1>4. CanTransition(row.phase, to)
    BY <1>1, <1>2, <1>3 DEF Check
  <1>5. to \in TERMINAL_TASK_PHASES => reason \notin {"none", "blank"}
    BY <1>1, <1>2, <1>3, <1>4 DEF Check
  <1> QED
    BY <1>1, <1>4, <1>5, ReasonAssumption

LEMMA EmptyTyped == EmptyDb \in Database /\ NoRequest \in Request
PROOF
  <1>1. EmptyDb \in Database
    BY DEF EmptyDb, Database
  <1>2. NoRequest \in Request
    BY SomeAssumption DEF NoRequest, Request, TaskPhase
  <1> QED
    BY <1>1, <1>2

LEMMA ViewTyped == ASSUME TypeOK, NEW c \in Conns
                   PROVE  View(c) \in Database
BY DEF TypeOK, View

LEMMA EndTransactionTyped ==
    ASSUME TypeOK, NEW c \in Conns, NEW d \in Database, EndTransaction(c, d)
    PROVE  /\ db' \in Database
           /\ lock' \in Conns \cup {NoConn}
           /\ work' \in Database
           /\ txn' \in [Conns -> TxnState]
           /\ snap' \in [Conns -> Database]
BY EmptyTyped DEF TypeOK, EndTransaction

LEMMA TypeStep ==
    ASSUME TypeOK, [Next]_vars
    PROVE  TypeOK'
PROOF
  <1>1. ASSUME NEW t \in Tasks, CreateTask(t) PROVE TypeOK'
    <2>1. CreatedRow \in Row
      BY DEF CreatedRow, Row, TaskPhase
    <2>2. db' \in Database
      BY <1>1, <2>1 DEF CreateTask, TypeOK, Database
    <2> QED
      BY <1>1, <2>2 DEF CreateTask, TypeOK
  <1>2. ASSUME NEW c \in Conns, NEW t \in Tasks, NEW to \in Targets,
               NEW reason \in Reasons, Refuse(c, t, to, reason)
        PROVE  TypeOK'
    <2>1. Check(View(c).rows[t], to, reason) \in Outcomes
      BY DEF Check, Outcomes, Refusals
    <2> QED
      BY <1>2, <2>1, EmptyTyped DEF Refuse, ReadThrough, TypeOK
  <1>3. ASSUME NEW c \in Conns, NEW t \in Tasks, NEW to \in Targets,
               NEW reason \in Reasons, NEW id \in Supplied(c),
               Accept(c, t, to, reason, id)
        PROVE  TypeOK'
    <2>0. id \in EventIds
      BY KeeperAssumption DEF Supplied
    <2> DEFINE row == View(c).rows[t]
    <2>1. row \in Row \cup {NoRow}
      BY ViewTyped DEF Database
    <2>2. row \in Row /\ (to \in TERMINAL_TASK_PHASES => reason \in RowReason)
      BY <1>3, <2>1, CheckOk DEF Accept
    <2>3. req' \in [Conns -> Request]
      <3>1. [task |-> t, to |-> to, id |-> id,
             reason |-> IF to \in TERMINAL_TASK_PHASES THEN reason ELSE "none",
             from |-> row.phase, version |-> row.version] \in Request
        BY <2>0, <2>2, TargetAssumption DEF Request, Row
      <3> QED
        BY <1>3, <3>1 DEF Accept, TypeOK
    <2>4. ret' \in [Conns -> Outcomes]
      BY <1>3 DEF Accept, TypeOK, Outcomes
    <2> QED
      BY <1>3, <2>3, <2>4 DEF Accept, ReadThrough, TypeOK
  <1>4. ASSUME NEW c \in Conns, CasHit(c) PROVE TypeOK'
    <2> DEFINE r == req[c]
    <2>1. Base(c) \in Database /\ r \in Request
      BY DEF Base, TypeOK
    <2>2. Base(c).rows[r.task].version \in Nat
      BY <1>4, <2>1 DEF CasHit, Matches, Request
    <2>3. [phase |-> r.to, version |-> Base(c).rows[r.task].version + 1,
           reason |-> r.reason] \in Row
      BY <2>1, <2>2 DEF Row, Request
    <2>4. work' \in Database
      BY <1>4, <2>1, <2>3 DEF CasHit, Database, Request
    <2> QED
      BY <1>4, <2>4, EmptyTyped DEF CasHit, BecomeWriter, TypeOK
  <1>5. ASSUME NEW c \in Conns, CasMiss(c) PROVE TypeOK'
    <2>1. work' \in Database
      BY <1>5 DEF CasMiss, Base, TypeOK
    <2> QED
      BY <1>5, <2>1, EmptyTyped DEF CasMiss, BecomeWriter, TypeOK, Outcomes, Refusals
  <1>6. ASSUME NEW c \in Conns, CasBusy(c) PROVE TypeOK'
    BY <1>6, EmptyTyped DEF CasBusy, TypeOK, Outcomes
  <1>7. ASSUME NEW c \in Conns, AppendFails(c) PROVE TypeOK'
    BY <1>7, EmptyTyped DEF AppendFails, TypeOK, Outcomes
  <1>8. ASSUME NEW c \in Conns, AppendRollsBack(c) PROVE TypeOK'
    <2>1. db \in Database
      BY DEF TypeOK
    <2> QED
      BY <1>8, <2>1, EndTransactionTyped, EmptyTyped
      DEF AppendRollsBack, TypeOK, Outcomes
  <1>9. ASSUME NEW c \in Conns, AppendCommits(c) PROVE TypeOK'
    <2> DEFINE d == [rows   |-> work.rows,
                  events |-> work.events \cup {NewEvent(c)}]
    <2>1. NewEvent(c) \in Event
      BY DEF NewEvent, Event, TypeOK, Request
    <2>2. d \in Database
      BY <2>1 DEF Database, TypeOK
    <2> HIDE DEF d
    <2>3. EndTransaction(c, d)
      BY <1>9 DEF AppendCommits, d
    <2> QED
      BY <1>9, <2>2, <2>3, EndTransactionTyped DEF AppendCommits, TypeOK
  <1>10. ASSUME NEW c \in Conns, Reread(c) PROVE TypeOK'
    BY <1>10 DEF Reread, TypeOK, Outcomes, Refusals
  <1>11. ASSUME NEW c \in Conns, CallerWrites(c) PROVE TypeOK'
    BY <1>11, EmptyTyped DEF CallerWrites, BecomeWriter, TypeOK
  <1>12. ASSUME NEW c \in Conns, CallerBusy(c) PROVE TypeOK'
    BY <1>12 DEF CallerBusy, TypeOK
  <1>13. ASSUME NEW c \in Conns, CallerCommits(c) PROVE TypeOK'
    <2> DEFINE d == IF lock = c THEN work ELSE db
    <2>1. d \in Database
      BY DEF TypeOK
    <2> HIDE DEF d
    <2>2. EndTransaction(c, d)
      BY <1>13 DEF CallerCommits, d
    <2> QED
      BY <1>13, <2>1, <2>2, EndTransactionTyped DEF CallerCommits, TypeOK
  <1>14. ASSUME NEW c \in Conns, Disconnect(c) PROVE TypeOK'
    <2>1. db \in Database
      BY DEF TypeOK
    <2> QED
      BY <1>14, <2>1, EndTransactionTyped, EmptyTyped DEF Disconnect, TypeOK, Outcomes
  <1>15. CASE UNCHANGED vars
    BY <1>15 DEF vars, TypeOK
  <1> QED
    BY <1>1, <1>2, <1>3, <1>4, <1>5, <1>6, <1>7, <1>8, <1>9, <1>10, <1>11,
       <1>12, <1>13, <1>14, <1>15
    DEF Next, Call, Update, AppendEvent, Caller

\* Every variable keeps its type: no blank reason is ever written, and no move
\* is ever asked of a task without a row.
THEOREM TypeInvariant == Spec => []TypeOK
PROOF
  <1>1. Init => TypeOK
    BY EmptyTyped DEF Init, TypeOK, Outcomes
  <1>2. TypeOK /\ [Next]_vars => TypeOK'
    BY TypeStep
  <1> QED
    BY <1>1, <1>2, PTL DEF Spec

-------------------------------------------------------------------------------
(* The write lock: who holds it, and how far ahead of db its holder is.     *)

LEMMA WriterInit == Init => WriterInv
BY ConnAssumption DEF Init, WriterInv

LEMMA WriterStep ==
    ASSUME DisciplinedCallers, TypeOK, WriterInv, [Next]_vars
    PROVE  WriterInv'
PROOF
  <1> USE ConnAssumption DEF WriterInv, Supplied
  <1>1. ASSUME NEW t \in Tasks, CreateTask(t) PROVE WriterInv'
    BY <1>1 DEF CreateTask, TypeOK
  <1>2. ASSUME NEW c \in Conns, NEW t \in Tasks, NEW to \in Targets,
               NEW reason \in Reasons, Refuse(c, t, to, reason)
        PROVE  WriterInv'
    <2>1. Check(View(c).rows[t], to, reason) # "UNRECORDABLE"
      BY DEF Check
    <2>2. /\ UNCHANGED <<db, lock, work, pc>>
          /\ pc[c] = "idle" /\ ret[c] # "UNRECORDABLE" /\ ret'[c] # "UNRECORDABLE"
          /\ txn'[c] = "writing" <=> txn[c] = "writing"
      BY <1>2, <2>1 DEF Refuse, ReadThrough, MayUse, TypeOK
    <2>3. \A o \in Conns \ {c} : /\ txn'[o] = txn[o]
                                /\ req'[o] = req[o]
                                /\ ret'[o] = ret[o]
      BY <1>2 DEF Refuse, ReadThrough, TypeOK
    <2> SUFFICES ASSUME NEW o \in Conns PROVE WriterInv!(o)'
      OBVIOUS
    <2>4. CASE o = c
      BY <2>2, <2>4
    <2>5. CASE o # c
      BY <2>2, <2>3, <2>5 DEF OneRowAhead
    <2> QED
      BY <2>4, <2>5
  <1>3. ASSUME NEW c \in Conns, NEW t \in Tasks, NEW to \in Targets,
               NEW reason \in Reasons, NEW id \in Supplied(c),
               Accept(c, t, to, reason, id)
        PROVE  WriterInv'
    <2>1. View(c).rows[t] \in Row \cup {NoRow}
      BY ViewTyped DEF Database
    <2>2. LegalRequest(req'[c])
      BY <1>3, <2>1, CheckOk DEF Accept, LegalRequest, TypeOK
    <2> QED
      BY <1>3, <2>2 DEF Accept, ReadThrough, MayUse, TypeOK, OneRowAhead
  <1>4. ASSUME NEW c \in Conns, CasHit(c) PROVE WriterInv'
    <2>1. Base(c) = db
      BY <1>4 DEF CasHit, Base, TypeOK
    <2>2. OneRowAhead(c)'
      BY <1>4, <2>1 DEF CasHit, Matches, OneRowAhead, TypeOK
    <2> QED
      BY <1>4, <2>2 DEF CasHit, BecomeWriter, CanWrite, TypeOK
  <1>5. ASSUME NEW c \in Conns, CasMiss(c) PROVE WriterInv'
    <2>1. Base(c) = db
      BY <1>5 DEF CasMiss, Base, TypeOK
    <2> QED
      BY <1>5, <2>1 DEF CasMiss, BecomeWriter, CanWrite, TypeOK
  <1>6. ASSUME NEW c \in Conns, CasBusy(c) PROVE WriterInv'
    BY <1>6 DEF CasBusy, CanWrite, OneRowAhead, TypeOK
  <1>7. ASSUME NEW c \in Conns, AppendFails(c) PROVE WriterInv'
    <2>1. c \notin Keepers
      BY <1>7 DEF AppendFails, DisciplinedCallers, Supplied
    <2> QED
      BY <1>7, <2>1 DEF AppendFails, TypeOK, OneRowAhead
  <1>8. ASSUME NEW c \in Conns, AppendRollsBack(c) PROVE WriterInv'
    BY <1>8 DEF AppendRollsBack, EndTransaction, TypeOK
  <1>9. ASSUME NEW c \in Conns, AppendCommits(c) PROVE WriterInv'
    BY <1>9 DEF AppendCommits, EndTransaction, TypeOK
  <1>10. ASSUME NEW c \in Conns, Reread(c) PROVE WriterInv'
    BY <1>10 DEF Reread, TypeOK, OneRowAhead
  <1>11. ASSUME NEW c \in Conns, CallerWrites(c) PROVE WriterInv'
    BY <1>11 DEF CallerWrites, BecomeWriter, CanWrite, MayUse, TypeOK
  <1>12. ASSUME NEW c \in Conns, CallerBusy(c) PROVE WriterInv'
    BY <1>12 DEF CallerBusy, CanWrite, MayUse, TypeOK, OneRowAhead
  <1>13. ASSUME NEW c \in Conns, CallerCommits(c) PROVE WriterInv'
    BY <1>13 DEF CallerCommits, EndTransaction, MayUse, TypeOK, OneRowAhead
  <1>14. ASSUME NEW c \in Conns, Disconnect(c) PROVE WriterInv'
    BY <1>14 DEF Disconnect, EndTransaction, TypeOK, OneRowAhead
  <1>15. CASE UNCHANGED vars
    BY <1>15 DEF vars, OneRowAhead
  <1> QED
    BY <1>1, <1>2, <1>3, <1>4, <1>5, <1>6, <1>7, <1>8, <1>9, <1>10, <1>11,
       <1>12, <1>13, <1>14, <1>15
    DEF Next, Call, Update, AppendEvent, Caller

-------------------------------------------------------------------------------
(* What is committed changes by whole moves only.                           *)

LEMMA SameMatrix ==
    \A from, to : CanTransition(from, to) => Atomic!CanTransition(from, to)
BY DEF CanTransition, Atomic!CanTransition, LEGAL_TRANSITIONS,
       Atomic!LEGAL_TRANSITIONS, TERMINAL_TASK_PHASES,
       Atomic!TERMINAL_TASK_PHASES

LEMMA CommitIsAdvance ==
    ASSUME TypeOK, WriterInv, NEW c \in Conns, AppendCommits(c)
    PROVE  LET r == req[c] IN
           /\ r \in Request
           /\ db.rows[r.task] \in Row
           /\ db.rows[r.task].phase = r.from /\ db.rows[r.task].version = r.version
           /\ LegalRequest(r)
           /\ \A e \in db.events : e.id # r.id
           /\ db' = [rows   |-> [db.rows EXCEPT ![r.task] =
                                  [phase |-> r.to, version |-> r.version + 1,
                                   reason |-> r.reason]],
                     events |-> db.events \cup {NewEvent(c)}]
PROOF
  <1> DEFINE r == req[c]
  <1>1. pc[c] = "append" /\ r \in Request
    BY DEF AppendCommits, TypeOK
  <1>2. OneRowAhead(c) /\ LegalRequest(r)
    BY <1>1 DEF WriterInv
  <1>3. work.events = db.events
    BY <1>2 DEF OneRowAhead
  <1>4. db.rows[r.task] \in Row
    <2>1. db.rows[r.task] \in Row \cup {NoRow}
      BY <1>1 DEF TypeOK, Database, Request
    <2>2. db.rows[r.task].phase \in TaskPhase
      BY <1>1, <1>2 DEF OneRowAhead, Request
    <2> QED
      BY <2>1, <2>2 DEF NoRow, TaskPhase, READY_PHASES, TERMINAL_TASK_PHASES
  <1>5. \A e \in db.events : e.id # r.id
    BY <1>3 DEF AppendCommits, Duplicate
  <1>6. db' = [rows |-> work.rows, events |-> work.events \cup {NewEvent(c)}]
    BY DEF AppendCommits, EndTransaction
  <1> QED
    BY <1>1, <1>2, <1>4, <1>5, <1>6 DEF OneRowAhead

LEMMA OtherStepsKeepDb ==
    ASSUME DisciplinedCallers, TypeOK, WriterInv, [Next]_vars,
           \A t \in Tasks : ~ CreateTask(t),
           \A c \in Conns : ~ AppendCommits(c)
    PROVE  UNCHANGED db
PROOF
  <1>1. ASSUME NEW c \in Conns, Call(c) PROVE UNCHANGED db
    BY <1>1 DEF Call, Accept, Refuse
  <1>2. ASSUME NEW c \in Conns, Update(c) PROVE UNCHANGED db
    BY <1>2 DEF Update, CasHit, CasMiss, CasBusy
  <1>3. ASSUME NEW c \in Conns, AppendEvent(c) PROVE UNCHANGED db
    BY <1>3 DEF AppendEvent, AppendFails, AppendRollsBack, EndTransaction
  <1>4. ASSUME NEW c \in Conns, Reread(c) PROVE UNCHANGED db
    BY <1>4 DEF Reread
  <1>5. ASSUME NEW c \in Conns, Caller(c) PROVE UNCHANGED db
    <2>1. CASE CallerCommits(c)
      BY <2>1 DEF CallerCommits, EndTransaction, MayUse, WriterInv
    <2> QED
      BY <1>5, <2>1 DEF Caller, CallerWrites, CallerBusy
  <1>6. ASSUME NEW c \in Conns, Disconnect(c) PROVE UNCHANGED db
    BY <1>6 DEF Disconnect, EndTransaction
  <1>7. CASE UNCHANGED vars
    BY <1>7 DEF vars
  <1> QED
    BY <1>1, <1>2, <1>3, <1>4, <1>5, <1>6, <1>7 DEF Next

LEMMA StepIsAtomic ==
    ASSUME DisciplinedCallers, TypeOK, WriterInv, [Next]_vars
    PROVE  [Atomic!Next]_<<db.rows, db.events>>
PROOF
  <1>1. ASSUME NEW t \in Tasks, CreateTask(t) PROVE Atomic!Next
    <2>1. Atomic!Create(t)
      BY <1>1 DEF CreateTask, Atomic!Create, NoRow, Atomic!NoRow, CreatedRow,
                  Atomic!CreatedRow
    <2> QED
      BY <2>1 DEF Atomic!Next
  <1>2. ASSUME NEW c \in Conns, AppendCommits(c) PROVE Atomic!Next
    <2> DEFINE r == req[c]
    <2>1. /\ r \in Request
          /\ db.rows[r.task] \in Row
          /\ db.rows[r.task].phase = r.from /\ db.rows[r.task].version = r.version
          /\ LegalRequest(r)
          /\ \A e \in db.events : e.id # r.id
          /\ db' = [rows   |-> [db.rows EXCEPT ![r.task] =
                                 [phase |-> r.to, version |-> r.version + 1,
                                  reason |-> r.reason]],
                    events |-> db.events \cup {NewEvent(c)}]
      BY <1>2, CommitIsAdvance
    <2>2. Atomic!CanTransition(db.rows[r.task].phase, r.to)
      BY <2>1, SameMatrix DEF LegalRequest
    <2>3. db.rows[r.task] # Atomic!NoRow
      BY <2>1 DEF Atomic!NoRow, Row, TaskPhase, READY_PHASES, TERMINAL_TASK_PHASES
    <2>4. r.to \in Atomic!TERMINAL_TASK_PHASES <=> r.reason # "none"
      BY <2>1 DEF LegalRequest, TERMINAL_TASK_PHASES, Atomic!TERMINAL_TASK_PHASES
    <2>5. Atomic!Advance(r.task, r.to, r.reason, r.id)
      BY <2>1, <2>2, <2>3, <2>4 DEF Atomic!Advance, NewEvent, Request, Database, TypeOK
    <2>6. /\ r.to \in Atomic!TaskPhase /\ r.reason \in Atomic!RowReason
          /\ r.task \in Tasks /\ r.id \in EventIds
      BY <2>1 DEF Request, TaskPhase, Atomic!TaskPhase, Atomic!RowReason,
                  READY_PHASES, Atomic!READY_PHASES,
                  TERMINAL_TASK_PHASES, Atomic!TERMINAL_TASK_PHASES
    <2> QED
      BY <2>5, <2>6 DEF Atomic!Next
  <1> QED
    BY <1>1, <1>2, OtherStepsKeepDb

\* The service, with all its connections, locks and failures, implements the
\* atomic ledger: every step is one atomic move of one task or invisible.
THEOREM ServiceImplementsLedger ==
    ASSUME DisciplinedCallers
    PROVE  Spec => ImplementsLedger
PROOF
  <1>1. Init => Atomic!Init
    BY DEF Init, EmptyDb, NoRow, Atomic!Init, Atomic!NoRow
  <1>2. Init => WriterInv
    BY WriterInit
  <1>3. TypeOK /\ WriterInv /\ [Next]_vars => WriterInv'
    BY WriterStep
  <1>4. TypeOK /\ WriterInv /\ [Next]_vars => [Atomic!Next]_<<db.rows, db.events>>
    BY StepIsAtomic
  <1> QED
    BY <1>1, <1>2, <1>3, <1>4, TypeInvariant, PTL
    DEF Spec, ImplementsLedger, Atomic!Spec

-------------------------------------------------------------------------------
(* The ledger tells the rows.                                               *)

LEMMA ChainedFrame ==
    ASSUME NEW d1, NEW d2, NEW t, Chained(d1, t),
           d2.rows[t] = d1.rows[t], History(d2, t) = History(d1, t)
    PROVE  Chained(d2, t)
BY DEF Chained

\* A chain grows by the event that follows its last one.
LEMMA ChainedGrows ==
    ASSUME NEW d1 \in Database, NEW d2 \in Database, NEW t \in Tasks,
           NEW ev \in Event,
           Chained(d1, t), d1.rows[t] \in Row,
           ev.task = t, ev.version = d1.rows[t].version + 1,
           ev.from = d1.rows[t].phase, CanTransition(ev.from, ev.to),
           ev.to \in TERMINAL_TASK_PHASES <=> ev.reason # "none",
           d2.rows[t] = [phase |-> ev.to, version |-> ev.version,
                         reason |-> ev.reason],
           d2.events = d1.events \cup {ev}
    PROVE  Chained(d2, t)
PROOF
  <1> DEFINE n == d1.rows[t].version
  <1>1. n \in Nat /\ d2.rows[t].version = n + 1 /\ ev.version = n + 1
    BY DEF Row
  <1>2. History(d2, t) = History(d1, t) \cup {ev}
    BY DEF History
  <1>3. \A e \in History(d1, t) : e \in Event /\ e.version \in 1..n
    BY DEF Chained, History, Database
  <1>4. \A v \in 1..(n + 1) : \E e \in History(d2, t) : e.version = v
    <2> SUFFICES ASSUME NEW v \in 1..(n + 1)
                 PROVE  \E e \in History(d2, t) : e.version = v
      OBVIOUS
    <2>1. CASE v = n + 1
      BY <1>1, <1>2, <2>1
    <2>2. CASE v \in 1..n
      BY <1>2, <2>2 DEF Chained
    <2> QED
      BY <1>1, <2>1, <2>2
  <1>5. \A e \in History(d2, t) :
          /\ e.version \in 1..(n + 1)
          /\ CanTransition(e.from, e.to)
          /\ e.to \in TERMINAL_TASK_PHASES <=> e.reason # "none"
          /\ e.version = n + 1 => e.to = ev.to /\ e.reason = ev.reason
    BY <1>1, <1>2, <1>3 DEF Chained
  <1>6. \A e \in History(d2, t) : e.version = 1 => e.from = "CREATED"
    <2>1. n = 0 => ev.from = "CREATED"
      BY DEF Chained, NoRow, CreatedRow, Row, TaskPhase, READY_PHASES,
             TERMINAL_TASK_PHASES
    <2> QED
      BY <1>1, <1>2, <2>1 DEF Chained
  <1>7. \A e, f \in History(d2, t) : f.version = e.version => f = e
    BY <1>1, <1>2, <1>3 DEF Chained
  <1>8. \A e, f \in History(d2, t) : f.version = e.version + 1 => f.from = e.to
    <2> SUFFICES ASSUME NEW e \in History(d2, t), NEW f \in History(d2, t),
                        f.version = e.version + 1
                 PROVE  f.from = e.to
      OBVIOUS
    <2>1. e \in History(d1, t)
      <3>1. f.version \in 1..(n + 1)
        BY <1>5
      <3> QED
        BY <1>1, <1>2, <3>1
    <2>2. CASE f \in History(d1, t)
      BY <2>1, <2>2 DEF Chained
    <2>3. CASE f = ev
      <3>1. e.version = n
        BY <1>1, <1>3, <2>1, <2>3
      <3>2. e.to = d1.rows[t].phase
        BY <2>1, <3>1 DEF Chained
      <3> QED
        BY <2>3, <3>2
    <2> QED
      BY <1>2, <2>2, <2>3
  <1>9. d2.rows[t].phase = ev.to /\ d2.rows[t].reason = ev.reason
    OBVIOUS
  <1> QED
    BY <1>1, <1>4, <1>5, <1>6, <1>7, <1>8, <1>9 DEF Chained

LEMMA LedgerStep ==
    ASSUME DisciplinedCallers, TypeOK, TypeOK', WriterInv, [Next]_vars,
           LedgerTellsRows
    PROVE  LedgerTellsRows'
PROOF
  <1>1. ASSUME NEW t \in Tasks, CreateTask(t) PROVE LedgerTellsRows'
    <2> SUFFICES ASSUME NEW u \in Tasks PROVE Chained(db', u)
      BY DEF LedgerTellsRows
    <2>1. Chained(db, u) /\ History(db', u) = History(db, u)
      BY <1>1 DEF LedgerTellsRows, History, CreateTask
    <2>2. CASE u # t
      <3>1. db'.rows[u] = db.rows[u]
        BY <1>1, <2>2 DEF CreateTask, TypeOK, Database
      <3> QED
        BY <2>1, <3>1, ChainedFrame
    <2>3. CASE u = t
      <3>1. db.rows[u].version = 0 /\ db'.rows[u] = CreatedRow
        BY <1>1, <2>3 DEF CreateTask, TypeOK, Database, NoRow
      <3>2. History(db, u) = {}
        BY <2>1, <3>1 DEF Chained
      <3> QED
        BY <2>1, <3>1, <3>2 DEF Chained, CreatedRow
    <2> QED
      BY <2>2, <2>3
  <1>2. ASSUME NEW c \in Conns, AppendCommits(c) PROVE LedgerTellsRows'
    <2> DEFINE r == req[c]
               ev == NewEvent(c)
    <2>1. /\ r \in Request
          /\ db.rows[r.task] \in Row
          /\ db.rows[r.task].phase = r.from /\ db.rows[r.task].version = r.version
          /\ LegalRequest(r)
          /\ db' = [rows   |-> [db.rows EXCEPT ![r.task] =
                                 [phase |-> r.to, version |-> r.version + 1,
                                  reason |-> r.reason]],
                    events |-> db.events \cup {ev}]
      BY <1>2, CommitIsAdvance
    <2>2. /\ ev \in Event /\ ev.task = r.task /\ ev.version = r.version + 1
          /\ ev.from = r.from /\ ev.to = r.to /\ ev.reason = r.reason
      BY <2>1 DEF NewEvent, Event, Request
    <2> HIDE DEF ev
    <2> SUFFICES ASSUME NEW u \in Tasks PROVE Chained(db', u)
      BY DEF LedgerTellsRows
    <2>3. Chained(db, u) /\ db \in Database /\ db' \in Database
      BY DEF LedgerTellsRows, TypeOK
    <2>4. CASE u # r.task
      <3>1. db'.rows[u] = db.rows[u]
        BY <2>1, <2>3, <2>4 DEF Database
      <3>2. History(db', u) = History(db, u)
        BY <2>1, <2>2, <2>4 DEF History
      <3> QED
        BY <2>3, <3>1, <3>2, ChainedFrame
    <2>5. CASE u = r.task
      <3>1. db'.rows[u] = [phase |-> r.to, version |-> r.version + 1,
                           reason |-> r.reason]
        BY <2>1, <2>3, <2>5 DEF Database, Request
      <3>2. db'.events = db.events \cup {ev}
        BY <2>1
      <3>3. /\ db.rows[u] \in Row
            /\ ev.task = u
            /\ ev.version = db.rows[u].version + 1
            /\ ev.from = db.rows[u].phase
            /\ CanTransition(ev.from, ev.to)
            /\ ev.to \in TERMINAL_TASK_PHASES <=> ev.reason # "none"
            /\ db'.rows[u] = [phase |-> ev.to, version |-> ev.version,
                              reason |-> ev.reason]
        BY <2>1, <2>2, <2>5, <3>1 DEF LegalRequest
      <3> QED
        BY <2>2, <2>3, <3>2, <3>3, ChainedGrows
    <2> QED
      BY <2>4, <2>5
  <1>3. CASE UNCHANGED db
    BY <1>3 DEF LedgerTellsRows
  <1> QED
    BY <1>1, <1>2, <1>3, OtherStepsKeepDb

LEMMA WriterInvariant ==
    ASSUME DisciplinedCallers
    PROVE  Spec => []WriterInv
PROOF
  <1>1. Init => WriterInv
    BY WriterInit
  <1>2. TypeOK /\ WriterInv /\ [Next]_vars => WriterInv'
    BY WriterStep
  <1> QED
    BY <1>1, <1>2, TypeInvariant, PTL DEF Spec

\* The committed ledger tells every row, whatever calls failed, raced or were
\* cut off, when no connection outlives an event it could not record.
THEOREM LedgerAlwaysTellsRows ==
    ASSUME DisciplinedCallers
    PROVE  Spec => []LedgerTellsRows
PROOF
  <1>1. Init => LedgerTellsRows
    BY DEF Init, EmptyDb, LedgerTellsRows, Chained, History, NoRow
  <1>2. TypeOK /\ TypeOK' /\ WriterInv /\ LedgerTellsRows /\ [Next]_vars
          => LedgerTellsRows'
    BY LedgerStep
  <1> QED
    BY <1>1, <1>2, TypeInvariant, WriterInvariant, PTL DEF Spec

-------------------------------------------------------------------------------
(* The ledger only grows, and terminal rows are final.                      *)

LEMMA DbGrows ==
    ASSUME DisciplinedCallers, TypeOK, WriterInv, [Next]_vars
    PROVE  /\ db.events \subseteq db'.events
           /\ \A t \in Tasks :
                /\ db'.rows[t].version >= db.rows[t].version
                /\ db.rows[t].phase \in Ended => db'.rows[t] = db.rows[t]
PROOF
  <1>0. \A t \in Tasks : db.rows[t] \in Row \cup {NoRow} /\ db.rows[t].version \in Nat
    BY DEF TypeOK, Database, Row, NoRow
  <1>1. ASSUME NEW t \in Tasks, CreateTask(t)
        PROVE  /\ db.events \subseteq db'.events
               /\ \A u \in Tasks :
                    /\ db'.rows[u].version >= db.rows[u].version
                    /\ db.rows[u].phase \in Ended => db'.rows[u] = db.rows[u]
    BY <1>0, <1>1 DEF CreateTask, TypeOK, Database, NoRow, CreatedRow, Ended
  <1>2. ASSUME NEW c \in Conns, AppendCommits(c)
        PROVE  /\ db.events \subseteq db'.events
               /\ \A u \in Tasks :
                    /\ db'.rows[u].version >= db.rows[u].version
                    /\ db.rows[u].phase \in Ended => db'.rows[u] = db.rows[u]
    <2> DEFINE r == req[c]
    <2>1. /\ r \in Request
          /\ db.rows[r.task].phase = r.from /\ db.rows[r.task].version = r.version
          /\ LegalRequest(r)
          /\ db' = [rows   |-> [db.rows EXCEPT ![r.task] =
                                 [phase |-> r.to, version |-> r.version + 1,
                                  reason |-> r.reason]],
                    events |-> db.events \cup {NewEvent(c)}]
      BY <1>2, CommitIsAdvance
    <2>2. r.from \notin Ended
      BY <2>1 DEF LegalRequest, CanTransition, Ended, TERMINAL_TASK_PHASES
    <2> SUFFICES ASSUME NEW u \in Tasks
                 PROVE  /\ db'.rows[u].version >= db.rows[u].version
                        /\ db.rows[u].phase \in Ended => db'.rows[u] = db.rows[u]
      BY <2>1
    <2>3. CASE u = r.task
      <3>1. db'.rows[u].version = r.version + 1
        BY <2>1, <2>3 DEF TypeOK, Database
      <3> QED
        BY <1>0, <2>1, <2>2, <2>3, <3>1
    <2>4. CASE u # r.task
      <3>1. db'.rows[u] = db.rows[u]
        BY <2>1, <2>4 DEF TypeOK, Database
      <3> QED
        BY <1>0, <3>1
    <2> QED
      BY <2>3, <2>4
  <1>3. CASE UNCHANGED db
    BY <1>0, <1>3
  <1> QED
    BY <1>1, <1>2, <1>3, OtherStepsKeepDb

\* A task that has ended stays as it ended, and no event is ever removed or
\* rewritten, whoever races whom.
THEOREM TerminalStaysFinal ==
    ASSUME DisciplinedCallers
    PROVE  Spec => TerminalIsFinal
PROOF
  <1>1. TypeOK /\ WriterInv /\ [Next]_vars
          => [/\ db.events \subseteq db'.events
              /\ \A t \in Tasks : db.rows[t].phase \in Ended =>
                   db'.rows[t] = db.rows[t]]_vars
    BY DbGrows
  <1> QED
    BY <1>1, TypeInvariant, WriterInvariant, PTL DEF Spec, TerminalIsFinal

LEMMA DurableStep ==
    ASSUME DisciplinedCallers, TypeOK, WriterInv, [Next]_vars, CommittedIsDurable
    PROVE  CommittedIsDurable'
PROOF
  <1> SUFFICES ASSUME NEW o \in Conns, (pc[o] = "reread" \/ ret[o] = "OK")'
               PROVE  (/\ NewEvent(o) \in db.events
                       /\ db.rows[req[o].task].version >= req[o].version + 1)'
    BY DEF CommittedIsDurable
  <1>1. CASE AppendCommits(o)
    <2> DEFINE r == req[o]
    <2>1. /\ r \in Request
          /\ db' = [rows   |-> [db.rows EXCEPT ![r.task] =
                                 [phase |-> r.to, version |-> r.version + 1,
                                  reason |-> r.reason]],
                    events |-> db.events \cup {NewEvent(o)}]
      BY <1>1, CommitIsAdvance
    <2>2. db'.rows[r.task].version = r.version + 1 /\ r.version + 1 \in Nat
      BY <2>1 DEF TypeOK, Database, Request
    <2>3. req' = req
      BY <1>1 DEF AppendCommits
    <2> QED
      BY <2>1, <2>2, <2>3 DEF NewEvent
  <1>2. CASE ~ AppendCommits(o)
    <2>1. (pc[o] = "reread" \/ ret[o] = "OK") /\ req'[o] = req[o]
      <3>1. ASSUME NEW c \in Conns, Call(c)
            PROVE  (pc[o] = "reread" \/ ret[o] = "OK") /\ req'[o] = req[o]
        <4>1. \A t, to, reason : Check(View(c).rows[t], to, reason) \in Refusals \cup {"OK"}
          BY DEF Check, Refusals
        <4>2. ASSUME NEW t \in Tasks, NEW to \in Targets, NEW reason \in Reasons,
                     Refuse(c, t, to, reason)
              PROVE  (pc[o] = "reread" \/ ret[o] = "OK") /\ req'[o] = req[o]
          BY <4>1, <4>2 DEF Refuse, TypeOK, MayUse
        <4>3. ASSUME NEW t \in Tasks, NEW to \in Targets, NEW reason \in Reasons,
                     NEW id \in Supplied(c), Accept(c, t, to, reason, id)
              PROVE  (pc[o] = "reread" \/ ret[o] = "OK") /\ req'[o] = req[o]
          BY <4>3 DEF Accept, TypeOK, MayUse
        <4> QED
          BY <3>1, <4>2, <4>3 DEF Call
      <3>2. ASSUME NEW c \in Conns, Update(c)
            PROVE  (pc[o] = "reread" \/ ret[o] = "OK") /\ req'[o] = req[o]
        BY <3>2 DEF Update, CasHit, CasMiss, CasBusy, TypeOK, WriterInv
      <3>3. ASSUME NEW c \in Conns, AppendEvent(c)
            PROVE  (pc[o] = "reread" \/ ret[o] = "OK") /\ req'[o] = req[o]
        BY <1>2, <3>3
        DEF AppendEvent, AppendFails, AppendRollsBack, AppendCommits, TypeOK
      <3>4. ASSUME NEW c \in Conns, Reread(c)
            PROVE  (pc[o] = "reread" \/ ret[o] = "OK") /\ req'[o] = req[o]
        BY <3>4 DEF Reread, TypeOK
      <3>5. ASSUME NEW c \in Conns, Caller(c)
            PROVE  (pc[o] = "reread" \/ ret[o] = "OK") /\ req'[o] = req[o]
        BY <3>5 DEF Caller, CallerWrites, CallerBusy, CallerCommits
      <3>6. ASSUME NEW c \in Conns, Disconnect(c)
            PROVE  (pc[o] = "reread" \/ ret[o] = "OK") /\ req'[o] = req[o]
        BY <3>6 DEF Disconnect, TypeOK
      <3>7. ASSUME NEW t \in Tasks, CreateTask(t)
            PROVE  (pc[o] = "reread" \/ ret[o] = "OK") /\ req'[o] = req[o]
        BY <3>7 DEF CreateTask
      <3>8. CASE UNCHANGED vars
        BY <3>8 DEF vars
      <3> QED
        BY <3>1, <3>2, <3>3, <3>4, <3>5, <3>6, <3>7, <3>8 DEF Next
    <2>2. /\ NewEvent(o) \in db.events
          /\ db.rows[req[o].task].version >= req[o].version + 1
          /\ NewEvent(o)' = NewEvent(o)
      BY <2>1 DEF CommittedIsDurable, NewEvent
    <2>3. /\ req[o].task \in Tasks /\ req[o].version \in Nat
          /\ db.rows[req[o].task].version \in Nat
          /\ db'.rows[req[o].task].version \in Nat
      <3>1. TypeOK'
        BY TypeStep
      <3> QED
        BY <3>1 DEF TypeOK, Database, Request, Row, NoRow
    <2>4. /\ NewEvent(o) \in db'.events
          /\ db'.rows[req[o].task].version >= db.rows[req[o].task].version
      BY <2>2, <2>3, DbGrows
    <2> QED
      BY <2>1, <2>2, <2>3, <2>4
  <1> QED
    BY <1>1, <1>2

\* A move is in the committed ledger from its commit on.
LEMMA CommittedInvariant ==
    ASSUME DisciplinedCallers
    PROVE  Spec => []CommittedIsDurable
PROOF
  <1>1. Init => CommittedIsDurable
    BY DEF Init, CommittedIsDurable
  <1>2. TypeOK /\ WriterInv /\ CommittedIsDurable /\ [Next]_vars
          => CommittedIsDurable'
    BY DurableStep
  <1> QED
    BY <1>1, <1>2, TypeInvariant, WriterInvariant, PTL DEF Spec

\* Whoever was told OK finds the move in the committed ledger for ever after.
THEOREM AcknowledgedStaysDurable ==
    ASSUME DisciplinedCallers
    PROVE  Spec => []AcknowledgedIsDurable
PROOF
  <1>1. CommittedIsDurable => AcknowledgedIsDurable
    BY DEF CommittedIsDurable, AcknowledgedIsDurable
  <1> QED
    BY <1>1, CommittedInvariant, PTL

\* An event id is never used for two events, in any order of retries.
THEOREM IdsStayUnique ==
    ASSUME DisciplinedCallers
    PROVE  Spec => []IdsUnique
PROOF
  <1>1. Init => IdsUnique
    BY DEF Init, EmptyDb, IdsUnique
  <1>2. ASSUME TypeOK, WriterInv, IdsUnique, [Next]_vars PROVE IdsUnique'
    <2>1. ASSUME NEW t \in Tasks, CreateTask(t) PROVE IdsUnique'
      BY <1>2, <2>1 DEF CreateTask, IdsUnique
    <2>2. ASSUME NEW c \in Conns, AppendCommits(c) PROVE IdsUnique'
      <3>1. /\ \A e \in db.events : e.id # req[c].id
            /\ db'.events = db.events \cup {NewEvent(c)}
        <4> DEFINE r == req[c]
        <4>1. /\ \A e \in db.events : e.id # r.id
              /\ db' = [rows   |-> [db.rows EXCEPT ![r.task] =
                                     [phase |-> r.to, version |-> r.version + 1,
                                      reason |-> r.reason]],
                        events |-> db.events \cup {NewEvent(c)}]
          BY <1>2, <2>2, CommitIsAdvance
        <4> QED
          BY <4>1
      <3>2. NewEvent(c).id = req[c].id
        BY DEF NewEvent
      <3> QED
        BY <1>2, <3>1, <3>2 DEF IdsUnique
    <2>3. CASE UNCHANGED db
      BY <1>2, <2>3 DEF IdsUnique
    <2> QED
      BY <1>2, <2>1, <2>2, <2>3, OtherStepsKeepDb
  <1> QED
    BY <1>1, <1>2, TypeInvariant, WriterInvariant, PTL DEF Spec

\* All of it together is what every state of the service satisfies.
THEOREM InductiveInvariant ==
    ASSUME DisciplinedCallers
    PROVE  Spec => []IInv
PROOF
  <1>1. TypeOK /\ WriterInv /\ LedgerTellsRows /\ IdsUnique /\ CommittedIsDurable => IInv
    BY DEF IInv
  <1> QED
    BY <1>1, TypeInvariant, WriterInvariant, LedgerAlwaysTellsRows, IdsStayUnique,
       CommittedInvariant, PTL

-------------------------------------------------------------------------------
(* What the ledger's readers find.                                         *)

\* The events of a task that has ended are all there are.
LEMMA EndedHistoryStays ==
    ASSUME DisciplinedCallers, TypeOK, WriterInv, [Next]_vars,
           NEW t \in Tasks, db.rows[t].phase \in Ended
    PROVE  History(db', t) = History(db, t)
PROOF
  <1>1. ASSUME NEW u \in Tasks, CreateTask(u) PROVE History(db', t) = History(db, t)
    BY <1>1 DEF CreateTask, History
  <1>2. ASSUME NEW c \in Conns, AppendCommits(c) PROVE History(db', t) = History(db, t)
    <2> DEFINE r == req[c]
    <2>1. /\ db.rows[r.task].phase = r.from
          /\ LegalRequest(r)
          /\ db' = [rows   |-> [db.rows EXCEPT ![r.task] =
                                 [phase |-> r.to, version |-> r.version + 1,
                                  reason |-> r.reason]],
                    events |-> db.events \cup {NewEvent(c)}]
      BY <1>2, CommitIsAdvance
    <2>2. r.task # t
      BY <2>1 DEF LegalRequest, CanTransition, Ended, TERMINAL_TASK_PHASES
    <2>3. NewEvent(c).task = r.task
      BY DEF NewEvent
    <2> QED
      BY <2>1, <2>2, <2>3 DEF History
  <1>3. CASE UNCHANGED db
    BY <1>3
  <1> QED
    BY <1>1, <1>2, <1>3, OtherStepsKeepDb

\* What recover has proposed for a failed or halted task it proposes for ever,
\* whatever callers try on that task or do to others.
THEOREM ProposalsStayValid ==
    ASSUME DisciplinedCallers
    PROVE  Spec => ProposalStaysValid
PROOF
  <1>1. TypeOK /\ WriterInv /\ [Next]_vars
          => [\A t \in Tasks : Recover(db, t) = "propose_successor" =>
                                 Recover(db', t) = "propose_successor"]_vars
    <2> SUFFICES ASSUME TypeOK, WriterInv, [Next]_vars,
                        NEW t \in Tasks, Recover(db, t) = "propose_successor"
                 PROVE  Recover(db', t) = "propose_successor"
      OBVIOUS
    <2>1. db.rows[t].phase \in Ended
      BY DEF Recover, Ended
    <2>2. db'.rows[t] = db.rows[t] /\ History(db', t) = History(db, t)
      BY <2>1, DbGrows, EndedHistoryStays
    <2>3. DiagnoseTask(db', t) = DiagnoseTask(db, t)
      BY <2>2 DEF DiagnoseTask, VerifyTask, EventStream
    <2> QED
      BY <2>2, <2>3 DEF Recover
  <1> QED
    BY <1>1, TypeInvariant, WriterInvariant, PTL DEF Spec, ProposalStaysValid

\* The state a replay of the ledger has reached after v events.
Reached(d, t, v) ==
    IF v = 0 THEN Origin
    ELSE LET e == CHOOSE f \in History(d, t) : f.version = v
         IN  [phase |-> e.to, version |-> v, reason |-> e.reason]

\* Every round of the replay takes the next event without a complaint, and the
\* last one arrives at the row (ledger.py:71-95).
LEMMA ChainedReplays ==
    ASSUME TypeOK, NEW t \in Tasks, Chained(db, t)
    PROVE  /\ \A e \in History(db, t) :
                FoldStep(Reached(db, t, e.version - 1), e) = Reached(db, t, e.version)
           /\ db.rows[t] # NoRow => Reached(db, t, db.rows[t].version) = db.rows[t]
PROOF
  <1> DEFINE row == db.rows[t]
  <1>1. row \in Row \cup {NoRow} /\ row.version \in Nat
    BY DEF TypeOK, Database, Row, NoRow
  <1>2. \A e \in History(db, t) : e \in Event
    BY DEF TypeOK, Database, History
  <1>3. ASSUME NEW e \in History(db, t)
        PROVE  /\ e.version \in 1..row.version
               /\ Reached(db, t, e.version)
                    = [phase |-> e.to, version |-> e.version, reason |-> e.reason]
    <2>1. /\ e.version \in 1..row.version
          /\ \A f \in History(db, t) : f.version = e.version => f = e
      BY DEF Chained
    <2>2. (CHOOSE f \in History(db, t) : f.version = e.version) = e
      BY <2>1
    <2> QED
      BY <1>1, <2>1, <2>2 DEF Reached
  <1>4. ASSUME NEW e \in History(db, t)
        PROVE  FoldStep(Reached(db, t, e.version - 1), e) = Reached(db, t, e.version)
    <2> DEFINE acc == Reached(db, t, e.version - 1)
    <2>1. e.version \in Nat \ {0} /\ e.version <= row.version
      <3>1. e.version \in 1..row.version
        BY DEF Chained
      <3> QED
        BY <1>1, <3>1
    <2>2. acc.version = e.version - 1 /\ acc.phase = e.from /\ acc.phase \in TaskPhase
      <3>1. CASE e.version = 1
        BY <3>1 DEF Reached, Origin, Chained, TaskPhase
      <3>2. CASE e.version # 1
        <4>1. PICK f \in History(db, t) : f.version = e.version - 1
          <5>1. e.version - 1 \in 1..row.version
            BY <1>1, <2>1, <3>2
          <5> QED
            BY <5>1 DEF Chained
        <4>2. acc = [phase |-> f.to, version |-> f.version, reason |-> f.reason]
          BY <1>3, <4>1
        <4>3. e.from = f.to
          <5>1. e.version = f.version + 1
            BY <2>1, <4>1
          <5> QED
            BY <5>1 DEF Chained
        <4> QED
          BY <1>2, <4>1, <4>2, <4>3 DEF Event
      <3> QED
        BY <3>1, <3>2
    <2>3. acc # Bad
      BY <2>2 DEF Bad, TaskPhase, READY_PHASES
    <2>4. /\ CanTransition(e.from, e.to)
          /\ e.to \in TERMINAL_TASK_PHASES <=> e.reason # "none"
      BY DEF Chained
    <2>5. e.version = acc.version + 1
      BY <2>1, <2>2
    <2> HIDE DEF acc
    <2>6. FoldStep(acc, e) = [phase |-> e.to, version |-> e.version, reason |-> e.reason]
      BY <2>2, <2>3, <2>4, <2>5 DEF FoldStep
    <2> QED
      BY <1>3, <2>6 DEF acc
  <1>5. ASSUME row # NoRow PROVE Reached(db, t, row.version) = row
    <2>1. CASE row.version = 0
      BY <1>5, <2>1 DEF Reached, Origin, CreatedRow, Chained
    <2>2. CASE row.version # 0
      <3>1. PICK e \in History(db, t) : e.version = row.version
        BY <1>1, <2>2 DEF Chained
      <3>2. e.to = row.phase /\ e.reason = row.reason
        BY <3>1 DEF Chained
      <3>3. row \in Row
        BY <1>1, <1>5
      <3>4. row = [phase |-> row.phase, version |-> row.version, reason |-> row.reason]
        BY <3>3 DEF Row
      <3> QED
        BY <1>3, <3>1, <3>2, <3>4
    <2> QED
      BY <2>1, <2>2
  <1> QED
    BY <1>4, <1>5

-------------------------------------------------------------------------------
(* The replay as a whole. Induction over the events is by the least        *)
(* counterexample, for which the library has a theorem about sets.         *)

LEMMA Least ==
    ASSUME NEW S \in SUBSET Nat, S # {}
    PROVE  \E x \in S : \A y \in S : x <= y
PROOF
  <1>1. \E x \in S : \A y \in S : ~ (<<y, x>> \in OpToRel(<, Nat))
    BY NatLessThanWellFounded, WFMin
  <1>2. \A x, y \in S : y < x => <<y, x>> \in OpToRel(<, Nat)
    BY DEF OpToRel
  <1>3. PICK x \in S : \A y \in S : ~ (y < x)
    BY <1>1, <1>2
  <1>4. \A y \in S : x <= y
    BY <1>3
  <1> QED
    BY <1>4

\* event_stream lists a chained history by version, from 1 without a gap: the
\* first place where it did not would miss an event or repeat one.
LEMMA StreamIsHistory ==
    ASSUME TypeOK, NEW t \in Tasks, Chained(db, t)
    PROVE  /\ DOMAIN EventStream(db, t) = 1..db.rows[t].version
           /\ \A i \in 1..db.rows[t].version :
                EventStream(db, t)[i] \in History(db, t) /\ EventStream(db, t)[i].version = i
PROOF
  <1> DEFINE H == History(db, t)
             v == db.rows[t].version
             f == [i \in 1..v |-> CHOOSE e \in H : e.version = i]
             Sorted(s) == /\ IsInjective(s)
                          /\ \A i, j \in DOMAIN s : i < j => s[i].version <= s[j].version
  <1>1. v \in Nat
    BY DEF TypeOK, Database, Row, NoRow
  <1>2. /\ \A i \in 1..v : \E e \in H : e.version = i
        /\ \A e \in H : e.version \in 1..v
        /\ \A e, g \in H : e.version = g.version => e = g
    BY DEF Chained
  <1> HIDE DEF H, v
  <1>3. \A i \in 1..v : f[i] \in H /\ f[i].version = i
    BY <1>2
  <1>4. f \in Bijection(1..v, H)
    <2>1. f \in [1..v -> H]
      BY <1>3
    <2>2. \A i, j \in 1..v : f[i] = f[j] => i = j
      BY <1>3
    <2>3. \A e \in H : e.version \in 1..v /\ f[e.version] = e
      BY <1>2, <1>3
    <2> HIDE DEF f
    <2> QED
      BY <2>1, <2>2, <2>3 DEF Bijection, Injection, Surjection, IsInjective
  <1>5. IsFiniteSet(1..v) /\ IsFiniteSet(H) /\ Cardinality(1..v) = v /\ Cardinality(H) = v
    <2>1. IsFiniteSet(1..v) /\ Cardinality(1..v) = v
      BY <1>1, FS_Interval
    <2>2. ExistsBijection(1..v, H)
      BY <1>4 DEF ExistsBijection
    <2> QED
      BY <2>1, <2>2, FS_Bijection
  <1> DEFINE s == ByVersion(H)
  <1>6. s \in [1..v -> H] /\ Sorted(s)
    <2>1. f \in [1..v -> H] /\ Sorted(f)
      <3>1. f \in [1..v -> H] /\ IsInjective(f)
        BY <1>4 DEF Bijection, Injection
      <3>2. \A i, j \in DOMAIN f : i < j => f[i].version <= f[j].version
        BY <1>3
      <3> QED
        BY <3>1, <3>2
    <2>2. s = CHOOSE g \in [1..v -> H] : Sorted(g)
      BY <1>5 DEF ByVersion
    <2> HIDE DEF s, f, Sorted
    <2> QED
      BY <2>1, <2>2
  <1> HIDE DEF s, f
  <1>7. \A e \in H : \E k \in 1..v : s[k] = e
    <2>1. s \in Injection(1..v, H)
      BY <1>6 DEF Injection
    <2>2. s \in Surjection(1..v, H)
      BY <1>5, <2>1, FS_Injection
    <2> QED
      BY <2>2 DEF Surjection
  <1>8. \A i \in 1..v : s[i].version = i
    <2> DEFINE Wrong == {i \in 1..v : s[i].version # i}
    <2> SUFFICES ASSUME Wrong # {} PROVE FALSE
      OBVIOUS
    <2>1. Wrong \in SUBSET Nat
      BY <1>1
    <2>2. PICK i \in Wrong : \A j \in Wrong : i <= j
      BY <2>1, Least
    <2>3. i \in 1..v /\ s[i].version # i /\ s[i] \in H
      BY <1>6, <2>2
    <2>4. \A k \in 1..v : k < i => s[k].version = k
      BY <1>1, <2>2
    <2>5. PICK k \in 1..v : s[k] = f[i]
      BY <1>3, <1>7, <2>3
    <2>6. s[k].version = i /\ k > i
      BY <1>1, <1>3, <2>3, <2>4, <2>5
    <2>7. s[i].version \in 1..v /\ s[i].version < i
      <3>1. s[i].version <= s[k].version
        BY <1>6, <2>3, <2>6
      <3>2. s[i].version \in 1..v
        BY <1>2, <2>3
      <3> QED
        BY <1>1, <2>3, <2>6, <3>1, <3>2
    <2>8. s[s[i].version] = s[i]
      BY <1>2, <1>6, <2>3, <2>4, <2>7
    <2> QED
      BY <1>6, <2>3, <2>7, <2>8 DEF IsInjective
  <1> QED
    BY <1>6, <1>8 DEF s, H, v, EventStream

\* The numbers up to k end in k, and without it they are those up to k - 1.
LEMMA Intervals ==
    /\ 1..0 = {}
    /\ \A j, k \in Nat : 1..j = 1..k => j = k
    /\ \A k \in Nat : (1..k) \cup {k + 1} = 1..(k + 1)
    /\ \A k \in Nat \ {0} : Max(1..k) = k /\ (1..k) \ {k} = 1..(k - 1) /\ 1..k # {}
PROOF
  <1>1. ASSUME NEW j \in Nat, NEW k \in Nat, 1..j = 1..k PROVE j = k
    <2>1. ASSUME j < k PROVE FALSE
      <3>1. k \in 1..k /\ k \notin 1..j
        BY <2>1
      <3> QED
        BY <1>1, <3>1
    <2>2. ASSUME k < j PROVE FALSE
      <3>1. j \in 1..j /\ j \notin 1..k
        BY <2>2
      <3> QED
        BY <1>1, <3>1
    <2> QED
      BY <2>1, <2>2
  <1>2. ASSUME NEW k \in Nat \ {0}
        PROVE  Max(1..k) = k /\ (1..k) \ {k} = 1..(k - 1) /\ 1..k # {}
    <2>1. k \in 1..k /\ \A y \in 1..k : k >= y
      OBVIOUS
    <2>2. \A x \in 1..k : (\A y \in 1..k : x >= y) => x = k
      BY <2>1
    <2>3. Max(1..k) = k
      BY <2>1, <2>2 DEF Max
    <2>4. (1..k) \ {k} = 1..(k - 1)
      OBVIOUS
    <2> QED
      BY <2>1, <2>3, <2>4
  <1>3. 1..0 = {} /\ \A k \in Nat : (1..k) \cup {k + 1} = 1..(k + 1)
    OBVIOUS
  <1> QED
    BY <1>1, <1>2, <1>3

\* The loop of fold_task_stream after the events in s, if it was after those
\* before the last of s.
Round(it, stream, s) ==
    IF s = {} THEN Origin ELSE FoldStep(it[s \ {Max(s)}], stream[Max(s)])

Rounds(it, stream, n) == it = [s \in SUBSET (1..n) |-> Round(it, stream, s)]

\* Such loops exist: what is not a beginning of the stream is refused.
LEMMA RoundsExist ==
    ASSUME NEW n \in Nat, NEW stream, NEW reach,
           reach[0] = Origin,
           \A k \in 0..n : reach[k].version = k /\ reach[k] # Bad,
           \A k \in 1..n : /\ stream[k].version = k
                           /\ FoldStep(reach[k - 1], stream[k]) = reach[k]
    PROVE  \E it : Rounds(it, stream, n)
PROOF
  <1> DEFINE upto == [s \in SUBSET (1..n) |->
                        IF \E k \in 0..n : s = 1..k
                        THEN reach[CHOOSE k \in 0..n : s = 1..k] ELSE Bad]
  <1>1. ASSUME NEW k \in 0..n PROVE upto[1..k] = reach[k]
    <2>1. (CHOOSE j \in 0..n : 1..k = 1..j) = k
      BY Intervals
    <2>2. 1..k \in SUBSET (1..n)
      OBVIOUS
    <2> QED
      BY <2>1, <2>2
  <1>2. \A s \in SUBSET (1..n) : (\A k \in 0..n : s # 1..k) => upto[s] = Bad
    OBVIOUS
  <1>3. upto = [s \in SUBSET (1..n) |-> upto[s]]
    OBVIOUS
  <1> HIDE DEF upto
  <1>4. ASSUME NEW s \in SUBSET (1..n) PROVE upto[s] = Round(upto, stream, s)
    <2>1. CASE s = {}
      <3>1. s = 1..0 /\ 0 \in 0..n
        BY <2>1, Intervals
      <3> QED
        BY <2>1, <3>1, <1>1 DEF Round
    <2>2. ASSUME NEW k \in 1..n, s = 1..k PROVE upto[s] = Round(upto, stream, s)
      <3>1. k - 1 \in 0..n /\ k \in 0..n /\ k \in Nat \ {0}
        OBVIOUS
      <3>2. upto[1..(k - 1)] = reach[k - 1] /\ upto[s] = reach[k]
        BY <1>1, <2>2, <3>1
      <3>3. Max(s) = k /\ s \ {k} = 1..(k - 1) /\ s # {}
        BY <2>2, <3>1, Intervals
      <3>4. Round(upto, stream, s) = FoldStep(upto[1..(k - 1)], stream[k])
        BY <3>3 DEF Round
      <3> QED
        BY <3>2, <3>4
    <2>3. CASE s # {} /\ \A k \in 0..n : s # 1..k
      <3>1. upto[s] = Bad
        BY <1>2, <2>3
      <3>2. PICK x : x = Max(s)
        OBVIOUS
      <3>3. s \ {x} \in SUBSET (1..n)
        OBVIOUS
      <3>4. Round(upto, stream, s) = FoldStep(upto[s \ {x}], stream[x])
        BY <2>3, <3>2 DEF Round
      <3>5. CASE \A k \in 0..n : s \ {x} # 1..k
        <4>1. upto[s \ {x}] = Bad
          BY <1>2, <3>3, <3>5
        <4> QED
          BY <3>1, <3>4, <4>1 DEF FoldStep
      <3>6. ASSUME NEW k \in 0..n, s \ {x} = 1..k PROVE Bad = FoldStep(upto[s \ {x}], stream[x])
        <4>1. x \in s /\ x \in 1..n
          BY <2>3, <3>6
        <4>2. s = 1..k \cup {x}
          BY <3>6, <4>1
        <4>3. x # k + 1
          <5> SUFFICES ASSUME x = k + 1 PROVE FALSE
            OBVIOUS
          <5>1. s = 1..(k + 1) /\ k + 1 \in 0..n
            BY <4>1, <4>2, Intervals
          <5> QED
            BY <2>3, <5>1
        <4>4. upto[s \ {x}] = reach[k] /\ reach[k].version = k
          BY <1>1, <3>6
        <4>5. stream[x].version # upto[s \ {x}].version + 1
          BY <4>1, <4>3, <4>4
        <4> QED
          BY <4>5 DEF FoldStep
      <3> QED
        BY <3>1, <3>4, <3>5, <3>6
    <2>4. \A k \in 0..n : s = 1..k => s = {} \/ k \in 1..n
      BY Intervals
    <2> QED
      BY <2>1, <2>2, <2>3, <2>4
  <1>5. upto = [s \in SUBSET (1..n) |-> Round(upto, stream, s)]
    BY <1>3, <1>4
  <1> QED
    BY <1>5 DEF Rounds

\* fold_task_stream of a stream whose events are numbered from 1 ends where the
\* rounds of its loop lead: there is no first round that leads elsewhere.
LEMMA FoldIsReached ==
    ASSUME NEW n \in Nat, NEW stream, DOMAIN stream = 1..n, NEW reach,
           reach[0] = Origin,
           \A k \in 0..n : reach[k].version = k /\ reach[k] # Bad,
           \A k \in 1..n : /\ stream[k].version = k
                           /\ FoldStep(reach[k - 1], stream[k]) = reach[k]
    PROVE  FoldTaskStream(stream) = reach[n]
PROOF
  <1> DEFINE iter == CHOOSE it : Rounds(it, stream, n)
  <1>1. FoldTaskStream(stream) = iter[1..n]
    BY DEF FoldTaskStream, FoldLeft, MapThenFoldSet, Rounds, Round
  <1>2. Rounds(iter, stream, n)
    BY RoundsExist
  <1> HIDE DEF iter
  <1>3. \A s \in SUBSET (1..n) : iter[s] = Round(iter, stream, s)
    <2>1. iter = [s \in SUBSET (1..n) |-> Round(iter, stream, s)]
      BY <1>2 DEF Rounds
    <2> QED
      BY <2>1
  <1>4. \A k \in 0..n : iter[1..k] = reach[k]
    <2> DEFINE Wrong == {k \in 0..n : iter[1..k] # reach[k]}
    <2> SUFFICES ASSUME Wrong # {} PROVE FALSE
      OBVIOUS
    <2>1. Wrong \in SUBSET Nat
      OBVIOUS
    <2>2. PICK k \in Wrong : \A j \in Wrong : k <= j
      BY <2>1, Least
    <2>3. k \in 0..n /\ iter[1..k] # reach[k] /\ iter[1..k] = Round(iter, stream, 1..k)
      BY <1>3, <2>2
    <2>4. CASE k = 0
      <3>1. 1..k = {}
        BY <2>4, Intervals
      <3> QED
        BY <2>3, <2>4, <3>1 DEF Round
    <2>5. CASE k # 0
      <3>1. k \in 1..n /\ k \in Nat \ {0} /\ k - 1 \in 0..n /\ ~ (k <= k - 1)
        BY <2>3, <2>5
      <3>2. iter[1..(k - 1)] = reach[k - 1]
        BY <2>2, <3>1
      <3>3. Max(1..k) = k /\ (1..k) \ {k} = 1..(k - 1) /\ 1..k # {}
        BY <3>1, Intervals
      <3>4. Round(iter, stream, 1..k) = FoldStep(iter[1..(k - 1)], stream[k])
        BY <3>3 DEF Round
      <3> QED
        BY <2>3, <3>1, <3>2, <3>4
    <2> QED
      BY <2>4, <2>5
  <1> QED
    BY <1>1, <1>4

LEMMA ChainedVerifies ==
    ASSUME TypeOK, NEW t \in Tasks, Chained(db, t), db.rows[t] # NoRow
    PROVE  VerifyTask(db, t) = db.rows[t] /\ db.rows[t] # Bad
PROOF
  <1> DEFINE v == db.rows[t].version
             stream == EventStream(db, t)
             reach == [k \in 0..v |-> Reached(db, t, k)]
  <1>1. v \in Nat /\ db.rows[t].phase # "BAD"
    BY DEF TypeOK, Database, Row, NoRow, TaskPhase, READY_PHASES
  <1>2. /\ DOMAIN stream = 1..v
        /\ \A i \in 1..v : stream[i] \in History(db, t) /\ stream[i].version = i
    BY StreamIsHistory
  <1>3. reach[0] = Origin /\ reach[v] = db.rows[t]
    BY <1>1, ChainedReplays DEF Reached
  <1>4. \A k \in 1..v : FoldStep(reach[k - 1], stream[k]) = reach[k]
    <2> SUFFICES ASSUME NEW k \in 1..v PROVE FoldStep(reach[k - 1], stream[k]) = reach[k]
      OBVIOUS
    <2>1. reach[k - 1] = Reached(db, t, k - 1) /\ reach[k] = Reached(db, t, k)
      BY <1>1
    <2>2. stream[k] \in History(db, t) /\ stream[k].version = k
      BY <1>2
    <2> QED
      BY <2>1, <2>2, ChainedReplays
  <1>5. \A k \in 0..v : reach[k].version = k /\ reach[k] # Bad
    <2> SUFFICES ASSUME NEW k \in 0..v PROVE reach[k].version = k /\ reach[k] # Bad
      OBVIOUS
    <2>1. CASE k = 0
      BY <1>3, <2>1 DEF Origin, Bad
    <2>2. CASE k # 0
      <3>1. reach[k].version = k
        BY <1>1, <2>2 DEF Reached
      <3> QED
        BY <1>1, <2>2, <3>1 DEF Bad
    <2> QED
      BY <2>1, <2>2
  <1> HIDE DEF reach, stream, v
  <1>6. FoldTaskStream(stream) = reach[v]
    BY <1>1, <1>2, <1>3, <1>4, <1>5, FoldIsReached
  <1> QED
    BY <1>1, <1>3, <1>6 DEF VerifyTask, stream, Bad

\* In no committed state does a replay of the ledger disagree with the row:
\* doctor, health and recover never find a drift that the service caused.
THEOREM LedgerNeverDrifts ==
    ASSUME DisciplinedCallers
    PROVE  Spec => []NoDrift
PROOF
  <1>1. TypeOK /\ LedgerTellsRows => NoDrift
    <2> SUFFICES ASSUME TypeOK, LedgerTellsRows, NEW t \in Tasks
                 PROVE  DiagnoseTask(db, t) # "DRIFT"
      BY DEF NoDrift, Drifts
    <2>1. db.rows[t] # NoRow => VerifyTask(db, t) # Bad
      BY ChainedVerifies DEF LedgerTellsRows
    <2> QED
      BY <2>1 DEF DiagnoseTask
  <1> QED
    BY <1>1, TypeInvariant, LedgerAlwaysTellsRows, PTL

-------------------------------------------------------------------------------
(* What the ledger of a judged task tells.                                 *)

\* A task that was judged has been through every phase before: its ledger tells
\* of the approval, the change, the evidence, the review and the policy, which is
\* what the pilot looks for in it (state.py:24-49, run.py:367-377).
Stations == {"EDIT_AUTHORIZED", "IMPLEMENTING", "DELTA_CAPTURED", "EVIDENCE_RUNNING",
             "REVIEWING", "POLICY_EVALUATING"}

JudgedTasksTellAll ==
    \A t \in Tasks :
      db.rows[t].phase \in READY_PHASES \cup {"COMPLETED", "FAILED"} =>
        \A p \in Stations : \E e \in History(db, t) : e.to = p

\* The one phase that comes before each.
LEMMA OnlyWayTo ==
    ASSUME NEW from, NEW to, CanTransition(from, to)
    PROVE  /\ to = "COMPLETED" => from \in READY_PHASES
           /\ to \in READY_PHASES \cup {"FAILED"} => from = "POLICY_EVALUATING"
           /\ to = "POLICY_EVALUATING" => from = "REVIEWING"
           /\ to = "REVIEWING" => from = "EVIDENCE_RUNNING"
           /\ to = "EVIDENCE_RUNNING" => from = "DELTA_CAPTURED"
           /\ to = "DELTA_CAPTURED" => from = "IMPLEMENTING"
           /\ to = "IMPLEMENTING" => from = "EDIT_AUTHORIZED"
  BY DEF CanTransition, LEGAL_TRANSITIONS, READY_PHASES

\* A phase that a task left it had come to before.
LEMMA CameTo ==
    ASSUME TypeOK, NEW t \in Tasks, Chained(db, t),
           NEW e \in History(db, t), e.from # "CREATED"
    PROVE  \E f \in History(db, t) : f.to = e.from
PROOF
  <1>1. db.rows[t].version \in Nat
    BY DEF TypeOK, Database, Row, NoRow
  <1>2. e.version \in 1..db.rows[t].version /\ e.version # 1
    BY DEF Chained
  <1>3. e.version - 1 \in 1..db.rows[t].version
    BY <1>1, <1>2
  <1>4. PICK f \in History(db, t) : f.version = e.version - 1
    BY <1>3 DEF Chained
  <1>5. e.version = f.version + 1
    BY <1>1, <1>2, <1>4
  <1> QED
    BY <1>5 DEF Chained

LEMMA ChainedTellsAll ==
    ASSUME TypeOK, NEW t \in Tasks, Chained(db, t),
           db.rows[t].phase \in READY_PHASES \cup {"COMPLETED", "FAILED"}
    PROVE  \A p \in Stations : \E e \in History(db, t) : e.to = p
PROOF
  <1> DEFINE Told(p) == \E e \in History(db, t) : e.to = p
  <1>1. \A e \in History(db, t) : CanTransition(e.from, e.to)
    BY DEF Chained
  <1>2. \A e \in History(db, t) : e.from # "CREATED" => Told(e.from)
    BY CameTo
  <1>3. Told(db.rows[t].phase)
    <2>1. db.rows[t].version \in Nat
      BY DEF TypeOK, Database, Row, NoRow
    <2>2. db.rows[t].version # 0
      BY DEF Chained, NoRow, CreatedRow, READY_PHASES
    <2>3. PICK e \in History(db, t) : e.version = db.rows[t].version
      BY <2>1, <2>2 DEF Chained
    <2>4. e.to = db.rows[t].phase
      BY <2>3 DEF Chained
    <2> QED
      BY <2>3, <2>4
  <1>4. Told("COMPLETED") => \E p \in READY_PHASES : Told(p)
    BY <1>1, <1>2, OnlyWayTo DEF READY_PHASES
  <1>5. (\E p \in READY_PHASES \cup {"FAILED"} : Told(p)) => Told("POLICY_EVALUATING")
    BY <1>1, <1>2, OnlyWayTo
  <1>6. Told("POLICY_EVALUATING") => Told("REVIEWING")
    BY <1>1, <1>2, OnlyWayTo
  <1>7. Told("REVIEWING") => Told("EVIDENCE_RUNNING")
    BY <1>1, <1>2, OnlyWayTo
  <1>8. Told("EVIDENCE_RUNNING") => Told("DELTA_CAPTURED")
    BY <1>1, <1>2, OnlyWayTo
  <1>9. Told("DELTA_CAPTURED") => Told("IMPLEMENTING")
    BY <1>1, <1>2, OnlyWayTo
  <1>10. Told("IMPLEMENTING") => Told("EDIT_AUTHORIZED")
    BY <1>1, <1>2, OnlyWayTo
  <1> HIDE DEF Told
  <1>11. \A p \in Stations : Told(p)
    BY <1>3, <1>4, <1>5, <1>6, <1>7, <1>8, <1>9, <1>10 DEF Stations
  <1> QED
    BY <1>11 DEF Told

\* A task that is ready, completed or failed has all of it in its ledger,
\* whichever connections moved it and whatever failed on the way.
THEOREM JudgedTasksAreTold ==
    ASSUME DisciplinedCallers
    PROVE  Spec => []JudgedTasksTellAll
PROOF
  <1>1. TypeOK /\ LedgerTellsRows => JudgedTasksTellAll
    BY ChainedTellsAll DEF JudgedTasksTellAll, LedgerTellsRows
  <1> QED
    BY <1>1, TypeInvariant, LedgerAlwaysTellsRows, PTL
===============================================================================
