------------------------------ MODULE TaskLedger ------------------------------
(***************************************************************************)
(* What the state service promises, with no connection, lock or            *)
(* transaction in sight: a task moves by atomic steps, each of which       *)
(* changes the task's row and appends the event that tells of it.          *)
(* StateService is shown to implement this specification.                  *)
(***************************************************************************)
EXTENDS TaskPhases, Naturals

CONSTANTS Tasks,        \* task ids
          EventIds      \* event ids callers may supply

VARIABLES rows,         \* table tasks:  [Tasks -> Row \cup {NoRow}]
          events        \* table events: a set of Event

\* terminal_reason as far as TaskRecord tells reasons apart: no reason, one
\* that _optional_text accepts, and one that is not blank but that
\* _optional_text refuses (outer blanks, control characters, over 1024).
RowReason == {"none", "ok", "malformed"}

Row == [phase : TaskPhase, version : Nat, reason : RowReason]

\* A task id with no row.
NoRow == [phase |-> "ABSENT", version |-> 0, reason |-> "none"]

\* insert_task of a fresh record, as the pilot and the tests create tasks.
CreatedRow == [phase |-> "CREATED", version |-> 0, reason |-> "none"]

Event == [id : EventIds, task : Tasks, version : Nat,
          from : TaskPhase, to : TaskPhase, reason : RowReason]

-------------------------------------------------------------------------------
Init == /\ rows = [t \in Tasks |-> NoRow]
        /\ events = {}

Create(t) == /\ rows[t] = NoRow
             /\ rows' = [rows EXCEPT ![t] = CreatedRow]
             /\ UNCHANGED events

Advance(t, to, reason, id) ==
    /\ CanTransition(rows[t].phase, to)
    /\ rows[t] # NoRow
    /\ to \in TERMINAL_TASK_PHASES <=> reason # "none"
    /\ \A e \in events : e.id # id
    /\ rows' = [rows EXCEPT ![t] = [phase |-> to, version |-> @.version + 1,
                                    reason |-> reason]]
    /\ events' = events \cup
                   {[id |-> id, task |-> t, version |-> rows[t].version + 1,
                     from |-> rows[t].phase, to |-> to, reason |-> reason]}

Next == \E t \in Tasks :
          \/ Create(t)
          \/ \E to \in TaskPhase, reason \in RowReason, id \in EventIds :
               Advance(t, to, reason, id)

Spec == Init /\ [][Next]_<<rows, events>>
===============================================================================
