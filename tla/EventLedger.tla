----------------------------- MODULE EventLedger -----------------------------
(***************************************************************************)
(* The ledger side of the control store (ledger.py) and the diagnosis that *)
(* doctor, health and recover read from it (recovery.py): pure functions   *)
(* of the tables tasks and events. A table is that of StateService.        *)
(***************************************************************************)
EXTENDS StateService, SequencesExt

\* The state a fold has reached; Bad once _bad has been raised.
Origin == [phase |-> "CREATED", version |-> 0, reason |-> "none"]
Bad    == [phase |-> "BAD", version |-> 0, reason |-> "none"]

ByVersion(history) ==
    CHOOSE s \in [1..Cardinality(history) -> history] :
      /\ IsInjective(s)
      /\ \A i, j \in DOMAIN s : i < j => s[i].version <= s[j].version

\* All events of the task, by aggregate_version.
EventStream(d, t) == ByVersion(History(d, t))

\* One round of the loop: the checks that raise, then the assignments.
FoldStep(acc, e) ==
    IF /\ acc # Bad
       /\ e.version = acc.version + 1
       /\ e.from = acc.phase
       /\ CanTransition(e.from, e.to)
       /\ e.to \in TERMINAL_TASK_PHASES <=> e.reason # "none"
    THEN [phase |-> e.to, version |-> acc.version + 1, reason |-> e.reason]
    ELSE Bad

FoldTaskStream(stream) == FoldLeft(FoldStep, Origin, stream)

\* verify_task on a readable row: the projection, or Bad. Row and event take
\* their time from the same argument of transition; the comparison of the two
\* (ledger.py:111) is left out with the times.
VerifyTask(d, t) ==
    LET projection == FoldTaskStream(EventStream(d, t))
    IN  IF projection = d.rows[t] THEN projection ELSE Bad

\* diagnose_task reads the row before its try: an unreadable row raises out
\* of it, and out of doctor, health and recover with it.
DiagnoseTask(d, t) ==
    IF d.rows[t] = NoRow             THEN "MISSING"
    ELSE IF ~ Readable(d.rows[t])    THEN "RAISES"
    ELSE IF VerifyTask(d, t) = Bad   THEN "DRIFT"
    ELSE                                  "CONSISTENT"

\* What doctor and health report of all tasks.
Drifts(d) == {t \in Tasks : DiagnoseTask(d, t) = "DRIFT"}

\* aotf recover: a proposal only for a consistent row that may be succeeded.
Recover(d, t) ==
    LET diagnosis == DiagnoseTask(d, t)
    IN  IF diagnosis \in {"MISSING", "DRIFT"}                THEN "blocked"
        ELSE IF diagnosis = "RAISES"                         THEN "raises"
        ELSE IF d.rows[t].phase \in {"FAILED", "SAFE_HALT"}  THEN "propose_successor"
        ELSE                                                      "none"

-------------------------------------------------------------------------------
\* Replaying the ledger never finds a drift, at any point of any run of the
\* service: what doctor and recover report is never caused by the service
\* itself (ledger.py:98-113, recovery.py:42-55).
NoDrift == Drifts(db) = {}

\* Once recover has proposed a successor for a task, the task can never again
\* be found in another state: the proposal does not go stale
\* (recovery.py:31-39, cli.py:129-156).
ProposalStaysValid ==
    [][\A t \in Tasks : Recover(db, t) = "propose_successor" =>
                          Recover(db', t) = "propose_successor"]_vars
===============================================================================
