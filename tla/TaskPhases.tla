------------------------------ MODULE TaskPhases ------------------------------
(***************************************************************************)
(* The task state machine of AOTF (models.py, state.py): its phases, which *)
(* of them are terminal, and the frozen matrix of legal transitions.       *)
(* Every other module of the project is built on these operators.          *)
(***************************************************************************)

READY_PHASES == {"CHECKPOINT_READY", "RELEASE_CANDIDATE"}

\* Mutant: SAFE_HALT forgotten in the table of terminal phases.
TerminalWithoutHalt == {"COMPLETED", "FAILED", "CANCELLED"}

TERMINAL_TASK_PHASES == {"COMPLETED", "FAILED", "CANCELLED", "SAFE_HALT"}

TaskPhase == { "CREATED", "BASELINING", "PLAN_READY", "AWAITING_PLAN_APPROVAL",
               "EDIT_AUTHORIZED", "IMPLEMENTING", "DELTA_CAPTURED",
               "EVIDENCE_RUNNING", "REVIEWING", "POLICY_EVALUATING" }
             \cup READY_PHASES \cup {"COMPLETED", "FAILED", "CANCELLED", "SAFE_HALT"}

\* The pairs <<from, to>> the matrix lists.
LEGAL_TRANSITIONS ==
    { <<"CREATED",                "BASELINING">>,
      <<"BASELINING",             "PLAN_READY">>,
      <<"PLAN_READY",             "AWAITING_PLAN_APPROVAL">>,
      <<"AWAITING_PLAN_APPROVAL", "EDIT_AUTHORIZED">>,
      <<"EDIT_AUTHORIZED",        "IMPLEMENTING">>,
      <<"IMPLEMENTING",           "DELTA_CAPTURED">>,
      <<"DELTA_CAPTURED",         "EVIDENCE_RUNNING">>,
      <<"EVIDENCE_RUNNING",       "REVIEWING">>,
      <<"REVIEWING",              "POLICY_EVALUATING">>,
      <<"POLICY_EVALUATING",      "CHECKPOINT_READY">>,
      <<"POLICY_EVALUATING",      "RELEASE_CANDIDATE">>,
      <<"POLICY_EVALUATING",      "FAILED">>,
      <<"CHECKPOINT_READY",       "COMPLETED">>,
      <<"RELEASE_CANDIDATE",      "COMPLETED">> }

\* A task leaves no terminal phase; from any other it may be cancelled or
\* halted, and otherwise it follows the matrix.
CanTransition(from, to) ==
    /\ from \notin TERMINAL_TASK_PHASES
    /\ from # to
    /\ \/ to \in {"CANCELLED", "SAFE_HALT"}
       \/ <<from, to>> \in LEGAL_TRANSITIONS

===============================================================================
