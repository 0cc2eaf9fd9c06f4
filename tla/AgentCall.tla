------------------------------- MODULE AgentCall -------------------------------
(***************************************************************************)
(* One call of an agent, from run_with_retry (retry.py) through the role   *)
(* runner (pilot/adapter.py) and the SDK runner (agents/claude_sdk.py) to  *)
(* the model and back. The model is reached by one of three channels:      *)
(*   sdk     the query of claude-agent-sdk, a stream without a timeout     *)
(*   cli     a CC-Switch subprocess that is waited for, and killed         *)
(*   custom  any other RoleRunner, which may raise what retry.py retries   *)
(* Messages that are no results are left out; of a result only what        *)
(* decides is kept: its error flag, its cost and what its text parses to.  *)
(***************************************************************************)
EXTENDS Naturals

CONSTANTS Channels,      \* those that exist: a subset of the three
          Budgets,       \* values of max_budget_usd; 0 is no limit for the SDK
          Costs,         \* what a result may say it cost
          CliTimeout,    \* wait_for's timeout in _query_via_ccswitch
          DeadlineAt,    \* cfg.agent_deadline_minutes
          MaxClock,      \* bound on the clock, past both
          MaxRetries     \* cfg.agent_max_retries

ASSUME ChannelsAssumption == Channels \subseteq {"sdk", "cli", "custom"}
ASSUME MoneyAssumption    == Budgets \subseteq Nat /\ Costs \subseteq Nat
ASSUME CountsAssumption   == /\ MaxRetries \in Nat
                             /\ CliTimeout \in 0..MaxClock /\ DeadlineAt \in Nat

VARIABLES
  channel,   \* fixed while the process lives
  budget,
  at,        \* idle, called, model, asleep, done
  attempt,   \* calls of the runner in run_with_retry
  model,     \* none, running, ended, broken (its stream raised), killed
  result,    \* the last one of the stream, a set of at most one
  clock,     \* since started_at
  oc,        \* the RoleOutcome, or the exception instead of one
  paid       \* history: attempts in which the model gave a result

setup    == <<channel, budget>>
callVars == <<setup, at, attempt, model, result, clock, oc, paid>>

\* A total_cost_usd that is absent or not a number counts as 0 everywhere.
Result == [is_error : BOOLEAN, cost : Costs,
           text : {"report", "escalated", "malformed"}]

Nothing == [how |-> "none", status |-> "none", cost |-> 0]

Raised(what) == [how |-> "raised", status |-> what, cost |-> 0]

Returned(status, cost) == [how |-> "returned", status |-> status, cost |-> cost]

\* Where _query sends a prompt: to CC-Switch if there is one, unless a query
\* function was injected in its place or in the SDK's.
Route(ccswitch, injected) == IF ccswitch /\ ~ injected THEN "cli" ELSE "sdk"

CallInit ==
    /\ channel \in Channels \cap ({"custom"} \cup {Route(c, i) : c, i \in BOOLEAN})
    /\ budget \in Budgets
    /\ at = "idle" /\ attempt = 0
    /\ model = "none" /\ result = {}
    /\ clock = 0 /\ oc = Nothing
    /\ paid = 0

-------------------------------------------------------------------------------
(* What becomes of a result.                                               *)

\* Mutant: an error is an error only if nothing else came with it.
MapResultText(m) ==
    IF m.is_error /\ m.text = "malformed" THEN "failed"
    ELSE IF budget > 0 /\ m.cost > budget THEN "budget_exceeded"
    ELSE "completed"

\* _map_result, and the status role_outcome gives its reason.
MapResult(m) ==
    IF m.is_error THEN "failed"
    ELSE IF budget > 0 /\ m.cost > budget THEN "budget_exceeded"
    ELSE "completed"

\* role_outcome. An implementer may decline; a text that is no report is a
\* ValueError.
RoleOutcome(m) ==
    LET s == MapResult(m)
    IN  CASE s = "completed" /\ m.text = "malformed" -> Raised("ValueError")
          [] s = "completed" /\ m.text = "escalated" -> Returned("cancelled", m.cost)
          [] OTHER                                   -> Returned(s, m.cost)

\* normalize_status, at ended_at. Here a budget of 0 is a budget.
Normalized ==
    IF oc.status # "completed" THEN oc.status
    ELSE IF clock > DeadlineAt THEN "timeout"
    ELSE IF oc.cost > budget THEN "budget_exceeded"
    ELSE "completed"

-------------------------------------------------------------------------------
(* run_with_retry                                                          *)

\* The engine calls; without a single attempt "raise last_exc" is a TypeError.
BeginCall ==
    /\ IF MaxRetries = 0 THEN at' = "done" /\ oc' = Raised("unlisted")
                         ELSE at' = "called" /\ oc' = Nothing
    /\ attempt' = 0 /\ clock' = 0
    /\ model' = "none" /\ result' = {}
    /\ paid' = 0
    /\ UNCHANGED setup

\* The engine has its answer, or died.
EndCall ==
    /\ at' = "idle"
    /\ attempt' = 0 /\ clock' = 0
    /\ result' = {} /\ oc' = Nothing
    /\ paid' = 0
    /\ UNCHANGED <<setup, model>>

Answer(o) == at' = "done" /\ oc' = o

\* Mutant: errors of the transport are raised, for run_with_retry to retry.
TransportErrorRaised ==
    IF attempt < MaxRetries THEN at' = "asleep" /\ UNCHANGED oc
                            ELSE Answer(Raised("retryable"))

\* Whatever goes wrong in the query, run returns an ERROR outcome without
\* usage: no exception reaches run_with_retry.
TransportError == Answer(Returned("failed", 0))

\* RateLimitError and TemporaryNetworkError are retried, anything else is
\* raised at once. None of the runners here raises the first two.
CustomRaises ==
    /\ at = "model" /\ channel = "custom"
    /\ \/ attempt < MaxRetries /\ at' = "asleep" /\ UNCHANGED oc
       \/ attempt = MaxRetries /\ Answer(Raised("retryable"))
       \/ \E what \in {"budget", "ValueError", "unlisted"} : Answer(Raised(what))
    /\ model' = "ended"
    /\ UNCHANGED <<setup, attempt, result, clock, paid>>

CustomReturns ==
    /\ at = "model" /\ channel = "custom"
    /\ \E s \in {"completed", "failed", "timeout", "budget_exceeded", "cancelled"}, c \in Costs :
         Answer(Returned(s, c))
    /\ model' = "ended"
    /\ UNCHANGED <<setup, attempt, result, clock, paid>>

Wakes ==
    /\ at = "asleep"
    /\ at' = "called"
    /\ UNCHANGED <<setup, attempt, model, result, clock, oc, paid>>

-------------------------------------------------------------------------------
(* RealRoleRunner.run and ClaudeSdkRunner.run                              *)

\* The worktree is gone, the alias unknown, an approved file unreadable for
\* snapshot_files, the SDK not installed: before the try of run.
Unprepared ==
    /\ at = "called" /\ channel # "custom"
    /\ \E what \in {"ValueError", "unlisted"} : Answer(Raised(what))
    /\ attempt' = attempt + 1
    /\ UNCHANGED <<setup, model, result, clock, paid>>

\* Without a limit the CLI's command line cannot be built: float(None).
Launch ==
    /\ at = "called"
    /\ attempt' = attempt + 1
    /\ result' = {}
    /\ IF channel = "cli" /\ budget = 0
       THEN TransportError /\ UNCHANGED model
       ELSE /\ at' = "model" /\ UNCHANGED oc
            /\ model' = "running"
    /\ UNCHANGED <<setup, clock, paid>>

\* The last result of a stream counts; standard output is one JSON document.
Says ==
    /\ model = "running" /\ at = "model" /\ channel # "custom"
    /\ channel = "cli" => result = {}
    /\ \E m \in Result : result' = {m}
    /\ paid' = attempt
    /\ UNCHANGED <<setup, at, attempt, model, clock, oc>>

\* The stream ends or raises, the process exits: with which code does not
\* matter to a result, and without one every code is an error.
Ends ==
    /\ model = "running" /\ at = "model" /\ channel # "custom"
    /\ model' \in IF channel = "sdk" THEN {"ended", "broken"} ELSE {"ended"}
    /\ UNCHANGED <<setup, at, attempt, result, clock, oc, paid>>

Answered ==
    /\ at = "model" /\ channel # "custom"
    /\ model \in {"ended", "broken"}
    /\ IF model = "broken" \/ result = {} THEN TransportError
       ELSE \E m \in result : Answer(RoleOutcome(m))
    /\ UNCHANGED <<setup, attempt, model, result, clock, paid>>

\* Mutant: communicate is awaited without wait_for.
TimesOutNever == FALSE /\ UNCHANGED callVars

TimesOut ==
    /\ at = "model" /\ channel = "cli" /\ model = "running"
    /\ clock >= CliTimeout
    /\ model' = "killed"
    /\ TransportError
    /\ UNCHANGED <<setup, attempt, result, clock, paid>>

Tick ==
    /\ at # "idle" /\ clock < MaxClock
    /\ clock' = clock + 1
    /\ UNCHANGED <<setup, at, attempt, model, result, oc, paid>>

\* The engine's process, in the call.
CallWorks == \/ Unprepared \/ Launch \/ Answered \/ TimesOut \/ Wakes

ModelActs == Says \/ Ends \/ CustomRaises \/ CustomReturns
===============================================================================
