---------------------------- MODULE EngineCallsProofs ----------------------------
(***************************************************************************)
(* The closed loop with the agent calls as they are: every run of it is a  *)
(* run of module Engine, and what the engine records and uses as an answer *)
(* is one the model earned, for any channel, budget, timeout and number of *)
(* retries.                                                                *)
(***************************************************************************)
EXTENDS EngineCalls, EngineProofs

-------------------------------------------------------------------------------
(* The composition implements the engine.                                  *)

\* What happens inside of a call is invisible to the engine, and what it takes
\* from a call is one of the answers that module Engine allows for.
LEMMA ComposedStep == [CNext]_allVars => [Next]_vars
PROOF
  <1> SUFFICES ASSUME [CNext]_allVars PROVE [Next]_vars
    OBVIOUS
  <1>1. ASSUME NEW e \in Engines, Outside(e) PROVE Next
    <2>1. Start(e) \/ Works(e)
      BY <1>1 DEF Outside
    <2> QED
      BY <2>1 DEF Next
  <1>2. ASSUME NEW e \in Engines, TakeException(e) \/ TakeOutcome(e) PROVE Next
    <2>1. \A s \in Statuses : AgentFailsWith(e, s) => AgentFails(e)
      BY DEF AgentFails
    <2>2. Answers(e)
      BY <1>2, <2>1 DEF TakeException, TakeOutcome, Answers, Statuses
    <2> QED
      BY <2>2 DEF Next
  <1>3. ASSUME NEW e \in Engines, Dies(e) \/ AgentTouches(e) PROVE Next
    BY <1>3 DEF Dies, Next
  <1>4. CASE Inside \/ UNCHANGED allVars
    BY <1>4 DEF Inside, allVars
  <1>5. CASE Cancel \/ OthersWrite \/ Expire
    BY <1>5 DEF Next
  <1> QED
    BY <1>1, <1>2, <1>3, <1>4, <1>5 DEF CNext

\* The engine with its agent calls implements the engine in which agents answer
\* as they like: what is proved of the latter holds of the former.
THEOREM CallsImplementEngine == CSpec => Spec
PROOF
  <1>1. CInit => Init
    BY DEF CInit
  <1> QED
    BY <1>1, ComposedStep, PTL DEF CSpec, Spec

\* With real calls, too, each agent is asked at most once and on an approval
\* that covers the plan, the row is backed by git and by agent_runs, a process
\* returns with the task at its end, and a ready task has been earned.
THEOREM EnginePromisesHold ==
    CSpec => [](AskedOnce /\ EditsAreApproved /\ PhaseIsBacked /\ ReturnsFinal) /\ ReadyIsEarned
  BY CallsImplementEngine, AgentsAreAskedOnce, EditsStayApproved, PhaseStaysBacked,
     ReturnsStayFinal, ReadyStaysEarned, PTL

-------------------------------------------------------------------------------
(* A call                                                                  *)

Outcomes == [how    : {"none", "raised", "returned"},
             status : {"none", "completed", "failed", "timeout", "budget_exceeded", "cancelled",
                       "retryable", "budget", "ValueError", "unlisted"},
             cost   : Nat]

CallTypes ==
    /\ channel \in {"sdk", "cli", "custom"} /\ budget \in Nat
    /\ at \in {"idle", "called", "model", "asleep", "done"}
    /\ attempt \in Nat /\ clock \in Nat /\ paid \in Nat
    /\ model \in {"none", "running", "ended", "broken", "killed"}
    /\ result \subseteq Result
    /\ oc \in Outcomes

\* What the engine is told, and what the model delivered.
Accepted  == oc.how = "returned" /\ oc.status = "completed"
Report(m) == ~ m.is_error /\ m.text = "report" /\ (budget > 0 => m.cost <= budget)
Delivered == model = "ended" /\ \E m \in result : Report(m)

\* The real runners raise nothing that is retried: a call has one attempt, and
\* before it nothing is known of the model.
CallInv ==
    /\ \A m, n \in result : m = n
    /\ Real => at # "asleep"
    /\ Real /\ at = "called" => attempt = 0 /\ paid = 0 /\ model = "none" /\ result = {}
    /\ PaidOnce
    /\ Real /\ at = "done" => /\ Accepted <=> Delivered
                              /\ Accepted => \A m \in result : oc.cost = m.cost

CallStays == CallTypes' /\ CallInv'

LEMMA OutcomeTypes ==
    /\ Nothing \in Outcomes
    /\ \A s \in {"retryable", "budget", "ValueError", "unlisted"} : Raised(s) \in Outcomes
    /\ \A s \in {"completed", "failed", "timeout", "budget_exceeded", "cancelled"}, c \in Nat :
         Returned(s, c) \in Outcomes
  BY DEF Nothing, Raised, Returned, Outcomes

\* role_outcome makes a completed run of a report without an error and within
\* the budget, if there is one, and of nothing else; the cost is the result's.
LEMMA OutcomeIsEarned ==
    ASSUME budget \in Nat, NEW m \in Result
    PROVE  LET o == RoleOutcome(m)
           IN  /\ o \in Outcomes
               /\ o.how = "returned" /\ o.status = "completed" <=> Report(m)
               /\ o.how = "returned" => o.cost = m.cost
PROOF
  <1>1. m.cost \in Nat /\ m.is_error \in BOOLEAN /\ m.text \in {"report", "escalated", "malformed"}
    BY MoneyAssumption DEF Result
  <1>2. CASE MapResult(m) # "completed"
    <2>1. MapResult(m) \in {"failed", "budget_exceeded"}
      BY <1>2 DEF MapResult
    <2>2. RoleOutcome(m) = Returned(MapResult(m), m.cost)
      BY <1>2 DEF RoleOutcome
    <2>3. ~ Report(m)
      BY <1>1, <1>2 DEF MapResult, Report
    <2> QED
      BY <1>1, <2>1, <2>2, <2>3, OutcomeTypes DEF Returned
  <1>3. CASE MapResult(m) = "completed"
    <2>1. Report(m) <=> m.text = "report"
      BY <1>1, <1>3 DEF MapResult, Report
    <2>2. CASE m.text = "malformed"
      <3>1. RoleOutcome(m) = Raised("ValueError")
        BY <1>3, <2>2 DEF RoleOutcome
      <3> QED
        BY <2>1, <2>2, <3>1, OutcomeTypes DEF Raised
    <2>3. CASE m.text = "escalated"
      <3>1. RoleOutcome(m) = Returned("cancelled", m.cost)
        BY <1>3, <2>3 DEF RoleOutcome
      <3> QED
        BY <1>1, <2>1, <2>3, <3>1, OutcomeTypes DEF Returned
    <2>4. CASE m.text = "report"
      <3>1. RoleOutcome(m) = Returned("completed", m.cost)
        BY <1>3, <2>4 DEF RoleOutcome
      <3> QED
        BY <1>1, <2>1, <2>4, <3>1, OutcomeTypes DEF Returned
    <2> QED
      BY <1>1, <2>2, <2>3, <2>4
  <1> QED
    BY <1>2, <1>3

LEMMA CallBegins == CInit => CallTypes /\ CallInv
PROOF
  <1> SUFFICES ASSUME CInit PROVE CallTypes /\ CallInv
    OBVIOUS
  <1>1. channel \in {"sdk", "cli", "custom"} /\ budget \in Nat
    BY ChannelsAssumption, MoneyAssumption DEF CInit, CallInit
  <1> QED
    BY <1>1, OutcomeTypes DEF CInit, CallInit, CallTypes, CallInv, PaidOnce, Real

LEMMA CallEnds == CallTypes /\ CallInv /\ (BeginCall \/ EndCall) => CallStays
PROOF
  <1> SUFFICES ASSUME CallTypes, CallInv, BeginCall \/ EndCall PROVE CallStays
    OBVIOUS
  <1>1. oc' \in Outcomes /\ (at' = "done" => ~ Accepted')
    BY OutcomeTypes DEF BeginCall, EndCall, Accepted, Raised
  <1> QED
    BY <1>1 DEF BeginCall, EndCall, setup, CallStays, CallTypes, CallInv, PaidOnce, Real,
       Delivered, Report

\* An error on the way is an outcome that nobody accepts.
LEMMA ErrorsAreRefused ==
    /\ \A s \in {"retryable", "budget", "ValueError", "unlisted"} :
         Answer(Raised(s)) => oc' \in Outcomes /\ at' = "done" /\ ~ Accepted'
    /\ TransportError => oc' \in Outcomes /\ at' = "done" /\ ~ Accepted'
  BY OutcomeTypes DEF Answer, Accepted, Raised, Returned, TransportError

LEMMA CallWorksStep == CallTypes /\ CallInv /\ CallWorks => CallStays
PROOF
  <1> SUFFICES ASSUME CallTypes, CallInv, CallWorks PROVE CallStays
    OBVIOUS
  <1> USE DEF setup, CallStays, CallTypes, CallInv, PaidOnce, Real, Delivered, Report
  <1>1. CASE Unprepared
    <2>1. oc' \in Outcomes /\ at' = "done" /\ ~ Accepted'
      BY <1>1, ErrorsAreRefused DEF Unprepared
    <2> QED
      BY <1>1, <2>1 DEF Unprepared
  <1>2. CASE Launch
    <2>1. channel = "cli" /\ budget = 0 => oc' \in Outcomes /\ at' = "done" /\ ~ Accepted'
      BY <1>2, ErrorsAreRefused DEF Launch
    <2> QED
      BY <1>2, <2>1 DEF Launch
  <1>3. CASE Answered
    <2>1. CASE model = "broken" \/ result = {}
      <3>1. oc' \in Outcomes /\ at' = "done" /\ ~ Accepted'
        BY <1>3, <2>1, ErrorsAreRefused DEF Answered
      <3> QED
        BY <1>3, <2>1, <3>1 DEF Answered
    <2>2. CASE model = "ended" /\ result # {}
      <3>1. PICK m \in result : Answer(RoleOutcome(m))
        BY <1>3, <2>2 DEF Answered
      <3>2. oc' \in Outcomes /\ at' = "done" /\ budget' = budget
            /\ (Accepted' <=> Report(m)) /\ (Accepted' => oc'.cost = m.cost)
        BY <1>3, <3>1, OutcomeIsEarned DEF Answer, Answered, Accepted
      <3>3. (Accepted' <=> Delivered) /\ (Accepted' => \A n \in result : oc'.cost = n.cost)
        BY <2>2, <3>2
      <3> QED
        BY <1>3, <3>2, <3>3 DEF Answered
    <2> QED
      BY <1>3, <2>1, <2>2 DEF Answered
  <1>4. CASE TimesOut
    <2>1. oc' \in Outcomes /\ at' = "done" /\ ~ Accepted'
      BY <1>4, ErrorsAreRefused DEF TimesOut
    <2> QED
      BY <1>4, <2>1 DEF TimesOut
  <1>5. CASE Wakes
    BY <1>5 DEF Wakes
  <1> QED
    BY <1>1, <1>2, <1>3, <1>4, <1>5 DEF CallWorks

LEMMA ModelStep == CallTypes /\ CallInv /\ (ModelActs \/ Tick \/ UNCHANGED callVars) => CallStays
PROOF
  <1> SUFFICES ASSUME CallTypes, CallInv, ModelActs \/ Tick \/ UNCHANGED callVars PROVE CallStays
    OBVIOUS
  <1> USE DEF setup, CallStays, CallTypes, CallInv, PaidOnce, Real, Delivered, Report, Accepted
  <1>1. CASE Says
    BY <1>1 DEF Says
  <1>2. CASE Ends
    BY <1>2 DEF Ends
  <1>3. CASE CustomRaises
    <2>1. oc' \in Outcomes /\ at' \in {"asleep", "done"}
      BY <1>3, ErrorsAreRefused DEF CustomRaises
    <2> QED
      BY <1>3, <2>1 DEF CustomRaises
  <1>4. CASE CustomReturns
    <2>1. oc' \in Outcomes /\ at' = "done"
      BY <1>4, OutcomeTypes, MoneyAssumption DEF CustomReturns, Answer
    <2> QED
      BY <1>4, <2>1 DEF CustomReturns
  <1>5. CASE Tick
    BY <1>5 DEF Tick
  <1>6. CASE UNCHANGED callVars
    BY <1>6 DEF callVars
  <1> QED
    BY <1>1, <1>2, <1>3, <1>4, <1>5, <1>6 DEF ModelActs

LEMMA CallInvariant == CSpec => [](CallTypes /\ CallInv)
PROOF
  <1>1. ASSUME CallTypes, CallInv, [CNext]_allVars PROVE CallStays
    <2>1. \/ BeginCall \/ EndCall \/ CallWorks \/ ModelActs \/ Tick \/ UNCHANGED callVars
      BY <1>1 DEF CNext, Outside, TakeException, TakeOutcome, Dies, Inside, allVars
    <2> QED
      BY <1>1, <2>1, CallEnds, CallWorksStep, ModelStep
  <1>2. CallTypes /\ CallInv /\ [CNext]_allVars => (CallTypes /\ CallInv)'
    BY <1>1 DEF CallStays
  <1> QED
    BY <1>2, CallBegins, PTL DEF CSpec

LEMMA AcceptedIsGood == CallTypes /\ CallInv => AnswerIsEarned
PROOF
  <1> SUFFICES ASSUME CallTypes, CallInv, at = "done", Real
               PROVE  oc.how = "returned" /\ Normalized = "completed" <=> GoodAnswer
    BY DEF AnswerIsEarned
  <1>1. oc.cost \in Nat /\ budget \in Nat /\ clock \in Nat
    BY DEF CallTypes, Outcomes
  <1>2. Normalized = "completed"
          <=> oc.status = "completed" /\ clock <= DeadlineAt /\ oc.cost <= budget
    BY <1>1, CountsAssumption DEF Normalized
  <1>3. oc.how = "returned" /\ Normalized = "completed"
          <=> Delivered /\ clock <= DeadlineAt /\ \A m \in result : m.cost <= budget
    <2>1. Accepted => \E m \in result : oc.cost = m.cost
      BY DEF CallInv, Delivered
    <2> QED
      BY <1>2, <2>1 DEF CallInv, Accepted
  <1>4. GoodAnswer <=> Delivered /\ clock <= DeadlineAt /\ \A m \in result : m.cost <= budget
    BY DEF GoodAnswer, Delivered, Report, CallInv
  <1> QED
    BY <1>3, <1>4

\* An answer is used exactly if the model's last result is a report without an
\* error, came whole, in time and within the budget.
THEOREM AnswersAreEarned == CSpec => []AnswerIsEarned
  BY AcceptedIsGood, CallInvariant, PTL

\* A model that has given a result is not asked again in the same call.
THEOREM ModelIsPaidOnce == CSpec => []PaidOnce
PROOF
  <1>1. CallInv => PaidOnce
    BY DEF CallInv
  <1> QED
    BY <1>1, CallInvariant, PTL

-------------------------------------------------------------------------------
(* What the engine records and uses                                        *)

\* A run is on record as completed only if the model ended with a report
\* without an error, within the budget if there was one: possibly too late
\* (orchestrate.py:251-262).
CompletedIsDelivered ==
    [][\A e \in Engines, r \in Roles :
          Real /\ <<r, "completed">> \in pending'[e] \ pending[e] => Delivered]_allVars

\* The implementer's mutations are applied and the reviewer's verdict brings the
\* task to the policy only on a good answer (orchestrate.py:262-263, 325-412).
Uses(e) == pc[e] \in Roles /\ \/ pc'[e] = "apply"
                              \/ pc'[e] = "read" /\ move'[e].ctx = "body"

UsedIsGood == [][\A e \in Engines : Real /\ Uses(e) => GoodAnswer]_allVars

\* Steps that record no run leave what is pending, or empty it.
LEMMA NothingRecorded ==
    ASSUME TypeOK, NEW o \in Engines,
           \/ Start(o) \/ Works(o) \/ AgentTouches(o) \/ Crash(o)
           \/ AgentRaises(o) \/ AgentUnrecorded(o) \/ SnapshotRefused(o)
    PROVE  pending' = pending \/ pending' = [pending EXCEPT ![o] = {}]
PROOF
  <1>1. CASE Moves(o)
    BY <1>1 DEF Moves, MoveReads, MoveRefused, MoveCommits, MoveConflicts, MoveBusy, MoveFails,
                Fallback, Escape, HangUp, Commit
  <1>2. CASE Cleanup(o) \/ Crash(o) \/ AgentRaises(o) \/ AgentUnrecorded(o) \/ SnapshotRefused(o)
    BY <1>2 DEF Cleanup, Crash, AgentRaises, AgentUnrecorded, SnapshotRefused, Escape, HangUp,
                Commit, db
  <1>3. CASE Start(o) \/ AgentTouches(o) \/ (Works(o) /\ ~ Moves(o) /\ ~ Cleanup(o))
    BY <1>3, QuietApart DEF Works, db
  <1> QED
    BY <1>1, <1>2, <1>3 DEF Works

\* A run that is taken for completed was a report of the model's.
THEOREM CompletedRunsAreDelivered == CSpec => CompletedIsDelivered
PROOF
  <1>1. TypeOK /\ CallTypes /\ CallInv /\ [CNext]_allVars
          => [\A e \in Engines, r \in Roles :
                Real /\ <<r, "completed">> \in pending'[e] \ pending[e] => Delivered]_allVars
    <2> SUFFICES ASSUME TypeOK, CallTypes, CallInv, CNext, NEW e \in Engines, NEW r \in Roles,
                        <<r, "completed">> \in pending'[e], <<r, "completed">> \notin pending[e],
                        Real
                 PROVE  Delivered
      OBVIOUS
    <2>1. pending \in [Engines -> SUBSET (Roles \X Statuses)]
      BY DEF TypeOK
    <2>2. ASSUME NEW o \in Engines, pending' = pending \/ pending' = [pending EXCEPT ![o] = {}]
          PROVE  FALSE
      BY <2>1, <2>2
    <2>3. ASSUME NEW o \in Engines, Outside(o) \/ Dies(o) \/ AgentTouches(o) \/ TakeException(o)
          PROVE  FALSE
      BY <2>2, <2>3, NothingRecorded DEF Outside, Dies, TakeException
    <2>4. ASSUME NEW o \in Engines, TakeOutcome(o) PROVE Delivered
      <3>1. ~ AgentUnrecorded(o) /\ ~ SnapshotRefused(o)
        BY <2>2, NothingRecorded
      <3>2. CASE Normalized = "completed"
        BY <2>4, <3>2 DEF TakeOutcome, Normalized, CallInv, Accepted
      <3>3. CASE Normalized # "completed"
        <4>1. AgentFailsWith(o, IF oc.status = "completed" THEN "completed" ELSE "failed")
          BY <2>4, <3>1, <3>3 DEF TakeOutcome
        <4>2. ASSUME oc.status # "completed" PROVE FALSE
          <5>1. pending' = [pending EXCEPT ![o] = {<<pc[o], "failed">>}]
            BY <4>1, <4>2 DEF AgentFailsWith, Records
          <5> QED
            BY <2>1, <5>1
        <4> QED
          BY <2>4, <4>2 DEF TakeOutcome, CallInv, Accepted
      <3> QED
        BY <3>2, <3>3
    <2>5. CASE Inside \/ Cancel \/ OthersWrite \/ Expire
      BY <2>5 DEF Inside, Cancel, OthersWrite, Expire, vars, db
    <2> QED
      BY <2>3, <2>4, <2>5 DEF CNext
  <1>2. CSpec => []TypeOK
    BY CallsImplementEngine, EngineTypes, PTL
  <1> QED
    BY <1>1, <1>2, CallInvariant, PTL DEF CSpec, CompletedIsDelivered

\* Whatever else an agent says or does halts the task or ends the process.
LEMMA OthersStop ==
    ASSUME TypeOK, NEW e \in Engines, AgentRaises(e) \/ AgentUnrecorded(e) \/ SnapshotRefused(e)
                                      \/ AgentFails(e)
    PROVE  ~ Uses(e) /\ \A o \in Engines : o # e => pc'[o] = pc[o]
PROOF
  <1>1. ControlOK
    BY TypeParts
  <1>2. CASE Halt(e) \/ Fail(e)
    BY <1>1, <1>2, ControlStays DEF Uses, Halt, ControlHeld
  <1>3. CASE Escape(e)
    BY <1>1, <1>3, GotoControls DEF Escape, Label, Uses, Roles
  <1> QED
    BY <1>2, <1>3 DEF AgentRaises, AgentUnrecorded, SnapshotRefused, AgentFails, AgentFailsWith

\* An engine's own steps leave the control of the others alone.
LEMMA OnlyOwnControl ==
    ASSUME TypeOK, NEW e \in Engines, NEW o \in Engines, o # e,
           Start(o) \/ Works(o) \/ Crash(o)
    PROVE  pc'[e] = pc[e]
PROOF
  <1>1. Apart(o)
    BY MovesApart, QuietApart, WritersApart DEF Works
  <1> QED
    BY <1>1 DEF Apart, Untouched

\* No mutation is applied and no verdict is used but on a good answer.
THEOREM OnlyGoodAnswersAreUsed == CSpec => UsedIsGood
PROOF
  <1>1. TypeOK /\ AnswerIsEarned /\ [CNext]_allVars
          => [\A e \in Engines : Real /\ Uses(e) => GoodAnswer]_allVars
    <2> SUFFICES ASSUME TypeOK, AnswerIsEarned, CNext, NEW e \in Engines, Real, Uses(e)
                 PROVE  GoodAnswer
      OBVIOUS
    <2>1. pc[e] \in Roles /\ pc'[e] # pc[e]
      BY DEF Uses, Roles
    <2>2. ASSUME NEW o \in Engines, Outside(o) \/ Dies(o) PROVE FALSE
      <3>1. Start(o) \/ Works(o) \/ Crash(o)
        BY <2>2 DEF Outside, Dies
      <3>2. o = e
        BY <2>1, <3>1, OnlyOwnControl
      <3>3. ~ Start(e) /\ ~ Works(e)
        BY <2>1 DEF Start, Works, Moves, MoveReads, MoveRefused, MoveCommits, MoveConflicts,
           MoveBusy, Done, Unsupported, Authorize, OpenWorktree, Apply, Checkpoint,
           ProduceEvidence, EvidenceAdvance, OpenReview, Policy, Cleanup, At, Roles
      <3>4. pc'[e] # "off"
        BY DEF Uses
      <3> QED
        BY <3>1, <3>2, <3>3, <3>4, TypeParts, GotoControls DEF Crash, Label
    <2>3. ASSUME NEW o \in Engines, TakeException(o) PROVE FALSE
      BY <2>1, <2>3, OthersStop DEF TakeException
    <2>4. ASSUME NEW o \in Engines, TakeOutcome(o) PROVE GoodAnswer
      BY <2>1, <2>4, OthersStop DEF TakeOutcome, AgentFails, Statuses, AnswerIsEarned
    <2>5. CASE Inside \/ Cancel \/ OthersWrite \/ Expire \/ \E o \in Engines : AgentTouches(o)
      BY <2>1, <2>5 DEF Inside, Cancel, OthersWrite, Expire, AgentTouches, vars
    <2> QED
      BY <2>2, <2>3, <2>4, <2>5 DEF CNext
  <1>2. CSpec => []TypeOK
    BY CallsImplementEngine, EngineTypes, PTL
  <1> QED
    BY <1>1, <1>2, AnswersAreEarned, PTL DEF CSpec, UsedIsGood
===============================================================================
