------------------------------ MODULE EngineCalls ------------------------------
(***************************************************************************)
(* The closed loop (module Engine) with the agent calls as they are        *)
(* (module AgentCall): which answer of an agent the engine can get, when,  *)
(* and that a call through the CLI comes to an end. One engine process at  *)
(* a time.                                                                 *)
(***************************************************************************)
EXTENDS Engine, AgentCall

allVars == <<vars, callVars>>

CInit == Init /\ CallInit

\* Engine steps outside of a call. Where they ask an agent the call begins.
Outside(e) ==
    /\ Start(e) \/ Works(e)
    /\ IF pc'[e] \in Roles THEN BeginCall ELSE UNCHANGED callVars

Inside == (CallWorks \/ ModelActs \/ Tick) /\ UNCHANGED vars

\* The exception of a call: what the engine expects, what its handler lists,
\* and what it does not.
TakeException(e) ==
    /\ at = "done" /\ oc.how = "raised"
    /\ AgentRaises(e)
    /\ CASE oc.status \in {"retryable", "budget"} -> move'[e].ctx = "stop" /\ pc'[e] = "read"
         [] oc.status = "ValueError" -> move'[e].ctx = "fallback" /\ pc'[e] = "read"
         [] oc.status = "unlisted"   -> pc'[e] = "raised"
    /\ EndCall

\* An outcome is recorded as it came, and then used if it is normalized to
\* completed.
TakeOutcome(e) ==
    /\ at = "done" /\ oc.how = "returned"
    /\ \/ AgentUnrecorded(e)
       \/ /\ Normalized # "completed"
          /\ AgentFailsWith(e, IF oc.status = "completed" THEN "completed" ELSE "failed")
       \/ Normalized = "completed"
            /\ (SnapshotRefused(e) \/ ImplementerAnswers(e) \/ ReviewerAnswers(e))
    /\ EndCall

\* A process that dies does not stop the model's.
Dies(e) == Crash(e) /\ EndCall

CNext ==
    \/ \E e \in Engines : \/ Outside(e) \/ TakeException(e) \/ TakeOutcome(e) \/ Dies(e)
                          \/ AgentTouches(e) /\ UNCHANGED callVars
    \/ Inside
    \/ (Cancel \/ OthersWrite \/ Expire) /\ UNCHANGED callVars

CSpec == CInit /\ [][CNext]_allVars

\* The engine goes on, in a call and outside, and time passes. A model may
\* never answer and never exit.
CFairSpec ==
    /\ CSpec
    /\ \A e \in Engines : WF_allVars(Outside(e) \/ TakeException(e) \/ TakeOutcome(e))
    /\ WF_allVars(CallWorks /\ UNCHANGED vars)
    /\ WF_allVars(Tick /\ UNCHANGED vars)

-------------------------------------------------------------------------------
(* Properties                                                              *)

Real == channel \in {"sdk", "cli"}

\* An answer is used exactly if the model's last result is a report without
\* an error, came whole, in time, and within the budget by what it says it
\* cost: whatever was said before it, exit codes and late results change
\* nothing (claude_sdk.py:302-328, 404-437, orchestrator.py:57-68). Without a
\* budget there is no answer through the CLI.
GoodAnswer ==
    /\ \E m \in result : ~ m.is_error /\ m.text = "report" /\ m.cost <= budget
    /\ model = "ended" /\ clock <= DeadlineAt

AnswerIsEarned ==
    at = "done" /\ Real =>
      (oc.how = "returned" /\ Normalized = "completed" <=> GoodAnswer)

\* A model that has given a result is not asked again in the same call: what
\* failed on the way back is not retried (claude_sdk.py:358-365).
PaidOnce == Real /\ paid # 0 => attempt = paid

\* A call through the CLI ends, with or without the model: either the model's
\* process is gone by then, or the engine has died (claude_sdk.py:329-331).
Ended(e) == pc[e] \notin Roles /\ (model # "running" \/ pc[e] = "off" \/ starts > 1)

CallsEnd == \A e \in Engines : pc[e] \in Roles /\ channel = "cli" ~> Ended(e)
===============================================================================
