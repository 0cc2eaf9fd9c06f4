------------------------------- MODULE Policy -------------------------------
(***************************************************************************)
(* The mechanical verdict of policy/engine.py: a pure function of the      *)
(* evidence record, the gates a task declares and the control facts.       *)
(* The behaviours of this module walk through the inputs evaluate() may be *)
(* given, one change at a time, so that action properties can compare the  *)
(* verdict before and after a change: evidence lost, a fact gone bad, a    *)
(* gate deferred or added, a missing check supplied.                       *)
(***************************************************************************)
EXTENDS Naturals, FiniteSets

CONSTANTS Gates,     \* the check ids gates may name
          MaxBad     \* bound on the control facts that are bad at once

ASSUME GatesAssumption == Gates # {}
ASSUME MaxBadAssumption == MaxBad \in Nat

VARIABLE input       \* what evaluate() is called with
vars == <<input>>

CheckStatus == {"absent", "passed", "failed", "error"}
Facts == {"boundary_violation", "hash_drift", "blocked",
          "approval_valid", "producer_mismatch"}

(* record: was a record given; checks: its statuses by check id; sealed:   *)
(* its bundle hash is the hash of its content; bad: the abnormal facts     *)
(* (approval_valid is abnormal when it is false).                          *)
Input == [record : BOOLEAN, checks : [Gates -> CheckStatus], sealed : BOOLEAN,
          required : SUBSET Gates, release : SUBSET Gates,
          deferred : SUBSET Gates, wants : BOOLEAN, bad : SUBSET Facts]

(* validate_gates: anything else is a PolicyError, never a verdict.        *)
ValidGates(in) == /\ in.required # {}
                  /\ in.deferred \subseteq in.required \cup in.release

\* Mutant: "any check failed" became "no check passed".
FailedWhenNonePassed(in) ==
    IF \E c \in in.required : in.checks[c] = "passed" THEN {}
    ELSE {c \in in.required \ in.deferred : in.checks[c] \notin {"absent", "passed"}}

Failed(in)  == {c \in in.required \ in.deferred :
                  in.checks[c] \notin {"absent", "passed"}}
Missing(in) == {c \in in.required \ in.deferred : in.checks[c] = "absent"}

\* Mutant: a deferred required gate is skipped, as if it had passed.
DeferredCountsAsPassed(in) == {}

DeferredRequired(in) == in.required \cap in.deferred
Unmet(in)   == {g \in in.release : g \in in.deferred \/ in.checks[g] # "passed"}

Verdict(result, next) == [result |-> result, next |-> next]

ReleaseVerdict(in) ==                                           \* R6 - R9
    IF in.wants /\ Unmet(in) = {}
    THEN Verdict("PASS", "RELEASE_CANDIDATE")
    ELSE Verdict("PASS", "CHECKPOINT_READY")

(* evaluate: the early returns in their order, R1 to R9.                   *)
Evaluate(in) ==
    IF in.bad # {} \/ (in.record /\ ~in.sealed)
    THEN Verdict("ERROR", "SAFE_HALT")
    ELSE IF ~in.record THEN Verdict("INCOMPLETE", "none")
    ELSE IF Failed(in) # {} THEN Verdict("FAIL", "FAILED")
    ELSE IF Missing(in) \cup DeferredRequired(in) # {}
    THEN Verdict("INCOMPLETE", "none")
    ELSE ReleaseVerdict(in)

(***************************************************************************)
(* The walk.                                                               *)
(***************************************************************************)
Init == /\ input \in [record : {TRUE}, checks : [Gates -> {"absent", "passed"}],
                      sealed : {TRUE}, required : SUBSET Gates,
                      release : SUBSET Gates, deferred : {{}},
                      wants : BOOLEAN, bad : {{}}]
        /\ ValidGates(input)

LoseRecord == input.record /\ input' = [input EXCEPT !.record = FALSE]
BreakSeal  == input.sealed /\ input' = [input EXCEPT !.sealed = FALSE]

(* A check that passed is reported failed or in error, or not at all.      *)
Worsen(c) ==
    /\ input.checks[c] = "passed"
    /\ \E s \in CheckStatus \ {"passed"} : input' = [input EXCEPT !.checks[c] = s]

GoBad(f) ==
    /\ Cardinality(input.bad) < MaxBad
    /\ f \notin input.bad
    /\ input' = [input EXCEPT !.bad = @ \cup {f}]

(* A known gate is declared out of scope.                                  *)
Defer(c) ==
    /\ c \in (input.required \cup input.release) \ input.deferred
    /\ input' = [input EXCEPT !.deferred = @ \cup {c}]

Require(c) ==
    /\ c \notin input.required
    /\ input' = [input EXCEPT !.required = @ \cup {c}]

RequireForRelease(c) ==
    /\ c \notin input.release
    /\ input' = [input EXCEPT !.release = @ \cup {c}]

Weaken == \/ LoseRecord
          \/ BreakSeal
          \/ \E c \in Gates : Worsen(c) \/ Defer(c) \/ Require(c) \/ RequireForRelease(c)
          \/ \E f \in Facts : GoBad(f)

(* Evidence that was missing arrives, whatever it says.                    *)
Supply(c) ==
    /\ input.checks[c] = "absent"
    /\ \E s \in CheckStatus \ {"absent"} : input' = [input EXCEPT !.checks[c] = s]

Next == Weaken \/ \E c \in Gates : Supply(c)
Spec == Init /\ [][Next]_vars

(***************************************************************************)
(* Properties.                                                             *)
(***************************************************************************)
(* Every input of the walk is one evaluate() accepts without PolicyError.  *)
TypeOK == input \in Input /\ ValidGates(input)

(* How far a verdict lets a task go: nowhere, to a checkpoint, to release. *)
Standing(in) == LET v == Evaluate(in).next IN
    IF v = "RELEASE_CANDIDATE" THEN 2 ELSE IF v = "CHECKPOINT_READY" THEN 1 ELSE 0

(* Nothing that is lost, goes bad, is deferred or is demanded in addition  *)
(* ever raises what the verdict allows: the early returns of evaluate()    *)
(* and the deferred gates they skip leave no way to gain by showing less.  *)
LessNeverRaises == [][Weaken => Standing(input') <= Standing(input)]_vars

(* No evidence that arrives later buries a failure: what arrives for the   *)
(* other checks cannot move a failed task to a pass, to "incomplete" (which*)
(* asks for more evidence) or to a halt.                                   *)
FailureIsNotBuried ==
    [][\A c \in Gates : Supply(c) /\ Evaluate(input).result = "FAIL"
                        => Evaluate(input').result = "FAIL"]_vars
=============================================================================
