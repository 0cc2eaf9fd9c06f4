---------------------------- MODULE PolicyProofs ----------------------------
(***************************************************************************)
(* The verdict is monotone in the evidence, for every set of gates.        *)
(* The argument reads the early returns of evaluate() as two conditions:   *)
(* Closable (the verdict is a PASS) and Releasable (it suggests a          *)
(* release), each a conjunction over all gates and facts; a step that      *)
(* weakens the input can only make a conjunct false.                       *)
(***************************************************************************)
EXTENDS Policy, TLAPS

Closable(in) == /\ in.bad = {} /\ in.record /\ in.sealed
                /\ \A c \in in.required : c \notin in.deferred /\ in.checks[c] = "passed"

Releasable(in) == /\ Closable(in) /\ in.wants
                  /\ \A g \in in.release : g \notin in.deferred /\ in.checks[g] = "passed"

(* Every input of the walk is well typed and accepted by validate_gates:   *)
(* deferring and demanding gates keeps deferred gates known.               *)
THEOREM PolicyTypes == Spec => []TypeOK
<1>1. Init => TypeOK
  BY DEF Init, TypeOK, Input, CheckStatus, Facts
<1>2. TypeOK /\ [Next]_vars => TypeOK'
  <2> SUFFICES ASSUME TypeOK, [Next]_vars PROVE TypeOK'
    OBVIOUS
  <2> USE DEF TypeOK, Input, ValidGates
  <2>1. CASE LoseRecord
    BY <2>1 DEF LoseRecord
  <2>2. CASE BreakSeal
    BY <2>2 DEF BreakSeal
  <2>3. ASSUME NEW c \in Gates, Worsen(c) PROVE TypeOK'
    BY <2>3 DEF Worsen
  <2>4. ASSUME NEW c \in Gates, Defer(c) PROVE TypeOK'
    BY <2>4 DEF Defer
  <2>5. ASSUME NEW c \in Gates, Require(c) PROVE TypeOK'
    BY <2>5 DEF Require
  <2>6. ASSUME NEW c \in Gates, RequireForRelease(c) PROVE TypeOK'
    BY <2>6 DEF RequireForRelease
  <2>7. ASSUME NEW f \in Facts, GoBad(f) PROVE TypeOK'
    BY <2>7 DEF GoBad
  <2>8. ASSUME NEW c \in Gates, Supply(c) PROVE TypeOK'
    BY <2>8 DEF Supply
  <2>9. CASE UNCHANGED vars
    BY <2>9 DEF vars
  <2> QED
    BY <2>1, <2>2, <2>3, <2>4, <2>5, <2>6, <2>7, <2>8, <2>9 DEF Next, Weaken
<1> QED
  BY <1>1, <1>2, PTL DEF Spec

(* What the chain of early returns of evaluate() amounts to.               *)
LEMMA StandingIs ==
  ASSUME NEW in \in Input
  PROVE  Standing(in) = IF Releasable(in) THEN 2 ELSE IF Closable(in) THEN 1 ELSE 0
<1>1. Failed(in) = {} /\ Missing(in) \cup DeferredRequired(in) = {}
      <=> \A c \in in.required : c \notin in.deferred /\ in.checks[c] = "passed"
  BY DEF Failed, Missing, DeferredRequired
<1>2. Unmet(in) = {} <=> \A g \in in.release : g \notin in.deferred /\ in.checks[g] = "passed"
  BY DEF Unmet
<1> QED
  BY <1>1, <1>2 DEF Standing, Evaluate, ReleaseVerdict, Verdict, Closable, Releasable

(* One weakening step makes neither condition true.                        *)
LEMMA WeakenLosesConditions ==
  ASSUME TypeOK, Weaken
  PROVE  /\ input' \in Input
         /\ Closable(input') => Closable(input)
         /\ Releasable(input') => Releasable(input)
<1> USE DEF TypeOK, Input, Closable, Releasable
<1>1. CASE LoseRecord
  BY <1>1 DEF LoseRecord
<1>2. CASE BreakSeal
  BY <1>2 DEF BreakSeal
<1>3. ASSUME NEW c \in Gates, Worsen(c)
      PROVE  /\ input' \in Input
             /\ Closable(input') => Closable(input)
             /\ Releasable(input') => Releasable(input)
  BY <1>3 DEF Worsen
<1>4. ASSUME NEW c \in Gates, Defer(c)
      PROVE  /\ input' \in Input
             /\ Closable(input') => Closable(input)
             /\ Releasable(input') => Releasable(input)
  BY <1>4 DEF Defer
<1>5. ASSUME NEW c \in Gates, Require(c)
      PROVE  /\ input' \in Input
             /\ Closable(input') => Closable(input)
             /\ Releasable(input') => Releasable(input)
  BY <1>5 DEF Require
<1>6. ASSUME NEW c \in Gates, RequireForRelease(c)
      PROVE  /\ input' \in Input
             /\ Closable(input') => Closable(input)
             /\ Releasable(input') => Releasable(input)
  BY <1>6 DEF RequireForRelease
<1>7. ASSUME NEW f \in Facts, GoBad(f)
      PROVE  /\ input' \in Input
             /\ Closable(input') => Closable(input)
             /\ Releasable(input') => Releasable(input)
  BY <1>7 DEF GoBad
<1> QED
  BY <1>1, <1>2, <1>3, <1>4, <1>5, <1>6, <1>7 DEF Weaken

(* Showing less never raises what the verdict of evaluate() allows.        *)
THEOREM VerdictIsMonotone == Spec => LessNeverRaises
<1>1. TypeOK /\ [Next]_vars => [Weaken => Standing(input') <= Standing(input)]_vars
  <2> SUFFICES ASSUME TypeOK, Weaken PROVE Standing(input') <= Standing(input)
    OBVIOUS
  <2>1. /\ input' \in Input
        /\ Closable(input') => Closable(input)
        /\ Releasable(input') => Releasable(input)
    BY WeakenLosesConditions
  <2>2. Standing(input) = IF Releasable(input) THEN 2 ELSE IF Closable(input) THEN 1 ELSE 0
    BY StandingIs DEF TypeOK
  <2>3. Standing(input') = IF Releasable(input') THEN 2 ELSE IF Closable(input') THEN 1 ELSE 0
    BY <2>1, StandingIs
  <2>4. Releasable(input) => Closable(input)
    BY DEF Releasable
  <2> QED
    BY <2>1, <2>2, <2>3, <2>4
<1> QED
  BY <1>1, PolicyTypes, PTL DEF Spec, LessNeverRaises

(* The other side of the chain: a FAIL is a sealed record, nothing abnormal,*)
(* and a required gate whose check is there and did not pass.              *)
LEMMA FailIs ==
  ASSUME NEW in \in Input
  PROVE  Evaluate(in).result = "FAIL"
           <=> in.bad = {} /\ in.record /\ in.sealed /\ Failed(in) # {}
  BY DEF Evaluate, ReleaseVerdict, Verdict, Input

(* A check that arrives leaves those that are there as they are.           *)
LEMMA SupplyKeepsFailures ==
  ASSUME TypeOK, NEW c \in Gates, Supply(c)
  PROVE  /\ input' \in Input
         /\ Failed(input) \subseteq Failed(input')
         /\ input'.bad = input.bad /\ input'.record = input.record
         /\ input'.sealed = input.sealed
<1>1. PICK s \in CheckStatus \ {"absent"} : input' = [input EXCEPT !.checks[c] = s]
  BY DEF Supply
<1>2. /\ input'.checks = [input.checks EXCEPT ![c] = s]
      /\ input'.required = input.required /\ input'.deferred = input.deferred
      /\ input'.bad = input.bad /\ input'.record = input.record
      /\ input'.sealed = input.sealed /\ input' \in Input
  BY <1>1 DEF TypeOK, Input
<1>3. \A d \in Gates : d # c => input'.checks[d] = input.checks[d]
  BY <1>2 DEF TypeOK, Input
<1>4. input.checks[c] = "absent"
  BY DEF Supply
<1> QED
  BY <1>2, <1>3, <1>4 DEF Failed, TypeOK, Input

(* For every set of gates: no evidence that arrives later buries a failure.*)
THEOREM FailuresStay == Spec => FailureIsNotBuried
<1>1. TypeOK /\ [Next]_vars
        => [\A c \in Gates : Supply(c) /\ Evaluate(input).result = "FAIL"
                             => Evaluate(input').result = "FAIL"]_vars
  <2> SUFFICES ASSUME TypeOK, NEW c \in Gates, Supply(c), Evaluate(input).result = "FAIL"
               PROVE  Evaluate(input').result = "FAIL"
    OBVIOUS
  <2>1. input.bad = {} /\ input.record /\ input.sealed /\ Failed(input) # {}
    BY FailIs DEF TypeOK
  <2>2. /\ input' \in Input /\ input'.bad = {} /\ input'.record /\ input'.sealed
        /\ Failed(input') # {}
    BY <2>1, SupplyKeepsFailures
  <2> QED
    BY <2>2, FailIs
<1> QED
  BY <1>1, PolicyTypes, PTL DEF Spec, FailureIsNotBuried
===============================================================================
