------------------------------ MODULE EngineProofs ------------------------------
(***************************************************************************)
(* The closed loop of one task, for any number of engine processes, starts *)
(* and crashes.                                                            *)
(***************************************************************************)
EXTENDS Engine, TLAPS

USE EngineAssumption, BoundAssumption, FlagAssumption

-------------------------------------------------------------------------------
(* Types                                                                   *)

Label == {"off", "loop", "read", "write", "apply", "checkpoint",
          "cleanup", "returned", "raised"} \cup Roles

Context == {"body", "stop", "fallback"}

Locks == Engines \cup {Free, Other}

ControlOK == pc \in [Engines -> Label] /\ move \in [Engines -> Move]

DbOK ==
    /\ runs \in SUBSET (Roles \X Statuses)
    /\ lock \in Locks
    /\ begun \in SUBSET Engines /\ fresh \in SUBSET Engines
    /\ pending \in [Engines -> SUBSET (Roles \X Statuses)]
    /\ \A e \in Engines : pending[e] # {} => lock = e

RowOK == row \in Row /\ seen \in [Engines -> Row]

MemoryOK ==
    /\ phase \in [Engines -> TaskPhase]
    /\ delta \in SUBSET Engines
    /\ evidence \in [Engines -> Results \cup {"none"}]
    /\ verdict \in [Engines -> Verdicts]

WorldOK ==
    /\ baseline \in BOOLEAN
    /\ approval \in [covers : BOOLEAN, expired : BOOLEAN]
    /\ tree \in {"absent", "baseline", "dirty", "applied", "committed"}
    /\ starts \in 0..MaxStarts
    /\ asked \in [Roles -> Nat]

LEMMA TypeParts == TypeOK <=> ControlOK /\ DbOK /\ RowOK /\ MemoryOK /\ WorldOK
  BY DEF TypeOK, ControlOK, DbOK, RowOK, MemoryOK, WorldOK, Label, Locks

LEMMA PhaseNames ==
    {"CREATED", "AWAITING_PLAN_APPROVAL", "EDIT_AUTHORIZED", "IMPLEMENTING",
     "DELTA_CAPTURED", "EVIDENCE_RUNNING", "REVIEWING", "POLICY_EVALUATING",
     "CHECKPOINT_READY", "SAFE_HALT", "FAILED", "CANCELLED"} \subseteq TaskPhase
  BY DEF TaskPhase, READY_PHASES

\* Where control of one engine goes, and of no other.
LEMMA GotoControls ==
    ASSUME ControlOK, NEW e \in Engines, NEW l \in Label, Goto(e, l)
    PROVE  /\ ControlOK'
           /\ pc'[e] = l /\ move'[e] = move[e]
           /\ \A o \in Engines : o # e => pc'[o] = pc[o] /\ move'[o] = move[o]
  BY DEF ControlOK, Goto

LEMMA TransitionControls ==
    ASSUME ControlOK, NEW e \in Engines, NEW to \in TaskPhase, NEW ctx \in Context,
           Transition(e, to, ctx)
    PROVE  /\ ControlOK'
           /\ pc'[e] = "read" /\ move'[e].to = to /\ move'[e].ctx = ctx
           /\ \A o \in Engines : o # e => pc'[o] = pc[o] /\ move'[o] = move[o]
PROOF
  <1>1. [to |-> to, ctx |-> ctx] \in Move /\ "read" \in Label
    BY DEF Move, Context, Label
  <1> QED
    BY <1>1 DEF ControlOK, Transition

LEMMA HangUpKeepsTypes ==
    ASSUME DbOK, NEW e \in Engines, HangUp(e)
    PROVE  DbOK' /\ UNCHANGED <<row, runs>>
PROOF
  <1>1. lock' \in Locks /\ begun' \in SUBSET Engines /\ fresh' \in SUBSET Engines
    BY DEF DbOK, HangUp, Locks
  <1>2. pending' = [pending EXCEPT ![e] = {}] /\ lock' = IF lock = e THEN Free ELSE lock
    BY DEF HangUp
  <1>3. \A o \in Engines : pending'[o] # {} => lock' = o
    BY <1>2 DEF DbOK
  <1> QED
    BY <1>1, <1>2, <1>3 DEF DbOK, HangUp

LEMMA CommitKeepsTypes ==
    ASSUME DbOK, NEW e \in Engines, Commit(e), Writable(e)
    PROVE  DbOK'
PROOF
  <1>1. pending' = [pending EXCEPT ![e] = {}] /\ lock' = Free /\ lock \in {e, Free}
    BY DEF Commit, Writable
  <1>2. \A o \in Engines : pending'[o] = {}
    BY <1>1 DEF DbOK
  <1>3. runs' \in SUBSET (Roles \X Statuses)
    BY DEF Commit, DbOK
  <1>4. begun' \in SUBSET Engines /\ fresh' \in SUBSET Engines /\ lock' \in Locks
    BY DEF Commit, DbOK, Locks
  <1> QED
    BY <1>1, <1>2, <1>3, <1>4 DEF DbOK

LEMMA RecordsKeepsTypes ==
    ASSUME DbOK, NEW e \in Engines, NEW r \in Roles, NEW s \in Statuses,
           lock \in {Free, e}, Records(e, r, s)
    PROVE  DbOK' /\ UNCHANGED <<row, runs>>
PROOF
  <1>1. pending' = [pending EXCEPT ![e] = {<<r, s>>}] /\ lock' = e
    BY DEF Records
  <1>2. \A o \in Engines : pending'[o] # {} => lock' = o
    BY <1>1 DEF DbOK
  <1>3. pending' \in [Engines -> SUBSET (Roles \X Statuses)]
    BY <1>1 DEF DbOK
  <1> QED
    BY <1>1, <1>2, <1>3 DEF DbOK, Locks, Records

LEMMA MoveFailsKeepsTypes ==
    ASSUME TypeOK, NEW e \in Engines, NEW l \in Locks, NEW b \in SUBSET Engines,
           NEW view \in Row, MoveFails(e, l, b, view), l = lock \/ (l = e /\ lock = Free)
    PROVE  ControlOK' /\ DbOK' /\ row' = row /\ MemoryOK' /\ WorldOK'
PROOF
  <1> USE TypeParts
  <1>1. CASE Fail(e) /\ UNCHANGED <<row, runs, fresh, pending, phase>> /\ lock' = l /\ begun' = b
    <2>1. ControlOK'
      BY <1>1, TransitionControls, PhaseNames DEF Fail, Context
    <2> QED
      BY <1>1, <2>1 DEF MoveFails, DbOK, MemoryOK, WorldOK, world
  <1>2. CASE Escape(e) /\ UNCHANGED phase
    <2>1. ControlOK' /\ DbOK' /\ row' = row
      BY <1>2, GotoControls, HangUpKeepsTypes DEF Escape, Label
    <2> QED
      BY <1>2, <2>1 DEF MoveFails, MemoryOK, WorldOK, world
  <1>3. CASE /\ view.phase \in TERMINAL_TASK_PHASES /\ Goto(e, "cleanup")
             /\ phase' = [phase EXCEPT ![e] = view.phase]
             /\ lock' = l /\ begun' = b /\ UNCHANGED <<row, runs, fresh, pending>>
    <2>1. ControlOK'
      BY <1>3, GotoControls DEF Label
    <2>2. view.phase \in TaskPhase
      BY DEF Row
    <2> QED
      BY <1>3, <2>1, <2>2 DEF MoveFails, DbOK, MemoryOK, WorldOK, world
  <1> QED
    BY <1>1, <1>2, <1>3 DEF MoveFails, Fallback

\* Steps that only send control elsewhere and change memory or the world.
LEMMA ControlTypes ==
    ASSUME ControlOK, NEW e \in Engines
    PROVE  /\ \A l \in Label : Goto(e, l) => ControlOK'
           /\ \A to \in TaskPhase : Advance(e, to) => ControlOK'
           /\ Halt(e) \/ Fail(e) \/ Stop(e, "FAILED") => ControlOK'
           /\ \A r \in Roles : Ask(e, r) => ControlOK'
  BY GotoControls, TransitionControls, PhaseNames
     DEF Advance, Halt, Fail, Stop, Ask, Context, Label

LEMMA DbUnchanged == ASSUME DbOK, UNCHANGED db PROVE DbOK' /\ row' = row
  BY DEF DbOK, db

LEMMA ApprovalTypes ==
    /\ \A a \in [covers : BOOLEAN, expired : {FALSE}] :
         a \in [covers : BOOLEAN, expired : BOOLEAN]
    /\ \A a \in [covers : BOOLEAN, expired : BOOLEAN] :
         /\ [covers |-> a.covers, expired |-> TRUE] \in [covers : BOOLEAN, expired : BOOLEAN]
         /\ [covers |-> a.covers, expired |-> TRUE].covers = a.covers
PROOF
  <1>1. ASSUME NEW a \in [covers : BOOLEAN, expired : {FALSE}]
        PROVE  a \in [covers : BOOLEAN, expired : BOOLEAN]
    OBVIOUS
  <1>2. ASSUME NEW a \in [covers : BOOLEAN, expired : BOOLEAN]
        PROVE  [covers |-> a.covers, expired |-> TRUE] \in [covers : BOOLEAN, expired : BOOLEAN]
    OBVIOUS
  <1>3. ASSUME NEW a \in [covers : BOOLEAN, expired : BOOLEAN]
        PROVE  [covers |-> a.covers, expired |-> TRUE].covers = a.covers
    OBVIOUS
  <1> QED
    BY <1>1, <1>2, <1>3

\* Every variable keeps its type, and only the holder of the write lock has
\* written anything that is not committed.
THEOREM EngineTypes == Spec => []TypeOK
PROOF
  <1>1. Init => TypeOK
    <2> SUFFICES ASSUME Init PROVE TypeOK
      OBVIOUS
    <2>1. ControlOK
      BY PhaseNames DEF Init, ControlOK, Label, Move, NoMove
    <2>2. DbOK
      BY DEF Init, DbOK, Locks
    <2>3. RowOK
      BY PhaseNames DEF Init, RowOK, Row
    <2>4. MemoryOK
      BY PhaseNames DEF Init, MemoryOK, Verdicts
    <2>5. WorldOK
      <3>1. approval \in [covers : BOOLEAN, expired : BOOLEAN]
        BY ApprovalTypes DEF Init
      <3>2. baseline \in BOOLEAN
        BY FlagAssumption DEF Init
      <3> QED
        BY <3>1, <3>2 DEF Init, WorldOK
    <2> QED
      BY <2>1, <2>2, <2>3, <2>4, <2>5, TypeParts
  <1>2. ASSUME TypeOK, [Next]_vars PROVE TypeOK'
    <2> USE <1>2, TypeParts
    <2>0. ControlOK' /\ DbOK' /\ RowOK' /\ MemoryOK' /\ WorldOK' => TypeOK'
      BY DEF TypeOK, ControlOK, DbOK, RowOK, MemoryOK, WorldOK, Label, Locks
    <2> USE <2>0
    <2>1. ASSUME NEW e \in Engines, Start(e) PROVE TypeOK'
      <3>1. ControlOK'
        BY <2>1, ControlTypes DEF Start, Label
      <3>2. DbOK' /\ RowOK'
        BY <2>1, DbUnchanged DEF Start, RowOK
      <3>3. MemoryOK' /\ WorldOK'
        BY <2>1 DEF Start, MemoryOK, WorldOK, RowOK, Row, world
      <3> QED
        BY <3>1, <3>2, <3>3
    <2>2. ASSUME NEW e \in Engines, MoveReads(e) PROVE TypeOK'
      <3>1. ControlOK'
        BY <2>2, ControlTypes DEF MoveReads, Label
      <3>2. DbOK' /\ RowOK'
        BY <2>2 DEF MoveReads, Read, DbOK, RowOK
      <3>3. MemoryOK' /\ WorldOK'
        BY <2>2 DEF MoveReads, MemoryOK, WorldOK, memory, world
      <3> QED
        BY <3>1, <3>2, <3>3
    <2>3. ASSUME NEW e \in Engines, MoveRefused(e) PROVE TypeOK'
      <3>1. lock \in Locks /\ begun \in SUBSET Engines /\ row \in Row
        BY DEF DbOK, RowOK
      <3>2. ControlOK' /\ DbOK' /\ row' = row /\ MemoryOK' /\ WorldOK'
        BY <2>3, <3>1, MoveFailsKeepsTypes DEF MoveRefused
      <3>3. RowOK'
        BY <2>3, <3>2 DEF MoveRefused, Read, RowOK
      <3> QED
        BY <3>2, <3>3
    <2>4. ASSUME NEW e \in Engines, MoveCommits(e) PROVE TypeOK'
      <3>1. ControlOK'
        BY <2>4, ControlTypes DEF MoveCommits, Label
      <3>2. DbOK'
        BY <2>4, CommitKeepsTypes DEF MoveCommits
      <3>3. move[e].to \in TaskPhase
        BY DEF ControlOK, Move
      <3>4. RowOK'
        BY <2>4, <3>3 DEF MoveCommits, RowOK, Row
      <3>5. MemoryOK' /\ WorldOK'
        BY <2>4, <3>3 DEF MoveCommits, MemoryOK, WorldOK, world
      <3> QED
        BY <3>1, <3>2, <3>4, <3>5
    <2>5. ASSUME NEW e \in Engines, MoveConflicts(e) PROVE TypeOK'
      <3>1. e \in Locks /\ begun \ {e} \in SUBSET Engines /\ row \in Row /\ lock \in {e, Free}
        BY <2>5 DEF DbOK, RowOK, Locks, MoveConflicts, Writable
      <3>2. ControlOK' /\ DbOK' /\ row' = row /\ MemoryOK' /\ WorldOK'
        BY <2>5, <3>1, MoveFailsKeepsTypes DEF MoveConflicts
      <3> QED
        BY <2>5, <3>2 DEF MoveConflicts, RowOK
    <2>6. ASSUME NEW e \in Engines, MoveBusy(e) PROVE TypeOK'
      <3> DEFINE view == IF e \in begun THEN seen[e] ELSE row
      <3>1. lock \in Locks /\ begun \cup {e} \in SUBSET Engines /\ view \in Row
        BY DEF DbOK, RowOK
      <3>2. MoveFails(e, lock, begun \cup {e}, view)
        BY <2>6 DEF MoveBusy
      <3> HIDE DEF view
      <3>3. ControlOK' /\ DbOK' /\ row' = row /\ MemoryOK' /\ WorldOK'
        BY <3>1, <3>2, MoveFailsKeepsTypes
      <3> QED
        BY <2>6, <3>3 DEF MoveBusy, RowOK
    <2>7. ASSUME NEW e \in Engines,
                 \/ Done(e) \/ Unsupported(e) \/ Authorize(e) \/ EvidenceAdvance(e) \/ Policy(e)
          PROVE  TypeOK'
      <3>1. ControlOK'
        BY <2>7, ControlTypes, PhaseNames
           DEF Done, Unsupported, Authorize, EvidenceAdvance, Policy, Label
      <3>2. UNCHANGED <<db, world, memory, seen, starts, asked>>
        BY <2>7 DEF Done, Unsupported, Authorize, EvidenceAdvance, Policy
      <3> QED
        BY <3>1, <3>2, DbUnchanged DEF RowOK, MemoryOK, WorldOK, memory, world
    <2>8. ASSUME NEW e \in Engines, OpenWorktree(e) \/ OpenReview(e) PROVE TypeOK'
      <3>1. ControlOK'
        BY <2>8, ControlTypes DEF OpenWorktree, OpenReview, Roles
      <3>2. UNCHANGED <<db, memory, seen, starts, baseline, approval>>
        BY <2>8 DEF OpenWorktree, OpenReview, world
      <3>3. /\ tree' \in {"absent", "baseline", "dirty", "applied", "committed"}
            /\ asked' \in [Roles -> Nat]
        BY <2>8 DEF OpenWorktree, OpenReview, Ask, WorldOK, world
      <3> QED
        BY <3>1, <3>2, <3>3, DbUnchanged DEF RowOK, MemoryOK, WorldOK, memory
    <2>9. ASSUME NEW e \in Engines, Apply(e) \/ Checkpoint(e) PROVE TypeOK'
      <3>1. ControlOK'
        BY <2>9, ControlTypes, PhaseNames DEF Apply, Checkpoint, Label
      <3>2. UNCHANGED <<db, phase, evidence, verdict, seen, starts, baseline, approval, asked>>
        BY <2>9 DEF Apply, Checkpoint, memory
      <3>3. /\ tree' \in {"absent", "baseline", "dirty", "applied", "committed"}
            /\ delta' \in SUBSET Engines
        BY <2>9 DEF Apply, Checkpoint, WorldOK, MemoryOK, memory
      <3> QED
        BY <3>1, <3>2, <3>3, DbUnchanged DEF RowOK, MemoryOK, WorldOK
    <2>10. ASSUME NEW e \in Engines, ProduceEvidence(e) PROVE TypeOK'
      <3>1. ControlOK'
        BY <2>10, ControlTypes, PhaseNames DEF ProduceEvidence
      <3>2. evidence' \in [Engines -> Results \cup {"none"}]
        BY <2>10 DEF ProduceEvidence, MemoryOK
      <3> QED
        BY <2>10, <3>1, <3>2, DbUnchanged DEF ProduceEvidence, RowOK, MemoryOK, WorldOK, world
    <2>11. ASSUME NEW e \in Engines, Cleanup(e) PROVE TypeOK'
      <3>1. ControlOK' /\ DbOK' /\ row' = row
        BY <2>11, ControlTypes, CommitKeepsTypes, HangUpKeepsTypes DEF Cleanup, Escape, Label
      <3> QED
        BY <2>11, <3>1 DEF Cleanup, RowOK, MemoryOK, WorldOK, memory, world
    <2>12. ASSUME NEW e \in Engines, AgentRaises(e) \/ SnapshotRefused(e) PROVE TypeOK'
      <3>1. ControlOK' /\ DbOK' /\ row' = row
        BY <2>12, ControlTypes, HangUpKeepsTypes, DbUnchanged
           DEF AgentRaises, SnapshotRefused, Escape, Label
      <3>2. UNCHANGED <<world, memory, seen, starts, asked>>
        BY <2>12 DEF AgentRaises, SnapshotRefused
      <3> QED
        BY <3>1, <3>2 DEF RowOK, MemoryOK, WorldOK, memory, world
    <2>13. ASSUME NEW e \in Engines, AgentUnrecorded(e) PROVE TypeOK'
      <3>1. ControlOK'
        BY <2>13, ControlTypes DEF AgentUnrecorded
      <3> QED
        BY <2>13, <3>1 DEF AgentUnrecorded, DbOK, RowOK, MemoryOK, WorldOK, memory, world
    <2>14. ASSUME NEW e \in Engines, AgentFails(e) \/ ImplementerAnswers(e) PROVE TypeOK'
      <3>1. ControlOK'
        BY <2>14, ControlTypes DEF AgentFails, AgentFailsWith, ImplementerAnswers, Label
      <3>2. \E r \in Roles, s \in Statuses : lock \in {Free, e} /\ Records(e, r, s)
        BY <2>14 DEF AgentFails, AgentFailsWith, ImplementerAnswers, Roles, Statuses
      <3>3. DbOK' /\ row' = row
        BY <3>2, RecordsKeepsTypes
      <3>4. UNCHANGED <<world, memory, seen, starts, asked>>
        BY <2>14 DEF AgentFails, AgentFailsWith, ImplementerAnswers
      <3> QED
        BY <3>1, <3>3, <3>4 DEF RowOK, MemoryOK, WorldOK, memory, world
    <2>15. ASSUME NEW e \in Engines, ReviewerAnswers(e) PROVE TypeOK'
      <3>1. ControlOK'
        BY <2>15, ControlTypes, PhaseNames DEF ReviewerAnswers
      <3>2. "reviewer" \in Roles /\ "completed" \in Statuses
        BY DEF Roles, Statuses
      <3>3. DbOK' /\ row' = row
        BY <2>15, <3>2, RecordsKeepsTypes DEF ReviewerAnswers
      <3>4. verdict' \in [Engines -> Verdicts]
        BY <2>15 DEF ReviewerAnswers, MemoryOK
      <3> QED
        BY <2>15, <3>1, <3>3, <3>4 DEF ReviewerAnswers, RowOK, MemoryOK, WorldOK, world
    <2>16. ASSUME NEW e \in Engines, AgentTouches(e) PROVE TypeOK'
      <3>1. ControlOK'
        BY <2>16 DEF AgentTouches, ControlOK
      <3> QED
        BY <2>16, <3>1, DbUnchanged DEF AgentTouches, RowOK, MemoryOK, WorldOK, memory
    <2>17. ASSUME NEW e \in Engines, Crash(e) PROVE TypeOK'
      <3>1. ControlOK' /\ DbOK' /\ row' = row
        BY <2>17, ControlTypes, HangUpKeepsTypes DEF Crash, Label
      <3> QED
        BY <2>17, <3>1 DEF Crash, RowOK, MemoryOK, WorldOK, world, Verdicts
    <2>18. ASSUME Cancel \/ OthersWrite \/ Expire PROVE TypeOK'
      <3>1. ControlOK' /\ MemoryOK'
        BY <2>18 DEF Cancel, OthersWrite, Expire, ControlOK, MemoryOK, memory
      <3>2. DbOK'
        BY <2>18 DEF Cancel, OthersWrite, Expire, DbOK, Locks, db
      <3>3. RowOK'
        BY <2>18, PhaseNames DEF Cancel, OthersWrite, Expire, RowOK, Row, db
      <3>4. WorldOK'
        <4>1. approval'.covers = approval.covers /\ approval' \in [covers : BOOLEAN, expired : BOOLEAN]
          BY <2>18, ApprovalTypes DEF Cancel, OthersWrite, Expire, WorldOK, world
        <4> QED
          BY <2>18, <4>1 DEF Cancel, OthersWrite, Expire, WorldOK, world
      <3> QED
        BY <3>1, <3>2, <3>3, <3>4
    <2>19. ASSUME UNCHANGED vars PROVE TypeOK'
      BY <2>19 DEF vars, db, world, memory, ControlOK, DbOK, RowOK, MemoryOK, WorldOK
    <2> QED
      BY <2>1, <2>2, <2>3, <2>4, <2>5, <2>6, <2>7, <2>8, <2>9, <2>10, <2>11, <2>12, <2>13,
         <2>14, <2>15, <2>16, <2>17, <2>18, <2>19 DEF Next, Works, Moves, Answers
  <1> QED
    BY <1>1, <1>2, PTL DEF Spec

-------------------------------------------------------------------------------
(* The owner of the task                                                   *)

\* The engine that moved the task to IMPLEMENTING is its owner until it leaves
\* the body of the loop. What it decided on the way is in its memory alone.
MovesIn(e, ctxs) == pc[e] \in {"read", "write"} /\ move[e].ctx \in ctxs

InBody(e) == \/ pc[e] \in {"loop", "implementer", "reviewer", "apply", "checkpoint"}
             \/ MovesIn(e, {"body"})
             \/ MovesIn(e, {"stop"}) /\ move[e].to = "FAILED"

Owns(e) == InBody(e) /\ phase[e] \in MIDDLE_PHASES

\* The moves the body makes.
BodyPath == {<<"EDIT_AUTHORIZED", "IMPLEMENTING">>, <<"IMPLEMENTING", "DELTA_CAPTURED">>,
             <<"DELTA_CAPTURED", "EVIDENCE_RUNNING">>, <<"EVIDENCE_RUNNING", "REVIEWING">>,
             <<"REVIEWING", "POLICY_EVALUATING">>,
             <<"POLICY_EVALUATING", "CHECKPOINT_READY">>}

Shaped(e) ==
    /\ pc[e] \in {"implementer", "apply", "checkpoint"} => phase[e] = "IMPLEMENTING"
    /\ pc[e] = "reviewer" => phase[e] = "REVIEWING"
    /\ MovesIn(e, {"body"}) => <<phase[e], move[e].to>> \in BodyPath
    /\ MovesIn(e, {"stop"}) =>
         \/ move[e].to = "SAFE_HALT"
         \/ move[e].to = "FAILED" /\ phase[e] = "POLICY_EVALUATING"
    /\ MovesIn(e, {"fallback"}) => move[e].to = "SAFE_HALT"

\* The version tells whether the row is still what the transition read.
SeenIsPast(e) ==
    /\ seen[e].version <= row.version
    /\ seen[e].version = row.version => seen[e] = row
    /\ seen[e].phase \in TERMINAL_TASK_PHASES => row.phase \in TERMINAL_TASK_PHASES
    /\ pc[e] = "write" => CanTransition(seen[e].phase, move[e].to)

\* While a task is owned its row is where the owner left it, or it was stopped.
Follows(e) == Owns(e) => row.phase \in {phase[e], "CANCELLED", "SAFE_HALT"}

Unasked(e) ==
    Owns(e) =>
      /\ pc[e] = "loop" /\ phase[e] = "IMPLEMENTING" => asked["implementer"] = 0
      /\ \/ phase[e] \in {"IMPLEMENTING", "DELTA_CAPTURED", "EVIDENCE_RUNNING"}
         \/ pc[e] = "loop" /\ phase[e] = "REVIEWING"
         => asked["reviewer"] = 0

Authorized(e) == Owns(e) \/ MovesIn(e, {"body"}) => approval.covers

Earned(e) ==
    /\ pc[e] = "reviewer" \/ (InBody(e) /\ phase[e] = "POLICY_EVALUATING")
       \/ (MovesIn(e, {"body"}) /\ move[e].to = "POLICY_EVALUATING") => e \in delta
    /\ MovesIn(e, {"body"}) /\ move[e].to = "CHECKPOINT_READY" =>
         evidence[e] = "PASS" /\ verdict[e] = "PASS"

\* What the move is about to publish.
Recorded(e) ==
    /\ pc[e] \in {"apply", "checkpoint"} => <<"implementer", "completed">> \in pending[e]
    /\ MovesIn(e, {"body"}) /\ move[e].to = "DELTA_CAPTURED" =>
         <<"implementer", "completed">> \in pending[e] /\ tree = "committed"
    /\ MovesIn(e, {"body"}) /\ move[e].to = "POLICY_EVALUATING" =>
         <<"reviewer", "completed">> \in pending[e]

Finished(e) ==
    pc[e] \in {"cleanup", "returned"} \/ (pc[e] = "loop" /\ phase[e] \in FINAL_PHASES)
      => row.phase \in FINAL_PHASES

Mine(e) == /\ Shaped(e) /\ SeenIsPast(e) /\ Follows(e) /\ Unasked(e)
           /\ Authorized(e) /\ Earned(e) /\ Recorded(e) /\ Finished(e)

Early == row.phase \in TaskPhase \ (MIDDLE_PHASES \cup FINAL_PHASES)
           => \A r \in Roles : asked[r] = 0

Ours == AskedOnce /\ EditsAreApproved /\ PhaseIsBacked /\ Early

OneOwner == \A e, o \in Engines : Owns(e) /\ Owns(o) => e = o

EngineInv == Ours /\ OneOwner /\ \A e \in Engines : Mine(e)

-------------------------------------------------------------------------------
(* What a step leaves alone                                                *)

\* What the matrix says of the moves that matter.
LEMMA LegalMoves ==
    ASSUME NEW from \in TaskPhase, NEW to \in TaskPhase, CanTransition(from, to)
    PROVE  /\ from \notin TERMINAL_TASK_PHASES
           /\ from \in FINAL_PHASES => to \in FINAL_PHASES
           /\ to = "IMPLEMENTING" => from = "EDIT_AUTHORIZED"
           /\ to = "DELTA_CAPTURED" => from = "IMPLEMENTING"
           /\ to = "EVIDENCE_RUNNING" => from = "DELTA_CAPTURED"
           /\ to = "REVIEWING" => from = "EVIDENCE_RUNNING"
           /\ to = "POLICY_EVALUATING" => from = "REVIEWING"
           /\ to \in READY_PHASES \cup {"FAILED"} => from = "POLICY_EVALUATING"
PROOF
  <1>1. from \notin TERMINAL_TASK_PHASES
    BY DEF CanTransition
  <1>2. to \in {"CANCELLED", "SAFE_HALT"} \/ <<from, to>> \in LEGAL_TRANSITIONS
    BY DEF CanTransition
  <1>3. CASE to \in {"CANCELLED", "SAFE_HALT"}
    BY <1>1, <1>3 DEF FINAL_PHASES, TERMINAL_TASK_PHASES, READY_PHASES
  <1>4. CASE <<from, to>> \in LEGAL_TRANSITIONS
    BY <1>1, <1>4 DEF LEGAL_TRANSITIONS, FINAL_PHASES, TERMINAL_TASK_PHASES, READY_PHASES
  <1> QED
    BY <1>2, <1>3, <1>4

Untouched(o) ==
    /\ pc'[o] = pc[o] /\ move'[o] = move[o] /\ phase'[o] = phase[o]
    /\ seen'[o] = seen[o] /\ pending'[o] = pending[o]
    /\ evidence'[o] = evidence[o] /\ verdict'[o] = verdict[o]
    /\ o \in delta' <=> o \in delta

\* A step of engine e that is not a move, and touches the worktree and asks
\* agents only as the owner.
Beside(e) ==
    /\ \A o \in Engines : o # e => Untouched(o)
    /\ row' = row
    /\ approval'.covers = approval.covers
    /\ UNCHANGED <<tree, asked>> \/ Owns(e)

LEMMA UntouchedKeeps ==
    ASSUME EngineInv, NEW o \in Engines, Untouched(o),
           row' = row, approval'.covers = approval.covers,
           UNCHANGED <<tree, asked>> \/ ~ Owns(o)
    PROVE  Mine(o)' /\ (Owns(o)' <=> Owns(o))
PROOF
  <1>1. Mine(o)
    BY DEF EngineInv
  <1>2. /\ MovesIn(o, {"body"})' <=> MovesIn(o, {"body"})
        /\ MovesIn(o, {"stop"})' <=> MovesIn(o, {"stop"})
        /\ MovesIn(o, {"fallback"})' <=> MovesIn(o, {"fallback"})
    BY DEF Untouched, MovesIn
  <1>3. (InBody(o)' <=> InBody(o)) /\ (Owns(o)' <=> Owns(o))
    BY <1>2 DEF Untouched, InBody, Owns
  <1>4. Shaped(o)' /\ SeenIsPast(o)' /\ Follows(o)' /\ Authorized(o)' /\ Earned(o)' /\ Finished(o)'
    BY <1>1, <1>2, <1>3
       DEF Untouched, Mine, Shaped, SeenIsPast, Follows, Authorized, Earned, Finished
  <1>5. Unasked(o)'
    BY <1>1, <1>3 DEF Untouched, Mine, Unasked
  <1>6. Recorded(o)'
    <2>1. MovesIn(o, {"body"}) /\ move[o].to = "DELTA_CAPTURED" => Owns(o)
      BY <1>1 DEF Mine, Shaped, BodyPath, Owns, InBody, MIDDLE_PHASES
    <2> QED
      BY <1>1, <1>2, <2>1 DEF Untouched, Mine, Recorded
  <1> QED
    BY <1>3, <1>4, <1>5, <1>6 DEF Mine

\* Ownership is not gained beside a move.
LEMMA BesideStep ==
    ASSUME EngineInv, NEW e \in Engines, Beside(e),
           Mine(e)', Owns(e)' => Owns(e), Ours'
    PROVE  EngineInv'
PROOF
  <1>1. \A o \in Engines : Mine(o)' /\ (Owns(o)' => Owns(o))
    <2> SUFFICES ASSUME NEW o \in Engines, o # e PROVE Mine(o)' /\ (Owns(o)' => Owns(o))
      OBVIOUS
    <2>1. UNCHANGED <<tree, asked>> \/ ~ Owns(o)
      BY DEF Beside, EngineInv, OneOwner
    <2> QED
      BY <2>1, UntouchedKeeps DEF Beside
  <1>2. OneOwner'
    BY <1>1 DEF EngineInv, OneOwner
  <1> QED
    BY <1>1, <1>2 DEF EngineInv

\* What is true of the task stays so when only more runs are on record.
LEMMA OursStays ==
    ASSUME Ours, UNCHANGED <<row, tree, asked>>, approval'.covers = approval.covers,
           runs \subseteq runs'
    PROVE  Ours'
  BY DEF Ours, AskedOnce, EditsAreApproved, PhaseIsBacked, Early

\* An engine that stops has nothing left to answer for.
Leaves(e) ==
    /\ seen'[e] \in {seen[e], row}
    /\ \/ pc'[e] \in {"off", "raised"}
       \/ /\ pc'[e] = "read" /\ move'[e].to = "SAFE_HALT"
          /\ move'[e].ctx \in {"stop", "fallback"}
       \/ pc'[e] \in {"cleanup", "returned"} /\ row.phase \in FINAL_PHASES

LEMMA SeenStays ==
    ASSUME TypeOK, EngineInv, NEW e \in Engines, row' = row, seen'[e] \in {seen[e], row},
           pc'[e] # "write"
    PROVE  SeenIsPast(e)'
PROOF
  <1>1. SeenIsPast(e)
    BY DEF EngineInv, Mine
  <1>2. row.version <= row.version
    BY DEF TypeOK, Row
  <1>3. CASE seen'[e] = seen[e]
    BY <1>1, <1>3 DEF SeenIsPast
  <1>4. CASE seen'[e] = row
    BY <1>2, <1>4 DEF SeenIsPast
  <1> QED
    BY <1>3, <1>4

LEMMA LeavingKeeps ==
    ASSUME TypeOK, EngineInv, NEW e \in Engines, row' = row, Leaves(e)
    PROVE  Mine(e)' /\ ~ Owns(e)'
PROOF
  <1>1. /\ ~ MovesIn(e, {"body"})'
        /\ ~ InBody(e)' /\ ~ Owns(e)'
    BY DEF Leaves, MovesIn, InBody, Owns
  <1>2. SeenIsPast(e)'
    BY SeenStays DEF Leaves
  <1>3. Shaped(e)'
    BY <1>1 DEF Leaves, Shaped, MovesIn
  <1> QED
    BY <1>1, <1>2, <1>3
       DEF Leaves, Mine, Follows, Unasked, Authorized, Earned, Recorded, Finished

\* A step of an engine that leaves and changes nothing but the record.
LEMMA LeavingStep ==
    ASSUME TypeOK, EngineInv, NEW e \in Engines, Beside(e), Leaves(e),
           Ours' \/ (runs \subseteq runs' /\ UNCHANGED <<tree, asked>>)
    PROVE  EngineInv'
PROOF
  <1>1. Ours'
    BY OursStays DEF Beside, EngineInv
  <1>2. row' = row
    BY DEF Beside
  <1> QED
    BY <1>1, <1>2, LeavingKeeps, BesideStep

\* Owns(e) in IMPLEMENTING or later: the phase the row then has.
LEMMA OwnersRow ==
    ASSUME EngineInv, NEW e \in Engines, Owns(e)
    PROVE  row.phase \in {phase[e], "CANCELLED", "SAFE_HALT"} /\ approval.covers
  BY DEF EngineInv, Mine, Follows, Authorized

-------------------------------------------------------------------------------
(* What the steps of one engine do to the others                           *)

ControlHeld(e) ==
    \A o \in Engines : o # e => pc'[o] = pc[o] /\ move'[o] = move[o]

LEMMA ControlStays ==
    ASSUME TypeOK, NEW e \in Engines
    PROVE  /\ \A l \in Label : Goto(e, l) => ControlHeld(e) /\ pc'[e] = l /\ move'[e] = move[e]
           /\ \A to \in TaskPhase : Advance(e, to) =>
                /\ ControlHeld(e) /\ pc'[e] = "read"
                /\ move'[e].to = to /\ move'[e].ctx = "body"
           /\ \A to \in {"SAFE_HALT", "FAILED"} : Stop(e, to) =>
                /\ ControlHeld(e) /\ pc'[e] = "read"
                /\ move'[e].to = to /\ move'[e].ctx = "stop"
           /\ Fail(e) =>
                /\ ControlHeld(e) /\ pc'[e] = "read"
                /\ move'[e].to = "SAFE_HALT" /\ move'[e].ctx = "fallback"
PROOF
  <1>1. ControlOK
    BY TypeParts
  <1>2. ASSUME NEW to \in TaskPhase, Advance(e, to)
        PROVE  ControlHeld(e) /\ pc'[e] = "read" /\ move'[e].to = to /\ move'[e].ctx = "body"
    BY <1>1, <1>2, TransitionControls DEF Advance, ControlHeld, Context
  <1>3. ASSUME NEW to \in {"SAFE_HALT", "FAILED"}, Stop(e, to)
        PROVE  ControlHeld(e) /\ pc'[e] = "read" /\ move'[e].to = to /\ move'[e].ctx = "stop"
    BY <1>1, <1>3, TransitionControls, PhaseNames DEF Stop, ControlHeld, Context
  <1>4. ASSUME Fail(e)
        PROVE  ControlHeld(e) /\ pc'[e] = "read" /\ move'[e].to = "SAFE_HALT"
               /\ move'[e].ctx = "fallback"
    BY <1>1, <1>4, TransitionControls, PhaseNames DEF Fail, ControlHeld, Context
  <1> QED
    BY <1>1, <1>2, <1>3, <1>4, GotoControls DEF ControlHeld

\* Every step of an engine but a committed move leaves the row and the other
\* engines alone, and takes no run off the record.
Apart(e) ==
    /\ \A o \in Engines : o # e => Untouched(o)
    /\ approval'.covers = approval.covers
    /\ runs \subseteq runs'

LEMMA MovesApart ==
    ASSUME TypeOK, NEW e \in Engines, Moves(e)
    PROVE  Apart(e) /\ UNCHANGED <<tree, asked>>
PROOF
  <1> USE TypeParts
  <1>1. ASSUME NEW l, NEW b, NEW view, MoveFails(e, l, b, view)
        PROVE  /\ ControlHeld(e) /\ UNCHANGED <<runs, world, delta, evidence, verdict, asked>>
               /\ \A o \in Engines : o # e => phase'[o] = phase[o] /\ pending'[o] = pending[o]
    <2>1. ControlHeld(e)
      BY <1>1, ControlStays DEF MoveFails, Fallback, Escape, Label
    <2>2. runs' = runs /\ \A o \in Engines : o # e => pending'[o] = pending[o]
      BY <1>1 DEF MoveFails, Fallback, Escape, HangUp, DbOK
    <2>3. \A o \in Engines : o # e => phase'[o] = phase[o]
      BY <1>1 DEF MoveFails, Fallback, Escape, MemoryOK
    <2> QED
      BY <1>1, <2>1, <2>2, <2>3 DEF MoveFails
  <1>2. ASSUME MoveRefused(e) \/ MoveConflicts(e) \/ MoveBusy(e)
        PROVE  Apart(e) /\ UNCHANGED <<tree, asked>>
    <2>1. PICK l, b, view : MoveFails(e, l, b, view)
      BY <1>2 DEF MoveRefused, MoveConflicts, MoveBusy
    <2>2. \A o \in Engines : o # e => seen'[o] = seen[o]
      BY <1>2 DEF MoveRefused, MoveConflicts, MoveBusy, Read, RowOK
    <2> QED
      BY <2>1, <2>2, <1>1 DEF Apart, Untouched, ControlHeld, world
  <1>3. CASE MoveReads(e)
    <2>1. ControlHeld(e)
      BY <1>3, ControlStays DEF MoveReads, Label
    <2> QED
      BY <1>3, <2>1 DEF MoveReads, Read, Apart, Untouched, ControlHeld, RowOK, world, memory
  <1>4. CASE MoveCommits(e)
    <2>1. ControlHeld(e)
      BY <1>4, ControlStays DEF MoveCommits, Label
    <2>2. runs \subseteq runs' /\ \A o \in Engines : o # e => pending'[o] = pending[o]
      BY <1>4 DEF MoveCommits, Commit, DbOK
    <2> QED
      BY <1>4, <2>1, <2>2 DEF MoveCommits, Apart, Untouched, ControlHeld, MemoryOK, world
  <1> QED
    BY <1>2, <1>3, <1>4 DEF Moves

\* The steps before, after and around the agents that write nothing.
LEMMA QuietApart ==
    ASSUME TypeOK, NEW e \in Engines,
           \/ Start(e) \/ Done(e) \/ Unsupported(e) \/ Authorize(e) \/ OpenWorktree(e)
           \/ Apply(e) \/ Checkpoint(e) \/ ProduceEvidence(e)
           \/ EvidenceAdvance(e) \/ OpenReview(e) \/ Policy(e) \/ AgentTouches(e)
    PROVE  Apart(e) /\ UNCHANGED db /\ seen' = seen
PROOF
  <1> USE TypeParts
  <1>1. UNCHANGED <<db, seen, approval>>
    BY DEF Start, Done, Unsupported, Authorize, OpenWorktree, Apply, Checkpoint,
           ProduceEvidence, EvidenceAdvance, OpenReview, Policy, AgentTouches, world
  <1>2. CASE Start(e) \/ Done(e) \/ Unsupported(e) \/ Authorize(e)
    <2>1. ControlHeld(e)
      BY <1>2, ControlStays, PhaseNames DEF Start, Done, Unsupported, Authorize, Label, Halt
    <2> QED
      BY <1>1, <1>2, <2>1 DEF Start, Done, Unsupported, Authorize,
         Apart, Untouched, ControlHeld, MemoryOK, memory, db
  <1>3. CASE OpenWorktree(e) \/ OpenReview(e) \/ AgentTouches(e)
    <2>1. ControlHeld(e)
      BY <1>3, ControlStays
         DEF OpenWorktree, OpenReview, AgentTouches, Ask, Label, Roles, Halt, ControlHeld
    <2> QED
      BY <1>1, <1>3, <2>1 DEF OpenWorktree, OpenReview, AgentTouches,
         Apart, Untouched, ControlHeld, memory, db
  <1>4. CASE Apply(e) \/ Checkpoint(e)
    <2>1. ControlHeld(e)
      BY <1>4, ControlStays, PhaseNames DEF Apply, Checkpoint, Label, Halt
    <2> QED
      BY <1>1, <1>4, <2>1 DEF Apply, Checkpoint,
         Apart, Untouched, ControlHeld, MemoryOK, memory, db
  <1>5. CASE ProduceEvidence(e) \/ EvidenceAdvance(e) \/ Policy(e)
    <2>1. ControlHeld(e)
      BY <1>5, ControlStays, PhaseNames
         DEF ProduceEvidence, EvidenceAdvance, Policy, Label, Halt
    <2> QED
      BY <1>1, <1>5, <2>1 DEF ProduceEvidence, EvidenceAdvance, Policy,
         Apart, Untouched, ControlHeld, MemoryOK, memory, db
  <1> QED
    BY <1>2, <1>3, <1>4, <1>5, <1>1

\* The steps that write to the database or close the connection.
LEMMA WritersApart ==
    ASSUME TypeOK, NEW e \in Engines,
           Answers(e) \/ Cleanup(e) \/ Crash(e)
    PROVE  Apart(e) /\ UNCHANGED <<row, seen, tree, asked>>
PROOF
  <1> USE TypeParts
  <1>1. UNCHANGED <<world, seen, asked>>
    BY DEF Answers, AgentRaises, AgentUnrecorded, AgentFails, AgentFailsWith, SnapshotRefused,
           ImplementerAnswers, ReviewerAnswers, Cleanup, Crash
  <1>2. ControlHeld(e)
    <2>1. CASE AgentRaises(e) \/ AgentUnrecorded(e) \/ AgentFails(e) \/ SnapshotRefused(e)
      BY <2>1, ControlStays
         DEF AgentRaises, AgentUnrecorded, AgentFails, AgentFailsWith, SnapshotRefused,
             Escape, Label, Halt
    <2>2. CASE ImplementerAnswers(e) \/ ReviewerAnswers(e) \/ Cleanup(e) \/ Crash(e)
      BY <2>2, ControlStays, PhaseNames
         DEF ImplementerAnswers, ReviewerAnswers, Cleanup, Crash, Escape, Label, Halt
    <2> QED
      BY <2>1, <2>2 DEF Answers
  <1>3. /\ row' = row /\ runs \subseteq runs'
        /\ \A o \in Engines : o # e => pending'[o] = pending[o]
    BY DEF Answers, AgentRaises, AgentUnrecorded, AgentFails, AgentFailsWith, SnapshotRefused,
           ImplementerAnswers, ReviewerAnswers, Cleanup, Crash, Escape, HangUp, Records,
           Commit, DbOK, db
  <1>4. \A o \in Engines : o # e =>
          /\ phase'[o] = phase[o] /\ evidence'[o] = evidence[o] /\ verdict'[o] = verdict[o]
          /\ o \in delta' <=> o \in delta
    BY DEF Answers, AgentRaises, AgentUnrecorded, AgentFails, AgentFailsWith, SnapshotRefused,
           ImplementerAnswers, ReviewerAnswers, Cleanup, Crash, MemoryOK, memory
  <1> QED
    BY <1>1, <1>2, <1>3, <1>4 DEF Apart, Untouched, ControlHeld, world

-------------------------------------------------------------------------------
(* The invariant, step by step                                             *)

\* A transition that fails stops the engine or sends it to SAFE_HALT.
LEMMA FailedMoveKeeps ==
    ASSUME TypeOK, EngineInv, NEW e \in Engines,
           MoveRefused(e) \/ MoveConflicts(e) \/ MoveBusy(e)
    PROVE  EngineInv'
PROOF
  <1>1. Apart(e) /\ UNCHANGED <<tree, asked>>
    BY MovesApart DEF Moves
  <1>2. PICK l, b, view :
          MoveFails(e, l, b, view) /\ view \in {row, seen[e]} /\ seen'[e] \in {seen[e], row}
    BY TypeParts DEF MoveRefused, MoveConflicts, MoveBusy, Read, RowOK
  <1>3. view.phase \in TERMINAL_TASK_PHASES => row.phase \in FINAL_PHASES
    BY <1>2 DEF EngineInv, Mine, SeenIsPast, FINAL_PHASES
  <1>4. row' = row
    BY <1>2 DEF MoveFails, Fallback, Escape, HangUp
  <1>5. Leaves(e)
    <2>1. CASE Fail(e)
      BY <2>1, <1>2, ControlStays DEF Leaves
    <2>2. CASE Escape(e)
      BY <2>2, <1>2, ControlStays DEF Leaves, Escape, Label
    <2>3. CASE Goto(e, "cleanup") /\ view.phase \in TERMINAL_TASK_PHASES
      BY <2>3, <1>2, <1>3, ControlStays DEF Leaves, Label
    <2> QED
      BY <2>1, <2>2, <2>3, <1>2 DEF MoveFails, Fallback
  <1> QED
    BY <1>1, <1>4, <1>5, LeavingStep DEF Apart, Beside

LEMMA ReadKeeps ==
    ASSUME TypeOK, EngineInv, NEW e \in Engines, MoveReads(e)
    PROVE  EngineInv'
PROOF
  <1>1. Apart(e) /\ UNCHANGED <<tree, asked, row, runs, delta, evidence, verdict, phase, pending>>
    BY MovesApart DEF Moves, MoveReads, memory
  <1>2. pc[e] = "read" /\ pc'[e] = "write" /\ move'[e] = move[e]
        /\ CanTransition(row.phase, move[e].to) /\ seen'[e] = row
    BY ControlStays, TypeParts DEF MoveReads, Read, RowOK, Label
  <1>3. /\ MovesIn(e, {"body"})' <=> MovesIn(e, {"body"})
        /\ MovesIn(e, {"stop"})' <=> MovesIn(e, {"stop"})
        /\ MovesIn(e, {"fallback"})' <=> MovesIn(e, {"fallback"})
    BY <1>2 DEF MovesIn
  <1>4. (InBody(e)' <=> InBody(e)) /\ (Owns(e)' <=> Owns(e))
    BY <1>1, <1>2, <1>3 DEF InBody, Owns
  <1>5. Mine(e)
    BY DEF EngineInv
  <1>6. SeenIsPast(e)'
    <2>1. row.version <= row.version
      BY DEF TypeOK, Row
    <2> QED
      BY <1>1, <1>2, <2>1 DEF SeenIsPast
  <1>7. Mine(e)'
    BY <1>1, <1>2, <1>3, <1>4, <1>5, <1>6
       DEF Mine, Shaped, Follows, Unasked, Authorized, Earned, Recorded, Finished, Apart
  <1> QED
    BY <1>1, <1>4, <1>7, OursStays, BesideStep DEF Apart, Beside, EngineInv

\* What leaves the engine with nothing in hand.
LEMMA StopKeeps ==
    ASSUME TypeOK, EngineInv, NEW e \in Engines,
           \/ Done(e) \/ Unsupported(e) \/ AgentRaises(e) \/ AgentUnrecorded(e)
           \/ AgentFails(e) \/ SnapshotRefused(e) \/ Cleanup(e) \/ Crash(e)
    PROVE  EngineInv'
PROOF
  <1>1. Apart(e) /\ UNCHANGED <<row, tree, asked>> /\ seen' = seen
    <2>1. CASE Done(e) \/ Unsupported(e)
      BY <2>1, QuietApart DEF Done, Unsupported, db, world
    <2> QED
      BY <2>1, WritersApart DEF Answers
  <1>2. Finished(e)
    BY DEF EngineInv, Mine
  <1>3. Leaves(e)
    <2>1. CASE Done(e) \/ Cleanup(e)
      BY <2>1, <1>1, <1>2, ControlStays DEF Done, Cleanup, Escape, Finished, Leaves, Label
    <2>2. CASE Unsupported(e) \/ AgentRaises(e) \/ AgentUnrecorded(e) \/ AgentFails(e)
      BY <2>2, <1>1, ControlStays
         DEF Unsupported, AgentRaises, AgentUnrecorded, AgentFails, AgentFailsWith,
             Escape, Halt, Leaves, Label
    <2>3. CASE SnapshotRefused(e) \/ Crash(e)
      BY <2>3, <1>1, ControlStays DEF SnapshotRefused, Crash, Escape, Leaves, Label
    <2> QED
      BY <2>1, <2>2, <2>3
  <1> QED
    BY <1>1, <1>3, LeavingStep DEF Apart, Beside

\* A process that starts in a middle phase halts; in any other it is no owner.
LEMMA StartKeeps ==
    ASSUME TypeOK, EngineInv, NEW e \in Engines, Start(e)
    PROVE  EngineInv'
PROOF
  <1>1. Apart(e) /\ UNCHANGED <<row, tree, asked, runs>> /\ seen' = seen
    BY QuietApart DEF Start, db, world
  <1>2. CASE Halt(e)
    <2>1. Leaves(e)
      BY <1>1, <1>2, ControlStays DEF Halt, Leaves
    <2> QED
      BY <1>1, <2>1, LeavingStep DEF Apart, Beside
  <1>3. CASE row.phase \notin MIDDLE_PHASES /\ Goto(e, "loop")
    <2>1. pc'[e] = "loop" /\ phase'[e] = row.phase
      BY <1>3, ControlStays DEF Start, TypeOK, Label
    <2>2. SeenIsPast(e)'
      BY <1>1, <2>1, SeenStays
    <2>3. ~ Owns(e)' /\ ~ MovesIn(e, {"body"})'
      BY <1>3, <2>1 DEF Owns, MovesIn
    <2>4. Mine(e)'
      <3>1. "POLICY_EVALUATING" \in MIDDLE_PHASES
        BY DEF MIDDLE_PHASES
      <3> QED
        BY <1>1, <1>3, <2>1, <2>2, <2>3, <3>1
           DEF Mine, Shaped, MovesIn, Follows, Unasked, Authorized, Earned, Recorded, Finished
    <2> QED
      BY <1>1, <2>3, <2>4, OursStays, BesideStep DEF Apart, Beside, EngineInv
  <1> QED
    BY <1>2, <1>3 DEF Start

\* A legal move of the row by one process, seen by the others: it can only have
\* stopped the task its owner works on.
LEMMA RowMoves ==
    ASSUME TypeOK, EngineInv, NEW to \in TaskPhase, NEW o \in Engines,
           CanTransition(row.phase, to), row'.phase = to, row'.version = row.version + 1,
           Untouched(o), UNCHANGED <<tree, asked>>, approval'.covers = approval.covers,
           Owns(o) => to \in {"SAFE_HALT", "CANCELLED"}
    PROVE  Mine(o)' /\ (Owns(o)' <=> Owns(o))
PROOF
  <1>1. Mine(o) /\ row.phase \in TaskPhase
    BY DEF EngineInv, TypeOK, Row
  <1>2. /\ MovesIn(o, {"body"})' <=> MovesIn(o, {"body"})
        /\ MovesIn(o, {"stop"})' <=> MovesIn(o, {"stop"})
        /\ MovesIn(o, {"fallback"})' <=> MovesIn(o, {"fallback"})
    BY DEF Untouched, MovesIn
  <1>3. (InBody(o)' <=> InBody(o)) /\ (Owns(o)' <=> Owns(o))
    BY <1>2 DEF Untouched, InBody, Owns
  <1>4. SeenIsPast(o)'
    <2>1. SeenIsPast(o) /\ row.version \in Nat /\ seen[o].version \in Nat
      BY <1>1, TypeParts DEF Mine, RowOK, Row
    <2>2. row.phase \notin TERMINAL_TASK_PHASES
      BY DEF CanTransition
    <2> QED
      BY <2>1, <2>2 DEF SeenIsPast, Untouched
  <1>5. Finished(o)'
    BY <1>1, LegalMoves DEF Mine, Finished, Untouched
  <1>6. Shaped(o)' /\ Follows(o)' /\ Unasked(o)' /\ Authorized(o)' /\ Earned(o)' /\ Recorded(o)'
    BY <1>1, <1>2, <1>3
       DEF Untouched, Mine, Shaped, Follows, Unasked, Authorized, Earned, Recorded
  <1> QED
    BY <1>3, <1>4, <1>5, <1>6 DEF Mine

\* A row that still has the version that was read is the row that was read.
LEMMA CommitIsLegal ==
    ASSUME TypeOK, EngineInv, NEW e \in Engines, MoveCommits(e)
    PROVE  CanTransition(row.phase, move[e].to) /\ move[e].to \in TaskPhase
  BY TypeParts DEF MoveCommits, EngineInv, Mine, SeenIsPast, ControlOK, Move

\* Which moves an engine can be about to commit.
LEMMA CommitKinds ==
    ASSUME TypeOK, EngineInv, NEW e \in Engines, MoveCommits(e)
    PROVE  \/ move[e].ctx = "body" /\ <<phase[e], move[e].to>> \in BodyPath
           \/ move[e].ctx \in {"stop", "fallback"} /\ move[e].to = "SAFE_HALT"
           \/ /\ move[e].ctx = "stop" /\ move[e].to = "FAILED"
              /\ phase[e] = "POLICY_EVALUATING"
PROOF
  <1>1. Shaped(e) /\ pc[e] = "write" /\ move[e].ctx \in Context
    BY TypeParts DEF EngineInv, Mine, MoveCommits, ControlOK, Move, Context
  <1> QED
    BY <1>1 DEF Shaped, MovesIn, Context

\* What a committed move claims was on record or is put there with it.
LEMMA CommitIsBacked ==
    ASSUME TypeOK, EngineInv, NEW e \in Engines, MoveCommits(e)
    PROVE  Ours'
PROOF
  <1>1. CanTransition(row.phase, move[e].to) /\ row.phase \in TaskPhase /\ move[e].to \in TaskPhase
    BY CommitIsLegal DEF TypeOK, Row
  <1>2. /\ row'.phase = move[e].to /\ runs' = runs \cup pending[e] /\ pc[e] = "write"
        /\ UNCHANGED <<tree, asked, approval>>
    BY DEF MoveCommits, Commit, world
  <1>3. PhaseIsBacked /\ Recorded(e)
    BY DEF EngineInv, Ours, Mine
  <1>4. ASSUME move[e].to = "DELTA_CAPTURED"
        PROVE  tree = "committed" /\ <<"implementer", "completed">> \in pending[e]
    BY <1>2, <1>3, <1>4, CommitKinds DEF Recorded, MovesIn
  <1>5. ASSUME move[e].to = "POLICY_EVALUATING"
        PROVE  <<"reviewer", "completed">> \in pending[e]
    BY <1>2, <1>3, <1>5, CommitKinds DEF Recorded, MovesIn
  <1>6. PhaseIsBacked'
    BY <1>1, <1>2, <1>3, <1>4, <1>5, LegalMoves, CommitKinds DEF PhaseIsBacked, BodyPath, READY_PHASES
  <1>7. Early'
    BY <1>2, CommitKinds DEF Early, BodyPath, MIDDLE_PHASES, FINAL_PHASES,
       TERMINAL_TASK_PHASES, READY_PHASES
  <1> QED
    BY <1>2, <1>6, <1>7 DEF EngineInv, Ours, AskedOnce, EditsAreApproved

LEMMA CommitKeeps ==
    ASSUME TypeOK, EngineInv, NEW e \in Engines, MoveCommits(e)
    PROVE  EngineInv'
PROOF
  <1> DEFINE to == move[e].to
  <1>1. /\ CanTransition(row.phase, to) /\ to \in TaskPhase
        /\ row.phase \in TaskPhase /\ row.version \in Nat
    BY CommitIsLegal DEF TypeOK, Row
  <1>2. Apart(e) /\ UNCHANGED <<tree, asked, delta, evidence, verdict, approval>> /\ seen' = seen
    BY MovesApart DEF Moves, MoveCommits, world
  <1>3. /\ row'.phase = to /\ row'.version = row.version + 1 /\ pc[e] = "write"
        /\ phase'[e] = to
        /\ pc'[e] = IF move[e].ctx = "body" THEN "loop" ELSE "cleanup"
    BY ControlStays, TypeParts DEF MoveCommits, MemoryOK, Label
  <1>4. Mine(e)
    BY DEF EngineInv
  <1>5. move[e].ctx = "body" /\ to # "IMPLEMENTING" => Owns(e)
    BY <1>3, CommitKinds DEF Owns, InBody, MovesIn, BodyPath, MIDDLE_PHASES
  <1>6. to = "FAILED" => Owns(e)
    BY <1>3, CommitKinds DEF Owns, InBody, MovesIn, BodyPath, MIDDLE_PHASES
  <1>7. \A o \in Engines : o # e /\ Owns(o) => to = "SAFE_HALT"
    <2> SUFFICES ASSUME NEW o \in Engines, o # e, Owns(o), to # "SAFE_HALT" PROVE FALSE
      OBVIOUS
    <2>1. ~ Owns(e)
      BY DEF EngineInv, OneOwner
    <2>2. to = "IMPLEMENTING"
      BY <1>5, <1>6, <2>1, CommitKinds DEF BodyPath
    <2>3. row.phase = "EDIT_AUTHORIZED"
      BY <1>1, <2>2, LegalMoves
    <2> QED
      BY <2>3, OwnersRow DEF Owns, MIDDLE_PHASES
  <1>8. \A o \in Engines : o # e => Mine(o)' /\ (Owns(o)' <=> Owns(o))
    BY <1>1, <1>2, <1>3, <1>7, RowMoves DEF Apart
  <1>9. Owns(e)' => /\ move[e].ctx = "body"
                    /\ to = "IMPLEMENTING" \/ Owns(e)
    BY <1>3, <1>5 DEF Owns, InBody, MovesIn
  <1>10. OneOwner'
    <2>1. Owns(e)' => \A o \in Engines : o # e => ~ Owns(o)
      <3> SUFFICES ASSUME Owns(e)', NEW o \in Engines, o # e, Owns(o) PROVE FALSE
        OBVIOUS
      <3>1. to = "SAFE_HALT"
        BY <1>7
      <3>2. Owns(e)
        BY <1>9, <3>1
      <3> QED
        BY <3>2 DEF EngineInv, OneOwner
    <2> QED
      BY <1>8, <2>1 DEF EngineInv, OneOwner
  <1>11. Mine(e)'
    <2>1. SeenIsPast(e)'
      <3>1. SeenIsPast(e) /\ seen[e].version = row.version
        BY <1>4 DEF Mine, MoveCommits
      <3>2. row.phase \notin TERMINAL_TASK_PHASES
        BY <1>1 DEF CanTransition
      <3> QED
        BY <1>1, <1>2, <1>3, <3>1, <3>2 DEF SeenIsPast
    <2>2. ~ MovesIn(e, {"body"})' /\ ~ MovesIn(e, {"stop"})' /\ ~ MovesIn(e, {"fallback"})'
      BY <1>3 DEF MovesIn
    <2>3. Shaped(e)' /\ Follows(e)'
      BY <1>3, <2>2 DEF Shaped, Follows
    <2>4. Unasked(e)'
      <3>1. CASE to = "IMPLEMENTING"
        <4>1. row.phase = "EDIT_AUTHORIZED" /\ Early
          BY <1>1, <3>1, LegalMoves DEF EngineInv, Ours
        <4>2. \A r \in Roles : asked[r] = 0
          BY <4>1, PhaseNames DEF Early, MIDDLE_PHASES, FINAL_PHASES, TERMINAL_TASK_PHASES, READY_PHASES
        <4> QED
          BY <1>2, <4>2 DEF Unasked, Roles
      <3>2. CASE to \in {"DELTA_CAPTURED", "EVIDENCE_RUNNING", "REVIEWING"} /\ Owns(e)'
        <4>1. Owns(e) /\ Unasked(e)
          BY <1>4, <1>9, <3>2 DEF Mine
        <4>2. phase[e] \in {"IMPLEMENTING", "DELTA_CAPTURED", "EVIDENCE_RUNNING"}
          BY <1>9, <3>2, CommitKinds DEF BodyPath
        <4> QED
          BY <1>2, <1>3, <3>2, <4>1, <4>2 DEF Unasked
      <3>3. to \notin {"IMPLEMENTING", "DELTA_CAPTURED", "EVIDENCE_RUNNING", "REVIEWING"}
              => Unasked(e)'
        BY <1>3 DEF Unasked
      <3> QED
        BY <3>1, <3>2, <3>3 DEF Unasked
    <2>5. Authorized(e)'
      <3>1. Owns(e)' => MovesIn(e, {"body"})
        BY <1>3, <1>9 DEF MovesIn
      <3> QED
        BY <1>2, <1>4, <2>2, <3>1 DEF Mine, Authorized
    <2>6. Earned(e)'
      BY <1>2, <1>3, <1>4, <2>2 DEF Mine, Earned, InBody, MovesIn
    <2>7. Recorded(e)' /\ Finished(e)'
      BY <1>3, <2>2, CommitKinds
         DEF Recorded, Finished, FINAL_PHASES, TERMINAL_TASK_PHASES, BodyPath
    <2> QED
      BY <2>1, <2>3, <2>4, <2>5, <2>6, <2>7 DEF Mine
  <1> QED
    BY <1>8, <1>10, <1>11, CommitIsBacked DEF EngineInv

\* The world around the engines.
LEMMA WorldKeeps ==
    ASSUME TypeOK, EngineInv, Cancel \/ OthersWrite \/ Expire \/ UNCHANGED vars
    PROVE  EngineInv'
PROOF
  <1>1. /\ \A o \in Engines : Untouched(o)
        /\ UNCHANGED <<tree, asked, runs>> /\ approval'.covers = approval.covers
    <2>1. approval'.covers = approval.covers
      BY ApprovalTypes DEF Cancel, OthersWrite, Expire, vars, world, TypeOK
    <2> QED
      BY <2>1 DEF Cancel, OthersWrite, Expire, vars, db, world, memory, Untouched
  <1>2. CASE Cancel
    <2>1. CanTransition(row.phase, "CANCELLED") /\ "CANCELLED" \in TaskPhase
      BY <1>2, PhaseNames DEF Cancel
    <2>2. row'.phase = "CANCELLED" /\ row'.version = row.version + 1
      BY <1>2 DEF Cancel
    <2>3. \A o \in Engines : Mine(o)' /\ (Owns(o)' <=> Owns(o))
      BY <1>1, <2>1, <2>2, RowMoves
    <2>4. Ours'
      BY <1>1, <2>2 DEF EngineInv, Ours, AskedOnce, EditsAreApproved, PhaseIsBacked, Early,
         FINAL_PHASES, TERMINAL_TASK_PHASES, READY_PHASES
    <2> QED
      BY <2>3, <2>4 DEF EngineInv, OneOwner
  <1>3. CASE OthersWrite \/ Expire \/ UNCHANGED vars
    <2>1. row' = row
      BY <1>3 DEF OthersWrite, Expire, vars, db
    <2>2. \A o \in Engines : Mine(o)' /\ (Owns(o)' <=> Owns(o))
      BY <1>1, <2>1, UntouchedKeeps
    <2> QED
      BY <1>1, <2>1, <2>2, OursStays DEF EngineInv, OneOwner
  <1> QED
    BY <1>2, <1>3

-------------------------------------------------------------------------------
(* The body of the loop                                                    *)

\* The owner at work in the row it moved to: nothing is claimed of the row yet.
LEMMA OwnersWork ==
    ASSUME EngineInv, NEW e \in Engines, Owns(e), phase[e] = "IMPLEMENTING",
           row' = row, approval'.covers = approval.covers, runs' = runs,
           \A r \in Roles : asked'[r] <= 1
    PROVE  Ours'
PROOF
  <1>1. row.phase \in {"IMPLEMENTING", "CANCELLED", "SAFE_HALT"} /\ approval.covers
    BY OwnersRow
  <1> QED
    BY <1>1 DEF Ours, AskedOnce, EditsAreApproved, PhaseIsBacked, Early, READY_PHASES,
       MIDDLE_PHASES, FINAL_PHASES, TERMINAL_TASK_PHASES

\* In the body control goes on to a place where the engine still owns the task.
Stays(e, l) == /\ pc'[e] = l /\ phase'[e] = phase[e] /\ row' = row /\ seen' = seen
               /\ evidence'[e] = evidence[e] /\ verdict'[e] = verdict[e]
               /\ e \in delta => e \in delta'
               /\ approval'.covers = approval.covers

\* A move is prepared.
Prepares(e, to) == /\ pc'[e] = "read" /\ move'[e].to = to /\ move'[e].ctx = "body"
                   /\ phase'[e] = phase[e] /\ row' = row /\ seen' = seen
                   /\ approval'.covers = approval.covers

LEMMA StaysKeeps ==
    ASSUME TypeOK, EngineInv, NEW e \in Engines, Owns(e),
           NEW l \in {"implementer", "reviewer", "apply", "checkpoint"}, Stays(e, l),
           l = "reviewer" => phase[e] = "REVIEWING" /\ e \in delta,
           l # "reviewer" => phase[e] = "IMPLEMENTING" /\ asked'["reviewer"] = asked["reviewer"],
           l \in {"apply", "checkpoint"} => <<"implementer", "completed">> \in pending'[e]
    PROVE  Mine(e)' /\ Owns(e)'
PROOF
  <1>1. pc'[e] = l /\ phase'[e] = phase[e] /\ ~ MovesIn(e, {"body"})'
        /\ ~ MovesIn(e, {"stop"})' /\ ~ MovesIn(e, {"fallback"})'
    BY DEF Stays, MovesIn
  <1>2. Owns(e)'
    BY <1>1 DEF Owns, InBody, Stays
  <1>3. SeenIsPast(e)'
    BY <1>1, SeenStays DEF Stays
  <1>4. Shaped(e)' /\ Recorded(e)' /\ Finished(e)'
    BY <1>1 DEF Shaped, Recorded, Finished
  <1>5. Follows(e)' /\ Authorized(e)'
    BY <1>1, OwnersRow DEF Follows, Authorized, Stays
  <1>6. Unasked(e)'
    BY <1>1 DEF EngineInv, Mine, Unasked
  <1>7. Earned(e)'
    BY <1>1 DEF Earned, Stays
  <1> QED
    BY <1>2, <1>3, <1>4, <1>5, <1>6, <1>7 DEF Mine

LEMMA PreparesKeeps ==
    ASSUME TypeOK, EngineInv, NEW e \in Engines, NEW to, Prepares(e, to),
           <<phase[e], to>> \in BodyPath,
           to = "IMPLEMENTING" => approval.covers,
           to # "IMPLEMENTING" => Owns(e),
           to = "DELTA_CAPTURED" =>
             <<"implementer", "completed">> \in pending'[e] /\ tree' = "committed",
           to = "POLICY_EVALUATING" =>
             e \in delta' /\ <<"reviewer", "completed">> \in pending'[e],
           to = "CHECKPOINT_READY" =>
             e \in delta' /\ evidence'[e] = "PASS" /\ verdict'[e] = "PASS",
           to \in {"DELTA_CAPTURED", "EVIDENCE_RUNNING", "REVIEWING"} =>
             asked'["reviewer"] = asked["reviewer"]
    PROVE  Mine(e)' /\ (Owns(e)' => Owns(e))
PROOF
  <1>1. /\ MovesIn(e, {"body"})' /\ ~ MovesIn(e, {"stop"})' /\ ~ MovesIn(e, {"fallback"})'
        /\ pc'[e] = "read" /\ move'[e].to = to /\ phase'[e] = phase[e] /\ row' = row
    BY DEF Prepares, MovesIn
  <1>2. Owns(e)' => to # "IMPLEMENTING"
    BY <1>1 DEF Owns, BodyPath, MIDDLE_PHASES
  <1>3. SeenIsPast(e)'
    BY <1>1, SeenStays DEF Prepares
  <1>4. Shaped(e)' /\ Recorded(e)' /\ Finished(e)'
    BY <1>1 DEF Shaped, Recorded, Finished
  <1>5. Follows(e)' /\ Authorized(e)'
    BY <1>1, <1>2, OwnersRow DEF Follows, Authorized, Prepares
  <1>6. Unasked(e)'
    <2>1. to \in {"DELTA_CAPTURED", "EVIDENCE_RUNNING"} => asked["reviewer"] = 0
      BY DEF EngineInv, Mine, Unasked, BodyPath
    <2>2. phase[e] = "EVIDENCE_RUNNING" => to = "REVIEWING"
      BY DEF BodyPath
    <2>3. to = "REVIEWING" => asked["reviewer"] = 0
      BY DEF EngineInv, Mine, Unasked, BodyPath
    <2> QED
      BY <1>1, <1>2, <2>1, <2>2, <2>3 DEF Unasked, BodyPath
  <1>7. Earned(e)'
    BY <1>1 DEF Earned, BodyPath
  <1> QED
    BY <1>1, <1>2, <1>3, <1>4, <1>5, <1>6, <1>7 DEF Mine

\* A quiet step that halts the task.
LEMMA HaltingKeeps ==
    ASSUME TypeOK, EngineInv, NEW e \in Engines, Halt(e) \/ Fail(e),
           Apart(e), row' = row, seen'[e] \in {seen[e], row}, UNCHANGED <<tree, asked>>
    PROVE  EngineInv'
PROOF
  <1>1. Leaves(e)
    BY ControlStays DEF Leaves, Halt
  <1> QED
    BY <1>1, LeavingStep DEF Apart, Beside

LEMMA AuthorizeKeeps ==
    ASSUME TypeOK, EngineInv, NEW e \in Engines, Authorize(e)
    PROVE  EngineInv'
PROOF
  <1>1. Apart(e) /\ UNCHANGED <<row, runs, tree, asked, phase, approval, seen, pending>>
    BY QuietApart DEF Authorize, db, world, memory
  <1>2. CASE Halt(e)
    BY <1>1, <1>2, HaltingKeeps
  <1>3. CASE Advance(e, "IMPLEMENTING") /\ approval.covers
    <2>1. Prepares(e, "IMPLEMENTING")
      BY <1>1, <1>3, ControlStays, PhaseNames DEF Prepares
    <2>2. Mine(e)' /\ (Owns(e)' => Owns(e))
      BY <1>1, <1>3, <2>1, PreparesKeeps DEF Authorize, At, BodyPath
    <2> QED
      BY <1>1, <2>2, OursStays, BesideStep DEF Apart, Beside, EngineInv
  <1> QED
    BY <1>2, <1>3 DEF Authorize

LEMMA OpenWorktreeKeeps ==
    ASSUME TypeOK, EngineInv, NEW e \in Engines, OpenWorktree(e)
    PROVE  EngineInv'
PROOF
  <1>1. Apart(e) /\ UNCHANGED <<row, runs, phase, seen, evidence, verdict, delta>>
        /\ approval'.covers = approval.covers
    BY QuietApart DEF OpenWorktree, db, memory, Apart
  <1>2. CASE (Fail(e) \/ Halt(e)) /\ UNCHANGED <<tree, asked>>
    BY <1>1, <1>2, HaltingKeeps
  <1>3. CASE Ask(e, "implementer")
    <2>1. Owns(e) /\ phase[e] = "IMPLEMENTING" /\ pc[e] = "loop"
      BY DEF OpenWorktree, At, Owns, InBody, MIDDLE_PHASES
    <2>2. /\ asked'["implementer"] = asked["implementer"] + 1
          /\ asked'["reviewer"] = asked["reviewer"]
      BY <1>3 DEF Ask, TypeOK, Roles
    <2>3. asked["implementer"] = 0 /\ asked["reviewer"] <= 1
      BY <2>1 DEF EngineInv, Mine, Unasked, Ours, AskedOnce, Roles
    <2>4. \A r \in Roles : asked'[r] <= 1
      BY <2>2, <2>3 DEF Roles
    <2>5. Ours'
      BY <1>1, <2>1, <2>4, OwnersWork
    <2>6. Stays(e, "implementer")
      BY <1>1, <1>3, ControlStays DEF Ask, Stays, Label, Roles
    <2>7. Mine(e)'
      BY <2>1, <2>2, <2>6, StaysKeeps
    <2> QED
      BY <1>1, <2>1, <2>5, <2>7, BesideStep DEF Apart, Beside
  <1> QED
    BY <1>2, <1>3 DEF OpenWorktree

LEMMA ImplementerKeeps ==
    ASSUME TypeOK, EngineInv, NEW e \in Engines, ImplementerAnswers(e)
    PROVE  EngineInv'
PROOF
  <1>1. /\ Apart(e)
        /\ UNCHANGED <<row, runs, tree, asked, phase, evidence, verdict, delta, approval, seen>>
    BY WritersApart DEF Answers, ImplementerAnswers, Records, memory, world
  <1>2. pending'[e] = {<<"implementer", "completed">>}
    BY DEF ImplementerAnswers, Records, TypeOK
  <1>3. CASE Halt(e) \/ Fail(e)
    BY <1>1, <1>3, HaltingKeeps
  <1>4. CASE Goto(e, "apply")
    <2>1. Owns(e) /\ phase[e] = "IMPLEMENTING"
      BY DEF ImplementerAnswers, EngineInv, Mine, Shaped, Owns, InBody, MIDDLE_PHASES
    <2>2. Stays(e, "apply")
      BY <1>1, <1>4, ControlStays DEF Stays, Label
    <2>3. Mine(e)'
      BY <1>1, <1>2, <2>1, <2>2, StaysKeeps
    <2> QED
      BY <1>1, <2>1, <2>3, OursStays, BesideStep DEF Apart, Beside, EngineInv
  <1> QED
    BY <1>3, <1>4 DEF ImplementerAnswers

\* The steps of the owner that change the worktree.
LEMMA TreeKeeps ==
    ASSUME TypeOK, EngineInv, NEW e \in Engines,
           Apply(e) \/ Checkpoint(e) \/ AgentTouches(e)
    PROVE  EngineInv'
PROOF
  <1>1. Apart(e) /\ UNCHANGED <<row, runs, asked, phase, evidence, verdict, approval, seen, pending>>
    BY QuietApart DEF Apply, Checkpoint, AgentTouches, db, memory
  <1>2. Owns(e) /\ phase[e] = "IMPLEMENTING"
    BY DEF Apply, Checkpoint, AgentTouches, EngineInv, Mine, Shaped, Owns, InBody, MIDDLE_PHASES
  <1>3. Ours'
    BY <1>1, <1>2, OwnersWork DEF EngineInv, Ours, AskedOnce
  <1>4. Beside(e)
    BY <1>1, <1>2 DEF Apart, Beside
  <1>5. CASE Halt(e) \/ Fail(e)
    <2>1. Leaves(e)
      BY <1>1, <1>5, ControlStays DEF Leaves, Halt
    <2> QED
      BY <1>3, <1>4, <2>1, LeavingStep
  <1>6. CASE Apply(e) /\ Goto(e, "checkpoint")
    <2>1. Stays(e, "checkpoint")
      BY <1>1, <1>6, ControlStays DEF Apply, memory, Stays, Label
    <2>2. <<"implementer", "completed">> \in pending'[e]
      BY <1>1, <1>6 DEF Apply, EngineInv, Mine, Recorded
    <2>3. Mine(e)'
      BY <1>1, <1>2, <2>1, <2>2, StaysKeeps
    <2> QED
      BY <1>2, <1>3, <1>4, <2>3, BesideStep
  <1>7. CASE Checkpoint(e) /\ Advance(e, "DELTA_CAPTURED") /\ tree' = "committed"
    <2>1. Prepares(e, "DELTA_CAPTURED")
      BY <1>1, <1>7, ControlStays, PhaseNames DEF Prepares
    <2>2. <<"implementer", "completed">> \in pending'[e]
      BY <1>1, <1>7 DEF Checkpoint, EngineInv, Mine, Recorded
    <2>3. Mine(e)' /\ (Owns(e)' => Owns(e))
      BY <1>1, <1>2, <1>7, <2>1, <2>2, PreparesKeeps DEF BodyPath
    <2> QED
      BY <1>3, <1>4, <2>3, BesideStep
  <1>8. CASE AgentTouches(e)
    <2>1. /\ pc[e] = "implementer" /\ UNCHANGED <<pc, move, delta>>
      BY <1>8 DEF AgentTouches, memory
    <2>2. Stays(e, "implementer")
      BY <1>1, <2>1 DEF Stays
    <2>3. Mine(e)'
      BY <1>1, <1>2, <2>2, StaysKeeps
    <2> QED
      BY <1>2, <1>3, <1>4, <2>3, BesideStep
  <1> QED
    BY <1>5, <1>6, <1>7, <1>8 DEF Apply, Checkpoint

LEMMA EvidenceKeeps ==
    ASSUME TypeOK, EngineInv, NEW e \in Engines, ProduceEvidence(e) \/ EvidenceAdvance(e)
    PROVE  EngineInv'
PROOF
  <1>1. Apart(e) /\ UNCHANGED <<row, runs, asked, tree, phase, verdict, delta, approval, seen, pending>>
    BY QuietApart DEF ProduceEvidence, EvidenceAdvance, db, memory, world
  <1>2. CASE Halt(e) \/ Fail(e)
    BY <1>1, <1>2, HaltingKeeps
  <1>3. ASSUME NEW to \in {"EVIDENCE_RUNNING", "REVIEWING"}, Advance(e, to),
               <<phase[e], to>> \in BodyPath, pc[e] = "loop"
        PROVE  EngineInv'
    <2>1. Prepares(e, to)
      BY <1>1, <1>3, ControlStays, PhaseNames DEF Prepares
    <2>2. Owns(e)
      BY <1>3 DEF Owns, InBody, BodyPath, MIDDLE_PHASES
    <2>3. Mine(e)' /\ (Owns(e)' => Owns(e))
      BY <1>1, <1>3, <2>1, <2>2, PreparesKeeps
    <2> QED
      BY <1>1, <2>3, OursStays, BesideStep DEF Apart, Beside, EngineInv
  <1> QED
    BY <1>2, <1>3 DEF ProduceEvidence, EvidenceAdvance, At, BodyPath

LEMMA OpenReviewKeeps ==
    ASSUME TypeOK, EngineInv, NEW e \in Engines, OpenReview(e)
    PROVE  EngineInv'
PROOF
  <1>1. Apart(e) /\ UNCHANGED <<row, runs, tree, phase, evidence, verdict, delta, approval, seen>>
    BY QuietApart DEF OpenReview, db, memory, world
  <1>2. CASE (Halt(e) \/ Fail(e)) /\ UNCHANGED asked
    BY <1>1, <1>2, HaltingKeeps
  <1>3. CASE e \in delta /\ Ask(e, "reviewer")
    <2>1. Owns(e) /\ phase[e] = "REVIEWING" /\ pc[e] = "loop"
      BY DEF OpenReview, At, Owns, InBody, MIDDLE_PHASES
    <2>2. /\ asked'["reviewer"] = asked["reviewer"] + 1
          /\ asked'["implementer"] = asked["implementer"]
      BY <1>3 DEF Ask, TypeOK, Roles
    <2>3. asked["reviewer"] = 0 /\ asked["implementer"] <= 1
      BY <2>1 DEF EngineInv, Mine, Unasked, Ours, AskedOnce, Roles
    <2>4. AskedOnce'
      BY <2>2, <2>3 DEF AskedOnce, Roles
    <2>5. Ours'
      <3>1. row.phase \in {"REVIEWING", "CANCELLED", "SAFE_HALT"}
        BY <2>1, OwnersRow
      <3> QED
        BY <1>1, <2>2, <2>4, <3>1 DEF EngineInv, Ours, EditsAreApproved, PhaseIsBacked, Early,
           MIDDLE_PHASES, FINAL_PHASES, TERMINAL_TASK_PHASES
    <2>6. Stays(e, "reviewer")
      BY <1>1, <1>3, ControlStays DEF Ask, Stays, Label, Roles
    <2>7. Mine(e)'
      BY <1>3, <2>1, <2>6, StaysKeeps
    <2> QED
      BY <1>1, <2>1, <2>5, <2>7, BesideStep DEF Apart, Beside
  <1> QED
    BY <1>2, <1>3 DEF OpenReview

LEMMA ReviewerKeeps ==
    ASSUME TypeOK, EngineInv, NEW e \in Engines, ReviewerAnswers(e)
    PROVE  EngineInv'
PROOF
  <1>1. Apart(e) /\ UNCHANGED <<row, runs, tree, asked, phase, delta, approval, seen>>
    BY WritersApart DEF Answers, ReviewerAnswers, Records, world
  <1>2. CASE Halt(e)
    BY <1>1, <1>2, HaltingKeeps
  <1>3. CASE Advance(e, "POLICY_EVALUATING")
    <2>1. Owns(e) /\ phase[e] = "REVIEWING" /\ e \in delta
      BY DEF ReviewerAnswers, EngineInv, Mine, Shaped, Earned, Owns, InBody, MIDDLE_PHASES
    <2>2. pending'[e] = {<<"reviewer", "completed">>}
      BY DEF ReviewerAnswers, Records, TypeOK
    <2>3. Prepares(e, "POLICY_EVALUATING")
      BY <1>1, <1>3, ControlStays, PhaseNames DEF Prepares
    <2>4. Mine(e)' /\ (Owns(e)' => Owns(e))
      BY <1>1, <2>1, <2>2, <2>3, PreparesKeeps DEF BodyPath
    <2> QED
      BY <1>1, <2>4, OursStays, BesideStep DEF Apart, Beside, EngineInv
  <1> QED
    BY <1>2, <1>3 DEF ReviewerAnswers

LEMMA PolicyKeeps ==
    ASSUME TypeOK, EngineInv, NEW e \in Engines, Policy(e)
    PROVE  EngineInv'
PROOF
  <1>1. /\ Apart(e)
        /\ UNCHANGED <<row, runs, tree, asked, phase, evidence, verdict, delta, approval, seen, pending>>
    BY QuietApart DEF Policy, db, memory, world
  <1>2. CASE Halt(e) \/ Fail(e)
    BY <1>1, <1>2, HaltingKeeps
  <1>3. pc[e] = "loop" /\ phase[e] = "POLICY_EVALUATING" /\ Owns(e) /\ e \in delta
    BY DEF Policy, At, Owns, InBody, EngineInv, Mine, Earned, MIDDLE_PHASES
  <1>4. CASE PolicyResult(e) = "PASS" /\ Advance(e, "CHECKPOINT_READY")
    <2>1. evidence[e] = "PASS" /\ verdict[e] = "PASS"
      BY <1>4 DEF PolicyResult
    <2>2. Prepares(e, "CHECKPOINT_READY")
      BY <1>1, <1>4, ControlStays, PhaseNames DEF Prepares
    <2>3. Mine(e)' /\ (Owns(e)' => Owns(e))
      BY <1>1, <1>3, <2>1, <2>2, PreparesKeeps DEF BodyPath
    <2> QED
      BY <1>1, <2>3, OursStays, BesideStep DEF Apart, Beside, EngineInv
  <1>5. CASE Stop(e, "FAILED")
    <2>1. /\ pc'[e] = "read" /\ move'[e].to = "FAILED" /\ move'[e].ctx = "stop"
      BY <1>5, ControlStays
    <2>2. SeenIsPast(e)'
      BY <1>1, <2>1, SeenStays
    <2>3. Mine(e)'
      <3>1. row.phase \in {"POLICY_EVALUATING", "CANCELLED", "SAFE_HALT"} /\ approval.covers
        BY <1>3, OwnersRow
      <3> QED
        BY <1>1, <1>3, <2>1, <2>2, <3>1
           DEF Mine, Shaped, MovesIn, Follows, Unasked, Authorized, Earned, Recorded, Finished
    <2> QED
      BY <1>1, <1>3, <2>3, OursStays, BesideStep DEF Apart, Beside, EngineInv
  <1> QED
    BY <1>2, <1>4, <1>5 DEF Policy

-------------------------------------------------------------------------------
(* The theorems                                                            *)

LEMMA EngineInvariant == Spec => [](TypeOK /\ EngineInv)
PROOF
  <1>1. Init => EngineInv
    <2> SUFFICES ASSUME Init PROVE EngineInv
      OBVIOUS
    <2>1. /\ row.phase \in {"AWAITING_PLAN_APPROVAL", "EDIT_AUTHORIZED"}
          /\ row.version = 0 /\ row.version \in Nat
          /\ \A e \in Engines : pc[e] = "off" /\ seen[e] = row
          /\ \A r \in Roles : asked[r] = 0
          /\ tree \in {"absent", "baseline"}
      BY DEF Init
    <2>2. Ours
      BY <2>1 DEF Ours, AskedOnce, EditsAreApproved, PhaseIsBacked, Early, Roles, READY_PHASES
    <2>3. \A e \in Engines : ~ Owns(e) /\ ~ MovesIn(e, {"body"})
                             /\ ~ MovesIn(e, {"stop"}) /\ ~ MovesIn(e, {"fallback"})
      BY <2>1 DEF Owns, InBody, MovesIn
    <2>4. ASSUME NEW e \in Engines PROVE Mine(e)
      <3>1. SeenIsPast(e)
        BY <2>1 DEF SeenIsPast
      <3> QED
        BY <2>1, <2>3, <3>1 DEF Mine, Shaped, Follows, Unasked, Authorized, Earned, Recorded,
           Finished, InBody, MovesIn
    <2> QED
      BY <2>2, <2>3, <2>4 DEF EngineInv, OneOwner
  <1>2. ASSUME TypeOK, EngineInv, [Next]_vars PROVE EngineInv'
    <2>1. CASE \E e \in Engines : Start(e) \/ Crash(e) \/ AgentTouches(e)
      BY <1>2, <2>1, StartKeeps, StopKeeps, TreeKeeps
    <2>2. CASE \E e \in Engines : Answers(e)
      BY <1>2, <2>2, StopKeeps, ImplementerKeeps, ReviewerKeeps DEF Answers
    <2>3. CASE \E e \in Engines : Moves(e)
      BY <1>2, <2>3, FailedMoveKeeps, ReadKeeps, CommitKeeps DEF Moves
    <2>4. CASE \E e \in Engines : Works(e) /\ ~ Moves(e)
      BY <1>2, <2>4, StopKeeps, AuthorizeKeeps, OpenWorktreeKeeps, TreeKeeps, EvidenceKeeps,
         OpenReviewKeeps, PolicyKeeps DEF Works
    <2>5. CASE Cancel \/ OthersWrite \/ Expire \/ UNCHANGED vars
      BY <1>2, <2>5, WorldKeeps
    <2> QED
      BY <1>2, <2>1, <2>2, <2>3, <2>4, <2>5 DEF Next
  <1> QED
    BY <1>1, <1>2, EngineTypes, PTL DEF Spec

\* Nothing else moves the row.
LEMMA OnlyMovesMove ==
    ASSUME TypeOK, [Next]_vars, row' # row
    PROVE  Cancel \/ \E e \in Engines : MoveCommits(e)
PROOF
  <1>1. ~ UNCHANGED vars
    BY DEF vars, db
  <1>2. ASSUME NEW e \in Engines, Start(e) \/ AgentTouches(e) \/ Crash(e) \/ Answers(e)
        PROVE  FALSE
    BY <1>2, QuietApart, WritersApart DEF db
  <1>3. ASSUME NEW e \in Engines, Works(e), ~ Moves(e) PROVE FALSE
    BY <1>3, QuietApart, WritersApart DEF Works, db
  <1>4. ASSUME NEW e \in Engines, Moves(e), ~ MoveCommits(e) PROVE FALSE
    BY <1>4 DEF Moves, MoveReads, MoveRefused, MoveConflicts, MoveBusy, MoveFails,
       Fallback, Escape, HangUp
  <1>5. ~ OthersWrite /\ ~ Expire
    BY DEF OthersWrite, Expire, db
  <1> QED
    BY <1>1, <1>2, <1>3, <1>4, <1>5 DEF Next

\* Every change of the row is one legal move from what it was and counts its
\* version up by one, though an engine decides on a row that it read before, and
\* others move it meanwhile (state.py:61-94, store.py:176-192).
RowMovesLegally ==
    [][row' # row => /\ CanTransition(row.phase, row'.phase)
                     /\ row'.version = row.version + 1]_vars

THEOREM RowsMoveLegally == Spec => RowMovesLegally
PROOF
  <1>1. TypeOK /\ EngineInv /\ [Next]_vars
          => [row' # row => /\ CanTransition(row.phase, row'.phase)
                            /\ row'.version = row.version + 1]_vars
    <2> SUFFICES ASSUME TypeOK, EngineInv, [Next]_vars, row' # row
                 PROVE  CanTransition(row.phase, row'.phase) /\ row'.version = row.version + 1
      OBVIOUS
    <2>1. CASE Cancel
      BY <2>1 DEF Cancel
    <2>2. ASSUME NEW e \in Engines, MoveCommits(e)
          PROVE  CanTransition(row.phase, row'.phase) /\ row'.version = row.version + 1
      BY <2>2, CommitIsLegal DEF MoveCommits
    <2> QED
      BY <2>1, <2>2, OnlyMovesMove
  <1> QED
    BY <1>1, EngineInvariant, PTL DEF Spec, RowMovesLegally

\* However many processes run the task at once, at most one is at work past the
\* approval: the others lose the race for IMPLEMENTING, or stop at a phase they
\* did not bring about (orchestrate.py:30-31, 452-462).
THEOREM OneEngineOwns == Spec => []OneOwner
PROOF
  <1>1. EngineInv => OneOwner
    BY DEF EngineInv
  <1> QED
    BY <1>1, EngineInvariant, PTL

\* However often the engine dies and is started again, and however many run at
\* once, no agent is asked twice (orchestrate.py:30-31).
THEOREM AgentsAreAskedOnce == Spec => []AskedOnce
PROOF
  <1>1. EngineInv => AskedOnce
    BY DEF EngineInv, Ours
  <1> QED
    BY <1>1, EngineInvariant, PTL

\* An approval that does not cover the plan lets no process ask the implementer
\* or change the worktree (orchestrate.py:187-199).
THEOREM EditsStayApproved == Spec => []EditsAreApproved
PROOF
  <1>1. EngineInv => EditsAreApproved
    BY DEF EngineInv, Ours
  <1> QED
    BY <1>1, EngineInvariant, PTL

\* What the row claims of the task is in git and in agent_runs (state.py:275 and
\* store.py: one connection, one commit).
THEOREM PhaseStaysBacked == Spec => []PhaseIsBacked
PROOF
  <1>1. EngineInv => PhaseIsBacked
    BY DEF EngineInv, Ours
  <1> QED
    BY <1>1, EngineInvariant, PTL

\* A process that returns leaves the task ready or terminal (orchestrate.py:441).
THEOREM ReturnsStayFinal == Spec => []ReturnsFinal
PROOF
  <1>1. EngineInv => ReturnsFinal
    BY DEF EngineInv, Mine, Finished, ReturnsFinal
  <1> QED
    BY <1>1, EngineInvariant, PTL

\* Only an engine that holds a delta, evidence the policy passes and a PASS of
\* the reviewer makes a task ready (orchestrate.py:26-27).
THEOREM ReadyStaysEarned == Spec => ReadyIsEarned
PROOF
  <1>1. TypeOK /\ EngineInv /\ [Next]_vars
          => [row'.phase \in READY_PHASES /\ row.phase \notin READY_PHASES
                => SomeoneEarned]_vars
    <2> SUFFICES ASSUME TypeOK, EngineInv, [Next]_vars,
                        row'.phase \in READY_PHASES, row.phase \notin READY_PHASES
                 PROVE  SomeoneEarned
      OBVIOUS
    <2>1. row' # row
      OBVIOUS
    <2>2. ~ Cancel
      BY DEF Cancel, READY_PHASES
    <2>4. PICK e \in Engines : MoveCommits(e)
      BY <2>1, <2>2, OnlyMovesMove
    <2>5. move[e].to \in READY_PHASES
      BY <2>4 DEF MoveCommits
    <2>6. <<phase[e], move[e].to>> \in BodyPath /\ move[e].to = "CHECKPOINT_READY"
          /\ move[e].ctx = "body"
      BY <2>4, <2>5, CommitKinds DEF BodyPath, READY_PHASES
    <2>7. MovesIn(e, {"body"}) /\ InBody(e) /\ phase[e] = "POLICY_EVALUATING"
      BY <2>4, <2>6 DEF MoveCommits, MovesIn, InBody, BodyPath
    <2> QED
      BY <2>6, <2>7 DEF EngineInv, Mine, Earned, SomeoneEarned
  <1> QED
    BY <1>1, EngineInvariant, PTL DEF Spec, ReadyIsEarned
===============================================================================
