---------------------------- MODULE WorkspaceProofs ----------------------------
(***************************************************************************)
(* What module Workspace promises of a worktree, for any set of files,     *)
(* any approval and any number of acts of others.                          *)
(*                                                                         *)
(* The inductive invariant has five parts, one for each stretch of the     *)
(* walk: what the batch being applied is (Applying), what the worktree     *)
(* holds until it is committed (Undisturbed), what the tests ran on        *)
(* (Testing), what the artifact store holds (Storing) and what the         *)
(* operator's archive holds (Archiving).                                   *)
(***************************************************************************)
EXTENDS Workspace, TLAPS

Trees == [Files -> Content]

Labels == BEFORE_PREFLIGHT \cup MUTATING \cup CHECKPOINTING \cup CAPTURING
            \cup Captured \cup {"refused", "halted", "dead"}

OddTags == {"early", "late", "split", "after", "undone", "blind", "torn"}

\* TypeOK, with the types that the steps also rely on.
TypeInv ==
    /\ wt \in {"absent", "bare", "ready", "removed"}
    /\ head \in Trees /\ index \in Trees /\ work \in Trees /\ commits \in Nat
    /\ pc \in Labels
    /\ snap \in Trees
    /\ DOMAIN batch \subseteq Files
    /\ \A f \in DOMAIN batch : batch[f] \in {"new", "none"}
    /\ actual \subseteq Files
    /\ delta \in [ckpt : Trees, tree : Trees]
    /\ strays \in Nat /\ strays <= MaxStrays
    /\ odd \subseteq OddTags
    /\ bound \in Nat
    /\ scratch \in [Outputs -> Origin]
    /\ store \in [Outputs -> [data : Origin, meta : Origin]]
    /\ left \subseteq Checks
    /\ main \in Trees /\ patch \in Trees
    /\ since \in Nat /\ since <= strays
    /\ branch \in BOOLEAN

\* The batch: approved before the first file of it is written, applied when the
\* last one has been.
Applying ==
    /\ todo \cup applied \cup file \subseteq DOMAIN batch \cap Allowed
    /\ pc \in BEFORE_PREFLIGHT \cup {"prepare"} => todo \cup applied \cup file = {}
    /\ pc \in {"apply", "write"} => todo = DOMAIN batch \ applied
    /\ pc = "write" => \E f \in todo : file = {f}
    /\ pc = "enumerate" => applied = DOMAIN batch

\* What git does not look at while it is not part of commit c.
Quiet(c) == {f \in Ignored : c[f] = "none"}

\* The files written so far, on top of the commit; and what the checkpoint makes
\* of them when all are written.
PartlyWritten ==
    \A f \in Files : IF f \in applied THEN work[f] = batch[f]
                     ELSE work[f] = head[f] \/ f \in Quiet(head)

Target == [f \in Files |-> IF f \in DOMAIN batch \ (Ignored \ Tracked)
                          THEN batch[f] ELSE Base[f]]

\* Nobody else from the preflight on; nobody at all.
Alone     == odd \cap {"late", "blind"} = {}
AllAlone  == Alone /\ "early" \notin odd

\* The worktree: clean when the preflight let it pass, then only the batch's
\* doing but for hidden files, of which git says nothing; what the batch has
\* still to write is as the model saw it, hidden or not. A rollback that failed
\* is not continued from.
Undisturbed ==
    /\ "torn" \in odd => pc \in {"rollback", "refused", "dead"}
    /\ Alone /\ "torn" \notin odd /\ pc \in MUTATING \cup {"enumerate"}
         => index = head /\ PartlyWritten
    /\ Alone /\ pc \in {"apply", "write", "rollback"}
         => \A f \in DOMAIN batch : snap[f] = head[f] \/ f \in Quiet(head)
    /\ Alone /\ "torn" \notin odd /\ pc \in {"apply", "write", "rollback"}
         => \A f \in DOMAIN batch \ applied : work[f] = snap[f]
    /\ "early" \notin odd /\ pc \in BEFORE_PREFLIGHT => head = Base
    /\ AllAlone /\ pc \in MUTATING \cup {"enumerate", "add"} => head = Base
    /\ AllAlone /\ pc = "add" => /\ index = head /\ actual = Changes
                                /\ \A f \in Files \ Quiet(Base) : work[f] = Target[f]
    /\ AllAlone /\ pc \in {"compare", "commit"} => index = Target
    /\ AllAlone /\ pc \in {"verify", "capture", "ckpt"} => head = Target
    /\ AllAlone /\ pc \in CAPTURING \cup Captured => delta.ckpt = Target

\* The delta and the tests: the two readings of the checkpoint agree, the
\* branch did not move while the tests ran, and a worktree that was dirty when
\* a command ran is still dirty when it is looked at again.
BEFORE_RUN == BEFORE_PREFLIGHT \cup MUTATING \cup CHECKPOINTING \cup CAPTURING
                \cup {"captured", "bind"}

Testing ==
    /\ pc \in Captured => Differs(Base, delta.ckpt) \subseteq Allowed
    /\ pc \in BEFORE_RUN => tested = {}
    /\ pc = "tree" /\ "split" \notin odd => head = delta.ckpt
    /\ pc \in {"scope"} \cup Captured /\ "split" \notin odd => delta.tree = delta.ckpt
    /\ pc \in {"run", "reclean", "rebind"}
         => bound <= commits /\ (commits = bound => head = delta.tree)
    /\ pc = "reclean" => tested # {}
    /\ pc \in {"run", "reclean"} /\ commits = bound /\ "undone" \notin odd
         => Dirty \/ \A t \in tested : IsCheckout(t, head)
    /\ pc = "rebind" /\ commits = bound /\ "undone" \notin odd
         => tested # {} /\ \A t \in tested : IsCheckout(t, head)
    /\ pc \in TESTED \cup {"promoted"} /\ odd \cap {"split", "undone"} = {}
         => tested # {} /\ \A t \in tested : IsCheckout(t, delta.ckpt)
    /\ pc \in TESTED \ {"merged"} /\ odd \cap {"split", "after"} = {} => head = delta.ckpt
    /\ pc \in {"merged", "promoted"} /\ odd \cap {"split", "after"} = {} => main = delta.ckpt

\* The store: what is no longer left is there, and the command's own.
Own == [data |-> "own", meta |-> "own"]

Storing ==
    /\ SidecarIsTrue
    /\ pc \in {"scratch", "data", "meta", "match"}
         => \A o \in Checks \ left : store[o] = Own
    /\ pc = "match" => store[Turn].meta = store[Turn].data
    /\ BundleIsOwn

\* The operator: at work only when the engine is not; while nobody has acted
\* since, the archive's parts are what git showed.
Archiving ==
    /\ opc # "idle" => pc = "dead"
    /\ opc \in {"copy", "decide", "remove", "branch", "removed"} /\ since = strays
         => patch = IF Garbled(Seen) THEN Base ELSE Seen
    /\ opc \in {"decide", "remove", "branch", "removed"} /\ since = strays
         => copied = CopyUntracked

-------------------------------------------------------------------------------
(* Lemmas about what git reports and about whose turn it is.               *)

LEMMA BaseIsTree == Base \in Trees
  BY DEF Base, Trees, Content

LEMMA SeenIsTree == TypeInv => Seen \in Trees
  BY DEF TypeInv, Seen, Trees, Content

\* Nothing dirty: the index is the commit, and the files are a checkout of it.
LEMMA CleanIsCommitted == TypeInv /\ ~ Dirty => IsCheckout(work, head) /\ index = head
<1> SUFFICES ASSUME TypeInv, ~ Dirty PROVE IsCheckout(work, head) /\ index = head
  OBVIOUS
<1>1. \A f \in Files : /\ Seen[f] = index[f] /\ index[f] = head[f]
                       /\ ~ (f \notin Ignored /\ index[f] = "none" /\ work[f] # "none")
  BY DEF Dirty, Differs, Untracked
<1>2. \A f \in Files : work[f] = head[f] \/ f \in Quiet(head)
  BY <1>1 DEF Seen, Quiet
<1>3. IsCheckout(work, head)
  BY <1>2 DEF IsCheckout, Differs, Quiet
<1> QED
  BY <1>1, <1>3 DEF TypeInv, Trees

\* An output's turn comes while it is left; the record's, when none is.
LEMMA TurnIsNext ==
    ASSUME left \subseteq Checks
    PROVE  /\ Turn \in Outputs
           /\ left # {} => Turn \in left
           /\ left = {} => Turn \notin Checks
<1>1. left # {} => Turn \in left
  BY DEF Turn
<1> QED
  BY <1>1, ChecksAssumption DEF Turn, Outputs

-------------------------------------------------------------------------------
(* Types                                                                   *)

LEMMA TypeInit == Init => TypeInv
  BY BaseIsTree, StraysAssumption
     DEF Init, WtInit, EvInit, TypeInv, NoDelta, Labels, BEFORE_PREFLIGHT, OddTags, Origin

\* The steps of the engine before the delta is captured.
LEMMA TypeImplement == TypeInv /\ Applying /\ Implement /\ UNCHANGED <<evVars, main, opVars>>
                         => TypeInv'
<1> SUFFICES ASSUME TypeInv, Applying, Implement, UNCHANGED <<evVars, main, opVars>>
             PROVE  TypeInv'
  OBVIOUS
<1> USE DEF TypeInv, Labels, BEFORE_PREFLIGHT, MUTATING, CHECKPOINTING, CAPTURING, Captured,
            TESTED, Goto, repo, applying, history, evVars, opVars
<1>1. CASE Reuse \/ AddWorktree \/ WriteManifest \/ SnapshotFiles
  BY <1>1 DEF Reuse, AddWorktree, WriteManifest, SnapshotFiles
<1>2. CASE Answer
  <2>1. DOMAIN batch' \subseteq Files /\ \A f \in DOMAIN batch' : batch'[f] \in {"new", "none"}
    BY <1>2 DEF Answer, Batches
  <2> QED
    BY <1>2, <2>1 DEF Answer
<1>3. CASE Preflight
  BY <1>3 DEF Preflight, OddTags
<1>4. CASE Prepare \/ Recheck \/ Compare \/ Verify \/ Capture \/ Scope \/ Fails
  BY <1>4 DEF Prepare, Recheck, Compare, Verify, Capture, Scope, Fails
<1>5. CASE ApplyFile
  <2>1. work' \in Trees
    BY <1>5 DEF ApplyFile, Applying, Trees, Content
  <2> QED
    BY <1>5, <2>1 DEF ApplyFile
<1>6. CASE Rollback
  <2>1. work' \in Trees
    BY <1>6 DEF Rollback, Restored, Applying, Trees
  <2> QED
    BY <1>6, <2>1 DEF Rollback, OddTags
<1>7. CASE Enumerate
  BY <1>7 DEF Enumerate, Changes, Differs, Untracked
<1>8. CASE Add
  <2>1. index' \in Trees
    BY <1>8 DEF Add, Trees
  <2> QED
    BY <1>8, <2>1 DEF Add
<1>9. CASE Commit
  BY <1>9 DEF Commit
<1>10. CASE ReadCommit \/ ReadTree
  BY <1>10 DEF ReadCommit, ReadTree
<1> QED
  BY <1>1, <1>2, <1>3, <1>4, <1>5, <1>6, <1>7, <1>8, <1>9, <1>10 DEF Implement

\* The steps of the engine after it.
LEMMA TypeEvidence == TypeInv /\ ProduceEvidence /\ UNCHANGED <<main, opVars>> => TypeInv'
<1> SUFFICES ASSUME TypeInv, ProduceEvidence, UNCHANGED <<main, opVars>> PROVE TypeInv'
  OBVIOUS
<1> USE DEF TypeInv, Labels, Captured, TESTED, Goto, repo, applying, history, evVars, opVars, Keep
<1>1. CASE CheckClean \/ RunCommand \/ Review \/ TestingFails
  BY <1>1 DEF CheckClean, RunCommand, Review, TestingFails
<1>2. CASE Bind \/ Rebind \/ Match
  BY <1>2 DEF Bind, Rebind, Match
<1>3. Turn \in Outputs
  BY TurnIsNext
<1>4. CASE WriteScratch
  BY <1>3, <1>4 DEF WriteScratch, Origin
<1>5. CASE IngestData \/ IngestMeta
  <2>1. store' \in [Outputs -> [data : Origin, meta : Origin]]
    BY <1>3, <1>5 DEF IngestData, IngestMeta, Origin
  <2> QED
    BY <1>5, <2>1 DEF IngestData, IngestMeta
<1> QED
  BY <1>1, <1>2, <1>4, <1>5 DEF ProduceEvidence

\* The steps of others, of the pilot and of the operator, and the exit.
LEMMA TypeOthers ==
    /\ TypeInv /\ (\E act \in StrayActs : Stray(act)) /\ UNCHANGED <<evVars, main, opVars>>
         => TypeInv'
    /\ TypeInv /\ (\E o \in Outputs : OtherTask(o)) /\ UNCHANGED <<main, opVars>> => TypeInv'
    /\ TypeInv /\ (PromoteMerge \/ PromoteRemove) => TypeInv'
    /\ TypeInv /\ Operator => TypeInv'
    /\ TypeInv /\ Exit => TypeInv'
<1> USE DEF TypeInv, Labels, TESTED, Captured, Goto, repo, applying, engine, history, wtVars,
            evVars, opVars
<1>1. ASSUME TypeInv, NEW act \in StrayActs, Stray(act), UNCHANGED <<evVars, main, opVars>>
      PROVE  TypeInv'
  <2>1. head' \in Trees /\ index' \in Trees /\ work' \in Trees /\ commits' \in Nat
    BY <1>1 DEF Stray, Trees, Content
  <2>2. odd' \subseteq OddTags
    BY <1>1 DEF Stray, OddTags, Forgiven
  <2>3. strays' \in Nat /\ strays' <= MaxStrays /\ since <= strays'
    BY <1>1, StraysAssumption DEF Stray
  <2> QED
    BY <1>1, <2>1, <2>2, <2>3 DEF Stray
<1>2. ASSUME TypeInv, NEW o \in Outputs, OtherTask(o), UNCHANGED <<main, opVars>>
      PROVE  TypeInv'
  BY <1>2 DEF OtherTask, Origin
<1>3. ASSUME TypeInv, PromoteMerge \/ PromoteRemove PROVE TypeInv'
  BY <1>3 DEF PromoteMerge, PromoteRemove, Keep
<1>4. ASSUME TypeInv, Operator PROVE TypeInv'
  <2>1. patch' \in Trees
    BY <1>4, SeenIsTree, BaseIsTree
       DEF Operator, RemoveAsked, ArchivePatch, ArchiveUntracked, Decide, Remove, DeleteBranch,
           KeepAll
  <2>2. since' \in Nat /\ since' <= strays'
    BY <1>4 DEF Operator, RemoveAsked, ArchivePatch, ArchiveUntracked, Decide, Remove,
                DeleteBranch, KeepAll
  <2> QED
    BY <1>4, <2>1, <2>2
       DEF Operator, RemoveAsked, ArchivePatch, ArchiveUntracked, Decide, Remove, DeleteBranch,
           KeepAll
<1>5. ASSUME TypeInv, Exit PROVE TypeInv'
  BY <1>5, BaseIsTree DEF Exit, NoDelta, Origin
<1> QED
  BY <1>1, <1>2, <1>3, <1>4, <1>5

LEMMA TypeStep == TypeInv /\ Applying /\ [Next]_vars => TypeInv'
<1>1. TypeInv /\ UNCHANGED vars => TypeInv'
  BY DEF TypeInv, vars, wtVars, evVars, opVars, repo, engine, applying, history
<1> QED
  BY <1>1, TypeImplement, TypeEvidence, TypeOthers DEF Next

-------------------------------------------------------------------------------
(* The batch                                                               *)

LEMMA ApplyingInit == Init => Applying
  BY DEF Init, WtInit, Applying, BEFORE_PREFLIGHT

\* Only _implement and the exit change what the batch is or how far it is.
LEMMA ApplyingFrame ==
    /\ Applying /\ UNCHANGED engine => Applying'
    /\ /\ Applying /\ UNCHANGED <<batch, applying>>
       /\ pc' \notin BEFORE_PREFLIGHT \cup MUTATING \cup {"enumerate"}
       => Applying'
  BY DEF Applying, engine, applying, MUTATING

LEMMA ApplyingStep == TypeInv /\ Applying /\ [Next]_vars => Applying'
<1> SUFFICES ASSUME TypeInv, Applying, [Next]_vars PROVE Applying'
  OBVIOUS
<1> USE DEF Goto, applying
<1>1. CASE Reuse \/ AddWorktree \/ WriteManifest \/ SnapshotFiles \/ Answer \/ Preflight
  BY <1>1 DEF Reuse, AddWorktree, WriteManifest, SnapshotFiles, Answer, Preflight, Applying,
              BEFORE_PREFLIGHT
<1>2. CASE Prepare
  BY <1>2 DEF Prepare, Applying, BEFORE_PREFLIGHT
<1>3. CASE Recheck
  BY <1>3 DEF Recheck, Applying, BEFORE_PREFLIGHT
<1>4. CASE ApplyFile
  BY <1>4 DEF ApplyFile, Applying, BEFORE_PREFLIGHT
<1>5. CASE Rollback
  BY <1>5 DEF Rollback, Applying, BEFORE_PREFLIGHT
<1>6. CASE Enumerate \/ Add \/ Compare \/ Commit \/ Verify \/ Capture
           \/ ReadCommit \/ ReadTree \/ Scope \/ Fails
  BY <1>6, ApplyingFrame
     DEF Enumerate, Add, Compare, Commit, Verify, Capture, ReadCommit, ReadTree, Scope, Fails,
         BEFORE_PREFLIGHT, MUTATING
<1>7. CASE ProduceEvidence \/ PromoteMerge \/ PromoteRemove
  BY <1>7, ApplyingFrame
     DEF ProduceEvidence, CheckClean, Bind, RunCommand, Rebind, WriteScratch, IngestData,
         IngestMeta, Match, Review, TestingFails, PromoteMerge, PromoteRemove, Keep,
         BEFORE_PREFLIGHT, MUTATING
<1>8. ASSUME NEW act \in StrayActs, Stray(act) PROVE Applying'
  BY <1>8, ApplyingFrame DEF Stray
<1>9. ASSUME NEW o \in Outputs, OtherTask(o) PROVE Applying'
  BY <1>9, ApplyingFrame DEF OtherTask, wtVars
<1>10. CASE Operator
  BY <1>10, ApplyingFrame
     DEF Operator, RemoveAsked, ArchivePatch, ArchiveUntracked, Decide, Remove, DeleteBranch,
         KeepAll
<1>11. CASE Exit
  BY <1>11 DEF Exit, Applying, BEFORE_PREFLIGHT
<1>12. CASE UNCHANGED vars
  BY <1>12, ApplyingFrame DEF vars, wtVars
<1> QED
  BY <1>1, <1>2, <1>3, <1>4, <1>5, <1>6, <1>7, <1>8, <1>9, <1>10, <1>11, <1>12
     DEF Next, Implement

-------------------------------------------------------------------------------
(* What others do is remembered.                                           *)

LEMMA StrayIsRemembered ==
    ASSUME NEW act \in StrayActs, Stray(act)
    PROVE  /\ odd \subseteq odd' /\ ("torn" \in odd' => "torn" \in odd)
           /\ pc \in MUTATING \cup CHECKPOINTING => "late" \in odd'
           /\ pc \in BEFORE_PREFLIGHT /\ head' # head => "early" \in odd'
           /\ pc = "tree" /\ head' # head => "split" \in odd'
           /\ pc \in TESTED /\ head' # head => "after" \in odd'
           /\ Dirty /\ ~ Dirty' /\ head' = head => "undone" \in odd'
           /\ IF head' = head THEN commits' = commits ELSE commits' = commits + 1
<1> USE DEF Stray, MUTATING, CHECKPOINTING, BEFORE_PREFLIGHT, TESTED
<1>1. odd \subseteq odd' /\ Forgiven(act) \subseteq odd'
  OBVIOUS
<1>2. "torn" \in odd' => "torn" \in odd
  BY DEF Forgiven
<1>3. /\ IF head' = head THEN commits' = commits ELSE commits' = commits + 1
      /\ head' # head => act = "commit"
  OBVIOUS
<1>4. pc \in MUTATING \cup CHECKPOINTING => "late" \in Forgiven(act)
  BY DEF Forgiven
<1>5. act = "commit" => /\ pc \in BEFORE_PREFLIGHT => "early" \in Forgiven(act)
                        /\ pc = "tree" => "split" \in Forgiven(act)
                        /\ pc \in TESTED => "after" \in Forgiven(act)
  BY DEF Forgiven
<1> QED
  BY <1>1, <1>2, <1>3, <1>4, <1>5

-------------------------------------------------------------------------------
(* The worktree until it is committed                                      *)

LEMMA UndisturbedInit == Init => Undisturbed
  BY DEF Init, WtInit, Undisturbed, BEFORE_PREFLIGHT, MUTATING, CAPTURING, Captured, TESTED

LEMMA UndisturbedFrame ==
    /\ Undisturbed /\ UNCHANGED <<head, index, work, engine, odd>> => Undisturbed'
    /\ /\ Undisturbed /\ UNCHANGED <<batch, delta, odd>>
       /\ pc \in CAPTURING \cup Captured /\ pc' \in CAPTURING \cup Captured \cup {"halted", "dead"}
       => Undisturbed'
<1>1. ASSUME Undisturbed, UNCHANGED <<head, index, work, engine, odd>> PROVE Undisturbed'
  <2>1. Target' = Target /\ Changes' = Changes /\ AllAlone' = AllAlone /\ Alone' = Alone
        /\ Quiet(head)' = Quiet(head) /\ Quiet(Base)' = Quiet(Base)
    BY <1>1 DEF repo, engine, applying, Target, Changes, Differs, Untracked, Seen,
                AllAlone, Alone, Quiet, Base
  <2> QED
    BY <1>1, <2>1 DEF Undisturbed, PartlyWritten, repo, engine, applying
<1>2. ASSUME Undisturbed, UNCHANGED <<batch, delta, odd>>, pc \in CAPTURING \cup Captured,
             pc' \in CAPTURING \cup Captured \cup {"halted", "dead"}
      PROVE  Undisturbed'
  <2>1. Target' = Target /\ AllAlone' = AllAlone
    BY <1>2 DEF Target, AllAlone, Alone
  <2> QED
    BY <1>2, <2>1 DEF Undisturbed, MUTATING, BEFORE_PREFLIGHT, CAPTURING, Captured, TESTED
<1> QED
  BY <1>1, <1>2

\* Up to the first write: the preflight passes a clean worktree, and the batch's
\* preimages are compared with it.
LEMMA UndisturbedBefore ==
    /\ TypeInv /\ Applying /\ Undisturbed
    /\ Reuse \/ AddWorktree \/ WriteManifest \/ SnapshotFiles \/ Answer \/ Preflight
       \/ Prepare \/ Recheck
    => Undisturbed'
<1> SUFFICES ASSUME TypeInv, Applying, Undisturbed,
                    \/ Reuse \/ AddWorktree \/ WriteManifest \/ SnapshotFiles \/ Answer
                    \/ Preflight \/ Prepare \/ Recheck
             PROVE  Undisturbed'
  OBVIOUS
<1> USE DEF Goto, repo, applying, history, Alone, AllAlone, BEFORE_PREFLIGHT, MUTATING,
            CAPTURING, Captured, TESTED
<1>1. CASE Reuse \/ AddWorktree \/ WriteManifest \/ SnapshotFiles \/ Answer
  BY <1>1 DEF Undisturbed, Reuse, AddWorktree, WriteManifest, SnapshotFiles, Answer
<1>2. CASE Preflight
  <2>1. PICK blind \in Blindness : /\ Goto(IF Clean(blind) THEN "prepare" ELSE "halted")
                                   /\ odd' = IF Clean(blind) /\ Dirty THEN odd \cup {"blind"}
                                             ELSE odd
    BY <1>2 DEF Preflight
  <2>2. applied = {} /\ UNCHANGED <<head, index, work, applied, batch>> /\ pc = "preflight"
    BY <1>2 DEF Preflight, Applying
  <2>3. pc' = "prepare" /\ Alone' => index = head /\ PartlyWritten
    BY <2>1, <2>2, CleanIsCommitted DEF PartlyWritten, IsCheckout, Differs, Quiet
  <2>4. PartlyWritten' <=> PartlyWritten
    BY <2>2 DEF PartlyWritten, Quiet
  <2>5. "torn" \notin odd'
    BY <2>1, <2>2 DEF Undisturbed
  <2> QED
    BY <2>1, <2>2, <2>3, <2>4, <2>5 DEF Undisturbed
<1>3. CASE Prepare
  <2>1. UNCHANGED <<head, index, work, snap, batch, applied, odd>> /\ pc = "prepare"
        /\ applied = {}
    BY <1>3 DEF Prepare, Applying
  <2>2. pc' \in {"apply", "refused"}
        /\ (pc' = "apply" => \A f \in DOMAIN batch : work[f] = snap[f])
    BY <1>3 DEF Prepare
  <2>3. Alone /\ "torn" \notin odd => PartlyWritten
    BY <2>1 DEF Undisturbed
  <2>4. Alone /\ pc' = "apply"
          => \A f \in DOMAIN batch : snap[f] = head[f] \/ f \in Quiet(head)
    BY <2>1, <2>2, <2>3 DEF Undisturbed, PartlyWritten, TypeInv
  <2>5. PartlyWritten' <=> PartlyWritten
    BY <2>1 DEF PartlyWritten, Quiet
  <2> QED
    BY <2>1, <2>2, <2>4, <2>5 DEF Undisturbed, Quiet
<1>4. CASE Recheck
  <2>1. UNCHANGED <<head, index, work, snap, batch, applied, odd>> /\ pc = "apply"
        /\ pc' \in {"write", "rollback"}
    BY <1>4 DEF Recheck
  <2>2. PartlyWritten' <=> PartlyWritten
    BY <2>1 DEF PartlyWritten, Quiet
  <2> QED
    BY <2>1, <2>2 DEF Undisturbed, Quiet
<1> QED
  BY <1>1, <1>2, <1>3, <1>4

\* Each write and each restored file keeps the worktree partly written.
LEMMA UndisturbedWhile ==
    TypeInv /\ Applying /\ Undisturbed /\ (ApplyFile \/ Rollback) => Undisturbed'
<1> SUFFICES ASSUME TypeInv, Applying, Undisturbed, ApplyFile \/ Rollback PROVE Undisturbed'
  OBVIOUS
<1> USE DEF Goto, Alone, AllAlone, BEFORE_PREFLIGHT, MUTATING, CAPTURING, Captured, TESTED
<1>1. UNCHANGED <<head, index, snap, batch>>
  BY DEF ApplyFile, Rollback
<1>2. CASE ApplyFile
  <2>1. pc = "write" /\ pc' \in {"enumerate", "apply", "rollback"} /\ UNCHANGED odd
    BY <1>2 DEF ApplyFile, history
  <2>2. "torn" \notin odd
    BY <2>1 DEF Undisturbed
  <2>3. ASSUME Alone
        PROVE  PartlyWritten' /\ \A f \in DOMAIN batch \ applied' : work'[f] = snap[f]
    <3>1. PartlyWritten /\ \A f \in DOMAIN batch \ applied : work[f] = snap[f]
      BY <2>1, <2>2, <2>3 DEF Undisturbed, MUTATING
    <3>2. CASE UNCHANGED <<work, applied>>
      BY <1>1, <3>1, <3>2 DEF PartlyWritten, Quiet
    <3>3. ASSUME NEW f \in file, work' = [work EXCEPT ![f] = batch[f]],
                 applied' = applied \cup {f}
          PROVE  PartlyWritten' /\ \A g \in DOMAIN batch \ applied' : work'[g] = snap[g]
      <4>1. /\ f \in Files /\ work'[f] = batch[f]
            /\ \A g \in Files \ {f} : work'[g] = work[g]
        BY <3>3 DEF TypeInv, Trees, Applying
      <4> QED
        BY <1>1, <3>1, <3>3, <4>1 DEF PartlyWritten, Quiet, TypeInv
    <3> QED
      BY <1>2, <3>2, <3>3 DEF ApplyFile
  <2> QED
    BY <1>1, <2>1, <2>2, <2>3 DEF Undisturbed, Quiet
<1>3. CASE Rollback
  <2>1. pc = "rollback" /\ pc' \in {"rollback", "refused"} /\ odd \subseteq odd'
        /\ odd' \subseteq odd \cup {"torn"}
    BY <1>3 DEF Rollback
  <2>2. ASSUME Alone, "torn" \notin odd', pc' = "rollback"
        PROVE  PartlyWritten' /\ \A f \in DOMAIN batch \ applied' : work'[f] = snap[f]
    <3>1. /\ PartlyWritten
          /\ \A f \in DOMAIN batch : snap[f] = head[f] \/ f \in Quiet(head)
          /\ \A f \in DOMAIN batch \ applied : work[f] = snap[f]
      BY <2>1, <2>2 DEF Undisturbed
    <3>2. PICK f \in applied : work' = [work EXCEPT ![f] = Restored(f)]
                               /\ applied' = applied \ {f}
      BY <1>3, <2>1, <2>2 DEF Rollback
    <3>3. /\ f \in Files /\ f \in DOMAIN batch /\ work'[f] = snap[f]
          /\ \A g \in Files \ {f} : work'[g] = work[g]
      BY <3>2 DEF Applying, Restored, TypeInv, Trees
    <3> QED
      BY <1>1, <3>1, <3>2, <3>3 DEF PartlyWritten, Quiet, TypeInv
  <2>3. ASSUME AllAlone PROVE head = Base
    BY <2>1, <2>3 DEF Undisturbed
  <2>4. Alone /\ "torn" \notin odd' /\ pc' = "rollback"
          => /\ index = head /\ PartlyWritten'
             /\ \A f \in DOMAIN batch \ applied' : work'[f] = snap[f]
    BY <2>1, <2>2 DEF Undisturbed
  <2>5. Alone => \A f \in DOMAIN batch : snap[f] = head[f] \/ f \in Quiet(head)
    BY <2>1 DEF Undisturbed
  <2>6. Alone' => Alone
    BY <2>1
  <2> QED
    BY <1>1, <2>1, <2>3, <2>4, <2>5, <2>6 DEF Undisturbed, Quiet
<1> QED
  BY <1>2, <1>3

\* The checkpoint commits what was enumerated, which is the batch.
LEMMA UndisturbedCheckpoint ==
    /\ TypeInv /\ Applying /\ Undisturbed
    /\ Enumerate \/ Add \/ Compare \/ Commit \/ Verify \/ Capture
       \/ ReadCommit \/ ReadTree \/ Scope \/ Fails
    => Undisturbed'
<1> SUFFICES ASSUME TypeInv, Applying, Undisturbed,
                    \/ Enumerate \/ Add \/ Compare \/ Commit \/ Verify \/ Capture
                    \/ ReadCommit \/ ReadTree \/ Scope \/ Fails
             PROVE  Undisturbed'
  OBVIOUS
<1> USE DEF Goto, repo, applying, history, BEFORE_PREFLIGHT, MUTATING, CHECKPOINTING,
            CAPTURING, Captured, TESTED
<1>1. UNCHANGED <<work, snap, batch, applied, odd>>
  BY DEF Enumerate, Add, Compare, Commit, Verify, Capture, ReadCommit, ReadTree, Scope, Fails
<1>2. UNCHANGED <<Target, Alone, AllAlone>>
  BY <1>1 DEF Target, Alone, AllAlone
<1>3. "torn" \notin odd
  BY DEF Undisturbed, Enumerate, Add, Compare, Commit, Verify, Capture, ReadCommit, ReadTree,
         Scope, Fails
<1>4. CASE Enumerate
  <2>1. pc = "enumerate" /\ pc' \in {"add", "halted"} /\ actual' = Changes
        /\ UNCHANGED <<head, index, Changes>>
    BY <1>4 DEF Enumerate, Changes, Differs, Untracked, Seen
  <2>2. ASSUME AllAlone
        PROVE  /\ head = Base /\ index = head
               /\ \A f \in Files \ Quiet(Base) : work[f] = Target[f]
    <3>1. head = Base /\ index = head /\ PartlyWritten /\ applied = DOMAIN batch
      BY <1>3, <2>1, <2>2 DEF AllAlone, Undisturbed, Applying
    <3>2. Ignored \ Tracked = Quiet(Base)
      BY FilesAssumption DEF Quiet, Base
    <3> QED
      BY <3>1, <3>2 DEF PartlyWritten, Target
  <2>3. Quiet(Base)' = Quiet(Base)
    BY DEF Quiet, Base
  <2> QED
    BY <1>1, <1>2, <1>3, <2>1, <2>2, <2>3 DEF Undisturbed
<1>5. CASE Add
  <2>1. pc = "add" /\ pc' \in {"compare", "halted"}
    BY <1>5 DEF Add
  <2>2. ASSUME AllAlone, pc' = "compare" PROVE index' = Target
    <3>1. /\ head = Base /\ index = head /\ actual = Changes
          /\ \A f \in Files \ Quiet(Base) : work[f] = Target[f]
      BY <2>1, <2>2 DEF Undisturbed
    <3>2. Changes \cap Quiet(Base) = {} /\ Changes \subseteq Files
      BY <3>1 DEF Changes, Differs, Untracked, Seen, Quiet
    <3>3. index' = [f \in Files |-> IF f \in actual THEN work[f] ELSE index[f]]
      BY <1>5, <2>2, <3>1 DEF Add, Hidden
    <3>4. \A f \in Files \ (actual \cup Quiet(Base)) : work[f] = index[f]
      BY <3>1 DEF Changes, Differs, Untracked, Seen, Quiet
    <3>5. \A f \in Quiet(Base) : f \in Files => Base[f] = Target[f]
      BY DEF Quiet, Target, Base
    <3>6. \A f \in Files : index'[f] = Target[f]
      BY <3>1, <3>2, <3>3, <3>4, <3>5
    <3> QED
      BY <3>3, <3>6 DEF Target
  <2> QED
    BY <1>1, <1>2, <1>3, <2>1, <2>2 DEF Undisturbed
<1>6. CASE Compare \/ Commit
  BY <1>1, <1>2, <1>3, <1>6 DEF Undisturbed, Compare, Commit
<1>7. CASE Verify \/ Capture
  BY <1>1, <1>2, <1>3, <1>7 DEF Undisturbed, Verify, Capture
<1>8. CASE ReadCommit \/ ReadTree
  BY <1>1, <1>2, <1>3, <1>8 DEF Undisturbed, ReadCommit, ReadTree, TypeInv
<1>9. CASE Scope \/ Fails
  BY <1>1, <1>2, <1>3, <1>9 DEF Undisturbed, Scope, Fails
<1> QED
  BY <1>4, <1>5, <1>6, <1>7, <1>8, <1>9

LEMMA UndisturbedStep == TypeInv /\ Applying /\ Undisturbed /\ [Next]_vars => Undisturbed'
<1> SUFFICES ASSUME TypeInv, Applying, Undisturbed, [Next]_vars PROVE Undisturbed'
  OBVIOUS
<1> USE DEF Goto
<1>1. CASE Implement
  BY <1>1, UndisturbedBefore, UndisturbedWhile, UndisturbedCheckpoint DEF Implement
<1>2. CASE ProduceEvidence \/ PromoteMerge \/ PromoteRemove
  <2>1. UNCHANGED <<batch, delta, odd>>
    BY <1>2 DEF ProduceEvidence, CheckClean, Bind, RunCommand, Rebind, WriteScratch, IngestData,
                IngestMeta, Match, Review, TestingFails, PromoteMerge, PromoteRemove, Keep,
                history
  <2>2. pc \in Captured /\ pc' \in Captured \cup {"halted"}
    BY <1>2 DEF ProduceEvidence, CheckClean, Bind, RunCommand, Rebind, WriteScratch, IngestData,
                IngestMeta, Match, Review, TestingFails, PromoteMerge, PromoteRemove,
                Captured, TESTED
  <2> QED
    BY <2>1, <2>2, UndisturbedFrame
<1>3. ASSUME NEW act \in StrayActs, Stray(act) PROVE Undisturbed'
  <2>1. UNCHANGED engine /\ odd \subseteq odd' /\ ("torn" \in odd' => "torn" \in odd)
    BY <1>3, StrayIsRemembered DEF Stray
  <2>2. /\ pc \in MUTATING \cup CHECKPOINTING => ~ Alone'
        /\ pc \in BEFORE_PREFLIGHT /\ "early" \notin odd' => head' = head
    BY <1>3, StrayIsRemembered DEF Alone
  <2>3. (AllAlone' => AllAlone) /\ Target' = Target
    BY <2>1 DEF AllAlone, Alone, Target, engine
  <2> QED
    BY <2>1, <2>2, <2>3
       DEF Undisturbed, AllAlone, engine, BEFORE_PREFLIGHT, MUTATING, CHECKPOINTING
<1>4. ASSUME NEW o \in Outputs, OtherTask(o) PROVE Undisturbed'
  BY <1>4, UndisturbedFrame DEF OtherTask, wtVars, history, repo
<1>5. CASE Operator
  <2>1. UNCHANGED <<head, index, work, commits, engine, odd, strays>>
    BY <1>5 DEF Operator, RemoveAsked, ArchivePatch, ArchiveUntracked, Decide, Remove,
                DeleteBranch, KeepAll, history, repo
  <2> QED
    BY <2>1, UndisturbedFrame
<1>6. CASE Exit
  BY <1>6 DEF Exit, Undisturbed, BEFORE_PREFLIGHT, MUTATING, CAPTURING, Captured, TESTED, history
<1>7. CASE UNCHANGED vars
  BY <1>7, UndisturbedFrame DEF vars, wtVars, history, repo
<1> QED
  BY <1>1, <1>2, <1>3, <1>4, <1>5, <1>6, <1>7 DEF Next

-------------------------------------------------------------------------------
(* The delta and the tests                                                 *)

LEMMA TestingInit == Init => Testing
  BY DEF Init, WtInit, EvInit, Testing, BEFORE_PREFLIGHT, Captured, TESTED

LEMMA DirtyFrame == UNCHANGED <<head, index, work>> => Dirty' = Dirty
  BY DEF Dirty, Differs, Seen, Untracked

LEMMA TestingFrame ==
    Testing /\ UNCHANGED <<repo, pc, delta, tested, bound, odd, main>> => Testing'
  BY DirtyFrame DEF Testing, repo

LEMMA TestingImplement ==
    TypeInv /\ Testing /\ Implement /\ UNCHANGED <<evVars, main, opVars>> => Testing'
<1> SUFFICES ASSUME TypeInv, Testing, Implement, UNCHANGED <<evVars, main, opVars>>
             PROVE  Testing'
  OBVIOUS
<1> USE DEF Goto, repo, history, evVars, opVars, BEFORE_RUN, BEFORE_PREFLIGHT, MUTATING,
            CHECKPOINTING, CAPTURING, Captured, TESTED
<1>1. CASE ReadCommit \/ ReadTree
  BY <1>1 DEF ReadCommit, ReadTree, Testing, TypeInv
<1>2. CASE Scope
  <2>1. UNCHANGED <<delta, tested, odd>> /\ pc = "scope" /\ pc' \in {"captured", "halted"}
    BY <1>2 DEF Scope
  <2>2. pc' = "captured" => Differs(Base, delta.ckpt) \subseteq Allowed
    BY <1>2 DEF Scope
  <2>3. Differs(Base, delta.ckpt)' = Differs(Base, delta.ckpt)
    BY <2>1 DEF Differs, Base
  <2> QED
    BY <2>1, <2>2, <2>3 DEF Testing
<1>3. ASSUME ~ (ReadCommit \/ ReadTree \/ Scope) PROVE Testing'
  <2>1. pc \in BEFORE_RUN /\ pc' \in (BEFORE_RUN \ {"tree", "scope", "captured", "bind"})
                                       \cup {"halted", "refused"}
    BY <1>3 DEF Implement, Reuse, AddWorktree, WriteManifest, SnapshotFiles, Answer, Preflight,
                Prepare, Recheck, ApplyFile, Rollback, Enumerate, Add, Compare, Commit, Verify,
                Capture, Fails
  <2> QED
    BY <2>1 DEF Testing
<1> QED
  BY <1>1, <1>2, <1>3

LEMMA TestingEvidence ==
    TypeInv /\ Testing /\ ProduceEvidence /\ UNCHANGED <<main, opVars>> => Testing'
<1> SUFFICES ASSUME TypeInv, Testing, ProduceEvidence, UNCHANGED <<main, opVars>> PROVE Testing'
  OBVIOUS
<1> USE DEF Goto, repo, history, opVars, BEFORE_RUN, BEFORE_PREFLIGHT, MUTATING,
            CHECKPOINTING, CAPTURING, Captured, TESTED, Keep
<1>1. UNCHANGED <<repo, delta, odd, main>>
  BY DEF ProduceEvidence, CheckClean, Bind, RunCommand, Rebind, WriteScratch, IngestData,
         IngestMeta, Match, Review, TestingFails
<1>2. Dirty' = Dirty /\ Differs(Base, delta.ckpt)' = Differs(Base, delta.ckpt)
  BY <1>1, DirtyFrame DEF Differs, Base
<1>3. CASE CheckClean
  <2>1. /\ pc \in {"captured", "reclean"}
        /\ pc' = IF Dirty THEN "halted" ELSE IF pc = "captured" THEN "bind" ELSE "rebind"
        /\ UNCHANGED <<tested, bound>>
    BY <1>3 DEF CheckClean, evVars
  <2> QED
    BY <1>1, <1>2, <2>1 DEF Testing
<1>4. CASE Bind
  <2>1. pc = "bind" /\ bound' = commits /\ UNCHANGED tested
        /\ pc' = IF head = delta.tree THEN "run" ELSE "halted"
    BY <1>4 DEF Bind
  <2> QED
    BY <1>1, <1>2, <2>1 DEF Testing, TypeInv
<1>5. CASE RunCommand
  <2>1. pc = "run" /\ pc' \in {"run", "reclean"} /\ tested' = tested \cup {work}
        /\ UNCHANGED bound
    BY <1>5 DEF RunCommand
  <2>2. Dirty \/ IsCheckout(work, head)
    BY CleanIsCommitted
  <2> QED
    BY <1>1, <1>2, <2>1, <2>2 DEF Testing
<1>6. CASE Rebind
  <2>1. pc = "rebind" /\ UNCHANGED <<tested, bound>>
        /\ pc' = IF commits = bound THEN "scratch" ELSE "halted"
    BY <1>6 DEF Rebind
  <2> QED
    BY <1>1, <1>2, <2>1 DEF Testing
<1>7. CASE WriteScratch \/ IngestData \/ IngestMeta \/ Match \/ Review
  <2>1. pc \in TESTED \ {"merged"} /\ pc' \in (TESTED \ {"merged"}) \cup {"halted"}
        /\ UNCHANGED <<tested, bound>>
    BY <1>7 DEF WriteScratch, IngestData, IngestMeta, Match, Review, evVars
  <2> QED
    BY <1>1, <1>2, <2>1 DEF Testing
<1>8. CASE TestingFails
  BY <1>8 DEF TestingFails, Testing
<1> QED
  BY <1>3, <1>4, <1>5, <1>6, <1>7, <1>8 DEF ProduceEvidence

LEMMA TestingStray ==
    ASSUME TypeInv, Testing, NEW act \in StrayActs, Stray(act), UNCHANGED <<evVars, main, opVars>>
    PROVE  Testing'
<1>1. UNCHANGED <<pc, delta, tested, bound, main>> /\ odd \subseteq odd'
  BY StrayIsRemembered DEF Stray, engine, evVars
<1>2. /\ pc = "tree" /\ "split" \notin odd' => head' = head
      /\ pc \in TESTED /\ "after" \notin odd' => head' = head
      /\ head' = head /\ Dirty /\ "undone" \notin odd' => Dirty'
      /\ IF head' = head THEN commits' = commits ELSE commits' = commits + 1
  BY StrayIsRemembered
<1>3. Differs(Base, delta.ckpt)' = Differs(Base, delta.ckpt)
  BY <1>1 DEF Differs, Base
<1>4. ASSUME pc \in {"run", "reclean", "rebind"}
      PROVE  bound <= commits' /\ (commits' = bound => commits = bound /\ head' = head)
  BY <1>2, <1>4 DEF Testing, TypeInv
<1> QED
  BY <1>1, <1>2, <1>3, <1>4 DEF Testing

LEMMA TestingStep == TypeInv /\ Testing /\ [Next]_vars => Testing'
<1> SUFFICES ASSUME TypeInv, Testing, [Next]_vars PROVE Testing'
  OBVIOUS
<1>1. ASSUME NEW o \in Outputs, OtherTask(o), UNCHANGED <<main, opVars>> PROVE Testing'
  BY <1>1, TestingFrame DEF OtherTask, wtVars, engine, history
<1>2. CASE PromoteMerge
  <2>1. /\ pc = "ready" /\ UNCHANGED <<repo, delta, tested, odd>>
        /\ \/ pc' = "halted"
           \/ pc' = "merged" /\ main' = head
    BY <1>2 DEF PromoteMerge, Goto, Keep, evVars, history
  <2>2. Differs(Base, delta.ckpt)' = Differs(Base, delta.ckpt)
    BY <2>1 DEF Differs, Base
  <2> QED
    BY <2>1, <2>2
       DEF Testing, repo, BEFORE_RUN, BEFORE_PREFLIGHT, MUTATING, CHECKPOINTING, CAPTURING,
           Captured, TESTED
<1>3. CASE PromoteRemove
  <2>1. pc = "merged" /\ pc' = "promoted" /\ UNCHANGED <<delta, tested, odd, main>>
    BY <1>3 DEF PromoteRemove, Goto, evVars, history
  <2>2. Differs(Base, delta.ckpt)' = Differs(Base, delta.ckpt)
    BY <2>1 DEF Differs, Base
  <2> QED
    BY <2>1, <2>2
       DEF Testing, BEFORE_RUN, BEFORE_PREFLIGHT, MUTATING, CHECKPOINTING, CAPTURING,
           Captured, TESTED
<1>4. CASE Operator
  <2>1. UNCHANGED <<head, index, work, commits, pc, delta, tested, bound, odd, main>>
    BY <1>4 DEF Operator, RemoveAsked, ArchivePatch, ArchiveUntracked, Decide, Remove,
                DeleteBranch, KeepAll, engine, history, repo, evVars
  <2> QED
    BY <2>1, DirtyFrame DEF Testing
<1>5. CASE Exit
  BY <1>5 DEF Exit, Goto, Testing, BEFORE_RUN, BEFORE_PREFLIGHT, MUTATING, CHECKPOINTING,
              CAPTURING, Captured, TESTED
<1>6. CASE UNCHANGED vars
  BY <1>6, TestingFrame DEF vars, wtVars, engine, history, evVars
<1> QED
  BY <1>1, <1>2, <1>3, <1>4, <1>5, <1>6, TestingImplement, TestingEvidence, TestingStray DEF Next

-------------------------------------------------------------------------------
(* The artifact store                                                      *)

STORING == {"scratch", "data", "meta", "match"}
STORED  == {"review", "ready", "merged", "promoted"}

LEMMA StoringInit == Init => Storing
  BY DEF Init, WtInit, EvInit, Storing, SidecarIsTrue, BundleIsOwn

\* Steps that leave the store alone and do not enter its phases.
LEMMA StoringFrame ==
    /\ Storing /\ UNCHANGED <<store, left, pc>> => Storing'
    /\ Storing /\ UNCHANGED store /\ pc' \notin STORING \cup STORED => Storing'
  BY DEF Storing, SidecarIsTrue, BundleIsOwn, STORING, STORED, Turn

LEMMA StoringEvidence ==
    TypeInv /\ Storing /\ ProduceEvidence => Storing'
<1> SUFFICES ASSUME TypeInv, Storing, ProduceEvidence PROVE Storing'
  OBVIOUS
<1> USE DEF Goto, Keep, STORING, STORED
<1>1. CASE CheckClean \/ Bind \/ RunCommand \/ TestingFails
  BY <1>1, StoringFrame DEF CheckClean, Bind, RunCommand, TestingFails, evVars
<1>2. CASE Rebind
  BY <1>2 DEF Rebind, Storing, SidecarIsTrue, BundleIsOwn
<1>3. CASE WriteScratch
  BY <1>3 DEF WriteScratch, Storing, SidecarIsTrue, BundleIsOwn
<1>4. Turn \in Outputs /\ Turn \notin Checks \ left
  BY TurnIsNext DEF TypeInv
<1>5. CASE IngestData
  <2>1. pc = "data" /\ pc' \in {"meta", "halted"} /\ UNCHANGED left
    BY <1>5 DEF IngestData
  <2>2. CASE UNCHANGED store
    BY <2>1, <2>2 DEF Storing, SidecarIsTrue, BundleIsOwn
  <2>3. ASSUME store[Turn] = [data |-> "none", meta |-> "none"],
               store' = [store EXCEPT ![Turn].data = scratch[Turn]]
        PROVE  Storing'
    <3>1. \A o \in Outputs : IF o = Turn THEN store'[o].meta = "none" ELSE store'[o] = store[o]
      BY <1>4, <2>3 DEF TypeInv
    <3>2. Checks \subseteq Outputs
      BY DEF Outputs
    <3> QED
      BY <1>4, <2>1, <3>1, <3>2 DEF Storing, SidecarIsTrue, BundleIsOwn
  <2> QED
    BY <1>5, <2>2, <2>3 DEF IngestData
<1>6. CASE IngestMeta
  <2>1. pc = "meta" /\ UNCHANGED left /\ Turn' = Turn
    BY <1>6 DEF IngestMeta, Turn
  <2>2. pc' \in {"match", "halted"} /\ store'[Turn].meta = store'[Turn].data
        /\ \A o \in Outputs \ {Turn} : store'[o] = store[o]
    BY <1>4, <1>6 DEF IngestMeta, TypeInv
  <2>3. Checks \subseteq Outputs
    BY DEF Outputs
  <2> QED
    BY <1>4, <2>1, <2>2, <2>3 DEF Storing, SidecarIsTrue, BundleIsOwn
<1>7. CASE Match
  <2>1. /\ pc = "match" /\ UNCHANGED store /\ left' = left \ {Turn}
        /\ pc' = IF left = {} THEN "review"
                 ELSE IF store[Turn].data = "own" THEN "scratch" ELSE "halted"
    BY <1>7 DEF Match
  <2>2. store[Turn] \in [data : Origin, meta : Origin]
    BY <1>4 DEF TypeInv
  <2>3. pc' = "scratch" => store[Turn] = Own
    BY <2>1, <2>2 DEF Storing, Own
  <2> QED
    BY <2>1, <2>3 DEF Storing, SidecarIsTrue, BundleIsOwn, Own
<1>8. CASE Review
  BY <1>8 DEF Review, evVars, Storing, SidecarIsTrue, BundleIsOwn
<1> QED
  BY <1>1, <1>2, <1>3, <1>5, <1>6, <1>7, <1>8 DEF ProduceEvidence

LEMMA StoringStep == TypeInv /\ Storing /\ [Next]_vars => Storing'
<1> SUFFICES ASSUME TypeInv, Storing, [Next]_vars PROVE Storing'
  OBVIOUS
<1> USE DEF Goto, evVars, STORING, STORED
<1>1. ASSUME Implement, UNCHANGED <<evVars, main, opVars>> PROVE Storing'
  <2>1. pc' \notin STORING \cup STORED
    BY <1>1 DEF Implement, Reuse, AddWorktree, WriteManifest, SnapshotFiles, Answer, Preflight,
                Prepare, Recheck, ApplyFile, Rollback, Enumerate, Add, Compare, Commit, Verify,
                Capture, ReadCommit, ReadTree, Scope, Fails, repo
  <2> QED
    BY <1>1, <2>1, StoringFrame
<1>2. ASSUME NEW act \in StrayActs, Stray(act), UNCHANGED <<evVars, main, opVars>> PROVE Storing'
  BY <1>2, StoringFrame DEF Stray, engine
<1>3. ASSUME NEW o \in Outputs, OtherTask(o) PROVE Storing'
  BY <1>3, StoringFrame DEF OtherTask, wtVars, engine
<1>4. CASE PromoteMerge \/ PromoteRemove
  BY <1>4 DEF PromoteMerge, PromoteRemove, Keep, Storing, SidecarIsTrue, BundleIsOwn
<1>5. CASE Operator
  BY <1>5, StoringFrame
     DEF Operator, RemoveAsked, ArchivePatch, ArchiveUntracked, Decide, Remove, DeleteBranch,
         KeepAll, engine
<1>6. CASE Exit
  BY <1>6, StoringFrame DEF Exit
<1>7. CASE UNCHANGED vars
  BY <1>7, StoringFrame DEF vars, wtVars, engine
<1> QED
  BY <1>1, <1>2, <1>3, <1>4, <1>5, <1>6, <1>7, StoringEvidence DEF Next

-------------------------------------------------------------------------------
(* The archive                                                             *)

LEMMA ArchivingInit == Init => Archiving
  BY DEF Init, Archiving

\* The operator and the engine never work in the same worktree.
LEMMA ArchivingIdle ==
    /\ TypeInv /\ Archiving /\ Implement => opc = "idle"
    /\ TypeInv /\ Archiving /\ ProduceEvidence => opc = "idle"
    /\ TypeInv /\ Archiving /\ (PromoteMerge \/ PromoteRemove \/ Exit) => opc = "idle"
<1>1. TypeInv /\ Archiving /\ Implement => opc = "idle"
  BY DEF Archiving, Implement, Reuse, AddWorktree, WriteManifest, SnapshotFiles, Answer,
         Preflight, Prepare, Recheck, ApplyFile, Rollback, Enumerate, Add, Compare, Commit,
         Verify, Capture, ReadCommit, ReadTree, Scope, Fails, BEFORE_PREFLIGHT, CHECKPOINTING,
         CAPTURING
<1>2. TypeInv /\ Archiving /\ ProduceEvidence => opc = "idle"
  BY DEF Archiving, ProduceEvidence, CheckClean, Bind, RunCommand, Rebind, WriteScratch,
         IngestData, IngestMeta, Match, Review, TestingFails
<1>3. TypeInv /\ Archiving /\ (PromoteMerge \/ PromoteRemove \/ Exit) => opc = "idle"
  BY DEF Archiving, PromoteMerge, PromoteRemove, Exit
<1> QED
  BY <1>1, <1>2, <1>3

LEMMA ArchivingFrame ==
    Archiving /\ UNCHANGED <<repo, pc, strays, patch, copied, since, opc>> => Archiving'
  BY DEF Archiving, repo, Garbled, Seen, CopyUntracked, Untracked, Differs, Base

LEMMA ArchivingOperator == TypeInv /\ Archiving /\ Operator => Archiving'
<1> SUFFICES ASSUME TypeInv, Archiving, Operator PROVE Archiving'
  OBVIOUS
<1>1. UNCHANGED <<head, index, work, pc, strays>>
  BY DEF Operator, RemoveAsked, ArchivePatch, ArchiveUntracked, Decide, Remove, DeleteBranch,
         KeepAll, repo, engine, history
<1>2. UNCHANGED <<Seen, Garbled(Seen), CopyUntracked>>
  BY <1>1 DEF Seen, Garbled, CopyUntracked, Untracked, Differs, Base
<1>3. CASE RemoveAsked
  BY <1>1, <1>3 DEF RemoveAsked, Archiving
<1>4. CASE ArchivePatch
  BY <1>1, <1>2, <1>4 DEF ArchivePatch, Archiving, KeepAll
<1>5. CASE ArchiveUntracked
  BY <1>1, <1>2, <1>5 DEF ArchiveUntracked, Archiving, KeepAll
<1>6. CASE Decide \/ DeleteBranch
  BY <1>1, <1>2, <1>6 DEF Decide, DeleteBranch, Archiving, KeepAll
<1>7. CASE Remove
  BY <1>1, <1>2, <1>7 DEF Remove, Archiving
<1> QED
  BY <1>3, <1>4, <1>5, <1>6, <1>7 DEF Operator

LEMMA ArchivingStep == TypeInv /\ Archiving /\ [Next]_vars => Archiving'
<1> SUFFICES ASSUME TypeInv, Archiving, [Next]_vars PROVE Archiving'
  OBVIOUS
<1>1. opc' = "idle" => Archiving'
  BY DEF Archiving
<1>2. ASSUME Implement \/ ProduceEvidence, UNCHANGED <<main, opVars>> PROVE Archiving'
  BY <1>1, <1>2, ArchivingIdle DEF opVars
<1>3. CASE PromoteMerge \/ PromoteRemove \/ Exit
  BY <1>1, <1>3, ArchivingIdle DEF PromoteMerge, PromoteRemove, Exit, Keep, opVars
<1>4. ASSUME NEW act \in StrayActs, Stray(act), UNCHANGED <<evVars, main, opVars>> PROVE Archiving'
  <2>1. since' # strays'
    BY <1>4 DEF Stray, TypeInv, opVars
  <2> QED
    BY <1>4, <2>1 DEF Stray, Archiving, opVars, engine
<1>5. ASSUME NEW o \in Outputs, OtherTask(o), UNCHANGED <<main, opVars>> PROVE Archiving'
  BY <1>5, ArchivingFrame DEF OtherTask, wtVars, engine, history, opVars
<1>6. CASE UNCHANGED vars
  BY <1>6, ArchivingFrame DEF vars, wtVars, engine, history, opVars
<1> QED
  BY <1>2, <1>3, <1>4, <1>5, <1>6, ArchivingOperator DEF Next

-------------------------------------------------------------------------------
(* The invariant and what follows from it                                  *)

IInv == TypeInv /\ Applying /\ Undisturbed /\ Testing /\ Storing /\ Archiving

LEMMA Inductive == Spec => []IInv
<1>1. Init => IInv
  BY TypeInit, ApplyingInit, UndisturbedInit, TestingInit, StoringInit, ArchivingInit DEF IInv
<1>2. IInv /\ [Next]_vars => IInv'
  BY TypeStep, ApplyingStep, UndisturbedStep, TestingStep, StoringStep, ArchivingStep DEF IInv
<1> QED
  BY <1>1, <1>2, PTL DEF Spec

\* The state of the worktree, of the engine's memory, of the store and of the
\* archive is well-formed, and the batch being applied lies in the approval.
THEOREM TypeCorrect == Spec => []TypeOK
<1>1. IInv => TypeOK
  <2> SUFFICES ASSUME IInv PROVE TypeOK
    OBVIOUS
  <2>1. todo \cup applied \cup file \subseteq Files \cap Allowed
    BY DEF IInv, TypeInv, Applying
  <2>2. strays \in 0..MaxStrays /\ since \in 0..MaxStrays
    BY StraysAssumption DEF IInv, TypeInv
  <2> QED
    BY <2>1, <2>2 DEF IInv, TypeInv, TypeOK, OddTags, Trees
<1> QED
  BY <1>1, Inductive, PTL

\* The delta that is tested and reviewed touches approved files only, whatever
\* others write, stage and commit and whatever git diff fails to show.
THEOREM ScopeIsKept == Spec => []DeltaInScope
<1>1. IInv => DeltaInScope
  BY DEF IInv, Testing, DeltaInScope
<1> QED
  BY <1>1, Inductive, PTL

\* A captured delta is the batch the controller applied, less the new files that
\* are ignored and with nothing of anybody else, if whoever else acted did so
\* where the preflight looks and git diff answered.
THEOREM DeltaIsWhatWasApplied == Spec => []DeltaIsTheBatch
<1>1. IInv => DeltaIsTheBatch
  <2> SUFFICES ASSUME IInv, pc \in Captured, odd \cap {"early", "late", "blind"} = {}
               PROVE  delta.ckpt = Target
    BY DEF DeltaIsTheBatch, Target
  <2>1. AllAlone
    BY DEF AllAlone, Alone
  <2> QED
    BY <2>1 DEF IInv, Undisturbed
<1> QED
  BY <1>1, Inductive, PTL

\* What the tests ran on is a checkout of the tree whose patch is reviewed, with
\* no other files beside it than ignored ones, even with others at work, unless
\* these undid what they had done before it was looked for.
THEOREM TestsRunOnWhatIsReviewed == Spec => []TestedIsReviewed
<1>1. IInv => TestedIsReviewed
  BY DEF IInv, Testing, TestedIsReviewed
<1> QED
  BY <1>1, Inductive, PTL

\* The pilot's main branch gets the tree that was tested and reviewed, unless
\* somebody committed to the task's branch after the tests.
THEOREM PromotionIsReviewed == Spec => []PromotedIsReviewed
<1>1. IInv => PromotedIsReviewed
  BY DEF IInv, Testing, PromotedIsReviewed
<1> QED
  BY <1>1, Inductive, PTL

\* An evidence bundle that is reviewed refers to the output of its own commands,
\* whoever else uses the scratch directory.
THEOREM BundlesAreOwn == Spec => []BundleIsOwn
<1>1. IInv => BundleIsOwn
  BY DEF IInv, Storing
<1> QED
  BY <1>1, Inductive, PTL

\* No sidecar describes anything but the data next to it, at whichever step the
\* process dies.
THEOREM SidecarsAreTrue == Spec => []SidecarIsTrue
<1>1. IInv => SidecarIsTrue
  BY DEF IInv, Storing
<1> QED
  BY <1>1, Inductive, PTL

\* Once remove_worktree has removed the files, its archive gives back each of
\* them but the ignored ones, of which it holds nothing, except what was written
\* after the archive was begun, and unless a binary file was changed.
THEOREM ArchiveIsComplete == Spec => []OnlyIgnoredIsLost
<1>1. IInv => OnlyIgnoredIsLost
  <2> SUFFICES ASSUME IInv, opc \in {"branch", "removed"}, since = strays, ~ Garbled(Seen)
               PROVE  Recovered = [f \in Files |-> IF f \in Hidden THEN "none" ELSE work[f]]
    BY DEF OnlyIgnoredIsLost
  <2>1. patch = Seen /\ copied = CopyUntracked
    BY DEF IInv, Archiving
  <2>2. DOMAIN copied = Untracked /\ \A f \in Untracked : copied[f] = work[f]
    BY <2>1 DEF CopyUntracked
  <2>3. \A f \in Files \ Untracked : Seen[f] = IF f \in Hidden THEN "none" ELSE work[f]
    BY DEF Seen, Untracked, Hidden
  <2>4. Untracked \cap Hidden = {}
    BY DEF Untracked, Hidden
  <2> QED
    BY <2>1, <2>2, <2>3, <2>4 DEF Recovered
<1> QED
  BY <1>1, Inductive, PTL

\* A batch that is refused, at the comparison or after a rollback that worked,
\* leaves a worktree that git finds clean, and each of its files as the model
\* saw it.
THEOREM RefusalIsWhole == Spec => RefusedLeavesNothing
<1>1. ASSUME IInv, [Next]_vars
      PROVE  [pc' = "refused" /\ pc # "refused" /\ odd \cap {"late", "blind", "torn"} = {}
                => /\ IsCheckout(work', head')
                   /\ pc = "rollback" => \A f \in DOMAIN batch : work'[f] = snap[f]]_vars
  <2> SUFFICES ASSUME Next, pc' = "refused", pc # "refused", Alone, "torn" \notin odd
               PROVE  /\ IsCheckout(work', head')
                      /\ pc = "rollback" => \A f \in DOMAIN batch : work'[f] = snap[f]
    BY <1>1 DEF Alone
  <2> USE DEF IInv, Goto
  <2>1. Prepare \/ Rollback
    BY <1>1 DEF Next, Implement, Reuse, AddWorktree, WriteManifest, SnapshotFiles, Answer,
       Preflight, Recheck, ApplyFile, Enumerate, Add, Compare, Commit, Verify, Capture,
       ReadCommit, ReadTree, Scope, Fails, Stray, ProduceEvidence, CheckClean, Bind,
       RunCommand, Rebind, WriteScratch, IngestData, IngestMeta, Match, Review, TestingFails,
       OtherTask, PromoteMerge, PromoteRemove, Exit, Operator, RemoveAsked, ArchivePatch,
       ArchiveUntracked, Decide, Remove, DeleteBranch, KeepAll, engine, wtVars
  <2>2. applied = {} /\ UNCHANGED <<work, head>> /\ pc \in MUTATING
    BY <1>1, <2>1 DEF Prepare, Rollback, Applying, MUTATING, repo
  <2>3. PartlyWritten /\ (pc = "rollback" => \A f \in DOMAIN batch : work[f] = snap[f])
    BY <1>1, <2>2 DEF Undisturbed
  <2>4. IsCheckout(work, head)
    BY <2>2, <2>3 DEF PartlyWritten, IsCheckout, Differs, Quiet
  <2> QED
    BY <2>2, <2>3, <2>4
<1> QED
  BY <1>1, Inductive, PTL DEF Spec, RefusedLeavesNothing
===============================================================================
