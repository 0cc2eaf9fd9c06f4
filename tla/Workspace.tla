------------------------------- MODULE Workspace -------------------------------
(***************************************************************************)
(* The whole life of a worktree: the engine's run (modules Worktree and    *)
(* Evidence), and then either the pilot merges the task's branch           *)
(* (pilot/run.py) or an operator archives and removes the worktree         *)
(* (git/cleanup.py).                                                       *)
(***************************************************************************)
EXTENDS Evidence

CONSTANT Binary          \* files git takes for binary; their names sort last

ASSUME BinaryAssumption == Binary \subseteq Files

VARIABLES
  main,      \* the tree of the sample's main branch
  opc,       \* the operator's next step
  patch,     \* delta.patch, as the tree it turns Base into
  copied,    \* untracked/: path -> content
  since,     \* strays, when the archive's first read was made
  branch,    \* whether the task's branch exists
  how        \* whether git worktree remove is called with --force

opVars == <<opc, patch, copied, since, branch, how>>
vars   == <<wtVars, evVars, main, opVars>>

Init ==
    /\ WtInit /\ EvInit
    /\ main = Base
    /\ opc = "idle"
    /\ patch = Base /\ copied = <<>> /\ since = 0
    /\ branch = TRUE /\ how = "not"

-------------------------------------------------------------------------------
(* _promote                                                                *)

\* git merge --ff-only, which a commit of the owner's to main makes fail.
PromoteMerge ==
    /\ pc = "ready"
    /\ \/ main' = head /\ Goto("merged")
       \/ Goto("halted") /\ UNCHANGED main
    /\ Keep(<<evVars, opVars>>)

\* git worktree remove --force, without an archive. Where it fails the run
\* ends with the exception (Exit).
PromoteRemove ==
    /\ pc = "merged"
    /\ wt' = "removed"
    /\ Goto("promoted")
    /\ UNCHANGED <<head, commits, index, work, snap, batch, applying, actual, delta,
                   history, evVars, main, opVars>>

-------------------------------------------------------------------------------
(* archive_worktree and remove_worktree, called when no engine runs        *)

\* git answers in it, and lists another worktree to remove it from.
IsWorktree  == wt \in {"bare", "ready"}
HasManifest == wt = "ready"

KeepAll(rest) == UNCHANGED <<repo, engine, history, evVars, main, rest>>

\* The first look: without force=True a dirty worktree is refused, and the
\* archive needs the manifest. A call that is refused here leaves nothing
\* behind. What preflight found is remembered.
RemoveAsked ==
    /\ opc = "idle" /\ pc = "dead"
    /\ IsWorktree /\ HasManifest
    /\ \E blind \in Blindness : how' = IF Clean(blind) THEN "not" ELSE "forced"
    /\ opc' = "patch"
    /\ KeepAll(<<patch, copied, since, branch>>)

\* A patch of a binary file ends with an empty line; run_git strips every one
\* at the end and a single one is put back: git refuses such a patch as a whole.
Garbled(tree) == Differs(Base, tree) \cap Binary # {}

\* git diff against the base commit: untracked files are not in it.
ArchivePatch ==
    /\ opc = "patch"
    /\ patch' = IF Garbled(Seen) THEN Base ELSE Seen
    /\ since' = strays
    /\ opc' = "copy"
    /\ KeepAll(<<copied, branch, how>>)

\* Mutant: git diff is taken to show everything.
CopyNothing == <<>>

CopyUntracked == [f \in Untracked |-> work[f]]

ArchiveUntracked ==
    /\ opc = "copy"
    /\ \/ copied' = CopyUntracked /\ opc' = "decide" /\ UNCHANGED patch
       \/ copied' = <<>> /\ patch' = Base /\ opc' = "idle"        \* rolled back
       \/ opc' = "stuck" /\ UNCHANGED <<copied, patch>>           \* or killed
    /\ KeepAll(<<since, branch, how>>)

\* The report of the first look counts to the end.
LooksDirty == how = "forced" \/ Dirty

Decide ==
    /\ opc = "decide"
    /\ how' = IF LooksDirty THEN "forced" ELSE "plain"
    /\ opc' = "remove"
    /\ KeepAll(<<patch, copied, since, branch>>)

\* git refuses a dirty worktree without --force; it may fail in any case, and
\* the archive then stands in the way of the next attempt.
Remove ==
    /\ opc = "remove"
    /\ \/ /\ how = "plain" => ~ Dirty
          /\ wt' = "removed"
          /\ opc' \in {"branch", "removed"}
       \/ opc' = "stuck" /\ UNCHANGED wt
    /\ UNCHANGED <<head, commits, index, work, engine, history, evVars, main,
                   patch, copied, since, branch, how>>

DeleteBranch ==
    /\ opc = "branch"
    /\ branch' = FALSE
    /\ opc' = "removed"
    /\ KeepAll(<<patch, copied, since, how>>)

Operator == \/ RemoveAsked \/ ArchivePatch \/ ArchiveUntracked
            \/ Decide \/ Remove \/ DeleteBranch

-------------------------------------------------------------------------------
(* The engine's process dies, or has ended its run: its memory is gone,    *)
(* nobody reads its scratch files any more, and its history is told.       *)
Exit ==
    /\ pc \notin {"start", "dead"}
    /\ Goto("dead")
    /\ snap' = Base /\ batch' = <<>>
    /\ todo' = {} /\ applied' = {} /\ file' = {} /\ actual' = {}
    /\ delta' = NoDelta
    /\ tested' = {} /\ bound' = 0 /\ left' = {}
    /\ scratch' = [o \in Outputs |-> "none"] /\ odd' = {}
    /\ UNCHANGED <<repo, strays, store, main, opVars>>

Next ==
    \/ (Implement \/ \E act \in StrayActs : Stray(act)) /\ UNCHANGED <<evVars, main, opVars>>
    \/ (ProduceEvidence \/ \E o \in Outputs : OtherTask(o)) /\ UNCHANGED <<main, opVars>>
    \/ PromoteMerge \/ PromoteRemove
    \/ Operator
    \/ Exit

Spec == Init /\ [][Next]_vars

-------------------------------------------------------------------------------
(* Properties                                                              *)

\* The state is well-formed; the controller's batch, once it is being
\* applied, lies in the approval (controller.py:194).
TypeOK ==
    /\ wt \in {"absent", "bare", "ready", "removed"}
    /\ {head, index, work, snap, delta.ckpt, delta.tree, patch, main}
         \subseteq [Files -> Content]
    /\ todo \cup applied \cup file \cup actual \subseteq Files
    /\ todo \cup applied \cup file \subseteq Allowed
    /\ strays \in 0..MaxStrays /\ since \in 0..MaxStrays
    /\ odd \subseteq {"early", "late", "split", "after", "undone", "blind", "torn"}
    /\ scratch \in [Outputs -> Origin]
    /\ store \in [Outputs -> [data : Origin, meta : Origin]]
    /\ left \subseteq Checks
    /\ branch \in BOOLEAN

Captured == {"captured", "bind", "run", "reclean", "rebind"} \cup TESTED \cup {"promoted"}

\* Whatever others write, stage and commit, and whatever git diff fails to
\* show, a captured delta touches approved files only (checkpoint.py:126,
\* delta.py:148).
DeltaInScope == pc \in Captured => Differs(Base, delta.ckpt) \subseteq Allowed

\* Files t are those of commit c, with no others beside them than ignored ones.
IsCheckout(t, c) == \A f \in Differs(t, c) : f \in Ignored /\ c[f] = "none"

\* A captured delta is the batch the controller applied, nothing else and all
\* of it that git can see (checkpoint.py:112-120): an agent that wrote, staged
\* or deleted files of its own halts the task (orchestrate.py:340-344), unless
\* nobody could see it in time. An approved file that is ignored and not in
\* the base commit is written, and never gets into the delta.
DeltaIsTheBatch ==
    pc \in Captured /\ odd \cap {"early", "late", "blind"} = {}
      => delta.ckpt = [f \in Files |-> IF f \in DOMAIN batch \ (Ignored \ Tracked)
                                      THEN batch[f] ELSE Base[f]]

\* apply_mutations refuses a batch as a whole: with a rollback that worked and
\* nobody else about, its files are as the model saw them, ignored or not, and
\* git finds the worktree clean (controller.py:241-257).
RefusedLeavesNothing ==
    [][pc' = "refused" /\ pc # "refused" /\ odd \cap {"late", "blind", "torn"} = {}
         => /\ IsCheckout(work', head')
            /\ pc = "rollback" => \A f \in DOMAIN batch : work'[f] = snap[f]]_vars

\* The tests behind the evidence ran on the tree whose patch is reviewed and on
\* nothing else but ignored files, even with others at work while they ran,
\* unless these undid what they had done before it was looked for
\* (evidence/bundle.py:88-94, 147-168). The ignored files may be anybody's: an
\* agent's, an earlier run's or the batch's own.
TestedIsReviewed ==
    pc \in TESTED \cup {"promoted"} /\ odd \cap {"split", "undone"} = {}
      => tested # {} /\ \A t \in tested : IsCheckout(t, delta.ckpt)

\* What the pilot merges is what was tested and reviewed, unless somebody
\* commits to the branch after the tests (pilot/run.py:263-267).
PromotedIsReviewed ==
    pc \in {"merged", "promoted"} /\ odd \cap {"split", "after"} = {} => main = delta.ckpt

\* An evidence bundle refers to the output of its own commands, whoever else
\* uses the scratch directory (evidence/bundle.py:211).
BundleIsOwn ==
    pc \in {"review", "ready", "merged", "promoted"}
      => \A o \in Checks : store[o] = [data |-> "own", meta |-> "own"]

\* A crash or a failure between two steps never leaves a sidecar that
\* describes anything but its data (artifacts/store.py:157-177).
SidecarIsTrue == \A o \in Outputs : store[o].meta # "none" => store[o].meta = store[o].data

\* When remove_worktree has removed the files, its archive holds what each of
\* them contained, tracked, staged or untracked - but nothing of the ignored
\* ones, which are gone for good, also without --force - except what was
\* written after the archive was begun, and unless a binary file was changed
\* (git/cleanup.py:232-260, 305-311).
Recovered == [f \in Files |-> IF f \in DOMAIN copied THEN copied[f] ELSE patch[f]]

OnlyIgnoredIsLost ==
    opc \in {"branch", "removed"} /\ since = strays /\ ~ Garbled(Seen)
      => Recovered = [f \in Files |-> IF f \in Hidden THEN "none" ELSE work[f]]
===============================================================================
