------------------------------- MODULE Worktree -------------------------------
(***************************************************************************)
(* A task's git worktree from its creation to the captured delta           *)
(* (git/worktree.py, git/preflight.py, controller.py, git/checkpoint.py,   *)
(* git/delta.py, and the calls of orchestrate.py between them), while      *)
(* other processes - an agent that got at the files, a hook, a human -     *)
(* write, stage and commit in the same directory.                          *)
(*                                                                         *)
(* Every git command and every file operation is a step. A path that       *)
(* .gitignore matches is hidden from git as long as it is not in the       *)
(* index: the code lists untracked files with --exclude-standard           *)
(* everywhere, and git status leaves them out too. Of a file's             *)
(* content only its origin is kept. A stopped engine is not started again  *)
(* on the same task: the middle phases are not resumed (module Engine).    *)
(***************************************************************************)
EXTENDS Naturals, FiniteSets

CONSTANTS Files,         \* paths in the repository
          Tracked,       \* those in the base commit
          Ignored,       \* those .gitignore matches, tracked or not
          Allowed,       \* plan.allowed_files, which the manifest repeats
          MaxStrays,     \* bound on what others do in the worktree
          StrayActs,     \* of it: "write", "stage", "commit"
          DiffMayFail    \* whether git diff may fail, or not end in time

ASSUME FilesAssumption == /\ Tracked \subseteq Files /\ Ignored \subseteq Files
                          /\ Allowed \subseteq Files
ASSUME StraysAssumption == /\ MaxStrays \in Nat
                           /\ StrayActs \subseteq {"write", "stage", "commit"}
                           /\ DiffMayFail \in BOOLEAN

VARIABLES
  \* the directory and the branch
  wt,        \* absent; bare: without a manifest; ready; removed
  head,      \* the tree of the branch's last commit
  commits,   \* the commits made on the branch: what tells them apart
  index,
  work,      \* the files themselves
  \* the engine's process
  pc,        \* what it does next
  snap,      \* what snapshot_files told the model
  batch,     \* the mutations the model proposed: path -> content
  todo,      \* those not applied yet
  applied,   \* those that would be rolled back
  file,      \* the one checked and about to be written
  actual,    \* the changes checkpoint_commit enumerated
  delta,     \* the DeltaReport
  \* history
  strays,    \* how often others acted
  odd        \* what went unnoticed or wrong, for the properties

repo     == <<wt, head, commits, index, work>>
applying == <<todo, applied, file>>
engine   == <<pc, snap, batch, applying, actual, delta>>
history  == <<strays, odd>>
wtVars   == <<repo, engine, history>>

\* "new": what the controller writes; "stray": what anybody else does.
Content == {"none", "base", "new", "stray"}

Base    == [f \in Files |-> IF f \in Tracked THEN "base" ELSE "none"]
NoDelta == [ckpt |-> Base, tree |-> Base]

-------------------------------------------------------------------------------
(* What git reports.                                                       *)

Differs(a, b) == {f \in Files : a[f] # b[f]}

\* git ls-files --others --exclude-standard.
Untracked == {f \in Files \ Ignored : index[f] = "none" /\ work[f] # "none"}

\* What no git command of the code shows.
Hidden == {f \in Ignored : index[f] = "none" /\ work[f] # "none"}

\* What git sees of the files: without those that are not in the index.
Seen == [f \in Files |-> IF index[f] = "none" THEN "none" ELSE work[f]]

Dirty == Differs(Seen, index) \cup Differs(index, head) \cup Untracked # {}

\* preflight takes a git diff that failed for one without output.
Clean(blind) == IF blind THEN Untracked = {} ELSE ~ Dirty

Blindness == IF DiffMayFail THEN BOOLEAN ELSE {FALSE}

\* git diff HEAD and git ls-files --others.
Changes == Differs(Seen, head) \cup Untracked

Staged == Differs(index, head)

-------------------------------------------------------------------------------
(* Where control goes. A refusal of apply_mutations is kept apart.         *)

BEFORE_PREFLIGHT == {"start", "manifest", "snapshot", "agent", "preflight"}
MUTATING         == {"prepare", "apply", "write", "rollback"}
CHECKPOINTING    == {"enumerate", "add", "compare", "commit", "verify", "capture", "ckpt"}
CAPTURING        == {"tree", "scope"}
TESTED           == {"scratch", "data", "meta", "match", "review", "ready", "merged"}

Goto(l) == pc' = l

WtInit ==
    /\ wt \in {"absent", "bare", "ready"}      \* a directory an earlier run left
    /\ head = Base /\ commits = 0 /\ index = Base /\ work = Base
    /\ pc = "start"
    /\ snap = Base
    /\ batch = <<>> /\ todo = {} /\ applied = {} /\ file = {} /\ actual = {}
    /\ delta = NoDelta
    /\ strays = 0 /\ odd = {}

-------------------------------------------------------------------------------
(* _ensure_worktree and create_worktree                                    *)

Reuse ==
    /\ pc = "start" /\ wt # "absent"
    /\ Goto("snapshot")
    /\ UNCHANGED <<repo, snap, batch, applying, actual, delta, history>>

\* git worktree add -b, of the commit that preflight found in the base.
AddWorktree ==
    /\ pc = "start" /\ wt = "absent"
    /\ wt' = "bare"
    /\ Goto("manifest")
    /\ UNCHANGED <<head, commits, index, work, snap, batch, applying, actual, delta, history>>

WriteManifest ==
    /\ pc = "manifest"
    /\ wt' = "ready"
    /\ Goto("snapshot")
    /\ UNCHANGED <<head, commits, index, work, snap, batch, applying, actual, delta, history>>

-------------------------------------------------------------------------------
(* _implement: the implementer sees a snapshot and proposes mutations.     *)

SnapshotFiles ==
    /\ pc = "snapshot"
    /\ snap' = work
    /\ Goto("agent")
    /\ UNCHANGED <<repo, batch, applying, actual, delta, history>>

\* FileMutation can express no deletion without a preimage.
Batches == {b \in UNION {[S -> {"new", "none"}] : S \in SUBSET Files \ {{}}} :
              \A f \in DOMAIN b : b[f] = "none" => snap[f] # "none"}

Answer ==
    /\ pc = "agent"
    /\ batch' \in Batches
    /\ Goto("preflight")
    /\ UNCHANGED <<repo, snap, applying, actual, delta, history>>

\* Mutant: the engine trusts that the agent had no way to the files.
PreflightTrusting ==
    /\ pc = "preflight"
    /\ Goto("prepare")
    /\ UNCHANGED <<repo, snap, batch, applying, actual, delta, history>>

Preflight ==
    /\ pc = "preflight"
    /\ \E blind \in Blindness :
         /\ Goto(IF Clean(blind) THEN "prepare" ELSE "halted")
         /\ odd' = IF Clean(blind) /\ Dirty THEN odd \cup {"blind"} ELSE odd
    /\ UNCHANGED <<repo, snap, batch, applying, actual, delta, strays>>

-------------------------------------------------------------------------------
(* apply_mutations                                                         *)

\* Mutant: the batch is not compared with the approval.
PrepareAnything ==
    /\ pc = "prepare"
    /\ IF \A f \in DOMAIN batch : work[f] = snap[f]
       THEN Goto("apply") /\ todo' = DOMAIN batch
       ELSE Goto("refused") /\ UNCHANGED todo
    /\ UNCHANGED <<repo, snap, batch, applied, file, actual, delta, history>>

Prepare ==
    /\ pc = "prepare"
    /\ IF DOMAIN batch \subseteq Allowed /\ \A f \in DOMAIN batch : work[f] = snap[f]
       THEN Goto("apply") /\ todo' = DOMAIN batch
       ELSE Goto("refused") /\ UNCHANGED todo
    /\ UNCHANGED <<repo, snap, batch, applied, file, actual, delta, history>>

\* The preimage is read again just before the write.
Recheck ==
    /\ pc = "apply"
    /\ \E f \in todo : IF work[f] = snap[f] THEN Goto("write") /\ file' = {f}
                                            ELSE Goto("rollback") /\ UNCHANGED file
    /\ UNCHANGED <<repo, snap, batch, todo, applied, actual, delta, history>>

\* The write replaces the file whatever it has become; a file that has gone
\* cannot be deleted.
ApplyFile ==
    /\ pc = "write"
    /\ \E f \in file :
         \/ /\ batch[f] = "none" => work[f] # "none"
            /\ work' = [work EXCEPT ![f] = batch[f]]
            /\ applied' = applied \cup {f}
            /\ todo' = todo \ {f}
            /\ Goto(IF todo = {f} THEN "enumerate" ELSE "apply")
         \/ Goto("rollback") /\ UNCHANGED <<work, applied, todo>>
    /\ file' = {}
    /\ UNCHANGED <<wt, head, commits, index, snap, batch, actual, delta, history>>

\* Mutant: what the batch created is left behind.
RestoredIfThere(f) == IF snap[f] = "none" THEN work[f] ELSE snap[f]

Restored(f) == snap[f]

Rollback ==
    /\ pc = "rollback"
    /\ IF applied = {} THEN Goto("refused") /\ UNCHANGED <<work, applied, odd>>
       ELSE \E f \in applied :
              /\ \/ work' = [work EXCEPT ![f] = Restored(f)] /\ UNCHANGED odd
                 \/ odd' = odd \cup {"torn"} /\ UNCHANGED work
              /\ applied' = applied \ {f}
              /\ UNCHANGED pc
    /\ UNCHANGED <<wt, head, commits, index, snap, batch, todo, file, actual, delta, strays>>

-------------------------------------------------------------------------------
(* checkpoint_commit                                                       *)

Enumerate ==
    /\ pc = "enumerate"
    /\ actual' = Changes
    /\ Goto(IF Changes # {} /\ Changes \subseteq Allowed THEN "add" ELSE "halted")
    /\ UNCHANGED <<repo, snap, batch, applying, delta, history>>

\* A path in neither the index nor the directory is fatal to git add; a hidden
\* one makes it fail when it has added the others. The deletions already staged
\* are read just before.
Add ==
    /\ pc = "add"
    /\ LET to_add == {f \in actual : ~ (head[f] # "none" /\ index[f] = "none")}
           known  == \A f \in to_add : index[f] # "none" \/ work[f] # "none"
       IN  /\ index' = [f \in Files |-> IF known /\ f \in to_add \ Hidden
                                        THEN work[f] ELSE index[f]]
           /\ Goto(IF known /\ to_add \cap Hidden = {} THEN "compare" ELSE "halted")
    /\ UNCHANGED <<wt, head, commits, work, snap, batch, applying, actual, delta, history>>

Compare ==
    /\ pc = "compare"
    /\ Goto(IF Staged = actual THEN "commit" ELSE "halted")
    /\ UNCHANGED <<repo, snap, batch, applying, actual, delta, history>>

\* git commit commits the index as it then is.
Commit ==
    /\ pc = "commit"
    /\ IF Staged = {} THEN Goto("halted") /\ UNCHANGED <<head, commits>>
       ELSE /\ head' = index /\ commits' = commits + 1
            /\ Goto("verify")
    /\ UNCHANGED <<wt, index, work, snap, batch, applying, actual, delta, history>>

Verify ==
    /\ pc = "verify"
    /\ \E blind \in Blindness : Goto(IF Clean(blind) THEN "capture" ELSE "halted")
    /\ UNCHANGED <<repo, snap, batch, applying, actual, delta, history>>

-------------------------------------------------------------------------------
(* capture_delta                                                           *)

Capture ==
    /\ pc = "capture"
    /\ \E blind \in Blindness :
         Goto(IF wt = "ready" /\ Clean(blind) THEN "ckpt" ELSE "halted")
    /\ UNCHANGED <<repo, snap, batch, applying, actual, delta, history>>

\* rev-parse HEAD^{commit}, then HEAD^{tree}.
ReadCommit ==
    /\ pc = "ckpt"
    /\ delta' = [delta EXCEPT !.ckpt = head]
    /\ Goto("tree")
    /\ UNCHANGED <<repo, snap, batch, applying, actual, history>>

ReadTree ==
    /\ pc = "tree"
    /\ delta' = [delta EXCEPT !.tree = head]
    /\ Goto("scope")
    /\ UNCHANGED <<repo, snap, batch, applying, actual, history>>

\* Mutant: what the checkpoint let through is taken as it is.
ScopeUnchecked ==
    /\ pc = "scope"
    /\ Goto(IF Differs(Base, delta.ckpt) # {} THEN "captured" ELSE "halted")
    /\ UNCHANGED <<repo, snap, batch, applying, actual, delta, history>>

\* The changes of the commit that was read; files to hash may have gone.
Scope ==
    /\ pc = "scope"
    /\ LET changes == Differs(Base, delta.ckpt)
       IN  Goto(IF /\ changes # {} /\ changes \subseteq Allowed
                   /\ \A f \in changes : delta.ckpt[f] # "none" => work[f] # "none"
                THEN "captured" ELSE "halted")
    /\ UNCHANGED <<repo, snap, batch, applying, actual, delta, history>>

\* A git command or a file operation fails, or the agent does: GitCommandError,
\* WorktreeError and OSError all halt the task. (In apply_mutations an error
\* leads to the rollback.)
Fails ==
    /\ pc \in BEFORE_PREFLIGHT \cup CHECKPOINTING \cup CAPTURING
    /\ Goto("halted")
    /\ UNCHANGED <<repo, snap, batch, applying, actual, delta, history>>

Implement ==
    \/ Reuse \/ AddWorktree \/ WriteManifest
    \/ SnapshotFiles \/ Answer \/ Preflight
    \/ Prepare \/ Recheck \/ ApplyFile \/ Rollback
    \/ Enumerate \/ Add \/ Compare \/ Commit \/ Verify
    \/ Capture \/ ReadCommit \/ ReadTree \/ Scope \/ Fails

-------------------------------------------------------------------------------
(* Other processes                                                         *)

\* What the properties forgive: a commit that the preflight cannot see, any
\* act between the preflight and the reading of the checkpoint, a commit
\* between the two readings, a commit when the tests have been run, and a
\* change that is taken back.
Forgiven(act) ==
    CASE pc \in BEFORE_PREFLIGHT         -> IF act = "commit" THEN {"early"} ELSE {}
      [] pc \in MUTATING \cup CHECKPOINTING -> {"late"}
      [] pc = "tree"                     -> IF act = "commit" THEN {"split"} ELSE {}
      [] pc \in TESTED                   -> IF act = "commit" THEN {"after"} ELSE {}
      [] OTHER                           -> {}

\* Somebody writes or deletes a file, and may stage and commit it.
Stray(act) ==
    /\ strays < MaxStrays
    /\ wt \in {"bare", "ready"}
    /\ \E f \in Files, c \in {"stray", "none"} :
         /\ work' = [work EXCEPT ![f] = c]
         /\ index' = IF act = "write" THEN index ELSE [index EXCEPT ![f] = c]
    /\ IF act = "commit" /\ index' # head
       THEN head' = index' /\ commits' = commits + 1
       ELSE UNCHANGED <<head, commits>>
    /\ strays' = strays + 1
    /\ odd' = odd \cup Forgiven(act)
                  \cup (IF Dirty /\ ~ Dirty' /\ head' = head THEN {"undone"} ELSE {})
    /\ UNCHANGED <<wt, engine>>
===============================================================================
