------------------------------- MODULE Evidence -------------------------------
(***************************************************************************)
(* From the captured delta to a task that is ready: produce_evidence       *)
(* (evidence/bundle.py, evidence/runner.py) tests the worktree, brings     *)
(* what the commands printed through a scratch directory into the artifact *)
(* store (artifacts/store.py), and a reviewer sees the patch. The scratch  *)
(* directory is shared by all tasks of a configuration. Test commands that *)
(* write to the worktree are among the strays.                             *)
(***************************************************************************)
EXTENDS Worktree

CONSTANT Checks          \* check ids of plan.test_plan

ASSUME ChecksAssumption == Checks # {} /\ "evidence" \notin Checks

VARIABLES
  tested,    \* the trees that the commands ran on
  bound,     \* head0
  scratch,   \* who wrote a scratch file last
  store,     \* data and sidecar of the task's artifacts
  left       \* outputs that are not in the store yet

evVars == <<tested, bound, scratch, store, left>>

\* The output of a check (its stdout and stderr), and the record itself.
Outputs == Checks \cup {"evidence"}

Origin == {"none", "own", "other"}

EvInit ==
    /\ tested = {}
    /\ bound = 0
    /\ scratch = [o \in Outputs |-> "none"]
    /\ store = [o \in Outputs |-> [data |-> "none", meta |-> "none"]]
    /\ left = {}

-------------------------------------------------------------------------------
(* The commands, between two looks at the worktree.                        *)

Keep(rest) == UNCHANGED <<repo, snap, batch, applying, actual, delta, history, rest>>

\* Here git status is asked as well as preflight, and may not fail.
CheckClean ==
    /\ pc \in {"captured", "reclean"}
    /\ Goto(IF Dirty THEN "halted" ELSE IF pc = "captured" THEN "bind" ELSE "rebind")
    /\ Keep(evVars)

\* Mutant: the tests are run on whatever is checked out.
BindAnything ==
    /\ pc = "bind"
    /\ bound' = commits
    /\ Goto("run")
    /\ Keep(<<tested, scratch, store, left>>)

Bind ==
    /\ pc = "bind"
    /\ bound' = commits
    /\ Goto(IF head = delta.tree THEN "run" ELSE "halted")
    /\ Keep(<<tested, scratch, store, left>>)

\* run_command, for each check in turn; how it ends is a fact, not a failure.
RunCommand ==
    /\ pc = "run"
    /\ tested' = tested \cup {work}
    /\ Goto("run") \/ Goto("reclean")
    /\ Keep(<<bound, scratch, store, left>>)

\* Mutant: a commit made while the tests ran goes unnoticed.
RebindClean ==
    /\ pc = "rebind"
    /\ Goto("scratch")
    /\ left' = Checks
    /\ Keep(<<tested, bound, scratch, store>>)

Rebind ==
    /\ pc = "rebind"
    /\ Goto(IF commits = bound THEN "scratch" ELSE "halted")
    /\ left' = Checks
    /\ Keep(<<tested, bound, scratch, store>>)

-------------------------------------------------------------------------------
(* Scratch file, data, sidecar, comparison: for each check and then for    *)
(* the record.                                                             *)

Turn == IF left = {} THEN "evidence" ELSE CHOOSE o \in left : TRUE

WriteScratch ==
    /\ pc = "scratch"
    /\ scratch' = [scratch EXCEPT ![Turn] = "own"]
    /\ Goto("data")
    /\ Keep(<<tested, bound, store, left>>)

\* Another task of the same configuration writes its file of that name.
OtherTask(o) ==
    /\ scratch[o] = "own"
    /\ scratch' = [scratch EXCEPT ![o] = "other"]
    /\ UNCHANGED <<wtVars, tested, bound, store, left>>

\* Mutant: the sidecar is written before the data.
IngestSidecarFirst ==
    /\ pc = "data"
    /\ store' = [store EXCEPT ![Turn].meta = scratch[Turn]]
    /\ Goto("meta")
    /\ Keep(<<tested, bound, scratch, left>>)

IngestData ==
    /\ pc = "data"
    /\ IF store[Turn] = [data |-> "none", meta |-> "none"]
       THEN store' = [store EXCEPT ![Turn].data = scratch[Turn]] /\ Goto("meta")
       ELSE Goto("halted") /\ UNCHANGED store
    /\ Keep(<<tested, bound, scratch, left>>)

IngestMeta ==
    /\ pc = "meta"
    /\ \/ store' = [store EXCEPT ![Turn].meta = store[Turn].data] /\ Goto("match")
       \/ store' = [store EXCEPT ![Turn] = [data |-> "none", meta |-> "none"]] /\ Goto("halted")
    /\ Keep(<<tested, bound, scratch, left>>)

\* Mutant: the store's hash is taken for the command's.
MatchNothing ==
    /\ pc = "match"
    /\ Goto(IF left = {} THEN "review" ELSE "scratch")
    /\ left' = left \ {Turn}
    /\ Keep(<<tested, bound, scratch, store>>)

\* The hash of the record itself is not compared.
Match ==
    /\ pc = "match"
    /\ Goto(IF left = {} THEN "review"
            ELSE IF store[Turn].data = "own" THEN "scratch" ELSE "halted")
    /\ left' = left \ {Turn}
    /\ Keep(<<tested, bound, scratch, store>>)

\* The reviewer sees the patch up to delta.ckpt; then the policy decides.
Review ==
    /\ pc = "review"
    /\ Goto("ready") \/ Goto("halted")
    /\ Keep(evVars)

TestingFails ==
    /\ pc \in {"captured", "bind", "run", "reclean", "rebind", "scratch", "data", "match"}
    /\ Goto("halted")
    /\ Keep(evVars)

ProduceEvidence ==
    \/ CheckClean \/ Bind \/ RunCommand \/ Rebind
    \/ WriteScratch \/ IngestData \/ IngestMeta \/ Match
    \/ Review \/ TestingFails
===============================================================================
