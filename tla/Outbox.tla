------------------------------- MODULE Outbox -------------------------------
(***************************************************************************)
(* The transactional outbox: outbox.py process_due and the store.py        *)
(* operations on the outbox table.  A worker reads the due rows in one     *)
(* SELECT, outside any transaction; sends them one by one; marks each      *)
(* after its send.  The first mark opens the transaction that holds the    *)
(* SQLite write lock until the caller commits the whole batch, so a crash  *)
(* or a busy database forgets every mark of the batch but no send.         *)
(* Times are relative to now: "wait" is what is left until next_attempt_at *)
(* and a Tick takes one from every wait.                                   *)
(***************************************************************************)
EXTENDS Naturals, FiniteSets, FiniteSetsExt

CONSTANTS Workers,      \* callers of process_due
          Msgs,         \* messages, numbered in (created_at, message_id) order
          MaxAttempts,  \* max_attempts
          BaseDelay,    \* base_delay_seconds
          MaxCrashes    \* bound on crashes of workers

ASSUME WorkersAssumption  == Workers # {}
ASSUME MsgsAssumption     == Msgs \subseteq Nat
ASSUME AttemptsAssumption == MaxAttempts \in Nat \ {0}
ASSUME DelayAssumption    == BaseDelay \in Nat
ASSUME CrashesAssumption  == MaxCrashes \in Nat

VARIABLES
    rows,     \* the committed outbox table
    work,     \* the table as the open write transaction sees it
    writer,   \* the workers that hold the write lock: {} or {w}
    batch,    \* rows a worker has read and not sent yet: message -> attempts read
    sending,  \* the send a worker has made and not marked: message, how it ended
    raised,   \* sends of a message that raised
    received, \* sends of a message that returned
    crashes,
    overlapped \* history: two workers have been at work at the same time
vars == <<rows, work, writer, batch, sending, raised, received, crashes, overlapped>>
receiver == <<raised, received>>

Statuses == {"absent", "pending", "delivered", "failed"}
Row(status, attempts, wait) == [status |-> status, attempts |-> attempts, wait |-> wait]
NoSend == [msg |-> 0, attempts |-> 0, ok |-> FALSE]

(* The delay before attempt a + 1, and the longest one there is.           *)
Backoff(a) == BaseDelay * 2^(a - 1)
MaxWait == Backoff(MaxAttempts)
Less(a, b) == IF a > b THEN a - b ELSE 0

Init ==
    /\ rows = [m \in Msgs |-> Row("absent", 0, 0)]
    /\ work = rows
    /\ writer = {}
    /\ batch = [w \in Workers |-> <<>>]
    /\ sending = [w \in Workers |-> NoSend]
    /\ raised = [m \in Msgs |-> 0]
    /\ received = [m \in Msgs |-> 0]
    /\ crashes = 0 /\ overlapped = FALSE

(* insert_outbox, committed by the caller.                                 *)
Enqueue(m) ==
    /\ writer = {}
    /\ rows[m].status = "absent"
    /\ rows' = [rows EXCEPT ![m] = Row("pending", 0, 0)]
    /\ work' = rows'
    /\ UNCHANGED <<writer, batch, sending, receiver, crashes, overlapped>>

Idle(w) == batch[w] = <<>> /\ sending[w] = NoSend /\ w \notin writer

\* Mutant: the SELECT forgets the status.
DueWhenTimeHasCome == {m \in Msgs : rows[m].status # "absent" /\ rows[m].attempts < MaxAttempts
                                     /\ rows[m].wait = 0}

Due == {m \in Msgs : rows[m].status = "pending" /\ rows[m].wait = 0}

(* The SELECT of process_due.                                              *)
Begin(w) ==
    /\ Idle(w) /\ Due # {}
    /\ batch' = [batch EXCEPT ![w] = [m \in Due |-> rows[m].attempts]]
    /\ overlapped' = (overlapped \/ \E v \in Workers : ~Idle(v))
    /\ UNCHANGED <<rows, work, writer, sending, receiver, crashes>>

(* sender.send of the first row left; what raised may have arrived.        *)
Send(w) ==
    /\ batch[w] # <<>> /\ sending[w] = NoSend
    /\ LET m == Min(DOMAIN batch[w])
       IN  /\ \E ok \in BOOLEAN :
                /\ sending' = [sending EXCEPT ![w] =
                     [msg |-> m, attempts |-> batch[w][m] + 1, ok |-> ok]]
                /\ received' = IF ok THEN [received EXCEPT ![m] = Min({2, @ + 1})] ELSE received
                /\ raised' = IF ok THEN raised
                             ELSE [raised EXCEPT ![m] = Min({MaxAttempts, @ + 1})]
           /\ batch' = [batch EXCEPT ![w] = [n \in DOMAIN @ \ {m} |-> @[n]]]
    /\ UNCHANGED <<rows, work, writer, crashes, overlapped>>

\* Mutant: max_attempts is compared with one attempt too many.
MarkedEarly(s, left) ==
    IF s.ok THEN Row("delivered", s.attempts, 0)
    ELSE IF s.attempts + 1 >= MaxAttempts THEN Row("failed", s.attempts, 0)
    ELSE Row("pending", s.attempts, left)

\* Mutant: the limit starts the count again instead of giving up.
MarkedForever(s, left) ==
    IF s.ok THEN Row("delivered", s.attempts, 0)
    ELSE Row("pending", IF s.attempts >= MaxAttempts THEN 0 ELSE s.attempts,
             left)

(* What the branch of process_due after a send writes. The backoff counts  *)
(* from the start of the batch, and "left" is what is left of it by now.   *)
Marked(s, left) ==
    IF s.ok THEN Row("delivered", s.attempts, 0)
    ELSE IF s.attempts >= MaxAttempts THEN Row("failed", s.attempts, 0)
    ELSE Row("pending", s.attempts, left)

\* Mutant: mark_outbox_* without "AND status = 'pending'".
UpdateAnyStatus(m, new) == [work EXCEPT ![m] = new]

(* mark_outbox_*: UPDATE ... WHERE message_id = ? AND status = 'pending'.  *)
Update(m, new) == IF work[m].status = "pending" THEN [work EXCEPT ![m] = new] ELSE work

Mark(w) ==
    /\ sending[w] # NoSend
    /\ writer \subseteq {w}
    /\ \E left \in 0..Backoff(sending[w].attempts) :
         work' = Update(sending[w].msg, Marked(sending[w], left))
    /\ writer' = {w}
    /\ sending' = [sending EXCEPT ![w] = NoSend]
    /\ UNCHANGED <<rows, batch, receiver, crashes, overlapped>>

Forget(w) ==
    /\ batch' = [batch EXCEPT ![w] = <<>>]
    /\ sending' = [sending EXCEPT ![w] = NoSend]

(* The write lock is not free within busy_timeout: OperationalError leaves *)
(* process_due and the rest of the batch is neither sent nor marked.       *)
MarkBusy(w) ==
    /\ sending[w] # NoSend
    /\ ~ writer \subseteq {w}
    /\ Forget(w)
    /\ UNCHANGED <<rows, work, writer, receiver, crashes, overlapped>>

(* The caller commits when process_due has returned.                       *)
Commit(w) ==
    /\ w \in writer /\ batch[w] = <<>> /\ sending[w] = NoSend
    /\ rows' = work
    /\ writer' = {}
    /\ UNCHANGED <<work, batch, sending, receiver, crashes, overlapped>>

(* The process dies: its open transaction is rolled back.                  *)
Crash(w) ==
    /\ crashes < MaxCrashes
    /\ ~Idle(w)
    /\ crashes' = crashes + 1
    /\ Forget(w)
    /\ IF w \in writer THEN writer' = {} /\ work' = rows
                     ELSE UNCHANGED <<writer, work>>
    /\ UNCHANGED <<rows, receiver, overlapped>>

Elapsed(table) == [m \in Msgs |-> [table[m] EXCEPT !.wait = Less(@, 1)]]

(* Time passes where it matters: for a wait.                               *)
Tick ==
    /\ rows' = Elapsed(rows)
    /\ work' = Elapsed(work)
    /\ <<rows, work>>' # <<rows, work>>
    /\ UNCHANGED <<writer, batch, sending, receiver, crashes, overlapped>>

Step(w) == Begin(w) \/ Send(w) \/ Mark(w) \/ MarkBusy(w) \/ Commit(w)
Next == \/ \E m \in Msgs : Enqueue(m)
        \/ \E w \in Workers : Step(w) \/ Crash(w)
        \/ Tick

Spec == Init /\ [][Next]_vars

(* A worker that is called again and again, and a clock that runs.         *)
FairSpec == Spec /\ WF_vars(Tick) /\ \A w \in Workers : WF_vars(Step(w))

(***************************************************************************)
(* Properties.                                                             *)
(***************************************************************************)
RowType == [status : Statuses, attempts : 0..MaxAttempts, wait : 0..MaxWait]

TypeOK ==
    /\ rows \in [Msgs -> RowType]
    /\ work \in [Msgs -> RowType]
    /\ writer \subseteq Workers /\ Cardinality(writer) <= 1
    /\ \A w \in Workers :
          /\ DOMAIN batch[w] \subseteq Msgs
          /\ \A m \in DOMAIN batch[w] : batch[w][m] \in 0..MaxAttempts - 1
          /\ \/ sending[w] = NoSend
             \/ sending[w] \in [msg : Msgs, attempts : 1..MaxAttempts, ok : BOOLEAN]
    /\ raised \in [Msgs -> 0..MaxAttempts] /\ received \in [Msgs -> 0..2]
    /\ crashes \in 0..MaxCrashes /\ overlapped \in BOOLEAN

(* What the table says of a send is true, although sends and marks of      *)
(* several workers cross, and batches are forgotten between the two: a     *)
(* delivered message has been accepted by the sender at least once, a      *)
(* failed one has been refused max_attempts times, and no row counts more  *)
(* attempts than there were.                                               *)
TableIsTruthful ==
    \A m \in Msgs :
       /\ rows[m].status = "delivered" => received[m] > 0
       /\ rows[m].status = "failed" => raised[m] >= MaxAttempts
       /\ rows[m].status = "pending" => raised[m] >= rows[m].attempts

(* A message that is delivered or failed stays as it is, whatever a worker *)
(* that read it while it was pending still marks.                          *)
SettledIsFinal ==
    [][\A m \in Msgs : rows[m].status \in {"delivered", "failed"} => rows'[m] = rows[m]]_vars

(* As long as one worker is at work at a time, a second accepted send of a *)
(* message needs a crash between the first one and the commit: nothing     *)
(* else makes the delivery more than once.                                 *)
DuplicatesNeedACrash ==
    ~overlapped => \A m \in Msgs : received[m] > 1 => crashes > 0

(* At least once: every message that is enqueued ends delivered or failed. *)
Settles == \A m \in Msgs :
    rows[m].status = "pending" ~> rows[m].status \in {"delivered", "failed"}
=============================================================================
