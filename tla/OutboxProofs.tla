------------------------------ MODULE OutboxProofs ------------------------------
(***************************************************************************)
(* What the outbox table says of the sends is true, what is settled stays, *)
(* and only a crash or two workers at once send a message twice: for any   *)
(* number of workers, messages and attempts.                               *)
(***************************************************************************)
EXTENDS Outbox, WellFoundedInduction, TLAPS

-------------------------------------------------------------------------------
(* Numbers                                                                 *)

\* Messages are sent in their order: the first of those left is one of them.
LEMMA MinIsMember ==
    ASSUME NEW S \in SUBSET Nat, S # {}
    PROVE  Min(S) \in S
PROOF
  <1>1. \E x \in S : \A y \in S : ~ (<<y, x>> \in OpToRel(<, Nat))
    BY NatLessThanWellFounded, WFMin
  <1>2. PICK x \in S : \A y \in S : ~ (<<y, x>> \in OpToRel(<, Nat))
    BY <1>1
  <1>3. ASSUME NEW y \in S PROVE x <= y
    <2>1. <<y, x>> \in Nat \X Nat /\ ~ <<y, x>> \in OpToRel(<, Nat)
      BY <1>2
    <2>2. ~ y < x
      BY <2>1 DEF OpToRel
    <2> QED
      BY <2>2
  <1> QED
    BY <1>3 DEF Min

LEMMA MinOfTwo ==
    ASSUME NEW a \in Nat, NEW b \in Nat
    PROVE  /\ Min({a, b}) \in {a, b}
           /\ a <= b => Min({a, b}) = a
           /\ b <= a => Min({a, b}) = b
  BY DEF Min

-------------------------------------------------------------------------------
(* Types, without the bound on waits                                       *)

Table == [Msgs -> [status : Statuses, attempts : 0..MaxAttempts, wait : Nat]]

Batch == UNION {[S -> 0..MaxAttempts - 1] : S \in SUBSET Msgs}

Sent == [msg : Msgs, attempts : 1..MaxAttempts, ok : BOOLEAN]

OutboxTypes ==
    /\ rows \in Table /\ work \in Table
    /\ writer \in SUBSET Workers
    /\ batch \in [Workers -> Batch]
    /\ sending \in [Workers -> Sent \cup {NoSend}]
    /\ raised \in [Msgs -> 0..MaxAttempts] /\ received \in [Msgs -> 0..2]
    /\ crashes \in Nat /\ overlapped \in BOOLEAN

\* A row that may be sent again has an attempt left; a settled one waits for
\* nothing.
Sound(row) ==
    /\ row.status = "pending" => row.attempts < MaxAttempts
    /\ row.status \in {"delivered", "failed"} => row.wait = 0

Wellformed == OutboxTypes /\ \A m \in Msgs : Sound(rows[m]) /\ Sound(work[m])

USE MsgsAssumption, AttemptsAssumption, DelayAssumption, CrashesAssumption

LEMMA NoSendIsNone == NoSend \notin Sent
  BY DEF NoSend, Sent

\* What a mark writes of a send.
LEMMA MarkedTypes ==
    ASSUME NEW s \in Sent, NEW left \in Nat
    PROVE  /\ Marked(s, left) \in [status : Statuses, attempts : 0..MaxAttempts, wait : Nat]
           /\ Sound(Marked(s, left))
           /\ Marked(s, left).attempts = s.attempts
           /\ Marked(s, left).status =
                IF s.ok THEN "delivered"
                ELSE IF s.attempts >= MaxAttempts THEN "failed" ELSE "pending"
PROOF
  <1>1. s.attempts \in 1..MaxAttempts /\ s.ok \in BOOLEAN
    BY DEF Sent
  <1> QED
    BY <1>1 DEF Marked, Row, Statuses, Sound

\* The first row left and what is left after it.
LEMMA FirstOfBatch ==
    ASSUME NEW b \in Batch, b # <<>>
    PROVE  /\ Min(DOMAIN b) \in DOMAIN b
           /\ Min(DOMAIN b) \in Msgs
           /\ b[Min(DOMAIN b)] \in 0..MaxAttempts - 1
           /\ [n \in DOMAIN b \ {Min(DOMAIN b)} |-> b[n]] \in Batch
PROOF
  <1>1. PICK S \in SUBSET Msgs : b \in [S -> 0..MaxAttempts - 1]
    BY DEF Batch
  <1>2. S # {} /\ DOMAIN b = S
    BY <1>1
  <1>3. Min(S) \in S
    BY <1>2, MinIsMember
  <1>4. [n \in S \ {Min(S)} |-> b[n]] \in [S \ {Min(S)} -> 0..MaxAttempts - 1]
    BY <1>1
  <1>5. S \ {Min(S)} \in SUBSET Msgs
    OBVIOUS
  <1>6. [n \in S \ {Min(S)} |-> b[n]] \in Batch
    BY <1>4, <1>5 DEF Batch
  <1> QED
    BY <1>1, <1>2, <1>3, <1>6

LEMMA BatchMembers ==
    ASSUME NEW b \in Batch, NEW m \in DOMAIN b
    PROVE  m \in Msgs /\ b[m] \in 0..MaxAttempts - 1
PROOF
  <1>1. PICK S \in SUBSET Msgs : b \in [S -> 0..MaxAttempts - 1]
    BY DEF Batch
  <1> QED
    BY <1>1

LEMMA EmptyBatch == <<>> \in Batch
PROOF
  <1>1. <<>> \in [{} -> 0..MaxAttempts - 1]
    OBVIOUS
  <1> QED
    BY <1>1 DEF Batch

\* Time that passes changes nothing but waits.
LEMMA ElapsedTypes ==
    ASSUME NEW t \in Table
    PROVE  /\ Elapsed(t) \in Table
           /\ \A m \in Msgs : /\ Elapsed(t)[m].status = t[m].status
                              /\ Elapsed(t)[m].attempts = t[m].attempts
                              /\ Elapsed(t)[m].wait \in Nat
                              /\ Elapsed(t)[m].wait <= t[m].wait
PROOF
  <1>1. ASSUME NEW m \in Msgs
        PROVE  /\ Elapsed(t)[m] = [t[m] EXCEPT !.wait = Less(t[m].wait, 1)]
               /\ Less(t[m].wait, 1) \in Nat /\ Less(t[m].wait, 1) <= t[m].wait
    BY DEF Elapsed, Less, Table
  <1>2. Elapsed(t) = [m \in Msgs |-> Elapsed(t)[m]]
    BY DEF Elapsed
  <1>3. ASSUME NEW m \in Msgs
        PROVE  /\ Elapsed(t)[m] \in [status : Statuses, attempts : 0..MaxAttempts, wait : Nat]
               /\ Elapsed(t)[m].status = t[m].status
               /\ Elapsed(t)[m].attempts = t[m].attempts
               /\ Elapsed(t)[m].wait = Less(t[m].wait, 1)
    <2>1. t[m] \in [status : Statuses, attempts : 0..MaxAttempts, wait : Nat]
      BY DEF Table
    <2> QED
      BY <1>1, <2>1
  <1> QED
    BY <1>1, <1>2, <1>3 DEF Table

\* Every variable keeps its type, and a pending row has an attempt left.
THEOREM OutboxTypesInvariant == Spec => []Wellformed
PROOF
  <1> DEFINE RowSet == [status : Statuses, attempts : 0..MaxAttempts, wait : Nat]
  <1>1. Init => Wellformed
    <2> SUFFICES ASSUME Init PROVE Wellformed
      OBVIOUS
    <2>1. Row("absent", 0, 0) \in RowSet /\ Sound(Row("absent", 0, 0))
      BY DEF Row, Statuses, Sound
    <2>2. rows \in Table /\ work \in Table
      BY <2>1 DEF Init, Table
    <2>3. batch \in [Workers -> Batch]
      BY EmptyBatch DEF Init
    <2>4. sending \in [Workers -> Sent \cup {NoSend}]
      BY DEF Init
    <2>5. raised \in [Msgs -> 0..MaxAttempts] /\ received \in [Msgs -> 0..2]
      BY DEF Init
    <2> QED
      BY <2>1, <2>2, <2>3, <2>4, <2>5 DEF Init, Wellformed, OutboxTypes
  <1>2. ASSUME Wellformed, [Next]_vars PROVE Wellformed'
    <2> USE <1>2 DEF Wellformed, OutboxTypes
    <2>1. ASSUME NEW m \in Msgs, Enqueue(m) PROVE Wellformed'
      <3>1. Row("pending", 0, 0) \in RowSet /\ Sound(Row("pending", 0, 0))
        BY DEF Row, Statuses, Sound
      <3>2. rows' = [rows EXCEPT ![m] = Row("pending", 0, 0)] /\ work' = rows'
        BY <2>1 DEF Enqueue
      <3>3. rows' \in Table /\ work' \in Table
        BY <3>1, <3>2 DEF Table
      <3>4. \A n \in Msgs : Sound(rows'[n]) /\ Sound(work'[n])
        BY <3>1, <3>2 DEF Table
      <3> QED
        BY <2>1, <3>3, <3>4 DEF Enqueue, receiver
    <2>2. ASSUME NEW w \in Workers, Begin(w) PROVE Wellformed'
      <3>1. \A m \in Due : rows[m].attempts \in 0..MaxAttempts - 1
        BY DEF Due, Table, Sound
      <3>2. Due \in SUBSET Msgs
        BY DEF Due
      <3>3. [m \in Due |-> rows[m].attempts] \in Batch
        BY <3>1, <3>2 DEF Batch
      <3>4. batch' \in [Workers -> Batch]
        BY <2>2, <3>3 DEF Begin
      <3>5. overlapped' \in BOOLEAN
        BY <2>2 DEF Begin
      <3> QED
        BY <2>2, <3>4, <3>5 DEF Begin, receiver
    <2>3. ASSUME NEW w \in Workers, Send(w) PROVE Wellformed'
      <3> DEFINE m == Min(DOMAIN batch[w])
      <3>1. batch[w] \in Batch /\ batch[w] # <<>>
        BY <2>3 DEF Send
      <3>2. /\ m \in DOMAIN batch[w] /\ m \in Msgs /\ batch[w][m] \in 0..MaxAttempts - 1
            /\ [n \in DOMAIN batch[w] \ {m} |-> batch[w][n]] \in Batch
        BY <3>1, FirstOfBatch
      <3>3. PICK ok \in BOOLEAN :
              /\ sending' = [sending EXCEPT ![w] =
                   [msg |-> m, attempts |-> batch[w][m] + 1, ok |-> ok]]
              /\ received' = IF ok THEN [received EXCEPT ![m] = Min({2, @ + 1})] ELSE received
              /\ raised' = IF ok THEN raised
                           ELSE [raised EXCEPT ![m] = Min({MaxAttempts, @ + 1})]
        BY <2>3 DEF Send
      <3>4. batch' \in [Workers -> Batch]
        BY <2>3, <3>2 DEF Send
      <3>5. [msg |-> m, attempts |-> batch[w][m] + 1, ok |-> ok] \in Sent
        BY <3>2 DEF Sent
      <3>6. sending' \in [Workers -> Sent \cup {NoSend}]
        BY <3>3, <3>5
      <3>7. /\ Min({2, received[m] + 1}) \in 0..2
            /\ Min({MaxAttempts, raised[m] + 1}) \in 0..MaxAttempts
        <4>1. received[m] + 1 \in Nat /\ raised[m] + 1 \in Nat /\ 2 \in Nat /\ MaxAttempts \in Nat
          BY <3>2
        <4> QED
          BY <4>1, MinOfTwo
      <3>8. raised' \in [Msgs -> 0..MaxAttempts] /\ received' \in [Msgs -> 0..2]
        BY <3>2, <3>3, <3>7
      <3> QED
        BY <2>3, <3>4, <3>6, <3>8 DEF Send
    <2>4. ASSUME NEW w \in Workers, Mark(w) PROVE Wellformed'
      <3>1. sending[w] \in Sent
        BY <2>4 DEF Mark
      <3>2. PICK left \in 0..Backoff(sending[w].attempts) :
              work' = Update(sending[w].msg, Marked(sending[w], left))
        BY <2>4 DEF Mark
      <3>3. left \in Nat
        OBVIOUS
      <3>4. Marked(sending[w], left) \in RowSet /\ Sound(Marked(sending[w], left))
        BY <3>1, <3>3, MarkedTypes
      <3>5. work' \in Table /\ \A n \in Msgs : Sound(work'[n])
        BY <3>2, <3>4 DEF Update, Table
      <3>6. sending' \in [Workers -> Sent \cup {NoSend}] /\ writer' \in SUBSET Workers
        BY <2>4 DEF Mark
      <3> QED
        BY <2>4, <3>5, <3>6 DEF Mark, receiver
    <2>5. ASSUME NEW w \in Workers, Forget(w)
          PROVE  batch' \in [Workers -> Batch] /\ sending' \in [Workers -> Sent \cup {NoSend}]
      BY <2>5, EmptyBatch DEF Forget
    <2>6. ASSUME NEW w \in Workers, MarkBusy(w) PROVE Wellformed'
      BY <2>5, <2>6 DEF MarkBusy, receiver
    <2>7. ASSUME NEW w \in Workers, Commit(w) PROVE Wellformed'
      BY <2>7 DEF Commit, receiver
    <2>8. ASSUME NEW w \in Workers, Crash(w) PROVE Wellformed'
      BY <2>5, <2>8 DEF Crash, receiver
    <2>9. CASE Tick
      <3>1. rows' \in Table /\ work' \in Table
        BY <2>9, ElapsedTypes DEF Tick
      <3>2. ASSUME NEW m \in Msgs PROVE Sound(rows'[m]) /\ Sound(work'[m])
        <4>1. /\ rows'[m].status = rows[m].status /\ work'[m].status = work[m].status
              /\ rows'[m].attempts = rows[m].attempts /\ work'[m].attempts = work[m].attempts
              /\ rows'[m].wait \in Nat /\ rows'[m].wait <= rows[m].wait
              /\ work'[m].wait \in Nat /\ work'[m].wait <= work[m].wait
          BY <2>9, ElapsedTypes DEF Tick
        <4>2. Sound(rows[m]) /\ Sound(work[m])
          OBVIOUS
        <4> QED
          BY <4>1, <4>2 DEF Sound
      <3> QED
        BY <2>9, <3>1, <3>2 DEF Tick, receiver
    <2>10. CASE UNCHANGED vars
      BY <2>10 DEF vars, receiver
    <2> QED
      BY <2>1, <2>2, <2>3, <2>4, <2>6, <2>7, <2>8, <2>9, <2>10 DEF Next, Step
  <1> QED
    BY <1>1, <1>2, PTL DEF Spec

-------------------------------------------------------------------------------
(* The table is true of the sends                                          *)

\* What a row says of the sends that were refused and accepted is true.
TrueOf(row, refused, accepted) ==
    /\ row.status = "delivered" => accepted > 0
    /\ row.status = "failed" => refused >= MaxAttempts
    /\ row.status = "pending" => refused >= row.attempts

\* What is to be written is true already, and the attempts read were made.
Truthful ==
    /\ \A m \in Msgs : /\ TrueOf(rows[m], raised[m], received[m])
                       /\ TrueOf(work[m], raised[m], received[m])
    /\ \A w \in Workers : \A m \in DOMAIN batch[w] : raised[m] >= batch[w][m]
    /\ \A w \in Workers : sending[w] # NoSend =>
         IF sending[w].ok THEN received[sending[w].msg] > 0
         ELSE raised[sending[w].msg] >= sending[w].attempts

\* Only a send counts, and none is forgotten.
LEMMA CountsGrow ==
    ASSUME Wellformed, Wellformed', [Next]_vars, NEW m \in Msgs
    PROVE  /\ raised[m] \in Nat /\ raised'[m] \in Nat /\ raised'[m] >= raised[m]
           /\ received[m] \in Nat /\ received'[m] \in Nat /\ received'[m] >= received[m]
PROOF
  <1>1. /\ raised[m] \in 0..MaxAttempts /\ received[m] \in 0..2
        /\ raised'[m] \in 0..MaxAttempts /\ received'[m] \in 0..2
    BY DEF Wellformed, OutboxTypes
  <1>2. ASSUME NEW w \in Workers, Send(w)
        PROVE  raised'[m] >= raised[m] /\ received'[m] >= received[m]
    <2> DEFINE n == Min(DOMAIN batch[w])
    <2>1. PICK ok \in BOOLEAN :
            /\ received' = IF ok THEN [received EXCEPT ![n] = Min({2, @ + 1})] ELSE received
            /\ raised' = IF ok THEN raised
                         ELSE [raised EXCEPT ![n] = Min({MaxAttempts, @ + 1})]
      BY <1>2 DEF Send
    <2>2. /\ Min({2, received[m] + 1}) >= received[m]
          /\ Min({MaxAttempts, raised[m] + 1}) >= raised[m]
      BY <1>1, MinOfTwo
    <2>3. /\ m \in DOMAIN raised /\ m \in DOMAIN received
      BY DEF Wellformed, OutboxTypes
    <2>4. /\ received'[m] = received[m] \/ received'[m] = Min({2, received[m] + 1})
          /\ raised'[m] = raised[m] \/ raised'[m] = Min({MaxAttempts, raised[m] + 1})
      BY <2>1, <2>3
    <2> QED
      BY <1>1, <2>2, <2>4
  <1>3. CASE raised' = raised /\ received' = received
    BY <1>1, <1>3
  <1>4. ASSUME NEW k \in Msgs, Enqueue(k) PROVE raised' = raised /\ received' = received
    BY <1>4 DEF Enqueue, receiver
  <1>5. ASSUME NEW w \in Workers,
               Begin(w) \/ Mark(w) \/ MarkBusy(w) \/ Commit(w) \/ Crash(w)
        PROVE  raised' = raised /\ received' = received
    BY <1>5 DEF Begin, Mark, MarkBusy, Commit, Crash, receiver
  <1>6. CASE Tick \/ UNCHANGED vars
    BY <1>3, <1>6 DEF Tick, vars, receiver
  <1> QED
    BY <1>1, <1>2, <1>3, <1>4, <1>5, <1>6 DEF Next, Step

LEMMA TruthGrows ==
    ASSUME NEW row \in [status : Statuses, attempts : 0..MaxAttempts, wait : Nat],
           NEW a \in Nat, NEW b \in Nat, NEW c \in Nat, NEW d \in Nat,
           TrueOf(row, a, b), c >= a, d >= b
    PROVE  TrueOf(row, c, d)
  BY DEF TrueOf

LEMMA TruthfulInvariant == Spec => []Truthful
PROOF
  <1> DEFINE RowSet == [status : Statuses, attempts : 0..MaxAttempts, wait : Nat]
             True(t, m) == TrueOf(t[m], raised'[m], received'[m])
  <1>1. Init => Truthful
    BY DEF Init, Truthful, TrueOf, Row
  <1>2. ASSUME Wellformed, Wellformed', Truthful, [Next]_vars PROVE Truthful'
    <2>1. ASSUME NEW m \in Msgs
          PROVE  /\ raised[m] \in Nat /\ raised'[m] \in Nat /\ raised'[m] >= raised[m]
                 /\ received[m] \in Nat /\ received'[m] \in Nat /\ received'[m] >= received[m]
      BY <1>2, CountsGrow
    <2>2. ASSUME NEW m \in Msgs
          PROVE  /\ rows[m] \in RowSet /\ work[m] \in RowSet
                 /\ rows'[m] \in RowSet /\ work'[m] \in RowSet
      BY <1>2 DEF Wellformed, OutboxTypes, Table
    <2>3. ASSUME NEW m \in Msgs PROVE True(rows, m) /\ True(work, m)
      BY <1>2, <2>1, <2>2, TruthGrows DEF Truthful
    \* The batches and the sends of the workers.
    <2>4. ASSUME NEW w \in Workers, NEW m \in DOMAIN batch[w]
          PROVE  raised'[m] >= batch[w][m]
      <3>1. m \in Msgs /\ batch[w][m] \in Nat
        BY <1>2, BatchMembers DEF Wellformed, OutboxTypes
      <3>2. raised[m] >= batch[w][m]
        BY <1>2 DEF Truthful
      <3> QED
        BY <2>1, <3>1, <3>2
    <2>5. ASSUME NEW w \in Workers, sending[w] # NoSend
          PROVE  /\ sending[w].ok => received'[sending[w].msg] > 0
                 /\ ~ sending[w].ok => raised'[sending[w].msg] >= sending[w].attempts
      <3>1. sending[w].msg \in Msgs /\ sending[w].attempts \in Nat
        BY <1>2, <2>5 DEF Wellformed, OutboxTypes, Sent
      <3>2. /\ raised'[sending[w].msg] >= raised[sending[w].msg]
            /\ received'[sending[w].msg] >= received[sending[w].msg]
            /\ raised[sending[w].msg] \in Nat /\ raised'[sending[w].msg] \in Nat
            /\ received[sending[w].msg] \in Nat /\ received'[sending[w].msg] \in Nat
        BY <2>1, <3>1
      <3>3. IF sending[w].ok THEN received[sending[w].msg] > 0
            ELSE raised[sending[w].msg] >= sending[w].attempts
        BY <1>2, <2>5 DEF Truthful
      <3>4. CASE sending[w].ok
        BY <3>2, <3>3, <3>4
      <3>5. CASE ~ sending[w].ok
        BY <3>1, <3>2, <3>3, <3>5
      <3> QED
        BY <3>4, <3>5
    <2>6. ASSUME batch' = batch \/ \E w \in Workers : batch' = [batch EXCEPT ![w] = <<>>],
                 sending' = sending \/ \E w \in Workers : sending' = [sending EXCEPT ![w] = NoSend],
                 \A m \in Msgs : True(rows', m) /\ True(work', m)
          PROVE  Truthful'
      <3>1. \A w \in Workers : /\ batch'[w] = batch[w] \/ batch'[w] = <<>>
                               /\ sending'[w] = sending[w] \/ sending'[w] = NoSend
        BY <1>2, <2>6 DEF Wellformed, OutboxTypes
      <3> QED
        BY <2>4, <2>5, <2>6, <3>1 DEF Truthful
    <2>7. ASSUME NEW m \in Msgs, Enqueue(m) PROVE Truthful'
      <3>1. True([rows EXCEPT ![m] = Row("pending", 0, 0)], m)
        BY <1>2, <2>1 DEF TrueOf, Row, Wellformed, OutboxTypes, Table
      <3>2. \A n \in Msgs : True(rows', n) /\ True(work', n)
        BY <1>2, <2>3, <2>7, <3>1 DEF Enqueue, Wellformed, OutboxTypes, Table
      <3> QED
        BY <2>6, <2>7, <3>2 DEF Enqueue
    <2>8. ASSUME NEW w \in Workers, Begin(w) PROVE Truthful'
      <3>1. /\ batch' = [batch EXCEPT ![w] = [m \in Due |-> rows[m].attempts]]
            /\ UNCHANGED <<rows, work, sending>>
        BY <2>8 DEF Begin
      <3>2. \A m \in Due : m \in Msgs /\ raised'[m] >= rows[m].attempts
        BY <2>3 DEF Due, TrueOf
      <3>3. \A o \in Workers : \A m \in DOMAIN batch'[o] : raised'[m] >= batch'[o][m]
        BY <1>2, <2>4, <3>1, <3>2 DEF Wellformed, OutboxTypes
      <3> QED
        BY <2>3, <2>5, <3>1, <3>3 DEF Truthful
    <2>9. ASSUME NEW w \in Workers, Send(w) PROVE Truthful'
      <3> DEFINE n == Min(DOMAIN batch[w])
      <3>1. /\ n \in DOMAIN batch[w] /\ n \in Msgs /\ batch[w][n] \in 0..MaxAttempts - 1
        BY <1>2, <2>9, FirstOfBatch DEF Send, Wellformed, OutboxTypes
      <3>2. PICK ok \in BOOLEAN :
              /\ sending' = [sending EXCEPT ![w] =
                   [msg |-> n, attempts |-> batch[w][n] + 1, ok |-> ok]]
              /\ received' = IF ok THEN [received EXCEPT ![n] = Min({2, @ + 1})] ELSE received
              /\ raised' = IF ok THEN raised
                           ELSE [raised EXCEPT ![n] = Min({MaxAttempts, @ + 1})]
        BY <2>9 DEF Send
      <3>3. /\ ok => received'[n] > 0
            /\ ~ ok => raised'[n] >= batch[w][n] + 1
        <4>1. received[n] \in 0..2 /\ raised[n] \in 0..MaxAttempts /\ raised[n] >= batch[w][n]
          BY <1>2, <3>1 DEF Truthful, Wellformed, OutboxTypes
        <4>2. /\ Min({2, received[n] + 1}) > 0
              /\ Min({MaxAttempts, raised[n] + 1}) >= batch[w][n] + 1
          <5> DEFINE a == received[n] + 1
                     b == raised[n] + 1
          <5>1. a \in Nat /\ b \in Nat /\ a > 0 /\ b >= batch[w][n] + 1
            BY <3>1, <4>1
          <5>2. Min({2, a}) \in {2, a} /\ Min({MaxAttempts, b}) \in {MaxAttempts, b}
            <6> HIDE DEF a, b
            <6> QED
              BY <5>1, MinOfTwo
          <5> QED
            BY <3>1, <5>1, <5>2
        <4>3. n \in DOMAIN received /\ n \in DOMAIN raised
          BY <1>2, <3>1 DEF Wellformed, OutboxTypes
        <4> QED
          BY <3>2, <4>2, <4>3
      <3>4. \A o \in Workers : sending'[o] # NoSend =>
              IF sending'[o].ok THEN received'[sending'[o].msg] > 0
              ELSE raised'[sending'[o].msg] >= sending'[o].attempts
        BY <1>2, <2>5, <3>2, <3>3 DEF Wellformed, OutboxTypes
      <3>5. \A o \in Workers : \A m \in DOMAIN batch'[o] : raised'[m] >= batch'[o][m]
        <4>1. batch' = [batch EXCEPT ![w] = [k \in DOMAIN batch[w] \ {n} |-> batch[w][k]]]
          BY <2>9 DEF Send
        <4> QED
          BY <1>2, <2>4, <4>1 DEF Wellformed, OutboxTypes
      <3> QED
        BY <2>3, <2>9, <3>4, <3>5 DEF Send, Truthful
    <2>10. ASSUME NEW w \in Workers, Mark(w) PROVE Truthful'
      <3>1. sending[w] \in Sent /\ sending[w] # NoSend
        BY <1>2, <2>10 DEF Mark, Wellformed, OutboxTypes
      <3>2. PICK left \in 0..Backoff(sending[w].attempts) :
              work' = Update(sending[w].msg, Marked(sending[w], left))
        BY <2>10 DEF Mark
      <3>3. TrueOf(Marked(sending[w], left), raised'[sending[w].msg], received'[sending[w].msg])
        <4>1. /\ Marked(sending[w], left).attempts = sending[w].attempts
              /\ Marked(sending[w], left).status =
                   IF sending[w].ok THEN "delivered"
                   ELSE IF sending[w].attempts >= MaxAttempts THEN "failed" ELSE "pending"
          BY <3>1, MarkedTypes
        <4>2. sending[w].msg \in Msgs /\ sending[w].attempts \in 1..MaxAttempts
          BY <3>1 DEF Sent
        <4> QED
          BY <2>1, <2>5, <3>1, <4>1, <4>2 DEF TrueOf
      <3>4. \A m \in Msgs : True(rows', m) /\ True(work', m)
        BY <1>2, <2>3, <2>10, <3>2, <3>3 DEF Mark, Update, Wellformed, OutboxTypes, Table
      <3> QED
        BY <2>6, <2>10, <3>4 DEF Mark
    <2>11. ASSUME NEW w \in Workers, MarkBusy(w) \/ Commit(w) \/ Crash(w) PROVE Truthful'
      <3>1. /\ rows' \in {rows, work} /\ work' \in {rows, work}
            /\ batch' = batch \/ batch' = [batch EXCEPT ![w] = <<>>]
            /\ sending' = sending \/ sending' = [sending EXCEPT ![w] = NoSend]
        BY <2>11 DEF MarkBusy, Commit, Crash, Forget
      <3> QED
        BY <2>3, <2>6, <3>1
    <2>12. CASE Tick
      <3>1. ASSUME NEW m \in Msgs PROVE True(rows', m) /\ True(work', m)
        <4>1. /\ rows'[m].status = rows[m].status /\ rows'[m].attempts = rows[m].attempts
              /\ work'[m].status = work[m].status /\ work'[m].attempts = work[m].attempts
          BY <1>2, <2>12, ElapsedTypes DEF Tick, Wellformed, OutboxTypes
        <4> QED
          BY <2>3, <4>1 DEF TrueOf
      <3> QED
        BY <2>6, <2>12, <3>1 DEF Tick
    <2>13. CASE UNCHANGED vars
      BY <2>3, <2>6, <2>13 DEF vars
    <2> QED
      BY <1>2, <2>7, <2>8, <2>9, <2>10, <2>11, <2>12, <2>13 DEF Next, Step
  <1> QED
    BY <1>1, <1>2, OutboxTypesInvariant, PTL DEF Spec

\* Whatever order sends and marks of any number of workers come in: what the
\* table says of a message did happen to it.
THEOREM TableStaysTruthful == Spec => []TableIsTruthful
PROOF
  <1>1. Truthful => TableIsTruthful
    BY DEF Truthful, TrueOf, TableIsTruthful
  <1> QED
    BY <1>1, TruthfulInvariant, PTL

-------------------------------------------------------------------------------
(* The write lock                                                          *)

Settled(row) == row.status \in {"delivered", "failed"}

\* Without a writer there is one table; a writer has left settled rows alone.
OneWriter ==
    /\ writer = {} => work = rows
    /\ \A m \in Msgs : Settled(rows[m]) => work[m] = rows[m]

\* A settled row waits for nothing.
LEMMA SettledDoesNotAge ==
    ASSUME NEW t \in Table, NEW m \in Msgs, Sound(t[m]), Settled(t[m])
    PROVE  Elapsed(t)[m] = t[m]
PROOF
  <1>1. t[m] \in [status : Statuses, attempts : 0..MaxAttempts, wait : Nat]
    BY DEF Table
  <1>2. t[m].wait = 0 /\ Less(0, 1) = 0
    BY DEF Sound, Settled, Less
  <1>3. Elapsed(t)[m] = [t[m] EXCEPT !.wait = 0]
    BY <1>2 DEF Elapsed
  <1> QED
    BY <1>1, <1>2, <1>3

LEMMA OneWriterStep ==
    ASSUME Wellformed, OneWriter, [Next]_vars
    PROVE  /\ OneWriter'
           /\ \A m \in Msgs : Settled(rows[m]) => rows'[m] = rows[m]
PROOF
  <1>1. ASSUME NEW m \in Msgs, Enqueue(m)
        PROVE  work' = rows' /\ \A n \in Msgs : Settled(rows[n]) => rows'[n] = rows[n]
    BY <1>1 DEF Enqueue, Settled, Wellformed, OutboxTypes, Table
  <1>2. ASSUME NEW w \in Workers, Mark(w)
        PROVE  /\ writer' # {} /\ rows' = rows
               /\ \A m \in Msgs : Settled(work[m]) => work'[m] = work[m]
    BY <1>2 DEF Mark, Update, Settled, Wellformed, OutboxTypes, Table
  <1>3. CASE UNCHANGED <<rows, work, writer>>
    BY <1>3 DEF OneWriter
  <1>4. ASSUME NEW w \in Workers, Commit(w) PROVE rows' = work /\ work' = work
    BY <1>4 DEF Commit
  <1>5. ASSUME NEW w \in Workers, Crash(w)
        PROVE  rows' = rows /\ (work' = rows \/ UNCHANGED <<work, writer>>)
    BY <1>5 DEF Crash
  <1>6. CASE Tick
    <2>1. rows' = Elapsed(rows) /\ work' = Elapsed(work) /\ writer' = writer
      BY <1>6 DEF Tick
    <2>2. ASSUME NEW m \in Msgs
          PROVE  /\ Settled(rows'[m]) => Settled(rows[m])
                 /\ Settled(rows[m]) => rows'[m] = rows[m] /\ work'[m] = work[m]
      <3>1. rows \in Table /\ work \in Table /\ Sound(rows[m]) /\ Sound(work[m])
        BY DEF Wellformed, OutboxTypes
      <3>2. rows'[m].status = rows[m].status
        BY <2>1, <3>1, ElapsedTypes
      <3> QED
        BY <2>1, <3>1, <3>2, SettledDoesNotAge DEF OneWriter, Settled
    <2> QED
      BY <2>1, <2>2 DEF OneWriter
  <1> QED
    <2>1. ASSUME NEW m \in Msgs, Enqueue(m) PROVE OneWriter'
      BY <1>1, <2>1 DEF OneWriter
    <2>2. ASSUME NEW w \in Workers, Mark(w)
          PROVE  OneWriter' /\ rows' = rows
      BY <1>2, <2>2 DEF OneWriter
    <2>3. ASSUME NEW w \in Workers, Commit(w)
          PROVE  OneWriter' /\ \A m \in Msgs : Settled(rows[m]) => rows'[m] = rows[m]
      BY <1>4, <2>3 DEF OneWriter
    <2>4. ASSUME NEW w \in Workers, Crash(w) PROVE OneWriter' /\ rows' = rows
      BY <1>5, <2>4 DEF OneWriter
    <2>5. CASE Tick
      <3>1. \A m \in Msgs : Settled(rows[m]) => rows'[m] = rows[m]
        <4>1. ASSUME NEW m \in Msgs, Settled(rows[m]) PROVE rows'[m] = rows[m]
          BY <2>5, <4>1, SettledDoesNotAge DEF Tick, Wellformed, OutboxTypes
        <4> QED
          BY <4>1
      <3> QED
        BY <1>6, <2>5, <3>1
    <2>6. ASSUME NEW w \in Workers, Begin(w) \/ Send(w) \/ MarkBusy(w)
          PROVE  UNCHANGED <<rows, work, writer>>
      BY <2>6 DEF Begin, Send, MarkBusy
    <2>7. CASE UNCHANGED vars
      BY <1>3, <2>7 DEF vars
    <2> QED
      BY <1>1, <1>3, <2>1, <2>2, <2>3, <2>4, <2>5, <2>6, <2>7 DEF Next, Step

LEMMA OneWriterInvariant == Spec => []OneWriter
PROOF
  <1>1. Init => OneWriter
    BY DEF Init, OneWriter
  <1> QED
    BY <1>1, OneWriterStep, OutboxTypesInvariant, PTL DEF Spec

\* Nothing a late worker marks changes a message that is delivered or failed.
THEOREM SettledStaysFinal == Spec => SettledIsFinal
PROOF
  <1>1. Wellformed /\ OneWriter /\ [Next]_vars
          => [\A m \in Msgs : rows[m].status \in {"delivered", "failed"}
                => rows'[m] = rows[m]]_vars
    BY OneWriterStep DEF Settled
  <1> QED
    BY <1>1, OutboxTypesInvariant, OneWriterInvariant, PTL DEF Spec, SettledIsFinal

-------------------------------------------------------------------------------
(* Duplicates                                                              *)

\* One worker at work, and none has crashed: what was accepted is delivered, or
\* about to be marked so, and was accepted once.
OnceEach ==
    /\ \A v, w \in Workers : ~ Idle(v) /\ ~ Idle(w) => v = w
    /\ \A m \in Msgs : received[m] > 0 =>
         /\ received[m] = 1
         /\ \/ work[m].status = "delivered"
            \/ \E w \in Workers : sending[w] # NoSend /\ sending[w].msg = m /\ sending[w].ok
    /\ \A w \in Workers : \A m \in DOMAIN batch[w] :
         received[m] = 0 /\ work[m].status = "pending"
    /\ \A w \in Workers : sending[w] # NoSend =>
         /\ work[sending[w].msg].status = "pending"
         /\ sending[w].msg \notin DOMAIN batch[w]

Undisturbed == ~ overlapped /\ crashes = 0 => OnceEach

\* Both histories only grow.
LEMMA DisturbanceStays ==
    ASSUME Wellformed, [Next]_vars, ~ overlapped', crashes' = 0
    PROVE  /\ ~ overlapped /\ crashes = 0
           /\ \A w \in Workers : ~ Crash(w)
PROOF
  <1>1. crashes \in Nat
    BY DEF Wellformed, OutboxTypes
  <1>2. \A w \in Workers : ~ Crash(w)
    BY <1>1 DEF Crash
  <1>3. ASSUME NEW w \in Workers, Step(w) PROVE ~ overlapped /\ crashes = 0
    <2>1. CASE Begin(w)
      BY <2>1, Zenon DEF Begin
    <2>2. CASE Send(w) \/ Mark(w) \/ MarkBusy(w) \/ Commit(w)
      BY <2>2 DEF Send, Mark, MarkBusy, Commit
    <2> QED
      BY <1>3, <2>1, <2>2 DEF Step
  <1>4. ASSUME NEW m \in Msgs, Enqueue(m) PROVE ~ overlapped /\ crashes = 0
    BY <1>4 DEF Enqueue
  <1>5. ASSUME Tick PROVE ~ overlapped /\ crashes = 0
    BY <1>5 DEF Tick
  <1>6. ASSUME UNCHANGED vars PROVE ~ overlapped /\ crashes = 0
    <2>1. overlapped' = overlapped /\ crashes' = crashes
      BY <1>6 DEF vars
    <2> QED
      BY <2>1, Zenon
  <1>7. ~ overlapped /\ crashes = 0
    BY <1>2, <1>3, <1>4, <1>5, <1>6, Zenon DEF Next
  <1> QED
    BY <1>2, <1>7, Zenon

\* Nobody else is at work beside a worker that is.
LEMMA OthersAreIdle ==
    ASSUME OnceEach, NEW w \in Workers, ~ Idle(w), NEW o \in Workers, o # w
    PROVE  batch[o] = <<>> /\ sending[o] = NoSend /\ o \notin writer
  BY DEF OnceEach, Idle

LEMMA UndisturbedStep ==
    ASSUME Wellformed, Wellformed', OneWriter, Undisturbed, [Next]_vars
    PROVE  Undisturbed'
PROOF
  <1> SUFFICES ASSUME ~ overlapped', crashes' = 0 PROVE OnceEach'
    BY DEF Undisturbed
  <1>1. OnceEach /\ ~ overlapped /\ crashes = 0 /\ \A w \in Workers : ~ Crash(w)
    BY DisturbanceStays DEF Undisturbed
  <1>2. /\ rows \in Table /\ work \in Table /\ writer \subseteq Workers
        /\ batch \in [Workers -> Batch]
        /\ sending \in [Workers -> Sent \cup {NoSend}]
        /\ received \in [Msgs -> 0..2]
    BY DEF Wellformed, OutboxTypes
  <1>3. ASSUME NEW w \in Workers, sending[w] # NoSend
        PROVE  sending[w] \in Sent /\ sending[w].msg \in Msgs
    BY <1>2, <1>3 DEF Sent
  <1>4. ASSUME NEW w \in Workers, NEW m \in DOMAIN batch[w] PROVE m \in Msgs
    BY <1>2, BatchMembers
  \* Nothing but the table changes, and no status that matters.
  <1>5. ASSUME UNCHANGED <<batch, sending, received>>, writer' \subseteq writer,
               \A m \in Msgs : work[m].status # "absent" => work'[m].status = work[m].status
        PROVE  OnceEach'
    <2>1. \A w \in Workers : ~ Idle(w)' => ~ Idle(w)
      BY <1>5 DEF Idle
    <2> QED
      BY <1>1, <1>3, <1>4, <1>5, <2>1 DEF OnceEach
  <1>6. ASSUME NEW m \in Msgs, Enqueue(m) PROVE OnceEach'
    <2>1. /\ work = rows /\ rows[m].status = "absent"
          /\ work' = [work EXCEPT ![m] = Row("pending", 0, 0)]
          /\ UNCHANGED <<writer, batch, sending, received>>
      BY <1>6 DEF Enqueue, OneWriter, receiver
    <2> QED
      BY <1>2, <1>5, <2>1 DEF Table
  <1>7. ASSUME NEW w \in Workers, Begin(w) PROVE OnceEach'
    <2>1. \A v \in Workers : Idle(v)
      BY <1>7 DEF Begin
    <2>2. writer = {} /\ work = rows
      BY <1>2, <2>1 DEF Idle, OneWriter
    <2>3. /\ batch' = [batch EXCEPT ![w] = [m \in Due |-> rows[m].attempts]]
          /\ UNCHANGED <<rows, work, writer, sending, received>>
      BY <1>7 DEF Begin, receiver
    <2>4. \A v \in Workers : ~ Idle(v)' => v = w
      BY <1>2, <2>1, <2>3 DEF Idle
    <2>5. \A v \in Workers : sending[v] = NoSend /\ batch[v] = <<>>
      BY <2>1 DEF Idle
    <2>6. \A m \in Due : m \in Msgs /\ received[m] = 0 /\ work[m].status = "pending"
      <3>1. ASSUME NEW m \in Due PROVE m \in Msgs /\ work[m].status = "pending"
        BY <2>2 DEF Due
      <3>2. ASSUME NEW m \in Due PROVE ~ received[m] > 0
        BY <1>1, <2>5, <3>1 DEF OnceEach
      <3>3. ASSUME NEW m \in Due PROVE received[m] \in 0..2
        BY <1>2, <3>1
      <3>4. ASSUME NEW m \in Due PROVE received[m] = 0
        BY <3>2, <3>3
      <3> QED
        BY <3>1, <3>4
    <2>7. \A v \in Workers : \A m \in DOMAIN batch'[v] :
            received'[m] = 0 /\ work'[m].status = "pending"
      BY <1>1, <1>2, <2>3, <2>6 DEF OnceEach
    <2> QED
      BY <1>1, <2>3, <2>4, <2>5, <2>7 DEF OnceEach
  <1>8. ASSUME NEW w \in Workers, Send(w) PROVE OnceEach'
    <2> DEFINE n == Min(DOMAIN batch[w])
    <2>1. batch[w] # <<>> /\ sending[w] = NoSend /\ ~ Idle(w)
      BY <1>8 DEF Send, Idle
    <2>2. n \in DOMAIN batch[w] /\ n \in Msgs
      BY <1>2, <2>1, FirstOfBatch
    <2>3. PICK ok \in BOOLEAN :
            /\ sending' = [sending EXCEPT ![w] =
                 [msg |-> n, attempts |-> batch[w][n] + 1, ok |-> ok]]
            /\ received' = IF ok THEN [received EXCEPT ![n] = Min({2, @ + 1})] ELSE received
      BY <1>8 DEF Send
    <2>4. /\ batch' = [batch EXCEPT ![w] = [k \in DOMAIN batch[w] \ {n} |-> batch[w][k]]]
          /\ UNCHANGED <<work, writer>>
      BY <1>8 DEF Send
    <2>5. \A o \in Workers : o # w =>
            /\ batch'[o] = <<>> /\ sending'[o] = NoSend /\ o \notin writer'
            /\ sending[o] = NoSend
      BY <1>1, <1>2, <2>1, <2>3, <2>4, OthersAreIdle
    <2>6. \A v \in Workers : ~ Idle(v)' => v = w
      BY <2>5 DEF Idle
    <2>7. /\ received[n] = 0 /\ work[n].status = "pending"
          /\ received'[n] = IF ok THEN 1 ELSE 0
          /\ \A m \in Msgs : m # n => received'[m] = received[m]
      <3>1. received[n] = 0 /\ work[n].status = "pending"
        BY <1>1, <2>2 DEF OnceEach
      <3>2. Min({2, 1}) = 1
        BY MinOfTwo
      <3> QED
        BY <1>2, <2>2, <2>3, <3>1, <3>2
    <2>8. /\ sending'[w] = [msg |-> n, attempts |-> batch[w][n] + 1, ok |-> ok]
          /\ batch'[w] = [k \in DOMAIN batch[w] \ {n} |-> batch[w][k]]
      BY <1>2, <2>3, <2>4
    <2>9. sending'[w] # NoSend
      <3>1. batch[w][n] \in 0..MaxAttempts - 1
        BY <1>2, <2>1, FirstOfBatch
      <3> QED
        <4> HIDE DEF n
        <4>1. batch[w][n] + 1 > 0
          BY <3>1
        <4> QED
          BY <2>8, <4>1 DEF NoSend
    <2>10. ASSUME NEW m \in Msgs, received'[m] > 0
           PROVE  /\ received'[m] = 1
                  /\ \/ work'[m].status = "delivered"
                     \/ \E v \in Workers : /\ sending'[v] # NoSend
                                           /\ sending'[v].msg = m /\ sending'[v].ok
      <3>1. CASE m = n
        BY <2>7, <2>8, <2>9, <2>10, <3>1
      <3>2. CASE m # n
        <4>1. received[m] = 1 /\ work[m].status = "delivered"
          BY <1>1, <2>1, <2>5, <2>7, <2>10, <3>2 DEF OnceEach
        <4> QED
          BY <2>4, <2>7, <3>2, <4>1
      <3> QED
        BY <3>1, <3>2
    <2>11. ASSUME NEW v \in Workers, NEW m \in DOMAIN batch'[v]
           PROVE  received'[m] = 0 /\ work'[m].status = "pending"
      <3>1. CASE v = w
        <4>1. m \in DOMAIN batch[w] /\ m # n
          BY <2>8, <2>11, <3>1
        <4> QED
          BY <1>1, <1>4, <2>4, <2>7, <4>1 DEF OnceEach
      <3>2. CASE v # w
        BY <2>5, <3>2
      <3> QED
        BY <3>1, <3>2
    <2>12. ASSUME NEW v \in Workers, sending'[v] # NoSend
           PROVE  /\ work'[sending'[v].msg].status = "pending"
                  /\ sending'[v].msg \notin DOMAIN batch'[v]
      <3>1. v = w
        BY <2>5, <2>12
      <3> QED
        BY <2>4, <2>7, <2>8, <3>1
    <2> QED
      BY <2>6, <2>10, <2>11, <2>12 DEF OnceEach
  <1>9. ASSUME NEW w \in Workers, Mark(w) PROVE OnceEach'
    <2> DEFINE s == sending[w]
    <2>1. s # NoSend /\ s \in Sent /\ s.msg \in Msgs /\ ~ Idle(w)
      BY <1>3, <1>9 DEF Mark, Idle
    <2>2. PICK left \in 0..Backoff(s.attempts) : work' = Update(s.msg, Marked(s, left))
      BY <1>9 DEF Mark
    <2>3. writer' = {w} /\ sending' = [sending EXCEPT ![w] = NoSend] /\ UNCHANGED <<batch, received>>
      BY <1>9 DEF Mark, receiver
    <2>4. \A o \in Workers : o # w => batch[o] = <<>> /\ sending[o] = NoSend
      BY <1>1, <2>1, OthersAreIdle
    <2>5. \A v \in Workers : sending'[v] = NoSend
      BY <1>2, <2>3, <2>4
    <2>6. \A v \in Workers : ~ Idle(v)' => v = w
      BY <2>3, <2>4, <2>5 DEF Idle
    <2>7. /\ work[s.msg].status = "pending" /\ s.msg \notin DOMAIN batch[w]
      BY <1>1, <2>1 DEF OnceEach
    <2>8. /\ work'[s.msg] = Marked(s, left)
          /\ \A m \in Msgs : m # s.msg => work'[m] = work[m]
      BY <1>2, <2>1, <2>2, <2>7 DEF Update, Table
    <2>9. s.ok => work'[s.msg].status = "delivered"
      BY <2>1, <2>8, MarkedTypes
    <2>10. ASSUME NEW m \in Msgs, received[m] > 0
           PROVE  received[m] = 1 /\ work'[m].status = "delivered"
      <3>1. received[m] = 1 /\ (work[m].status = "delivered" \/ (s.msg = m /\ s.ok))
        BY <1>1, <2>4, <2>10 DEF OnceEach
      <3> QED
        BY <2>7, <2>8, <2>9, <3>1
    <2>11. ASSUME NEW v \in Workers, NEW m \in DOMAIN batch[v]
           PROVE  received[m] = 0 /\ work'[m].status = "pending"
      <3>1. v = w
        BY <2>4, <2>11
      <3>2. m # s.msg /\ m \in Msgs
        BY <1>4, <2>7, <3>1
      <3> QED
        BY <1>1, <2>8, <2>11, <3>2 DEF OnceEach
    <2> QED
      BY <2>3, <2>5, <2>6, <2>10, <2>11 DEF OnceEach
  \* The write lock is free, or it is the worker's own.
  <1>10. ASSUME NEW w \in Workers PROVE ~ MarkBusy(w)
    <2> SUFFICES ASSUME MarkBusy(w) PROVE FALSE
      OBVIOUS
    <2>1. ~ Idle(w) /\ ~ writer \subseteq {w}
      BY DEF MarkBusy, Idle
    <2> QED
      BY <1>1, <1>2, <2>1, OthersAreIdle
  <1>11. ASSUME NEW w \in Workers, Commit(w) PROVE OnceEach'
    BY <1>5, <1>11 DEF Commit, receiver
  <1>12. CASE Tick
    <2>1. \A m \in Msgs : work'[m].status = work[m].status
      BY <1>2, <1>12, ElapsedTypes DEF Tick
    <2> QED
      BY <1>5, <1>12, <2>1 DEF Tick, receiver
  <1>13. CASE UNCHANGED vars
    BY <1>5, <1>13 DEF vars, receiver
  <1> QED
    BY <1>1, <1>6, <1>7, <1>8, <1>9, <1>10, <1>11, <1>12, <1>13 DEF Next, Step

\* Neither a busy database nor a late mark sends anything twice: it takes a crash,
\* or two workers at work at the same time.
THEOREM DuplicatesStayExplained == Spec => []DuplicatesNeedACrash
PROOF
  <1>1. Init => Undisturbed
    BY DEF Init, Undisturbed, OnceEach, Idle
  <1>2. Spec => []Undisturbed
    BY <1>1, UndisturbedStep, OutboxTypesInvariant, OneWriterInvariant, PTL DEF Spec
  <1>3. Wellformed /\ Undisturbed => DuplicatesNeedACrash
    <2> SUFFICES ASSUME Wellformed, Undisturbed, ~ overlapped, NEW m \in Msgs,
                        received[m] > 1
                 PROVE  crashes > 0
      BY DEF DuplicatesNeedACrash
    <2>1. crashes \in Nat /\ received[m] \in 0..2
      BY DEF Wellformed, OutboxTypes
    <2>2. crashes # 0
      BY <2>1 DEF Undisturbed, OnceEach
    <2> QED
      BY <2>1, <2>2
  <1> QED
    BY <1>2, <1>3, OutboxTypesInvariant, PTL
===============================================================================
