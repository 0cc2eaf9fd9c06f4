------------------------------ MODULE LeaseProofs ------------------------------
(***************************************************************************)
(* Why no two controllers hold the resource and no generation that was     *)
(* taken over is obeyed, as long as no lease was released: for any number  *)
(* of controllers, any durations and any bounds.                           *)
(***************************************************************************)
EXTENDS Lease, TLAPS

\* Tokens count the generations.
Counted ==
    /\ lease.token = Len(issued)
    /\ lease # NoLease <=> lease.token # 0
    /\ \A i \in 1..Len(issued) : issued[i] = i

\* The last generation is the row's; all others have run out.
GrantIsRow(c) ==
    grant[c] # NoGrant =>
      /\ grant[c].gen = grant[c].token
      /\ grant[c].gen \in 1..Len(issued)
      /\ grant[c].gen = Len(issued) => /\ lease.holder = c
                                       /\ grant[c].expires <= lease.expires
      /\ grant[c].gen < Len(issued) => grant[c].expires <= clock

\* What a call read is not newer than the row, and the version tells whether it
\* is older. A renewal is of the token that the controller was given.
CallIsPast(c) ==
    /\ call[c].at <= clock
    /\ pc[c] = "takeover" =>
         /\ lease # NoLease
         /\ call[c].seen.version <= lease.version
         /\ call[c].seen.version = lease.version => call[c].seen.token = lease.token
    /\ pc[c] = "renew" =>
         /\ grant[c] # NoGrant
         /\ call[c].seen # NoLease
         /\ call[c].seen.token = grant[c].token

Unreleased ==
    /\ Counted
    /\ ~ staleServed
    /\ \A c \in Controllers : GrantIsRow(c) /\ CallIsPast(c)

LeaseInv == ~ released => Unreleased

USE ControllerAssumption, DurationAssumption, BoundAssumption

\* Every variable keeps its type, whatever the order of reads and writes.
THEOREM LeaseTypes == Spec => []TypeOK
PROOF
  <1>1. Init => TypeOK
    <2>1. NoGrant \in Grant
      BY DEF NoGrant, Grant
    <2>2. NoCall \in [at : Nat, duration : Nat, seen : Row \cup {NoLease}]
      BY DEF NoCall
    <2>3. <<>> \in Seq(Nat) /\ 0 \in 0..MaxTime
      OBVIOUS
    <2> QED
      BY <2>1, <2>2, <2>3 DEF Init, TypeOK
  <1>2. ASSUME TypeOK, [Next]_vars PROVE TypeOK'
    <2> USE <1>2 DEF TypeOK
    <2>1. ASSUME NEW c \in Controllers, NEW next \in {"insert", "takeover", "renew", "delete"},
                 NEW d \in Nat, Begin(c, next, d)
          PROVE  TypeOK'
      BY <2>1 DEF Begin
    <2>2. ASSUME NEW c \in Controllers, End(c)
          PROVE  /\ pc' \in [Controllers -> {"idle", "insert", "takeover", "renew", "delete"}]
                 /\ call' \in [Controllers -> [at : Nat, duration : Nat,
                                               seen : Row \cup {NoLease}]]
                 /\ clock' \in 0..MaxTime
      BY <2>2 DEF End, NoCall
    <2>3. ASSUME NEW c \in Controllers, Refused(c) PROVE TypeOK'
      BY <2>2, <2>3 DEF Refused
    <2>4. ASSUME NEW c \in Controllers, NEW token \in Nat, NewGeneration(c, token),
                 lease' \in Row
          PROVE  TypeOK'
      <3>1. grant' \in [Controllers -> Grant] /\ issued' \in Seq(Nat)
        BY <2>4 DEF NewGeneration, Grant
      <3> QED
        BY <2>2, <2>4, <3>1 DEF NewGeneration
    <2>5. ASSUME NEW c \in Controllers
          PROVE  [grant EXCEPT ![c] = NoGrant] \in [Controllers -> Grant]
      BY DEF NoGrant, Grant
    <2>6. ASSUME NEW c \in Controllers, NEW d \in Durations, AcquireRead(c, d)
          PROVE  TypeOK'
      BY <2>1, <2>6 DEF AcquireRead
    <2>7. ASSUME NEW c \in Controllers, NEW d \in Durations, HeartbeatRead(c, d)
          PROVE  TypeOK'
      BY <2>1, <2>7 DEF HeartbeatRead
    <2>8. ASSUME NEW c \in Controllers, AcquireConflict(c) PROVE TypeOK'
      BY <2>8 DEF AcquireConflict, vars
    <2>9. ASSUME NEW c \in Controllers, AcquireInsert(c) PROVE TypeOK'
      <3>1. CASE lease # NoLease /\ Refused(c)
        BY <2>3, <3>1
      <3>2. CASE /\ lease' = [holder |-> c, token |-> 1, version |-> 0,
                              expires |-> call[c].at + call[c].duration]
                 /\ NewGeneration(c, 1)
        <4>1. lease' \in Row
          BY <3>2 DEF Row
        <4> QED
          BY <2>4, <3>2, <4>1
      <3> QED
        BY <2>9, <3>1, <3>2 DEF AcquireInsert
    <2>10. ASSUME NEW c \in Controllers, AcquireTakeover(c) PROVE TypeOK'
      <3>1. CASE Refused(c)
        BY <2>3, <3>1
      <3>2. CASE /\ lease # NoLease
                 /\ lease' = [holder |-> c, token |-> call[c].seen.token + 1,
                              expires |-> call[c].at + call[c].duration,
                              version |-> lease.version + 1]
                 /\ NewGeneration(c, call[c].seen.token + 1)
        <4>1. call[c].seen.token + 1 \in Nat
          BY DEF Row, NoLease
        <4>2. lease' \in Row
          BY <3>2, <4>1 DEF Row
        <4> QED
          BY <2>4, <3>2, <4>1, <4>2
      <3> QED
        BY <2>10, <3>1, <3>2 DEF AcquireTakeover
    <2>11. ASSUME NEW c \in Controllers, HeartbeatWrite(c) PROVE TypeOK'
      <3>1. CASE Refused(c)
        BY <2>3, <3>1
      <3>2. CASE ~ Refused(c)
        <4>1. lease.holder = call[c].seen.holder /\ ~ Expired(lease, call[c].at)
          BY <2>11, <3>2 DEF HeartbeatWrite
        <4>2. lease \in Row
          BY <4>1 DEF Expired, NoLease
        <4>3. /\ lease' = [holder |-> lease.holder, token |-> lease.token,
                           expires |-> call[c].at + call[c].duration,
                           version |-> lease.version + 1]
              /\ grant' = [grant EXCEPT ![c].expires = call[c].at + call[c].duration]
              /\ staleServed' \in BOOLEAN
              /\ End(c)
              /\ UNCHANGED <<issued, released>>
          BY <2>11, <3>2 DEF HeartbeatWrite
        <4>4. call[c].at + call[c].duration \in Nat
          OBVIOUS
        <4>5. lease' \in Row
          BY <4>2, <4>3, <4>4 DEF Row
        <4>6. grant' \in [Controllers -> Grant]
          BY <4>3, <4>4 DEF Grant
        <4> QED
          BY <2>2, <4>3, <4>5, <4>6
      <3> QED
        BY <3>1, <3>2
    <2>12. ASSUME NEW c \in Controllers, ReleaseRead(c) PROVE TypeOK'
      BY <2>1, <2>5, <2>12 DEF ReleaseRead
    <2>13. ASSUME NEW c \in Controllers, ReleaseDelete(c) PROVE TypeOK'
      BY <2>2, <2>5, <2>13 DEF ReleaseDelete
    <2>14. ASSUME NEW c \in Controllers, CheckHeld(c) PROVE TypeOK'
      BY <2>14 DEF CheckHeld
    <2>15. ASSUME NEW c \in Controllers, Crash(c) PROVE TypeOK'
      BY <2>2, <2>5, <2>15 DEF Crash
    <2>16. CASE Tick \/ UNCHANGED vars
      BY <2>16 DEF Tick, vars
    <2> QED
      BY <2>6, <2>7, <2>8, <2>9, <2>10, <2>11, <2>12, <2>13, <2>14, <2>15, <2>16 DEF Next
  <1> QED
    BY <1>1, <1>2, PTL DEF Spec

\* The first half of a call remembers the row as it is.
LEMMA BeginKeeps ==
    ASSUME TypeOK, Unreleased, NEW c \in Controllers,
           NEW next \in {"insert", "takeover", "renew", "delete"},
           NEW d \in Nat, Begin(c, next, d),
           next = "takeover" => lease # NoLease,
           next = "renew" => /\ lease # NoLease /\ grant[c] # NoGrant
                             /\ lease.token = grant[c].token
    PROVE  Unreleased'
PROOF
  <1>1. Counted' /\ ~ staleServed'
    BY DEF Begin, Unreleased, Counted
  <1>2. ASSUME NEW o \in Controllers PROVE GrantIsRow(o)'
    BY DEF Begin, Unreleased, GrantIsRow
  <1>3. ASSUME NEW o \in Controllers PROVE CallIsPast(o)'
    <2>1. CASE o = c
      <3>1. /\ pc'[o] = next
            /\ call'[o] = [at |-> clock, duration |-> d, seen |-> lease]
            /\ UNCHANGED <<lease, grant, clock>>
        BY <2>1 DEF Begin, TypeOK
      <3>2. clock \in Nat /\ lease.version \in Nat
        BY DEF TypeOK, Row, NoLease
      <3> QED
        BY <2>1, <3>1, <3>2 DEF CallIsPast
    <2>2. CASE o # c
      <3>1. pc'[o] = pc[o] /\ call'[o] = call[o] /\ UNCHANGED <<lease, grant, clock>>
        BY <2>2 DEF Begin, TypeOK
      <3> QED
        BY <3>1 DEF Unreleased, CallIsPast
    <2> QED
      BY <2>1, <2>2
  <1> QED
    BY <1>1, <1>2, <1>3 DEF Unreleased

\* A call that ends and writes nothing, whether or not its caller gives up what
\* it was granted.
LEMMA EndKeeps ==
    ASSUME TypeOK, Unreleased, NEW c \in Controllers, End(c),
           UNCHANGED <<lease, issued, staleServed>>,
           grant' = grant \/ grant' = [grant EXCEPT ![c] = NoGrant]
    PROVE  Unreleased'
PROOF
  <1>1. Counted' /\ ~ staleServed'
    BY DEF Unreleased, Counted
  <1>2. ASSUME NEW o \in Controllers PROVE grant'[o] = grant[o] \/ grant'[o] = NoGrant
    BY DEF TypeOK
  <1>3. ASSUME NEW o \in Controllers PROVE GrantIsRow(o)'
    BY <1>2 DEF End, Unreleased, GrantIsRow
  <1>4. ASSUME NEW o \in Controllers PROVE CallIsPast(o)'
    <2>1. CASE o = c
      <3>1. pc'[o] = "idle" /\ call'[o] = NoCall /\ clock' \in Nat
        BY <2>1 DEF End, TypeOK
      <3> QED
        BY <3>1 DEF NoCall, CallIsPast
    <2>2. CASE o # c
      <3>1. pc'[o] = pc[o] /\ call'[o] = call[o] /\ clock' = clock /\ grant'[o] = grant[o]
        BY <2>2 DEF End, TypeOK
      <3> QED
        BY <3>1 DEF Unreleased, CallIsPast
    <2> QED
      BY <2>1, <2>2
  <1> QED
    BY <1>1, <1>3, <1>4 DEF Unreleased

\* A new generation begins when the one before it has run out. It takes the
\* next token, and no other takeover in progress can take the same.
LEMMA GenerationKeeps ==
    ASSUME TypeOK, Unreleased, NEW c \in Controllers, NEW version \in Nat,
           lease' = [holder |-> c, token |-> lease.token + 1,
                     expires |-> call[c].at + call[c].duration, version |-> version],
           NewGeneration(c, lease.token + 1),
           lease = NoLease \/ (lease.expires <= clock /\ version > lease.version)
    PROVE  Unreleased'
PROOF
  <1> DEFINE n == Len(issued)
  <1>1. /\ n \in Nat /\ lease.token = n
        /\ issued' = Append(issued, n + 1)
        /\ grant' = [grant EXCEPT ![c] =
                       [token |-> n + 1, gen |-> n + 1,
                        expires |-> call[c].at + call[c].duration]]
        /\ End(c) /\ UNCHANGED staleServed
    BY DEF TypeOK, Unreleased, Counted, NewGeneration
  <1>2. Len(issued') = n + 1 /\ \A i \in 1..n + 1 : issued'[i] = i
    BY <1>1 DEF TypeOK, Unreleased, Counted
  <1>3. lease'.token = n + 1 /\ lease' # NoLease
    BY <1>1, ControllerAssumption DEF NoLease
  <1>4. Counted' /\ ~ staleServed'
    BY <1>1, <1>2, <1>3 DEF Unreleased, Counted
  <1>5. ASSUME NEW o \in Controllers PROVE GrantIsRow(o)'
    <2>1. CASE o = c
      <3>1. /\ grant'[o].gen = n + 1 /\ grant'[o].token = n + 1
            /\ grant'[o].expires = call[c].at + call[c].duration
        BY <1>1, <2>1 DEF TypeOK
      <3>2. lease'.holder = o /\ lease'.expires = call[c].at + call[c].duration
        BY <2>1
      <3>3. call[c].at + call[c].duration \in Nat
        BY DEF TypeOK
      <3> QED
        BY <1>1, <1>2, <3>1, <3>2, <3>3 DEF GrantIsRow
    <2>2. CASE o # c
      <3>1. grant'[o] = grant[o] /\ clock' = clock
        BY <1>1, <2>2 DEF TypeOK, End
      <3>2. /\ grant[o].gen \in Nat /\ grant[o].expires \in Nat
            /\ clock \in Nat /\ lease.expires \in Nat
        BY DEF TypeOK, Grant, Row, NoLease
      <3>3. GrantIsRow(o) /\ (lease = NoLease => n = 0)
        BY <1>1 DEF Unreleased, Counted
      <3>4. CASE grant[o] # NoGrant
        <4>1. grant[o].gen \in 1..n /\ grant[o].gen = grant[o].token
          BY <3>3, <3>4 DEF GrantIsRow
        <4>2. lease # NoLease
          BY <3>3, <4>1
        <4>3. grant[o].expires <= clock
          BY <1>1, <3>2, <3>3, <3>4, <4>1, <4>2 DEF GrantIsRow
        <4> QED
          BY <1>1, <1>2, <3>1, <4>1, <4>3 DEF GrantIsRow
      <3> QED
        BY <3>1, <3>4 DEF GrantIsRow
    <2> QED
      BY <2>1, <2>2
  <1>6. ASSUME NEW o \in Controllers PROVE CallIsPast(o)'
    <2>1. CASE o = c
      <3>1. pc'[o] = "idle" /\ call'[o] = NoCall /\ clock' \in Nat
        BY <1>1, <2>1 DEF End, TypeOK
      <3> QED
        BY <3>1 DEF NoCall, CallIsPast
    <2>2. CASE o # c
      <3>1. pc'[o] = pc[o] /\ call'[o] = call[o] /\ clock' = clock /\ grant'[o] = grant[o]
        BY <1>1, <2>2 DEF End, TypeOK
      <3>2. call[o].seen.version \in Nat /\ lease.version \in Nat
        BY DEF TypeOK, Row, NoLease
      <3>3. CallIsPast(o)
        BY DEF Unreleased
      <3>4. pc[o] = "takeover" => call[o].seen.version < version
        BY <3>2, <3>3 DEF CallIsPast
      <3>5. lease'.version = version
        OBVIOUS
      <3> QED
        BY <1>3, <3>1, <3>2, <3>3, <3>4, <3>5 DEF CallIsPast
    <2> QED
      BY <2>1, <2>2
  <1> QED
    BY <1>4, <1>5, <1>6 DEF Unreleased

\* A renewal that is obeyed is of the last generation, for the token that it
\* read is still the row's.
LEMMA RenewalKeeps ==
    ASSUME TypeOK, Unreleased, NEW c \in Controllers, HeartbeatWrite(c), ~ Refused(c)
    PROVE  Unreleased'
PROOF
  <1> DEFINE until == call[c].at + call[c].duration
  <1>1. /\ pc[c] = "renew"
        /\ lease.token = call[c].seen.token
        /\ ~ Expired(lease, call[c].at)
        /\ lease' = [holder |-> lease.holder, token |-> lease.token,
                     expires |-> until, version |-> lease.version + 1]
        /\ grant' = [grant EXCEPT ![c].expires = until]
        /\ staleServed' = (staleServed \/ Superseded(c))
        /\ End(c)
        /\ UNCHANGED issued
    BY DEF HeartbeatWrite
  <1>2. lease # NoLease /\ lease \in Row
    BY <1>1 DEF TypeOK, Expired, NoLease
  <1>3. grant[c] # NoGrant /\ grant[c].gen = Len(issued) /\ lease.holder = c
    BY <1>1 DEF Unreleased, Counted, CallIsPast, GrantIsRow
  <1>4. Counted' /\ ~ staleServed'
    <2>1. lease'.token = lease.token /\ lease' # NoLease
      BY <1>1, <1>2, ControllerAssumption DEF Row, NoLease
    <2>2. ~ Superseded(c)
      BY <1>3 DEF Superseded, TypeOK
    <2> QED
      BY <1>1, <1>2, <2>1, <2>2 DEF Unreleased, Counted
  <1>5. ASSUME NEW o \in Controllers PROVE GrantIsRow(o)'
    <2>1. CASE o = c
      <3>1. /\ grant'[o].gen = grant[o].gen /\ grant'[o].token = grant[o].token
            /\ grant'[o].expires = until
        BY <1>1, <2>1 DEF TypeOK, Grant
      <3>2. lease'.holder = o /\ lease'.expires = until /\ until \in Nat
        BY <1>1, <1>3, <2>1 DEF TypeOK
      <3>3. GrantIsRow(o)
        BY DEF Unreleased
      <3> QED
        BY <1>1, <1>3, <2>1, <3>1, <3>2, <3>3 DEF GrantIsRow
    <2>2. CASE o # c
      <3>1. grant'[o] = grant[o] /\ clock' = clock /\ issued' = issued
        BY <1>1, <2>2 DEF TypeOK, End
      <3>2. GrantIsRow(o) /\ lease.holder # o
        BY <1>3, <2>2 DEF Unreleased
      <3> QED
        BY <3>1, <3>2 DEF GrantIsRow
    <2> QED
      BY <2>1, <2>2
  <1>6. ASSUME NEW o \in Controllers PROVE CallIsPast(o)'
    <2>1. CASE o = c
      <3>1. pc'[o] = "idle" /\ call'[o] = NoCall /\ clock' \in Nat
        BY <1>1, <2>1 DEF End, TypeOK
      <3> QED
        BY <3>1 DEF NoCall, CallIsPast
    <2>2. CASE o # c
      <3>1. pc'[o] = pc[o] /\ call'[o] = call[o] /\ clock' = clock /\ grant'[o] = grant[o]
        BY <1>1, <2>2 DEF End, TypeOK
      <3>2. call[o].seen.version \in Nat /\ lease.version \in Nat
        BY DEF TypeOK, Row, NoLease
      <3>3. CallIsPast(o)
        BY DEF Unreleased
      <3>4. lease'.version = lease.version + 1 /\ lease' # NoLease
        BY <1>1, <1>2, ControllerAssumption DEF Row, NoLease
      <3> QED
        BY <3>1, <3>2, <3>3, <3>4 DEF CallIsPast
    <2> QED
      BY <2>1, <2>2
  <1> QED
    BY <1>4, <1>5, <1>6 DEF Unreleased

LEMMA LeaseStep ==
    ASSUME TypeOK, LeaseInv, [Next]_vars
    PROVE  LeaseInv'
PROOF
  <1>1. released => released'
    BY DEF Next, vars, Tick, AcquireRead, HeartbeatRead, AcquireConflict, AcquireInsert,
       AcquireTakeover, HeartbeatWrite, ReleaseRead, ReleaseDelete, CheckHeld, Crash,
       Begin, Refused, NewGeneration
  <1> SUFFICES ASSUME ~ released' PROVE Unreleased'
    BY DEF LeaseInv
  <1>2. Unreleased
    BY <1>1 DEF LeaseInv
  <1>3. ASSUME NEW c \in Controllers, NEW d \in Durations, AcquireRead(c, d)
        PROVE  Unreleased'
    BY <1>2, <1>3, BeginKeeps, DurationAssumption DEF AcquireRead
  <1>4. ASSUME NEW c \in Controllers, NEW d \in Durations, HeartbeatRead(c, d)
        PROVE  Unreleased'
    BY <1>2, <1>4, BeginKeeps, DurationAssumption DEF HeartbeatRead
  <1>5. ASSUME NEW c \in Controllers, Refused(c) PROVE Unreleased'
    BY <1>2, <1>5, EndKeeps DEF Refused
  <1>6. ASSUME NEW c \in Controllers, AcquireInsert(c) PROVE Unreleased'
    <2>1. CASE lease # NoLease
      BY <1>5, <1>6, <2>1 DEF AcquireInsert
    <2>2. CASE lease = NoLease
      <3>1. lease.token + 1 = 1
        BY <2>2 DEF NoLease
      <3>2. /\ lease' = [holder |-> c, token |-> lease.token + 1,
                         expires |-> call[c].at + call[c].duration, version |-> 0]
            /\ NewGeneration(c, lease.token + 1)
        BY <1>6, <2>2, <3>1 DEF AcquireInsert
      <3> QED
        BY <1>2, <2>2, <3>2, GenerationKeeps
    <2> QED
      BY <2>1, <2>2
  <1>7. ASSUME NEW c \in Controllers, AcquireTakeover(c) PROVE Unreleased'
    <2>1. CASE Refused(c)
      BY <1>5, <2>1
    <2>2. CASE ~ Refused(c)
      <3>1. /\ pc[c] = "takeover"
            /\ Expired(lease, call[c].at)
            /\ lease.version = call[c].seen.version
            /\ lease' = [holder |-> c, token |-> call[c].seen.token + 1,
                         expires |-> call[c].at + call[c].duration,
                         version |-> lease.version + 1]
            /\ NewGeneration(c, call[c].seen.token + 1)
        BY <1>7, <2>2 DEF AcquireTakeover
      <3>2. call[c].seen.token = lease.token /\ call[c].at <= clock
        BY <1>2, <3>1 DEF Unreleased, CallIsPast
      <3>3. lease.version \in Nat /\ lease.expires \in Nat /\ call[c].at \in Nat /\ clock \in Nat
        BY DEF TypeOK, Row, NoLease
      <3>4. lease.expires <= clock
        BY <3>1, <3>2, <3>3 DEF Expired
      <3>5. lease.version + 1 \in Nat /\ lease.version + 1 > lease.version
        BY <3>3
      <3> QED
        BY <1>2, <3>1, <3>2, <3>4, <3>5, GenerationKeeps
    <2> QED
      BY <2>1, <2>2
  <1>8. ASSUME NEW c \in Controllers, HeartbeatWrite(c) PROVE Unreleased'
    BY <1>2, <1>5, <1>8, RenewalKeeps
  <1>9. ASSUME NEW c \in Controllers, ReleaseRead(c) PROVE Unreleased'
    <2>1. CASE Begin(c, "delete", 1)
      BY <1>2, <2>1, BeginKeeps
    <2>2. CASE /\ grant' = [grant EXCEPT ![c] = NoGrant]
               /\ pc[c] = "idle"
               /\ UNCHANGED <<lease, clock, pc, call, issued, staleServed, released>>
      <3>1. Counted' /\ ~ staleServed'
        BY <1>2, <2>2 DEF Unreleased, Counted
      <3>2. ASSUME NEW o \in Controllers PROVE GrantIsRow(o)' /\ CallIsPast(o)'
        <4>1. grant'[o] = grant[o] \/ (o = c /\ grant'[o] = NoGrant)
          BY <2>2 DEF TypeOK
        <4>2. GrantIsRow(o) /\ CallIsPast(o)
          BY <1>2 DEF Unreleased
        <4> QED
          BY <2>2, <4>1, <4>2 DEF GrantIsRow, CallIsPast
      <3> QED
        BY <3>1, <3>2 DEF Unreleased
    <2> QED
      BY <1>9, <2>1, <2>2 DEF ReleaseRead
  <1>10. ASSUME NEW c \in Controllers, ReleaseDelete(c) PROVE Unreleased'
    \* A row that is there is not deleted, since nothing was released.
    <2>1. lease' = lease
      BY <1>10 DEF ReleaseDelete
    <2> QED
      BY <1>2, <1>10, <2>1, EndKeeps DEF ReleaseDelete
  <1>11. ASSUME NEW c \in Controllers, CheckHeld(c) PROVE Unreleased'
    <2>1. GrantIsRow(c) /\ Counted
      BY <1>2 DEF Unreleased
    <2>2. ~ Superseded(c)
      BY <1>11, <2>1 DEF CheckHeld, Passes, Superseded, GrantIsRow, Counted, TypeOK
    <2> QED
      BY <1>2, <1>11, <2>2 DEF CheckHeld, Unreleased, Counted, GrantIsRow, CallIsPast
  <1>12. ASSUME NEW c \in Controllers, Crash(c) PROVE Unreleased'
    BY <1>2, <1>12, EndKeeps DEF Crash
  <1>13. CASE Tick
    <2>1. clock \in Nat /\ clock' = clock + 1
      BY <1>13 DEF Tick, TypeOK
    <2>2. Counted' /\ ~ staleServed'
      BY <1>2, <1>13 DEF Tick, Unreleased, Counted
    <2>3. ASSUME NEW o \in Controllers PROVE GrantIsRow(o)' /\ CallIsPast(o)'
      <3>1. grant[o].expires \in Nat /\ call[o].at \in Nat
        BY DEF TypeOK, Grant
      <3>2. GrantIsRow(o) /\ CallIsPast(o)
        BY <1>2 DEF Unreleased
      <3> QED
        BY <1>13, <2>1, <3>1, <3>2 DEF Tick, GrantIsRow, CallIsPast
    <2> QED
      BY <2>2, <2>3 DEF Unreleased
  <1>14. CASE UNCHANGED vars \/ \E c \in Controllers : AcquireConflict(c)
    BY <1>2, <1>14 DEF AcquireConflict, vars, Unreleased, Counted, GrantIsRow, CallIsPast
  <1> QED
    BY <1>3, <1>4, <1>6, <1>7, <1>8, <1>9, <1>10, <1>11, <1>12, <1>13, <1>14 DEF Next

LEMMA LeaseInvariant == Spec => []LeaseInv
PROOF
  <1>1. Init => LeaseInv
    BY DEF Init, LeaseInv, Unreleased, Counted, GrantIsRow, CallIsPast, NoLease, NoCall
  <1> QED
    BY <1>1, LeaseStep, LeaseTypes, PTL DEF Spec

\* For any controllers and durations: as long as no lease was released, two
\* controllers never both have reason to believe that they hold the resource.
THEOREM HoldersExclude == Spec => []MutualExclusion
PROOF
  <1>1. TypeOK /\ LeaseInv => MutualExclusion
    <2> SUFFICES ASSUME TypeOK, Unreleased, NEW c \in Controllers, NEW o \in Controllers,
                        Entitled(c), Entitled(o)
                 PROVE  c = o
      BY DEF LeaseInv, MutualExclusion
    <2>1. ASSUME NEW h \in Controllers, Entitled(h) PROVE lease.holder = h
      <3>1. GrantIsRow(h) /\ grant[h] # NoGrant /\ ~ grant[h].expires <= clock
        BY <2>1 DEF Unreleased, Entitled, TypeOK, Grant
      <3>2. grant[h].gen \in 1..Len(issued) /\ Len(issued) \in Nat
        BY <3>1 DEF GrantIsRow, TypeOK
      <3>3. ~ grant[h].gen < Len(issued)
        BY <3>1 DEF GrantIsRow
      <3>4. grant[h].gen = Len(issued)
        BY <3>2, <3>3
      <3> QED
        BY <3>1, <3>4 DEF GrantIsRow
    <2> QED
      BY <2>1
  <1> QED
    BY <1>1, LeaseTypes, LeaseInvariant, PTL

\* As long as no lease was released, tokens rise from generation to generation.
THEOREM TokensKeepRising == Spec => []TokensRise
PROOF
  <1>1. TypeOK /\ LeaseInv => TokensRise
    BY DEF LeaseInv, Unreleased, Counted, TokensRise, TypeOK
  <1> QED
    BY <1>1, LeaseTypes, LeaseInvariant, PTL

\* As long as no lease was released, no operation of a generation that was taken
\* over is obeyed.
THEOREM TakenOverStaysFenced == Spec => []TakenOverIsFenced
PROOF
  <1>1. LeaseInv => TakenOverIsFenced
    BY DEF LeaseInv, Unreleased, TakenOverIsFenced
  <1> QED
    BY <1>1, LeaseInvariant, PTL
===============================================================================
