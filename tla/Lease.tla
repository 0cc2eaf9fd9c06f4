-------------------------------- MODULE Lease --------------------------------
(***************************************************************************)
(* The lease and fencing service (lease.py) on one resource, called by     *)
(* several controllers. An operation reads the row, decides, and then      *)
(* writes with a guarded statement; another controller can get in between. *)
(* The write and the read that follows it happen under SQLite's write      *)
(* lock, in the caller's transaction: they are one step here, and a crash  *)
(* before the caller's commit is a crash before that step.                 *)
(***************************************************************************)
EXTENDS Integers, Sequences

CONSTANTS Controllers,     \* holders, as controller_instance_id names them
          NoController,    \* not one of them
          Durations,       \* the lease_seconds callers ask for
          MaxTime,         \* bound on the clock
          MaxVersion       \* bound on the row's version and on the generations

ASSUME ControllerAssumption == NoController \notin Controllers
ASSUME DurationAssumption   == Durations \subseteq Nat \ {0}
ASSUME BoundAssumption      == MaxTime \in Nat /\ MaxVersion \in Nat

VARIABLES lease,     \* the row of controller_leases, or NoLease
          clock,     \* the time callers pass as at
          pc,        \* the write each controller is about to make
          call,      \* the arguments of its call and the row it read
          grant,     \* what each controller was last told it holds
          issued,    \* history: the generations acquire created, in order
          staleServed, \* history: a superseded generation was obeyed
          released   \* history: release has deleted the row before

vars == <<lease, clock, pc, call, grant, issued, staleServed, released>>

\* heartbeat_at and acquired_at are read by no decision and left out.
Row == [holder : Controllers, token : Nat, expires : Nat, version : Nat]

NoLease == [holder |-> NoController, token |-> 0, expires |-> 0, version |-> 0]

\* gen is the index in issued of the generation the controller was given.
NoGrant == [token |-> 0, expires |-> 0, gen |-> 0]
Grant   == [token : Nat, expires : Nat, gen : Nat]

NoCall == [at |-> 0, duration |-> 1, seen |-> NoLease]

Init == /\ lease = NoLease
        /\ clock = 0
        /\ pc    = [c \in Controllers |-> "idle"]
        /\ call  = [c \in Controllers |-> NoCall]
        /\ grant = [c \in Controllers |-> NoGrant]
        /\ issued = << >>
        /\ staleServed = FALSE
        /\ released = FALSE

-------------------------------------------------------------------------------
Expired(row, at) == row.expires <= at

Superseded(c) == grant[c].gen < Len(issued)

\* The first half of every operation that goes on to write.
Begin(c, next, d) ==
    /\ pc'   = [pc   EXCEPT ![c] = next]
    /\ call' = [call EXCEPT ![c] = [at |-> clock, duration |-> d, seen |-> lease]]
    /\ UNCHANGED <<lease, clock, grant, issued, staleServed, released>>

\* The end of an operation, refused or served.
End(c) == /\ pc'   = [pc   EXCEPT ![c] = "idle"]
          /\ call' = [call EXCEPT ![c] = NoCall]
          /\ UNCHANGED clock

Refused(c) == End(c) /\ UNCHANGED <<lease, grant, issued, staleServed, released>>

(* acquire                                                                 *)

AcquireRead(c, d) ==
    /\ pc[c] = "idle"
    /\ \/ lease = NoLease /\ Begin(c, "insert", d)
       \/ lease # NoLease /\ Expired(lease, clock) /\ Begin(c, "takeover", d)

\* Leased to somebody, the caller itself perhaps: LEASE_CONFLICT.
AcquireConflict(c) ==
    /\ pc[c] = "idle"
    /\ lease # NoLease
    /\ ~ Expired(lease, clock)
    /\ UNCHANGED vars

NewGeneration(c, token) ==
    /\ issued' = Append(issued, token)
    /\ grant'  = [grant EXCEPT ![c] =
                    [token |-> token, expires |-> call[c].at + call[c].duration,
                     gen |-> Len(issued) + 1]]
    /\ End(c)
    /\ UNCHANGED <<staleServed, released>>

AcquireInsert(c) ==
    /\ pc[c] = "insert"
    /\ \/ /\ lease = NoLease
          /\ lease' = [holder |-> c, token |-> 1, version |-> 0,
                       expires |-> call[c].at + call[c].duration]
          /\ NewGeneration(c, 1)
       \/ lease # NoLease /\ Refused(c)          \* IntegrityError

\* Mutant: the takeover UPDATE names the row only, not the version it read.
UnguardedTakeover(c) ==
    /\ pc[c] = "takeover"
    /\ \/ /\ lease # NoLease
          /\ lease' = [holder |-> c, token |-> call[c].seen.token + 1,
                       expires |-> call[c].at + call[c].duration,
                       version |-> lease.version + 1]
          /\ NewGeneration(c, call[c].seen.token + 1)
       \/ lease = NoLease /\ Refused(c)

\* Mutant: the new generation keeps the token of the old one.
TakeoverSameToken(c) ==
    /\ pc[c] = "takeover"
    /\ \/ /\ lease # NoLease
          /\ Expired(lease, call[c].at)
          /\ lease.version = call[c].seen.version
          /\ lease' = [holder |-> c, token |-> call[c].seen.token,
                       expires |-> call[c].at + call[c].duration,
                       version |-> lease.version + 1]
          /\ NewGeneration(c, call[c].seen.token)
       \/ /\ lease = NoLease \/ ~ Expired(lease, call[c].at)
             \/ lease.version # call[c].seen.version
          /\ Refused(c)

AcquireTakeover(c) ==
    /\ pc[c] = "takeover"
    /\ \/ /\ lease # NoLease
          /\ Expired(lease, call[c].at)
          /\ lease.version = call[c].seen.version
          /\ lease' = [holder |-> c, token |-> call[c].seen.token + 1,
                       expires |-> call[c].at + call[c].duration,
                       version |-> lease.version + 1]
          /\ NewGeneration(c, call[c].seen.token + 1)
       \/ /\ lease = NoLease \/ ~ Expired(lease, call[c].at)
             \/ lease.version # call[c].seen.version
          /\ Refused(c)

(* heartbeat                                                               *)

\* Mutant: the token is not compared with the row's.
HeartbeatAnyToken(c, d) ==
    /\ pc[c] = "idle"
    /\ grant[c] # NoGrant
    /\ lease # NoLease
    /\ ~ Expired(lease, clock)
    /\ lease.version < MaxVersion
    /\ Begin(c, "renew", d)

\* The holder argument is compared with nothing: the token alone decides.
HeartbeatRead(c, d) ==
    /\ pc[c] = "idle"
    /\ grant[c] # NoGrant
    /\ lease # NoLease
    /\ lease.token = grant[c].token
    /\ ~ Expired(lease, clock)
    /\ lease.version < MaxVersion
    /\ Begin(c, "renew", d)

HeartbeatWrite(c) ==
    /\ pc[c] = "renew"
    /\ \/ /\ lease.holder = call[c].seen.holder
          /\ lease.token  = call[c].seen.token
          /\ ~ Expired(lease, call[c].at)
          /\ lease' = [holder |-> lease.holder, token |-> lease.token,
                       expires |-> call[c].at + call[c].duration,
                       version |-> lease.version + 1]
          /\ grant' = [grant EXCEPT ![c].expires = call[c].at + call[c].duration]
          /\ staleServed' = (staleServed \/ Superseded(c))
          /\ End(c)
          /\ UNCHANGED <<issued, released>>
       \/ /\ \/ lease.holder # call[c].seen.holder
             \/ lease.token # call[c].seen.token
             \/ Expired(lease, call[c].at)
          /\ Refused(c)

(* release                                                                 *)

ReleaseRead(c) ==
    /\ pc[c] = "idle"
    /\ grant[c] # NoGrant
    /\ \/ /\ lease.token = grant[c].token
          /\ lease.holder = c
          /\ Len(issued) < MaxVersion
          /\ Begin(c, "delete", 1)
       \/ /\ lease = NoLease                      \* idempotent
          /\ grant' = [grant EXCEPT ![c] = NoGrant]
          /\ UNCHANGED <<lease, clock, pc, call, issued, staleServed, released>>

\* Mutant: the row is kept, without a holder.
ReleaseBlanksHolder(c) ==
    /\ pc[c] = "delete"
    /\ lease' = IF /\ lease.holder = call[c].seen.holder
                   /\ lease.token  = call[c].seen.token
                THEN [lease EXCEPT !.holder = NoController] ELSE lease
    /\ grant' = [grant EXCEPT ![c] = NoGrant]
    /\ End(c)
    /\ released' = (released \/ lease' = NoLease)
    /\ UNCHANGED <<issued, staleServed>>

\* Whether a row was deleted is not looked at.
ReleaseDelete(c) ==
    /\ pc[c] = "delete"
    /\ lease' = IF /\ lease.holder = call[c].seen.holder
                   /\ lease.token  = call[c].seen.token
                THEN NoLease ELSE lease
    /\ grant' = [grant EXCEPT ![c] = NoGrant]
    /\ End(c)
    /\ released' = (released \/ lease' = NoLease)
    /\ UNCHANGED <<issued, staleServed>>

(* check_held                                                              *)

Passes(c) == /\ lease # NoLease
             /\ lease.token = grant[c].token
             /\ lease.holder = c
             /\ ~ Expired(lease, clock)

CheckHeld(c) ==
    /\ pc[c] = "idle"
    /\ grant[c] # NoGrant
    /\ Passes(c)
    /\ staleServed' = (staleServed \/ Superseded(c))
    /\ UNCHANGED <<lease, clock, pc, call, grant, issued, released>>

-------------------------------------------------------------------------------
\* The process dies, its uncommitted write with it, and comes back knowing
\* of no lease.
Crash(c) ==
    /\ pc[c] # "idle" \/ grant[c] # NoGrant
    /\ grant' = [grant EXCEPT ![c] = NoGrant]
    /\ End(c)
    /\ UNCHANGED <<lease, issued, staleServed, released>>

Tick == /\ clock < MaxTime
        /\ clock' = clock + 1
        /\ UNCHANGED <<lease, pc, call, grant, issued, staleServed, released>>

Next == \/ Tick
        \/ \E c \in Controllers :
             \/ \E d \in Durations : AcquireRead(c, d) \/ HeartbeatRead(c, d)
             \/ AcquireConflict(c)
             \/ AcquireInsert(c) \/ AcquireTakeover(c) \/ HeartbeatWrite(c)
             \/ ReleaseRead(c) \/ ReleaseDelete(c) \/ CheckHeld(c) \/ Crash(c)

Spec == Init /\ [][Next]_vars

-------------------------------------------------------------------------------
(* Properties.                                                             *)

TypeOK == /\ lease \in Row \cup {NoLease}
          /\ clock \in 0..MaxTime
          /\ pc \in [Controllers -> {"idle", "insert", "takeover", "renew", "delete"}]
          /\ call \in [Controllers -> [at : Nat, duration : Nat,
                                       seen : Row \cup {NoLease}]]
          /\ grant \in [Controllers -> Grant]
          /\ issued \in Seq(Nat)
          /\ staleServed \in BOOLEAN
          /\ released \in BOOLEAN

\* What a controller may conclude from its last answer.
Entitled(c) == grant[c] # NoGrant /\ clock < grant[c].expires

\* As long as no lease was released, two controllers never both have reason to
\* believe that they hold the resource, whatever the order of their reads and
\* writes (docs/M0-A-ACCEPTANCE.md, criterion 1).
MutualExclusion ==
    ~ released => \A c, o \in Controllers : Entitled(c) /\ Entitled(o) => c = o

\* As long as no lease was released, every generation carries a larger token
\* than all before it (models.py:492, fencing_token grows monotonically).
TokensRise ==
    ~ released => \A i, j \in 1..Len(issued) : i < j => issued[i] < issued[j]

\* As long as no lease was released, no operation of a generation that was
\* taken over is obeyed, late as it may come.
TakenOverIsFenced == ~ released => ~ staleServed

\* Claim of lease.py:4-5: a generation that was taken over always gets
\* STALE_FENCING_TOKEN.
SupersededIsFenced == ~ staleServed
===============================================================================
