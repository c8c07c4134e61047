----------------------------- MODULE AffinitySlot -----------------------------
(***************************************************************************)
(* The lease slot of a zombie (fleet.runner_affinity) and the lease rows   *)
(* issued under it (fleet.runner_leases): claim, reclaim, issue, renew,    *)
(* report, release and the liveness sweeper's slot expiry.                 *)
(*                                                                         *)
(* Every action is one autocommit SQL statement of agentsfleetd.  A lease  *)
(* request runs several of them in a row, so between two statements of one *)
(* request any statement of another request, and time, may come.  A won    *)
(* claim is named by its fencing token, which also names the one lease row *)
(* its request may insert.                                                 *)
(***************************************************************************)
EXTENDS Integers

CONSTANTS
    Zombies,         \* each has one slot
    Runners,         \* the hosts that poll for leases
    Events,          \* the events a lease can carry
    NoRunner,        \* last_runner_id of a slot nobody claimed yet
    NoEvent,         \* a request that has not read an event yet
    SweptRunners,    \* the runners the liveness sweeper may find offline or drained
    LeaseTTL,        \* LEASE_TTL_MS
    MaxRuntime,      \* MAX_RUNTIME_MS
    MaxStall,        \* bound: how old the clock read of a renewal may be
    MaxTime,         \* bound on the clock
    MaxClaims        \* bound on the fencing sequence of a slot

ASSUME SlotAssumption ==
    /\ LeaseTTL \in Nat \ {0}
    /\ MaxRuntime \in Nat
    /\ LeaseTTL <= MaxRuntime
    /\ MaxStall \in Nat
    /\ MaxTime \in Nat
    /\ MaxClaims \in Nat
    /\ NoRunner \notin Runners
    /\ NoEvent \notin Events
    /\ SweptRunners \subseteq Runners

VARIABLES
    now,      \* the wall clock
    slot,     \* fleet.runner_affinity: one row per zombie
    work,     \* the lease requests in flight, per zombie and won token
    lease,    \* fleet.runner_leases, per zombie and token
    closing   \* the reports between their settlement and the slot's release

svars == <<now, slot, work, lease, closing>>

Tokens == 1..MaxClaims

Slots == [seq    : 0..MaxClaims,
          until  : Int,
          holder : Runners \union {NoRunner}]

\* "claimed": the claim won; "free": no prior lease to take over;
\* "acquired": the request carries an event; "stamped": the lease insert read
\* the clock.
Requests == [stage  : {"none", "claimed", "free", "acquired", "stamped"},
             runner : Runners \union {NoRunner},
             until  : Int,
             event  : Events \union {NoEvent},
             kind   : {"fresh", "reclaim"},
             at     : Int]

LeaseRows == [status  : {"none", "active", "reported", "expired"},
              runner  : Runners \union {NoRunner},
              event   : Events \union {NoEvent},
              created : Int,
              expires : Int]

NoRequest == [stage |-> "none", runner |-> NoRunner, until |-> 0,
              event |-> NoEvent, kind |-> "fresh", at |-> 0]

NoLease == [status |-> "none", runner |-> NoRunner, event |-> NoEvent,
            created |-> 0, expires |-> 0]

SlotTypeOK ==
    /\ now \in 0..MaxTime
    /\ slot \in [Zombies -> Slots]
    /\ work \in [Zombies -> [Tokens -> Requests]]
    /\ lease \in [Zombies -> [Tokens -> LeaseRows]]
    /\ closing \in [Zombies -> SUBSET Tokens]

SlotInit ==
    /\ now = 0
    /\ slot = [z \in Zombies |-> [seq |-> 0, until |-> 0, holder |-> NoRunner]]
    /\ work = [z \in Zombies |-> [t \in Tokens |-> NoRequest]]
    /\ lease = [z \in Zombies |-> [t \in Tokens |-> NoLease]]
    /\ closing = [z \in Zombies |-> {}]

-------------------------------------------------------------------------------
\* Mutant: the expiry guard dropped.
ClaimableAlways(z) == TRUE

\* A slot without a row is free; one with a row is free once it has expired.
Claimable(z) == slot[z].seq = 0 \/ slot[z].until < now

\* Mutant: the sequence bumped once more than the token handed out.
ClaimBumpsTwice(z, r) ==
    LET t == slot[z].seq + 1 IN
    /\ Claimable(z)
    /\ t <= MaxClaims
    /\ slot' = [slot EXCEPT ![z] = [seq |-> t + 1, until |-> now + LeaseTTL, holder |-> r]]
    /\ work' = [work EXCEPT ![z][t] = [stage |-> "claimed", runner |-> r,
                                       until |-> now + LeaseTTL,
                                       event |-> NoEvent, kind |-> "fresh", at |-> 0]]
    /\ UNCHANGED <<now, lease, closing>>

\* The claim UPSERT: the winner's token is the bumped sequence.
Claim(z, r) ==
    LET t == slot[z].seq + 1 IN
    /\ Claimable(z)
    /\ t <= MaxClaims
    /\ slot' = [slot EXCEPT ![z] = [seq |-> t, until |-> now + LeaseTTL, holder |-> r]]
    /\ work' = [work EXCEPT ![z][t] = [stage |-> "claimed", runner |-> r,
                                       until |-> now + LeaseTTL,
                                       event |-> NoEvent, kind |-> "fresh", at |-> 0]]
    /\ UNCHANGED <<now, lease, closing>>

Active(z, t) == lease[z][t].status = "active"

LatestActive(z, p) ==
    Active(z, p) /\ \A q \in Tokens : Active(z, q) => q <= p

\* The reclaim statement finds a lease row still active: it expires the one
\* with the highest token and the request takes over its event.
ReclaimPriorActive(z, t, p) ==
    /\ work[z][t].stage = "claimed"
    /\ LatestActive(z, p)
    /\ lease' = [lease EXCEPT ![z][p].status = "expired"]
    /\ work' = [work EXCEPT ![z][t].stage = "acquired",
                            ![z][t].event = lease[z][p].event,
                            ![z][t].kind  = "reclaim"]
    /\ UNCHANGED <<now, slot, closing>>

\* Mutant: the reclaim statement skipped.
NoPriorActiveAssumed(z, t) ==
    /\ work[z][t].stage = "claimed"
    /\ work' = [work EXCEPT ![z][t].stage = "free"]
    /\ UNCHANGED <<now, slot, lease, closing>>

\* The reclaim statement finds none.
NoPriorActive(z, t) ==
    /\ work[z][t].stage = "claimed"
    /\ \A p \in Tokens : ~Active(z, p)
    /\ work' = [work EXCEPT ![z][t].stage = "free"]
    /\ UNCHANGED <<now, slot, lease, closing>>

\* The request reads an event from the zombie's stream.
AcquireFresh(z, t, e) ==
    /\ work[z][t].stage = "free"
    /\ work' = [work EXCEPT ![z][t].stage = "acquired", ![z][t].event = e]
    /\ UNCHANGED <<now, slot, lease, closing>>

\* The lease insert reads the clock; for a fresh event the same reading goes
\* into the metering cursor, a statement of its own before the insert.
StampLease(z, t) ==
    /\ work[z][t].stage = "acquired"
    /\ work' = [work EXCEPT ![z][t].stage = "stamped", ![z][t].at = now]
    /\ UNCHANGED <<now, slot, lease, closing>>

\* The lease row is inserted.  Nothing checks the fence again here.
IssueLease(z, t) ==
    /\ work[z][t].stage = "stamped"
    /\ lease' = [lease EXCEPT ![z][t] = [status  |-> "active",
                                         runner  |-> work[z][t].runner,
                                         event   |-> work[z][t].event,
                                         created |-> work[z][t].at,
                                         expires |-> work[z][t].until]]
    /\ work' = [work EXCEPT ![z][t] = NoRequest]
    /\ UNCHANGED <<now, slot, closing>>

\* affinity.release: the slot expires now, but only for the live token.
Release(z, t) ==
    slot' = IF slot[z].seq = t THEN [slot EXCEPT ![z].until = now] ELSE slot

\* The request found nothing leasable and gives its claim back.
AbandonClaim(z, t) ==
    /\ work[z][t].stage \in {"free", "acquired"}
    /\ Release(z, t)
    /\ work' = [work EXCEPT ![z][t] = NoRequest]
    /\ UNCHANGED <<now, lease, closing>>

\* The request ends without giving the claim back: a statement failed, the
\* lease row could not be inserted, or agentsfleetd went down.
DropClaim(z, t) ==
    /\ work[z][t].stage # "none"
    /\ work' = [work EXCEPT ![z][t] = NoRequest]
    /\ UNCHANGED <<now, slot, lease, closing>>

-------------------------------------------------------------------------------
\* Mutant: no fence.
FencedNever(z, t) == TRUE

\* The fence of the renew and settle statements.
Fenced(z, t) == t >= slot[z].seq

\* Mutant: no hard ceiling.
CappedNever(z, t, at) == at + LeaseTTL

\* LEAST(now + LEASE_TTL_MS, created_at + MAX_RUNTIME_MS) of a renewal that
\* read the clock at "at".
Capped(z, t, at) ==
    LET want == at + LeaseTTL
        cap  == lease[z][t].created + MaxRuntime
    IN IF want <= cap THEN want ELSE cap

\* A renewal reads the clock, waits for a pooled connection, then runs its
\* one statement: both deadlines move, or none.
ClockReads(z, t) ==
    {at \in 0..now : lease[z][t].created <= at /\ now - at <= MaxStall}

\* Mutant: only the lease row is extended.
RenewLeaseOnly(z, t, at) ==
    /\ Active(z, t)
    /\ Fenced(z, t)
    /\ Capped(z, t, at) > at
    /\ lease' = [lease EXCEPT ![z][t].expires = Capped(z, t, at)]
    /\ UNCHANGED <<now, slot, work, closing>>

Renew(z, t, at) ==
    /\ Active(z, t)
    /\ Fenced(z, t)
    /\ Capped(z, t, at) > at
    /\ lease' = [lease EXCEPT ![z][t].expires = Capped(z, t, at)]
    /\ slot' = [slot EXCEPT ![z].until = Capped(z, t, at)]
    /\ UNCHANGED <<now, work, closing>>

\* The claim half of a report: active becomes reported under the fence.
ClaimReport(z, t) ==
    /\ Active(z, t)
    /\ Fenced(z, t)
    /\ lease' = [lease EXCEPT ![z][t].status = "reported"]
    /\ closing' = [closing EXCEPT ![z] = @ \union {t}]
    /\ UNCHANGED <<now, slot, work>>

\* The last write of a report frees the slot.
ReleaseReported(z, t) ==
    /\ t \in closing[z]
    /\ Release(z, t)
    /\ closing' = [closing EXCEPT ![z] = @ \ {t}]
    /\ UNCHANGED <<now, work, lease>>

\* The release failed, or agentsfleetd went down before it.
DropReport(z, t) ==
    /\ t \in closing[z]
    /\ closing' = [closing EXCEPT ![z] = @ \ {t}]
    /\ UNCHANGED <<now, slot, work, lease>>

-------------------------------------------------------------------------------
\* The liveness sweeper pushes the slots of a lapsed runner into the past:
\* those it claimed last and holds an active lease row for.
Sweepable(z, r) ==
    /\ slot[z].holder = r
    /\ slot[z].until > now - 1
    /\ \E t \in Tokens : Active(z, t) /\ lease[z][t].runner = r

ExpireActiveLeaseSlots(r) ==
    /\ slot' = [z \in Zombies |->
                  IF Sweepable(z, r) THEN [slot[z] EXCEPT !.until = now - 1] ELSE slot[z]]
    /\ UNCHANGED <<now, work, lease, closing>>

Tick ==
    /\ now < MaxTime
    /\ now' = now + 1
    /\ UNCHANGED <<slot, work, lease, closing>>

RequestStep(z, t) ==
    \/ \E p \in Tokens : ReclaimPriorActive(z, t, p)
    \/ NoPriorActive(z, t)
    \/ \E e \in Events : AcquireFresh(z, t, e)
    \/ StampLease(z, t)
    \/ IssueLease(z, t)
    \/ AbandonClaim(z, t)
    \/ DropClaim(z, t)

LeaseStep(z, t) ==
    \/ \E at \in ClockReads(z, t) : Renew(z, t, at)
    \/ ClaimReport(z, t)
    \/ ReleaseReported(z, t)
    \/ DropReport(z, t)

SlotNext ==
    \/ \E z \in Zombies, r \in Runners : Claim(z, r)
    \/ \E z \in Zombies, t \in Tokens : RequestStep(z, t) \/ LeaseStep(z, t)
    \/ \E r \in SweptRunners : ExpireActiveLeaseSlots(r)
    \/ Tick

SlotSpec == SlotInit /\ [][SlotNext]_svars

-------------------------------------------------------------------------------
\* The current token's lease keeps every other runner out for exactly as long
\* as its row says, unless its slot is already in the past: a renewal that
\* moved only one of the two deadlines, or a request that inserted a deadline
\* of its own, would let a second runner in while the first still runs.
HolderProtected ==
    \A z \in Zombies :
        LET t == slot[z].seq IN
        t > 0 /\ Active(z, t) =>
            \/ slot[z].until = lease[z][t].expires
            \/ slot[z].until < now

\* No chain of renewals keeps a lease alive past its hard runtime ceiling,
\* however often the runner asks and however old the clock it read.
RuntimeCap ==
    \A z \in Zombies, t \in Tokens :
        lease[z][t].status # "none" =>
            lease[z][t].expires <= lease[z][t].created + MaxRuntime

\* Lease t of a zombie is in force beside a later one, or beside a request
\* that found none in force and is about to insert a later one.
Beside(z, t) ==
    /\ Active(z, t)
    /\ \E u \in Tokens :
          /\ t < u
          /\ Active(z, u) \/ work[z][u].stage \in {"free", "acquired", "stamped"}

\* A second lease comes into force in one way only: a request that outlived
\* its claim inserts its row late, under a token that is superseded already
\* and that nobody can renew or report.  No claim that holds puts its lease
\* beside an older one (reclaim.zig:34-52, which expires the older one first,
\* and service_lease_row.zig, which does not look at the fence again).
OnlyLateRowsDouble ==
    [][\A z \in Zombies, t \in Tokens :
         Beside(z, t)' /\ ~Beside(z, t) =>
            lease[z][t].status = "none" /\ t < slot[z].seq]_svars

\* A holder whose token was superseded can still act, but nothing it does is
\* accepted: it reports nothing, extends no lease and moves no slot.
SupersededIsInert ==
    [][\A z \in Zombies, t \in Tokens :
         t < slot[z].seq =>
           /\ lease'[z][t].status = "reported" => lease[z][t].status = "reported"
           /\ lease'[z][t].expires # lease[z][t].expires => lease[z][t].status = "none"
           /\ (work'[z][t] # work[z][t] \/ lease'[z][t] # lease[z][t]
                  \/ (t \in closing[z]) # (t \in closing'[z]))
                => slot'[z] = slot[z]]_svars

Promise == INSTANCE FencedResource WITH
    Resources <- Zombies,
    granted   <- [z \in Zombies |-> slot[z].seq],
    protected <- {z \in Zombies : slot[z].seq > 0 /\ slot[z].until >= now},
    accepted  <- [z \in Zombies |-> {t \in Tokens : lease[z][t].status = "reported"}]

\* The slot and its lease rows implement the abstract fenced resource.
ImplementsFencedResource == Promise!RSpec
===============================================================================
