------------------------------- MODULE Metering -------------------------------
(***************************************************************************)
(* What a run costs: the metering cursor of the slot, the slice a renewal  *)
(* and the final settlement charge, and the three tables one charge is     *)
(* written to (the tenant's wallet, the event's ledger row and the         *)
(* breakdown of its slices).  Extends AffinitySlot: a renewal and a report *)
(* are the statements of that module with the charge in the same           *)
(* statement, so both happen or neither does.                              *)
(*                                                                         *)
(* The three token tiers are one; posture is platform, after the free      *)
(* trial (both other cases only set rates to zero).                        *)
(***************************************************************************)
EXTENDS AffinitySlot, FiniteSetsExt

CONSTANTS
    Tenants,   \* who pays
    Tenant,    \* Tenant[z] owns zombie z
    StreamId,  \* StreamId[e] is the Redis entry id of e, unique in its stream only
    Home,      \* Home[e] is the zombie whose stream carries e
    Balance,   \* the starter grant of each tenant
    RunRate,   \* RUN_NANOS_PER_SEC
    TokRate,   \* input/cached/output_nanos_per_mtok
    MaxTokens, \* bound on what one run consumes
    MaxSlices, \* bound on the slices one cursor numbers
    StopPolicy, \* whether the balance policy is "stop", the default
    Retries    \* whether a request may fail after it took an event over

ASSUME MeteringAssumption ==
    /\ Tenant \in [Zombies -> Tenants]
    /\ Home \in [Events -> Zombies]
    /\ \A d, e \in Events : Home[d] = Home[e] /\ StreamId[d] = StreamId[e] => d = e
    /\ Balance \in Nat /\ RunRate \in Nat /\ TokRate \in Nat /\ MaxTokens \in Nat /\ MaxSlices \in Nat
    /\ StopPolicy \in BOOLEAN
    /\ Retries \in BOOLEAN

VARIABLES
    cursor,    \* the durable metering cursor of each slot
    priced,    \* the leases whose row names a provider, per zombie
    used,      \* tokens the run under each lease has consumed
    wallet,    \* billing.tenant_billing.balance_nanos
    ledger,    \* credit_deducted_nanos of the stage row, per stream id
    periods    \* fleet.metering_periods

mvars == <<cursor, priced, used, wallet, ledger, periods>>
vars == <<svars, mvars>>

Ids == {StreamId[e] : e \in Events}

Cursors == [tok : Nat, at : Int, seq : Nat]

\* One row of the breakdown; by names the zombie that metered it.
Periods == [id : Ids, by : Zombies, seq : Nat, ms : Nat, tok : Nat, charged : Nat]

MeteringTypeOK ==
    /\ cursor \in [Zombies -> Cursors]
    /\ priced \in [Zombies -> SUBSET Tokens]
    /\ used \in [Zombies -> [Tokens -> 0..MaxTokens]]
    /\ wallet \in [Tenants -> Nat]
    /\ ledger \in [Ids -> Nat]
    /\ \A p \in periods : p \in Periods

MeteringInit ==
    /\ SlotInit
    /\ cursor = [z \in Zombies |-> [tok |-> 0, at |-> 0, seq |-> 0]]
    /\ priced = [z \in Zombies |-> {}]
    /\ used = [z \in Zombies |-> [t \in Tokens |-> 0]]
    /\ wallet = [x \in Tenants |-> Balance]
    /\ ledger = [i \in Ids |-> 0]
    /\ periods = {}

-------------------------------------------------------------------------------
\* The first claim of a slot seeds the cursor, a later one keeps it.
MeteredClaim(z, r) ==
    /\ Claim(z, r)
    /\ cursor' = IF slot[z].seq = 0 THEN [cursor EXCEPT ![z].at = now] ELSE cursor
    /\ UNCHANGED <<priced, used, wallet, ledger, periods>>

LeasesOf(e) == {t \in Tokens : lease[Home[e]][t].event = e}

\* An event whose report was accepted is terminal and not leased again
\* (EventDelivery says when that holds); any other may be read, or re-read
\* from the pending list.
MeteredAcquire(z, t, e) ==
    /\ Home[e] = z
    /\ \A u \in LeasesOf(e) : lease[z][u].status # "reported"
    /\ AcquireFresh(z, t, e)
    /\ UNCHANGED mvars

\* resetCursor: a fresh event starts at zero.  No fence guards the statement.
MeteredStamp(z, t) ==
    /\ StampLease(z, t)
    /\ cursor' = IF work[z][t].kind = "fresh"
                   THEN [cursor EXCEPT ![z] = [tok |-> 0, at |-> now, seq |-> 0]]
                   ELSE cursor
    /\ UNCHANGED <<priced, used, wallet, ledger, periods>>

\* Only a fresh lease carries the provider its billing resolved.
MeteredIssue(z, t) ==
    /\ IssueLease(z, t)
    /\ priced' = IF work[z][t].kind = "fresh" THEN [priced EXCEPT ![z] = @ \union {t}]
                                              ELSE priced
    /\ UNCHANGED <<cursor, used, wallet, ledger, periods>>

\* A request that fails after taking an event over leaves it to a re-read.
MeteredGiveUp(z, t) ==
    /\ Retries \/ work[z][t].stage = "free"
    /\ AbandonClaim(z, t) \/ DropClaim(z, t)
    /\ UNCHANGED mvars

\* The child of a lease consumes a token, whether or not the lease still holds.
Consume(z, t) ==
    /\ lease[z][t].status \in {"active", "expired"}
    /\ used[z][t] < MaxTokens
    /\ used' = [used EXCEPT ![z][t] = @ + 1]
    /\ UNCHANGED <<svars, cursor, priced, wallet, ledger, periods>>

-------------------------------------------------------------------------------
IdOf(z, t) == StreamId[lease[z][t].event]

\* Mutant: a regressed count is credited.
AheadUnclamped(a, b) == a - b

\* GREATEST(0, a - b)
Ahead(a, b) == IF a > b THEN a - b ELSE 0

\* Mutant: the slice recorded, not what the wallet could pay.
LeastUncapped(a, b) == a

\* LEAST(a, b)
Least(a, b) == IF a < b THEN a ELSE b

\* A lease row without a provider misses the rate row: run fee only.
CanPrice(z, t) == t \in priced[z]

Fee(z, t, ms, tok) == ms * RunRate + (IF CanPrice(z, t) THEN tok * TokRate ELSE 0)

\* Mutant: ON CONFLICT overwrites the ledger row.
LedgerOverwritten(l, i, paid) == [l EXCEPT ![i] = paid]

\* ON CONFLICT the ledger row accumulates.
LedgerPlus(l, i, paid) == [l EXCEPT ![i] = @ + paid]

\* Mutant: the time of the cursor left behind.
AdvanceNoTime(c, at, tok) == [tok |-> c.tok + tok, at |-> c.at, seq |-> c.seq + 1]

\* The cursor past a slice; the clock reading is taken as it is, also an old one.
Advance(c, at, tok) == [tok |-> c.tok + tok, at |-> at, seq |-> c.seq + 1]

\* One slice: the time and the tokens since the cursor, priced and charged up
\* to the balance, in all three tables; the cursor moves on.  The breakdown's
\* key (event_id, slice_seq) is unique and its insert has no ON CONFLICT, so a
\* taken key fails the whole statement.
ChargeSlice(z, t, at, cum) ==
    LET x    == Tenant[z]
        ms   == Ahead(at, cursor[z].at)
        tok  == Ahead(cum, cursor[z].tok)
        cost == Fee(z, t, ms, tok)
        paid == Least(cost, wallet[x])
        seq  == cursor[z].seq + 1
    IN /\ seq <= MaxSlices
       /\ \A p \in periods : ~(p.id = IdOf(z, t) /\ p.seq = seq)
       /\ wallet' = [wallet EXCEPT ![x] = Ahead(@, cost)]
       /\ ledger' = LedgerPlus(ledger, IdOf(z, t), paid)
       /\ periods' = periods \union
            {[id |-> IdOf(z, t), by |-> z, seq |-> seq, ms |-> ms, tok |-> tok, charged |-> paid]}
       /\ cursor' = [cursor EXCEPT ![z] = Advance(@, at, tok)]
       /\ UNCHANGED <<priced, used>>

\* A renewal or a report carries a cumulative count the run has reached, not
\* always the latest (a retry re-sends an old one).  Under the stop policy
\* balanceCoversEstimate prices an estimate first; on a lease without a
\* provider it finds no rate and panics, so the renewal never gets here and
\* what agentsfleetd had in flight is dropped.
MeteredRenew(z, t) ==
    /\ StopPolicy => CanPrice(z, t)
    /\ \E at \in ClockReads(z, t), cum \in 0..used[z][t] :
         Renew(z, t, at) /\ ChargeSlice(z, t, at, cum)

MeteredReport(z, t) ==
    /\ \E at \in ClockReads(z, t), cum \in 0..used[z][t] :
         ClaimReport(z, t) /\ ChargeSlice(z, t, at, cum)

MeteredStep(z, t) ==
    \/ \E p \in Tokens : ReclaimPriorActive(z, t, p) /\ UNCHANGED mvars
    \/ NoPriorActive(z, t) /\ UNCHANGED mvars
    \/ \E e \in Events : MeteredAcquire(z, t, e)
    \/ MeteredStamp(z, t)
    \/ MeteredIssue(z, t)
    \/ MeteredGiveUp(z, t)
    \/ Consume(z, t)
    \/ MeteredRenew(z, t)
    \/ MeteredReport(z, t)
    \/ (ReleaseReported(z, t) \/ DropReport(z, t)) /\ UNCHANGED mvars

MeteringNext ==
    \/ \E z \in Zombies, r \in Runners : MeteredClaim(z, r)
    \/ \E z \in Zombies, t \in Tokens : MeteredStep(z, t)
    \/ \E r \in SweptRunners : ExpireActiveLeaseSlots(r) /\ UNCHANGED mvars
    \/ Tick /\ UNCHANGED mvars

MeteringSpec == MeteringInit /\ [][MeteringNext]_vars

-------------------------------------------------------------------------------
\* What a set of slices charged, and the time that it metered.
Charged(ps) == MapThenSumSet(LAMBDA p : p.charged, ps)
TimeIn(ps) == MapThenSumSet(LAMBDA p : p.ms, ps)

\* What left a tenant's wallet is what the breakdown of that tenant's zombies
\* says was charged, also on the slice that empties the wallet and when a
\* retried, reordered or fenced-out statement raced it.
AuditMatchesWallet ==
    \A x \in Tenants :
        Balance - wallet[x] = Charged({p \in periods : Tenant[p.by] = x})

\* The two audit tables agree on every event.
LedgerMatchesPeriods ==
    \A i \in Ids : ledger[i] = Charged({p \in periods : p.id = i})

PeriodsOf(e) == {p \in periods : p.id = StreamId[e] /\ p.by = Home[e]}

\* The slices of a zombie that metered no time.  Only one of these may have set
\* its cursor back: it carried a clock reading from before the last slice.
Timeless(z) == {p \in periods : p.by = z /\ p.ms = 0}

\* No moment is metered twice, but for what a renewal sets the cursor back by
\* reading its clock before it waits for a connection (service_renew.zig:148):
\* the metered time of an event fits between a lease of it and now, give or
\* take the age of the reading of every slice that metered none ("exactly
\* runtime x rate", billing_and_provider_keys.md:96; "no double-charge",
\* renewal.zig:106).
TimeMeteredOnce ==
    \A e \in Events :
        PeriodsOf(e) # {} =>
          \E t \in LeasesOf(e) :
             TimeIn(PeriodsOf(e)) <=
               now - lease[Home[e]][t].created + MaxStall * Cardinality(Timeless(Home[e]))

\* The three tables that a charge is written to agree (renewal.zig and
\* renewal_settle.zig write them in one statement, with clamps in each).
BooksAgree == AuditMatchesWallet /\ LedgerMatchesPeriods
===============================================================================
