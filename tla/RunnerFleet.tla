------------------------------ MODULE RunnerFleet ------------------------------
(***************************************************************************)
(* The fleet of runners: registration, the operator's cordon, drain and    *)
(* revoke, the authentication of every runner call, heartbeats, and the    *)
(* liveness sweeper that each agentsfleetd replica runs.                   *)
(*                                                                         *)
(* There is no clock here.  A runner's last_seen_at is never, fresh or     *)
(* stale, and only the passing of time makes a fresh one stale; a slot is  *)
(* live or past.  Lease rows and slots are those of AffinitySlot, told     *)
(* apart only by the runner they name.                                     *)
(***************************************************************************)
EXTENDS Integers, FiniteSets, SequencesExt

CONSTANTS
    Runners,
    Zombies,
    Replicas,     \* the agentsfleetd hosts, each with a sweeper
    Nobody,       \* no runner: a slot nobody claimed, a call on no zombie
    Healthy,      \* runners, registered before, that keep polling and are left in service
    Scrapped,     \* runners, registered before, that fell silent for good; at most revoked
    BatchLimit,   \* SWEEP_BATCH_LIMIT
    MaxEpisodes   \* bound: how often a runner comes back from silence

ASSUME FleetAssumption ==
    /\ Healthy \subseteq Runners /\ Scrapped \subseteq Runners \ Healthy
    /\ IsFiniteSet(Scrapped)
    /\ Nobody \notin Runners \union Zombies
    /\ BatchLimit \in Nat \ {0}
    /\ MaxEpisodes \in Nat \ {0}

VARIABLES
    admin,     \* admin_state of each runner
    seen,      \* last_seen_at of each runner
    touched,   \* the registered runners in the order of updated_at, without the
               \* healthy ones, which are never due
    offline,   \* how many runner_offline rows name each episode of a runner
    call,      \* the request of each runner in flight (bound: one at a time)
    slot,      \* the slot of each zombie
    rows,      \* the runners with an active lease row for each zombie
    sweep      \* what each replica's sweep still has to do

vars == <<admin, seen, touched, offline, call, slot, rows, sweep>>

AdminStates == {"active", "cordoned", "draining", "drained", "revoked"}

\* An episode is a stay between two silences; it names the last_seen_at that
\* a silence begins with, the dedup_key of the runner_offline row.
Sightings == [at : {"never", "fresh", "stale"}, episode : 0..MaxEpisodes]

Calls == [pc : {"none", "authed", "claimed", "taken"}, zombie : Zombies \union {Nobody}]

\* What fetchDueRunners read of one runner.
Refs == [runner : Runners, seen : Sightings, admin : AdminStates]

FleetTypeOK ==
    /\ admin \in [Runners -> AdminStates]
    /\ seen \in [Runners -> Sightings]
    /\ touched \in Seq(Runners)
    /\ \A i, j \in DOMAIN touched : touched[i] = touched[j] => i = j
    /\ offline \in [Runners -> [0..MaxEpisodes -> Nat]]
    /\ call \in [Runners -> Calls]
    /\ slot \in [Zombies -> [live : BOOLEAN, last : Runners \union {Nobody}]]
    /\ rows \in [Zombies -> SUBSET Runners]
    /\ sweep \in [Replicas -> [batch : Seq(Refs), step : {"offline", "expire", "drain"}]]

NoCall == [pc |-> "none", zombie |-> Nobody]

NoSweep == [batch |-> <<>>, step |-> "offline"]

FleetInit ==
    /\ admin = [r \in Runners |-> "active"]
    /\ seen = [r \in Runners |-> [at |-> CASE r \in Healthy  -> "fresh"
                                          [] r \in Scrapped -> "stale"
                                          [] OTHER          -> "never", episode |-> 0]]
    /\ touched \in SetToSeqs(Scrapped)
    /\ offline = [r \in Runners |-> [e \in 0..MaxEpisodes |-> IF r \in Scrapped /\ e = 0 THEN 1 ELSE 0]]
    /\ call = [r \in Runners |-> NoCall]
    /\ slot = [z \in Zombies |-> [live |-> FALSE, last |-> Nobody]]
    /\ rows = [z \in Zombies |-> {}]
    /\ sweep = [s \in Replicas |-> NoSweep]

Registered(r) == r \in Healthy \/ \E i \in DOMAIN touched : touched[i] = r

\* updated_at := now, in the row of r
Touch(r) ==
    \/ r \in Healthy /\ UNCHANGED touched
    \/ \E i \in DOMAIN touched : touched[i] = r /\ touched' = Append(RemoveAt(touched, i), r)

-------------------------------------------------------------------------------
Register(r) ==
    /\ ~Registered(r)
    /\ touched' = Append(touched, r)
    /\ UNCHANGED <<admin, seen, offline, call, slot, rows, sweep>>

\* cordon, drain, revoke: the guard is re-checked under the row lock, so what
\* the handler read before only saves it the statement.
Patch(r, target) ==
    /\ r \notin Healthy
    /\ r \in Scrapped => target = "revoked"
    /\ Registered(r)
    /\ admin[r] # target
    /\ target # "revoked" => admin[r] # "revoked"
    /\ admin' = [admin EXCEPT ![r] = target]
    /\ Touch(r)
    /\ UNCHANGED <<seen, offline, call, slot, rows, sweep>>

\* runnerBearer: only an active runner passes, and it is not looked at again
\* for the rest of the call.
Authenticate(r) ==
    /\ Registered(r) /\ r \notin Scrapped
    /\ admin[r] = "active"
    /\ call[r] = NoCall
    /\ call' = [call EXCEPT ![r].pc = "authed"]
    /\ UNCHANGED <<admin, seen, touched, offline, slot, rows, sweep>>

\* last_seen_at := now; the end of a silence starts an episode.
Sighted(r) ==
    /\ seen[r].at = "fresh" \/ seen[r].episode < MaxEpisodes
    /\ seen' = [seen EXCEPT ![r] = [at |-> "fresh",
                                    episode |-> IF seen[r].at = "fresh" THEN @.episode
                                                                         ELSE @.episode + 1]]
    /\ Touch(r)

Heartbeat(r) ==
    /\ call[r].pc = "authed"
    /\ Sighted(r)
    /\ call' = [call EXCEPT ![r] = NoCall]
    /\ UNCHANGED <<admin, offline, slot, rows, sweep>>

\* Nothing was heard of the runner for RUNNER_OFFLINE_AFTER_MS.
FallSilent(r) ==
    /\ r \notin Healthy
    /\ seen[r].at = "fresh"
    /\ seen' = [seen EXCEPT ![r].at = "stale"]
    /\ UNCHANGED <<admin, touched, offline, call, slot, rows, sweep>>

-------------------------------------------------------------------------------
\* A lease request claims a slot that is past, ...
ClaimSlot(r, z) ==
    /\ call[r].pc = "authed"
    /\ ~slot[z].live
    /\ slot' = [slot EXCEPT ![z] = [live |-> TRUE, last |-> r]]
    /\ call' = [call EXCEPT ![r] = [pc |-> "claimed", zombie |-> z]]
    /\ UNCHANGED <<admin, seen, touched, offline, rows, sweep>>

\* ... expires a prior holder's lease row, if there is one, ...
TakeOver(r, z) ==
    /\ call[r] = [pc |-> "claimed", zombie |-> z]
    /\ \/ rows[z] = {} /\ UNCHANGED rows
       \/ \E q \in rows[z] : rows' = [rows EXCEPT ![z] = @ \ {q}]
    /\ call' = [call EXCEPT ![r].pc = "taken"]
    /\ UNCHANGED <<admin, seen, touched, offline, slot, sweep>>

\* ... and inserts its own.
IssueRow(r, z) ==
    /\ call[r] = [pc |-> "taken", zombie |-> z]
    /\ rows' = [rows EXCEPT ![z] = @ \union {r}]
    /\ call' = [call EXCEPT ![r] = NoCall]
    /\ UNCHANGED <<admin, seen, touched, offline, slot, sweep>>

\* It may also find no event, or fail, with or without freeing the slot.
GiveUp(r) ==
    /\ call[r].pc # "none"
    /\ \/ UNCHANGED slot
       \/ \E z \in Zombies : /\ call[r].zombie = z /\ slot[z].last = r
                             /\ slot' = [slot EXCEPT ![z].live = FALSE]
    /\ call' = [call EXCEPT ![r] = NoCall]
    /\ UNCHANGED <<admin, seen, touched, offline, rows, sweep>>

Holds(r, z) == r \in rows[z] /\ slot[z].last = r

\* A renewal also refreshes last_seen_at.
RenewRow(r, z) ==
    /\ call[r].pc = "authed"
    /\ Holds(r, z)
    /\ slot' = [slot EXCEPT ![z].live = TRUE]
    /\ Sighted(r)
    /\ call' = [call EXCEPT ![r] = NoCall]
    /\ UNCHANGED <<admin, offline, rows, sweep>>

ReportRow(r, z) ==
    /\ call[r].pc = "authed"
    /\ Holds(r, z)
    /\ rows' = [rows EXCEPT ![z] = @ \ {r}]
    /\ slot' = [slot EXCEPT ![z].live = FALSE]
    /\ call' = [call EXCEPT ![r] = NoCall]
    /\ UNCHANGED <<admin, seen, touched, offline, sweep>>

SlotLapses(z) ==
    /\ slot[z].live
    /\ slot' = [slot EXCEPT ![z].live = FALSE]
    /\ UNCHANGED <<admin, seen, touched, offline, call, rows, sweep>>

-------------------------------------------------------------------------------
HasRow(r) == \E z \in Zombies : r \in rows[z]

\* Mutants: one disjunct of the selector dropped.
DueUnlessDraining(r) == seen[r].at = "stale" \/ (admin[r] # "active" /\ HasRow(r))
DueUnlessLeased(r) == seen[r].at = "stale" \/ admin[r] = "draining"
DueUnlessStale(r) == admin[r] = "draining" \/ (admin[r] # "active" /\ HasRow(r))

Due(r) ==
    \/ seen[r].at = "stale"
    \/ admin[r] = "draining"
    \/ admin[r] # "active" /\ HasRow(r)

\* The due runners, least recently updated first, up to the batch limit.
Fetch(s) ==
    LET due   == {i \in DOMAIN touched : Due(touched[i])}
        first == {i \in due : Cardinality({j \in due : j < i}) < BatchLimit}
        Read(r) == [runner |-> r, seen |-> seen[r], admin |-> admin[r]]
    IN /\ sweep[s].batch = <<>>
       /\ due # {}
       /\ \E pick \in [1..Cardinality(first) -> first] :
             /\ \A i, j \in DOMAIN pick : i < j => pick[i] < pick[j]
             /\ sweep' = [sweep EXCEPT ![s].batch = [i \in DOMAIN pick |-> Read(touched[pick[i]])]]
       /\ UNCHANGED <<admin, seen, touched, offline, call, slot, rows>>

\* The sweeper is at this step of the first runner left.
AtStep(s, step) == sweep[s].batch # <<>> /\ sweep[s].step = step

Ref(s) == sweep[s].batch[1]

Advance(s, step) == sweep' = [sweep EXCEPT ![s].step = step]

\* The slots the runner claimed last and holds an active row for.
ExpireSlots(r) ==
    slot' = [z \in Zombies |-> IF slot[z].last = r /\ r \in rows[z]
                                 THEN [slot[z] EXCEPT !.live = FALSE] ELSE slot[z]]

\* Mutant: no ON CONFLICT on the dedup key.
SweepOfflineAgain(s) ==
    LET r == Ref(s).runner
        e == Ref(s).seen.episode
    IN /\ AtStep(s, "offline")
       /\ IF Ref(s).seen.at = "stale"
            THEN offline' = [offline EXCEPT ![r][e] = @ + 1] /\ ExpireSlots(r)
            ELSE UNCHANGED <<offline, slot>>
       /\ Advance(s, "expire")
       /\ UNCHANGED <<admin, seen, touched, call, rows>>

\* sweepOfflineRunner, one transaction: the offline row of this silence, and
\* only with it the slots.
SweepOffline(s) ==
    LET r == Ref(s).runner
        e == Ref(s).seen.episode
    IN /\ AtStep(s, "offline")
       /\ IF Ref(s).seen.at = "stale" /\ offline[r][e] = 0
            THEN offline' = [offline EXCEPT ![r][e] = 1] /\ ExpireSlots(r)
            ELSE UNCHANGED <<offline, slot>>
       /\ Advance(s, "expire")
       /\ UNCHANGED <<admin, seen, touched, call, rows>>

SweepExpire(s) ==
    /\ AtStep(s, "expire")
    /\ IF Ref(s).admin # "active" THEN ExpireSlots(Ref(s).runner) ELSE UNCHANGED slot
    /\ Advance(s, "drain")
    /\ UNCHANGED <<admin, seen, touched, offline, call, rows>>

Done(s) == sweep' = [sweep EXCEPT ![s] = [batch |-> Tail(@.batch), step |-> "offline"]]

\* Mutants: a state nobody knows; the admin state that was read not checked again.
SweepDrainMisspelt(s) ==
    LET r == Ref(s).runner IN
    /\ AtStep(s, "drain")
    /\ IF Ref(s).admin = "draining" /\ admin[r] = "draining" /\ ~HasRow(r)
         THEN admin' = [admin EXCEPT ![r] = "idle"] /\ Touch(r)
         ELSE UNCHANGED <<admin, touched>>
    /\ Done(s)
    /\ UNCHANGED <<seen, offline, call, slot, rows>>

SweepDrainUnchecked(s) ==
    LET r == Ref(s).runner IN
    /\ AtStep(s, "drain")
    /\ IF Ref(s).admin = "draining" /\ ~HasRow(r)
         THEN admin' = [admin EXCEPT ![r] = "drained"] /\ Touch(r)
         ELSE UNCHANGED <<admin, touched>>
    /\ Done(s)
    /\ UNCHANGED <<seen, offline, call, slot, rows>>

\* markDrainedIfIdle re-checks the state and the rows in its statement.
SweepDrain(s) ==
    LET r == Ref(s).runner IN
    /\ AtStep(s, "drain")
    /\ IF Ref(s).admin = "draining" /\ admin[r] = "draining" /\ ~HasRow(r)
         THEN admin' = [admin EXCEPT ![r] = "drained"] /\ Touch(r)
         ELSE UNCHANGED <<admin, touched>>
    /\ Done(s)
    /\ UNCHANGED <<seen, offline, call, slot, rows>>

\* A failing statement ends the whole sweep; the next one starts over.
SweepFails(s) ==
    /\ sweep[s].batch # <<>>
    /\ sweep' = [sweep EXCEPT ![s] = NoSweep]
    /\ UNCHANGED <<admin, seen, touched, offline, call, slot, rows>>

-------------------------------------------------------------------------------
RunnerCall(r) ==
    \/ Authenticate(r)
    \/ Heartbeat(r)
    \/ \E z \in Zombies : \/ ClaimSlot(r, z)
                          \/ TakeOver(r, z)
                          \/ IssueRow(r, z)
                          \/ RenewRow(r, z)
                          \/ ReportRow(r, z)
    \/ GiveUp(r)

SweepStep(s) == SweepOffline(s) \/ SweepExpire(s) \/ SweepDrain(s)

FleetNext ==
    \/ \E r \in Runners : Register(r) \/ FallSilent(r) \/ RunnerCall(r)
    \/ \E r \in Runners, target \in {"cordoned", "draining", "revoked"} : Patch(r, target)
    \/ \E z \in Zombies : SlotLapses(z)
    \/ \E s \in Replicas : Fetch(s) \/ SweepStep(s) \/ SweepFails(s)

\* Each replica's sweeper loops for ever.  A healthy runner polls for ever; of
\* its many polls of a claimable zombie some succeed, and so do some of its runs.
FleetFairness ==
    /\ \A s \in Replicas : WF_vars(Fetch(s)) /\ WF_vars(SweepStep(s))
    /\ \A r \in Healthy :
         /\ WF_vars(Authenticate(r))
         /\ \A z \in Zombies :
              SF_vars(ClaimSlot(r, z)) /\ SF_vars(TakeOver(r, z)) /\ SF_vars(ReportRow(r, z))

\* Sweeps are not cut short for ever.  (A failure of a last step that had
\* nothing to change is no different from its success.)
SweepsRecover == <>[][\A s \in Replicas : SweepFails(s) => SweepStep(s)]_vars

\* A handler returns, or its connection drops.
CallsEnd == \A r \in Runners : WF_vars(call[r].pc # "none" /\ RunnerCall(r))

\* A claim without a lease lapses, and so does a lease in the end (MAX_RUNTIME_MS).
\* The leases of runners out of service are left out: those are the sweeper's.
OutOfService(z) == \E r \in Runners : Holds(r, z) /\ admin[r] # "active"

LeasesEnd == \A z \in Zombies : WF_vars(~OutOfService(z) /\ SlotLapses(z))

FleetSpec == FleetInit /\ [][FleetNext]_vars /\ FleetFairness /\ CallsEnd /\ LeasesEnd /\ SweepsRecover

-------------------------------------------------------------------------------
\* A revoked runner stays revoked, whatever operators and sweepers that read
\* its state before the revocation still write ("no un-revoke",
\* M84_002_P1_API_UI_FLEET_OPERATOR_PLANE_EVENT_LOG.md).
RevokedIsFinal ==
    [][\A r \in Runners : admin[r] = "revoked" => admin'[r] = "revoked"]_vars

\* However many replicas sweep the same silent runner, and however old what
\* they read is, one silence has one runner_offline row.
OneOfflineRowPerSilence ==
    \A r \in Runners : \A e \in 0..MaxEpisodes : offline[r][e] <= 1

\* The states of the fleet are well formed, and no silence is recorded twice.
FleetInvariant == FleetTypeOK /\ OneOfflineRowPerSilence

\* The next sweep gets as far as r.  Nothing makes a runner that stays silent
\* less due, so with a batch of those in front no sweep ever gets to the ones
\* behind (ORDER BY updated_at, LIMIT, liveness_sweeper.zig:105-107).
InReach(r) ==
    \E i \in DOMAIN touched :
        touched[i] = r /\ Cardinality({j \in 1..i - 1 : Due(touched[j])}) < BatchLimit

\* A silence leaves its runner_offline row, unless the runner is heard again
\* first or falls behind a full batch.
SilenceIsRecorded ==
    \A r \in Runners \ Healthy : \A e \in 1..MaxEpisodes :
        seen[r] = [at |-> "stale", episode |-> e] /\ InReach(r)
            ~> offline[r][e] > 0 \/ seen[r] # [at |-> "stale", episode |-> e] \/ ~InReach(r)

\* A runner an operator took out of service loses the zombies it held, by the
\* sweep of its slots alone, without waiting for its leases to lapse, unless it
\* falls behind a full batch.
OutOfServiceLosesWork ==
    \A r \in Runners \ Healthy, z \in Zombies :
        admin[r] # "active" /\ Holds(r, z) /\ InReach(r) ~> ~Holds(r, z) \/ ~InReach(r)

\* "Drain completion is automatic" (M84_002...:207): a draining runner that the
\* sweeps get to is drained eventually, or an operator decides otherwise.
DrainCompletes ==
    \A r \in Runners \ Healthy :
        admin[r] = "draining" /\ InReach(r) ~> admin[r] # "draining" \/ ~InReach(r)

\* Together, what the sweeper owes a runner that does not come back by itself.
FleetSettles == SilenceIsRecorded /\ OutOfServiceLosesWork /\ DrainCompletes
===============================================================================
