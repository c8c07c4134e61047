--------------------------- MODULE RunnerFleetProofs ---------------------------
(***************************************************************************)
(* What operators, runners and any number of sweepers on stale reads can   *)
(* never do to a runner's row, for every fleet.                            *)
(***************************************************************************)
EXTENDS RunnerFleet, FiniteSetTheorems, SequenceTheorems, TLAPS

\* No step takes a runner out of "revoked".
RevokedKept == \A r \in Runners : admin[r] = "revoked" => admin'[r] = "revoked"

-------------------------------------------------------------------------------
\* The actions that write admin, and those that do not.
LEMMA AdminStep ==
    ASSUME admin \in [Runners -> AdminStates], FleetNext
    PROVE  admin' \in [Runners -> AdminStates] /\ RevokedKept
<1> USE DEF RevokedKept, AdminStates
<1>1. ASSUME NEW r \in Runners, Register(r) \/ FallSilent(r) \/ RunnerCall(r)
      PROVE  UNCHANGED admin
  BY <1>1 DEF Register, FallSilent, RunnerCall, Authenticate, Heartbeat, ClaimSlot, TakeOver, IssueRow,
     RenewRow, ReportRow, GiveUp
<1>2. ASSUME NEW r \in Runners, NEW target \in {"cordoned", "draining", "revoked"}, Patch(r, target)
      PROVE  admin' \in [Runners -> AdminStates] /\ RevokedKept
  BY <1>2 DEF Patch
<1>3. ASSUME NEW s \in Replicas, SweepDrain(s)
      PROVE  admin' \in [Runners -> AdminStates] /\ RevokedKept
  <2>1. UNCHANGED admin \/ \E r : admin[r] = "draining" /\ admin' = [admin EXCEPT ![r] = "drained"]
    BY <1>3 DEF SweepDrain
  <2>2. QED  BY <2>1
<1>4. ASSUME NEW s \in Replicas, Fetch(s) \/ SweepOffline(s) \/ SweepExpire(s) \/ SweepFails(s)
      PROVE  UNCHANGED admin
  BY <1>4 DEF Fetch, SweepOffline, SweepExpire, SweepFails
<1>5. ASSUME NEW z \in Zombies, SlotLapses(z)  PROVE  UNCHANGED admin
  BY <1>5 DEF SlotLapses
<1>6. QED  BY <1>1, <1>2, <1>3, <1>4, <1>5 DEF FleetNext, SweepStep

\* Only a sweep writes offline, and only where nothing was written before.
LEMMA OfflineStep ==
    ASSUME offline \in [Runners -> [0..MaxEpisodes -> Nat]], OneOfflineRowPerSilence, FleetNext
    PROVE  offline' \in [Runners -> [0..MaxEpisodes -> Nat]] /\ OneOfflineRowPerSilence'
<1> USE DEF OneOfflineRowPerSilence
<1>1. ASSUME NEW r \in Runners, Register(r) \/ FallSilent(r) \/ RunnerCall(r)
      PROVE  UNCHANGED offline
  BY <1>1 DEF Register, FallSilent, RunnerCall, Authenticate, Heartbeat, ClaimSlot, TakeOver, IssueRow,
     RenewRow, ReportRow, GiveUp
<1>2. ASSUME NEW r \in Runners, NEW target \in {"cordoned", "draining", "revoked"}, Patch(r, target)
      PROVE  UNCHANGED offline
  BY <1>2 DEF Patch
<1>3. ASSUME NEW s \in Replicas, SweepOffline(s)
      PROVE  offline' \in [Runners -> [0..MaxEpisodes -> Nat]] /\ OneOfflineRowPerSilence'
  <2>1. CASE UNCHANGED offline
    BY <2>1
  <2>2. ASSUME NEW r, NEW e, offline' = [offline EXCEPT ![r][e] = 1]
        PROVE  offline' \in [Runners -> [0..MaxEpisodes -> Nat]] /\ OneOfflineRowPerSilence'
    <3>1. [offline[r] EXCEPT ![e] = 1] \in [0..MaxEpisodes -> Nat] \/ r \notin Runners
      OBVIOUS
    <3>2. offline' \in [Runners -> [0..MaxEpisodes -> Nat]]  BY <2>2, <3>1
    <3>3. ASSUME NEW q \in Runners, NEW d \in 0..MaxEpisodes  PROVE offline'[q][d] \in {1, offline[q][d]}
      BY <2>2
    <3>4. QED  BY <3>2, <3>3
  <2>3. QED  BY <1>3, <2>1, <2>2 DEF SweepOffline
<1>4. ASSUME NEW s \in Replicas, Fetch(s) \/ SweepExpire(s) \/ SweepDrain(s) \/ SweepFails(s)
      PROVE  UNCHANGED offline
  BY <1>4 DEF Fetch, SweepExpire, SweepDrain, SweepFails
<1>5. ASSUME NEW z \in Zombies, SlotLapses(z)  PROVE  UNCHANGED offline
  BY <1>5 DEF SlotLapses
<1>6. QED  BY <1>1, <1>2, <1>3, <1>4, <1>5 DEF FleetNext, SweepStep

\* A sequence without its k-th element.
LEMMA Removed ==
    ASSUME NEW q \in Seq(Runners), NEW k \in DOMAIN q
    PROVE  /\ RemoveAt(q, k) \in Seq(Runners)
           /\ Len(RemoveAt(q, k)) = Len(q) - 1
           /\ \A i \in 1..(Len(q) - 1) : RemoveAt(q, k)[i] = q[IF i < k THEN i ELSE i + 1]
<1>1. PICK n : n = Len(q) /\ n \in Nat /\ k \in 1..n /\ \A i \in 1..n : q[i] \in Runners  OBVIOUS
<1>2. PICK a, b : a = SubSeq(q, 1, k - 1) /\ b = SubSeq(q, k + 1, n)  OBVIOUS
<1>3. a \in Seq(Runners) /\ Len(a) = k - 1 /\ \A i \in 1..(k - 1) : a[i] = q[i]
  BY <1>1, <1>2
<1>4. b \in Seq(Runners) /\ Len(b) = n - k /\ \A i \in 1..(n - k) : b[i] = q[k + i]
  BY <1>1, <1>2
<1>5. PICK c : c = a \o b /\ c = RemoveAt(q, k)  BY <1>1, <1>2 DEF RemoveAt
<1>6. /\ c \in Seq(Runners) /\ Len(c) = Len(a) + Len(b)
      /\ \A i \in 1..(Len(a) + Len(b)) : c[i] = IF i <= Len(a) THEN a[i] ELSE b[i - Len(a)]
  <2>1. a \in Seq(Runners) /\ b \in Seq(Runners)  BY <1>3, <1>4
  <2>2. /\ (a \o b) \in Seq(Runners) /\ Len(a \o b) = Len(a) + Len(b)
        /\ \A i \in 1..(Len(a) + Len(b)) : (a \o b)[i] = IF i <= Len(a) THEN a[i] ELSE b[i - Len(a)]
    BY <2>1, ConcatProperties, Zenon
  <2>3. QED  BY <1>5, <2>2, Zenon
<1>7. Len(c) = n - 1  BY <1>1, <1>3, <1>4, <1>6
<1>8. ASSUME NEW i \in 1..(n - 1)  PROVE c[i] = q[IF i < k THEN i ELSE i + 1]
  <2>1. i \in 1..(Len(a) + Len(b))  BY <1>1, <1>3, <1>4
  <2>2. CASE i < k
    <3>1. i \in 1..(k - 1) /\ i <= Len(a)  BY <1>1, <1>3, <2>2
    <3>2. QED  BY <1>3, <1>6, <2>1, <2>2, <3>1
  <2>3. CASE ~(i < k)
    <3>1. ~(i <= Len(a)) /\ i - Len(a) = i - k + 1  BY <1>1, <1>3, <2>3
    <3>2. i - k + 1 \in 1..(n - k) /\ k + (i - k + 1) = i + 1  BY <1>1, <2>3
    <3>3. QED  BY <1>4, <1>6, <2>1, <2>3, <3>1, <3>2
  <2>4. QED  BY <2>2, <2>3
<1>9. QED  BY <1>1, <1>5, <1>6, <1>7, <1>8

\* Runners, each once.
Order(q) == q \in Seq(Runners) /\ \A i, j \in DOMAIN q : q[i] = q[j] => i = j

\* A runner that is touched moves to the end of the order, and the others keep
\* theirs: each is still there once.
LEMMA Touched == ASSUME NEW q, Order(q), NEW k \in DOMAIN q PROVE Order(Append(RemoveAt(q, k), q[k]))
<1> PICK p : p = Append(RemoveAt(q, k), q[k])  OBVIOUS
<1>0. q \in Seq(Runners) /\ \A i, j \in DOMAIN q : q[i] = q[j] => i = j  BY DEF Order
<1>1. Len(q) \in Nat /\ k \in 1..Len(q) /\ DOMAIN q = 1..Len(q) /\ q[k] \in Runners  BY <1>0
<1>2. PICK c : /\ c = RemoveAt(q, k) /\ c \in Seq(Runners) /\ Len(c) = Len(q) - 1
               /\ \A i \in 1..(Len(q) - 1) : c[i] = q[IF i < k THEN i ELSE i + 1]
  <2>1. /\ RemoveAt(q, k) \in Seq(Runners)
        /\ Len(RemoveAt(q, k)) = Len(q) - 1
        /\ \A i \in 1..(Len(q) - 1) : RemoveAt(q, k)[i] = q[IF i < k THEN i ELSE i + 1]
    BY <1>0, Removed, Zenon
  <2>2. QED  BY <2>1, Zenon
<1>3. PICK n, x : n = Len(q) /\ x = q[k]  OBVIOUS
<1>4. p = Append(c, x) /\ x \in Runners /\ n \in Nat /\ k \in 1..n /\ Len(c) = n - 1  BY <1>1, <1>2, <1>3
<1>5. p \in Seq(Runners) /\ Len(p) = n /\ DOMAIN p = 1..n  BY <1>2, <1>4
<1>6. \A i \in 1..(n - 1) : p[i] = c[i]  BY <1>2, <1>4
<1>7. p[n] = x  BY <1>2, <1>4
<1>8. ASSUME NEW i \in 1..n, NEW j \in 1..n, p[i] = p[j]  PROVE i = j
  <2>1. PICK f : f = [m \in 1..n |-> IF m = n THEN k ELSE IF m < k THEN m ELSE m + 1]  OBVIOUS
  <2>2. ASSUME NEW m \in 1..n  PROVE f[m] \in 1..n /\ p[m] = q[f[m]]
    <3>1. CASE m = n
      BY <1>3, <1>4, <1>7, <2>1, <3>1
    <3>2. CASE m # n
      <4>1. m \in 1..(n - 1) /\ f[m] = IF m < k THEN m ELSE m + 1  BY <1>4, <2>1, <3>2
      <4>2. p[m] = q[f[m]]  BY <1>2, <1>3, <1>6, <4>1
      <4>3. QED  BY <1>4, <4>1, <4>2
    <3>3. QED  BY <3>1, <3>2
  <2>3. f[i] \in DOMAIN q /\ f[j] \in DOMAIN q /\ q[f[i]] = q[f[j]]  BY <1>1, <1>3, <1>8, <2>2
  <2>4. f[i] = (IF i = n THEN k ELSE IF i < k THEN i ELSE i + 1)
        /\ f[j] = (IF j = n THEN k ELSE IF j < k THEN j ELSE j + 1)
    BY <2>1
  <2>5. f[i] = f[j]  BY <1>0, <2>3
  <2>6. QED  BY <1>4, <2>4, <2>5
<1>9. Order(p)  BY <1>5, <1>8 DEF Order
<1>10. QED  BY <1>9

\* The registered runners, each once, in the order of updated_at.
Ordered == Order(touched)

\* Registrations, operators, heartbeats, renewals and sweepers keep the order.
LEMMA OrderStep == ASSUME Ordered, FleetNext PROVE Ordered'
<1>1. ASSUME NEW r \in Runners, Register(r)  PROVE Ordered'
  <2>1. r \notin {touched[i] : i \in DOMAIN touched} /\ touched' = Append(touched, r)
    BY <1>1 DEF Register, Registered
  <2>2. QED  BY <2>1 DEF Ordered, Order
<1>2. ASSUME NEW r, Touch(r)  PROVE Ordered'
  <2>1. CASE UNCHANGED touched  BY <2>1 DEF Ordered
  <2>2. ASSUME NEW k \in DOMAIN touched, touched' = Append(RemoveAt(touched, k), touched[k])  PROVE Ordered'
    <3>1. Order(Append(RemoveAt(touched, k), touched[k]))  BY <2>2, Touched DEF Ordered
    <3>2. QED  BY <2>2, <3>1, Zenon DEF Ordered
  <2>3. QED  BY <1>2, <2>1, <2>2 DEF Touch
<1>3. CASE UNCHANGED touched
  BY <1>3 DEF Ordered
<1>4. ASSUME NEW r \in Runners, FallSilent(r) \/ RunnerCall(r)
      PROVE  Touch(r) \/ UNCHANGED touched
  BY <1>4 DEF FallSilent, RunnerCall, Authenticate, Heartbeat, Sighted, ClaimSlot, TakeOver, IssueRow,
     RenewRow, ReportRow, GiveUp
<1>5. ASSUME NEW r \in Runners, NEW target \in {"cordoned", "draining", "revoked"}, Patch(r, target)
      PROVE  Touch(r)
  BY <1>5 DEF Patch
<1>6. ASSUME NEW z \in Zombies, SlotLapses(z)  PROVE UNCHANGED touched
  BY <1>6 DEF SlotLapses
<1>7. ASSUME NEW s \in Replicas, Fetch(s) \/ SweepStep(s) \/ SweepFails(s)
      PROVE  (\E r : Touch(r)) \/ UNCHANGED touched
  BY <1>7 DEF Fetch, SweepStep, SweepOffline, SweepExpire, SweepDrain, SweepFails
<1>8. QED  BY <1>1, <1>2, <1>3, <1>4, <1>5, <1>6, <1>7 DEF FleetNext

\* What is known of each runner: when it was seen, its request, its lease rows
\* and the slots it claimed last.
Known ==
    /\ seen \in [Runners -> Sightings]
    /\ call \in [Runners -> Calls]
    /\ slot \in [Zombies -> [live : BOOLEAN, last : Runners \union {Nobody}]]
    /\ rows \in [Zombies -> SUBSET Runners]

\* A sighting stays in its episode or begins the next one, up to the bound.
LEMMA SightedFine == ASSUME Known, NEW r \in Runners, Sighted(r) PROVE seen' \in [Runners -> Sightings]
<1>1. seen[r] \in Sightings /\ MaxEpisodes \in Nat  BY FleetAssumption DEF Known
<1>2. PICK e : /\ e = IF seen[r].at = "fresh" THEN seen[r].episode ELSE seen[r].episode + 1
               /\ seen' = [seen EXCEPT ![r] = [at |-> "fresh", episode |-> e]]
  BY DEF Sighted
<1>3. e \in 0..MaxEpisodes  BY <1>1, <1>2 DEF Sighted, Sightings
<1>4. QED  BY <1>2, <1>3 DEF Known, Sightings

\* The slots of a runner that lose their lease stay slots.
LEMMA ExpireFine ==
    ASSUME Known, NEW r, ExpireSlots(r)
    PROVE  slot' \in [Zombies -> [live : BOOLEAN, last : Runners \union {Nobody}]]
<1>1. ASSUME NEW z \in Zombies
      PROVE  [slot[z] EXCEPT !.live = FALSE] \in [live : BOOLEAN, last : Runners \union {Nobody}]
  BY DEF Known
<1>2. QED  BY <1>1 DEF Known, ExpireSlots

\* So does one slot that is taken, freed, renewed or lapses.
LEMMA SlotFine ==
    ASSUME Known, NEW z \in Zombies, NEW s,
           slot' = [slot EXCEPT ![z] = s], s \in [live : BOOLEAN, last : Runners \union {Nobody}]
    PROVE  slot' \in [Zombies -> [live : BOOLEAN, last : Runners \union {Nobody}]]
BY DEF Known

\* ... also where only its deadline moves.
LEMMA LiveFine ==
    ASSUME Known, NEW z \in Zombies, NEW live \in BOOLEAN, slot' = [slot EXCEPT ![z].live = live]
    PROVE  slot' \in [Zombies -> [live : BOOLEAN, last : Runners \union {Nobody}]]
<1>1. slot' = [slot EXCEPT ![z] = [slot[z] EXCEPT !.live = live]]  BY DEF Known
<1>2. [slot[z] EXCEPT !.live = live] \in [live : BOOLEAN, last : Runners \union {Nobody}]  BY DEF Known
<1>3. QED  BY <1>1, <1>2, SlotFine

\* Requests, leases and sweeps keep what is known well formed.
LEMMA KnownStep == ASSUME Known, FleetNext PROVE Known'
<1> USE DEF Known
<1>1. ASSUME NEW r \in Runners, Register(r) \/ FallSilent(r)  PROVE Known'
  BY <1>1 DEF Register, FallSilent, Sightings
<1>2. ASSUME NEW r \in Runners, Authenticate(r) \/ Heartbeat(r) \/ GiveUp(r)  PROVE Known'
  <2>1. call' \in [Runners -> Calls]
    <3>1. UNCHANGED call \/ \E pc \in {"none", "authed"} : call' = [call EXCEPT ![r] = [pc |-> pc, zombie |-> Nobody]]
      BY <1>2 DEF Authenticate, Heartbeat, GiveUp, NoCall
    <3>2. \A pc \in {"none", "authed"} : [pc |-> pc, zombie |-> Nobody] \in Calls  BY DEF Calls
    <3>3. QED  BY <3>1, <3>2
  <2>2. seen' \in [Runners -> Sightings]
    BY <1>2, SightedFine DEF Authenticate, Heartbeat, GiveUp
  <2>3. slot' \in [Zombies -> [live : BOOLEAN, last : Runners \union {Nobody}]]
    <3>1. UNCHANGED slot \/ \E z \in Zombies, b \in BOOLEAN : slot' = [slot EXCEPT ![z].live = b]
      BY <1>2 DEF Authenticate, Heartbeat, GiveUp
    <3>2. QED  BY <3>1, LiveFine
  <2>4. QED  BY <1>2, <2>1, <2>2, <2>3 DEF Authenticate, Heartbeat, GiveUp
<1>3. ASSUME NEW r \in Runners, NEW z \in Zombies,
             ClaimSlot(r, z) \/ TakeOver(r, z) \/ IssueRow(r, z) \/ RenewRow(r, z) \/ ReportRow(r, z)
      PROVE  Known'
  <2>1. call' \in [Runners -> Calls]
    <3>1. \/ \E c \in {[pc |-> "claimed", zombie |-> z], NoCall} : call' = [call EXCEPT ![r] = c]
          \/ TakeOver(r, z)
      BY <1>3 DEF ClaimSlot, IssueRow, RenewRow, ReportRow
    <3>2. [pc |-> "claimed", zombie |-> z] \in Calls /\ NoCall \in Calls  BY DEF Calls, NoCall
    <3>3. CASE TakeOver(r, z)
      BY <3>3 DEF TakeOver, Calls
    <3>4. QED  BY <3>1, <3>2, <3>3
  <2>2. seen' \in [Runners -> Sightings]
    BY <1>3, SightedFine DEF ClaimSlot, TakeOver, IssueRow, RenewRow, ReportRow
  <2>3. slot' \in [Zombies -> [live : BOOLEAN, last : Runners \union {Nobody}]]
    <3>1. \/ UNCHANGED slot \/ \E b \in BOOLEAN : slot' = [slot EXCEPT ![z].live = b]
          \/ slot' = [slot EXCEPT ![z] = [live |-> TRUE, last |-> r]]
      BY <1>3 DEF ClaimSlot, TakeOver, IssueRow, RenewRow, ReportRow
    <3>2. QED  BY <3>1, LiveFine, SlotFine
  <2>4. rows' \in [Zombies -> SUBSET Runners]
    BY <1>3 DEF ClaimSlot, TakeOver, IssueRow, RenewRow, ReportRow
  <2>5. QED  BY <2>1, <2>2, <2>3, <2>4
<1>4. ASSUME NEW r \in Runners, NEW target \in {"cordoned", "draining", "revoked"}, Patch(r, target)
      PROVE  Known'
  BY <1>4 DEF Patch
<1>5. ASSUME NEW z \in Zombies, SlotLapses(z)  PROVE Known'
  BY <1>5 DEF SlotLapses
<1>6. ASSUME NEW s \in Replicas, Fetch(s) \/ SweepStep(s) \/ SweepFails(s)  PROVE Known'
  <2>1. UNCHANGED slot \/ \E r : ExpireSlots(r)
    BY <1>6 DEF Fetch, SweepStep, SweepOffline, SweepExpire, SweepDrain, SweepFails
  <2>2. slot' \in [Zombies -> [live : BOOLEAN, last : Runners \union {Nobody}]]  BY <2>1, ExpireFine
  <2>3. UNCHANGED <<seen, call, rows>>
    BY <1>6 DEF Fetch, SweepStep, SweepOffline, SweepExpire, SweepDrain, SweepFails
  <2>4. QED  BY <2>2, <2>3
<1>7. QED  BY <1>1, <1>2, <1>3, <1>4, <1>5, <1>6 DEF FleetNext, RunnerCall

\* What every replica still has to sweep.
Sweeps == [batch : Seq(Refs), step : {"offline", "expire", "drain"}]

\* A sweep reads registered runners, each as it is then.
LEMMA FetchFine == ASSUME FleetTypeOK, NEW s \in Replicas, Fetch(s) PROVE sweep' \in [Replicas -> Sweeps]
<1> DEFINE Read(r) == [runner |-> r, seen |-> seen[r], admin |-> admin[r]]
           due == {i \in DOMAIN touched : Due(touched[i])}
           first == {i \in due : Cardinality({j \in due : j < i}) < BatchLimit}
<1>1. PICK pick \in [1..Cardinality(first) -> first] :
         sweep' = [sweep EXCEPT ![s].batch = [i \in DOMAIN pick |-> Read(touched[pick[i]])]]
  BY DEF Fetch
<1>2. first \subseteq DOMAIN touched  OBVIOUS
<1> HIDE DEF due, first
<1>3. DOMAIN touched = 1..Len(touched) /\ Len(touched) \in Nat  BY DEF FleetTypeOK
<1>4. IsFiniteSet(1..Len(touched))  BY <1>3, FS_Interval
<1>5. Cardinality(first) \in Nat  BY <1>2, <1>3, <1>4, FS_Subset, FS_CardinalityType
<1>6. ASSUME NEW i \in 1..Cardinality(first)  PROVE Read(touched[pick[i]]) \in Refs
  <2>1. touched[pick[i]] \in Runners  BY <1>1, <1>2, <1>3, <1>6 DEF FleetTypeOK
  <2>2. QED  BY <2>1 DEF FleetTypeOK, Refs
<1>7. [i \in DOMAIN pick |-> Read(touched[pick[i]])] \in Seq(Refs)
  BY <1>1, <1>5, <1>6
<1>8. QED  BY <1>1, <1>7 DEF FleetTypeOK, Sweeps

\* Sweeps go on and end with what they read.
LEMMA SweepsStep == ASSUME FleetTypeOK, FleetNext PROVE sweep' \in [Replicas -> Sweeps]
<1>1. sweep \in [Replicas -> Sweeps]  BY DEF FleetTypeOK, Sweeps
<1>2. CASE UNCHANGED sweep
  BY <1>1, <1>2
<1>3. ASSUME NEW r \in Runners, Register(r) \/ FallSilent(r) \/ RunnerCall(r)  PROVE UNCHANGED sweep
  BY <1>3 DEF Register, FallSilent, RunnerCall, Authenticate, Heartbeat, ClaimSlot, TakeOver, IssueRow,
     RenewRow, ReportRow, GiveUp
<1>4. ASSUME NEW r \in Runners, NEW target \in {"cordoned", "draining", "revoked"}, Patch(r, target)
      PROVE  UNCHANGED sweep
  BY <1>4 DEF Patch
<1>5. ASSUME NEW z \in Zombies, SlotLapses(z)  PROVE UNCHANGED sweep
  BY <1>5 DEF SlotLapses
<1>6. ASSUME NEW s \in Replicas, SweepOffline(s) \/ SweepExpire(s)  PROVE sweep' \in [Replicas -> Sweeps]
  BY <1>1, <1>6 DEF SweepOffline, SweepExpire, Advance, Sweeps
<1>7. ASSUME NEW s \in Replicas, SweepDrain(s)  PROVE sweep' \in [Replicas -> Sweeps]
  <2>1. sweep[s].batch \in Seq(Refs) /\ sweep[s].batch # <<>>  BY <1>1, <1>7 DEF SweepDrain, AtStep, Sweeps
  <2>2. Tail(sweep[s].batch) \in Seq(Refs)  BY <2>1
  <2>3. QED  BY <1>1, <1>7, <2>2 DEF SweepDrain, Done, Sweeps
<1>8. ASSUME NEW s \in Replicas, SweepFails(s)  PROVE sweep' \in [Replicas -> Sweeps]
  BY <1>1, <1>8 DEF SweepFails, NoSweep, Sweeps
<1>9. QED  BY <1>2, <1>3, <1>4, <1>5, <1>6, <1>7, <1>8, FetchFine DEF FleetNext, SweepStep

\* The invariant holds at the start, ...
LEMMA FleetStart == FleetInit => FleetInvariant
<1>1. ASSUME FleetInit  PROVE FleetInvariant
  <2>1. Cardinality(Scrapped) \in Nat /\ Scrapped \subseteq Runners /\ MaxEpisodes \in Nat
    BY FleetAssumption, FS_CardinalityType
  <2>2. /\ touched \in [1..Cardinality(Scrapped) -> Scrapped]
        /\ \A i, j \in 1..Cardinality(Scrapped) : i # j => touched[i] # touched[j]
    BY <1>1 DEF FleetInit, SetToSeqs
  <2>3. Ordered  BY <2>1, <2>2 DEF Ordered, Order
  <2>4. Known
    BY <1>1, <2>1 DEF FleetInit, Known, Sightings, Calls, NoCall
  <2>5. sweep \in [Replicas -> Sweeps]  BY <1>1 DEF FleetInit, NoSweep, Sweeps
  <2>6. admin \in [Runners -> AdminStates] /\ offline \in [Runners -> [0..MaxEpisodes -> Nat]]
    BY <1>1 DEF FleetInit, AdminStates
  <2>7. OneOfflineRowPerSilence  BY <1>1 DEF FleetInit, OneOfflineRowPerSilence
  <2>8. QED
    BY <2>3, <2>4, <2>5, <2>6, <2>7 DEF FleetInvariant, FleetTypeOK, Ordered, Order, Known, Sweeps
<1>2. QED  BY <1>1

\* ... and every step keeps it and brings no revoked runner back.
LEMMA FleetStep == FleetInvariant /\ [FleetNext]_vars => FleetInvariant' /\ RevokedKept
<1>1. ASSUME FleetInvariant, FleetNext  PROVE FleetInvariant' /\ RevokedKept
  <2>1. FleetTypeOK /\ Ordered /\ Known  BY <1>1 DEF FleetInvariant, FleetTypeOK, Ordered, Order, Known
  <2>2. admin' \in [Runners -> AdminStates] /\ RevokedKept  BY <1>1, AdminStep DEF FleetInvariant, FleetTypeOK
  <2>3. offline' \in [Runners -> [0..MaxEpisodes -> Nat]] /\ OneOfflineRowPerSilence'
    BY <1>1, OfflineStep DEF FleetInvariant, FleetTypeOK
  <2>4. Ordered' /\ Known' /\ sweep' \in [Replicas -> Sweeps]
    BY <1>1, <2>1, OrderStep, KnownStep, SweepsStep
  <2>5. QED  BY <2>2, <2>3, <2>4 DEF FleetInvariant, FleetTypeOK, Ordered, Order, Known, Sweeps
<1>2. FleetInvariant /\ UNCHANGED vars => FleetInvariant' /\ RevokedKept
  BY DEF FleetInvariant, FleetTypeOK, OneOfflineRowPerSilence, RevokedKept, vars
<1>3. QED  BY <1>1, <1>2

\* Whatever operators, runners and sweepers on stale reads do in between, the
\* states of the fleet stay well formed, each runner that may fall due has one place in
\* the order of updated_at, and however many sweepers record the same silence it
\* has one runner_offline row (sweepOfflineRunner, the dedup key).
THEOREM FleetIsSound == FleetSpec => []FleetInvariant
<1>1. FleetInvariant /\ [FleetNext]_vars => FleetInvariant'  BY FleetStep
<1>2. QED  BY <1>1, FleetStart, PTL DEF FleetSpec

\* No operator's later click and no sweeper that read the runner before brings a
\* revoked runner back (updateState and markDrainedIfIdle check again in
\* their own statement).
THEOREM RevokedRunnersStay == FleetSpec => RevokedIsFinal
<1>1. FleetInvariant /\ [FleetNext]_vars => FleetInvariant'  BY FleetStep
<1>2. FleetInvariant /\ [FleetNext]_vars
        => [\A r \in Runners : admin[r] = "revoked" => admin'[r] = "revoked"]_vars
  BY FleetStep DEF RevokedKept
<1>3. QED  BY <1>1, <1>2, FleetStart, PTL DEF FleetSpec, RevokedIsFinal
================================================================================
