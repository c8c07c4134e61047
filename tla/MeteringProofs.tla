---------------------------- MODULE MeteringProofs ----------------------------
(***************************************************************************)
(* Proofs about Metering, for every rate, balance and number of tenants,   *)
(* zombies, runners and events.  Metering adds nothing to what may happen  *)
(* to a slot.  Every charge is booked in the wallet, the ledger and the    *)
(* breakdown alike, so what they sum up to agrees.  And no moment of an    *)
(* event is metered twice, but for the age of the clock readings that set  *)
(* a cursor back.                                                          *)
(***************************************************************************)
EXTENDS Metering, AffinitySlotProofs, FiniteSetTheorems, WellFoundedInduction

\* A request that carries an event carries one of its zombie, and so does a
\* lease row.
RequestsNamed ==
    \A z \in Zombies, t \in Tokens :
        work[z][t].stage \in {"acquired", "stamped"} =>
            work[z][t].event \in Events /\ Home[work[z][t].event] = z

LeasesNamed ==
    \A z \in Zombies, t \in Tokens :
        lease[z][t].status # "none" => lease[z][t].event \in Events /\ Home[lease[z][t].event] = z

MeteringInv == SlotInv /\ RequestsNamed /\ LeasesNamed /\ MeteringTypeOK

\* This step charges the slice p: it is new in the breakdown, and the wallet of
\* its tenant and the ledger row of its event move by what it charges, and
\* nothing else does.
Booked(p) ==
    /\ p \in Periods /\ p \notin periods
    /\ periods' = periods \union {p}
    /\ wallet' = [wallet EXCEPT ![Tenant[p.by]] = @ - p.charged]
    /\ ledger' = [ledger EXCEPT ![p.id] = @ + p.charged]

\* Each step charges nothing in any of the three tables, or one slice in all.
BookedStep == UNCHANGED <<wallet, ledger, periods>> \/ \E p : Booked(p)

ChargesAreBooked == [][BookedStep]_vars

-------------------------------------------------------------------------------
\* Every step of a metered request or lease is one of the slot's, or leaves it.
LEMMA MeteredSlotSteps == MeteringNext => [SlotNext]_svars
<1> SUFFICES ASSUME MeteringNext  PROVE  [SlotNext]_svars  OBVIOUS
<1>1. ASSUME NEW z \in Zombies, NEW t \in Tokens, MeteredStep(z, t)
      PROVE  RequestStep(z, t) \/ LeaseStep(z, t) \/ UNCHANGED svars
  BY <1>1 DEF MeteredStep, MeteredAcquire, MeteredStamp, MeteredIssue, MeteredGiveUp, Consume, MeteredRenew,
     MeteredReport, RequestStep, LeaseStep
<1>2. ASSUME NEW z \in Zombies, NEW r \in Runners, MeteredClaim(z, r)  PROVE  Claim(z, r)
  BY <1>2 DEF MeteredClaim
<1>3. QED  BY <1>1, <1>2 DEF MeteringNext, SlotNext

\* Only an event of the stream or of a prior lease gets into a request, ...
LEMMA RequestsNamedStep == ASSUME MeteringInv, [MeteringNext]_vars PROVE RequestsNamed'
<1> USE DEF MeteringInv, RequestsNamed
<1>1. SlotTypeOK  BY DEF SlotInv
<1>2. ASSUME NEW z \in Zombies, NEW t \in Tokens, NEW p \in Tokens, ReclaimPriorActive(z, t, p)
      PROVE  RequestsNamed'
  <2>1. lease[z][p].event \in Events /\ Home[lease[z][p].event] = z
    BY <1>2 DEF ReclaimPriorActive, LatestActive, Active, LeasesNamed
  <2>2. work'[z][t].event = lease[z][p].event
    BY <1>1, <1>2, CellTypes DEF ReclaimPriorActive, SlotTypeOK, Requests
  <2>3. \A y \in Zombies, u \in Tokens : y # z \/ u # t => work'[y][u] = work[y][u]
    BY <1>1, <1>2 DEF ReclaimPriorActive, SlotTypeOK
  <2>4. QED  BY <2>1, <2>2, <2>3
<1>3. ASSUME NEW z \in Zombies, NEW t \in Tokens, NEW e \in Events, MeteredAcquire(z, t, e)
      PROVE  RequestsNamed'
  <2>1. work'[z][t].event = e /\ Home[e] = z
    BY <1>1, <1>3, CellTypes DEF MeteredAcquire, AcquireFresh, SlotTypeOK, Requests
  <2>2. \A y \in Zombies, u \in Tokens : y # z \/ u # t => work'[y][u] = work[y][u]
    BY <1>1, <1>3 DEF MeteredAcquire, AcquireFresh, SlotTypeOK
  <2>3. QED  BY <2>1, <2>2
<1>4. ASSUME NEW z \in Zombies, NEW t \in Tokens, StampLease(z, t)  PROVE  RequestsNamed'
  <2>1. work'[z][t].event = work[z][t].event /\ work[z][t].stage = "acquired"
    BY <1>1, <1>4, CellTypes DEF StampLease, SlotTypeOK, Requests
  <2>2. \A y \in Zombies, u \in Tokens : y # z \/ u # t => work'[y][u] = work[y][u]
    BY <1>1, <1>4 DEF StampLease, SlotTypeOK
  <2>3. QED  BY <2>1, <2>2
<1>5. ASSUME NEW z \in Zombies, NEW t \in Tokens, NoPriorActive(z, t)  PROVE  RequestsNamed'
  <2>1. work'[z][t].stage = "free"
    BY <1>1, <1>5, CellTypes DEF NoPriorActive, SlotTypeOK, Requests
  <2>2. \A y \in Zombies, u \in Tokens : y # z \/ u # t => work'[y][u] = work[y][u]
    BY <1>1, <1>5 DEF NoPriorActive, SlotTypeOK
  <2>3. QED  BY <2>1, <2>2
<1>6. ASSUME NEW z \in Zombies, NEW t \in Tokens, IssueLease(z, t) \/ AbandonClaim(z, t) \/ DropClaim(z, t)
      PROVE  RequestsNamed'
  <2>1. work' = [work EXCEPT ![z][t] = NoRequest]  BY <1>6 DEF IssueLease, AbandonClaim, DropClaim
  <2>2. QED  BY <1>1, <2>1 DEF SlotTypeOK, NoRequest
<1>7. ASSUME NEW z \in Zombies, NEW r \in Runners, Claim(z, r)  PROVE  RequestsNamed'
  BY <1>1, <1>7 DEF Claim, SlotTypeOK
<1>8. ASSUME NEW z \in Zombies, NEW t \in Tokens,
             Consume(z, t) \/ MeteredRenew(z, t) \/ MeteredReport(z, t) \/ ReleaseReported(z, t) \/ DropReport(z, t)
      PROVE  UNCHANGED work
  BY <1>8 DEF Consume, MeteredRenew, MeteredReport, Renew, ClaimReport, ReleaseReported, DropReport, svars
<1>9. CASE Tick \/ UNCHANGED vars \/ \E r \in SweptRunners : ExpireActiveLeaseSlots(r)
  BY <1>9 DEF Tick, vars, svars, ExpireActiveLeaseSlots
<1>10. ASSUME NEW z \in Zombies, NEW t \in Tokens, MeteredStep(z, t)  PROVE  RequestsNamed'
  BY <1>2, <1>3, <1>4, <1>5, <1>6, <1>8, <1>10 DEF MeteredStep, MeteredStamp, MeteredIssue, MeteredGiveUp
<1>11. QED
  BY <1>7, <1>9, <1>10 DEF MeteringNext, MeteredClaim

\* ... and from it into the lease row, which keeps it.
LEMMA LeasesNamedStep == ASSUME MeteringInv, [SlotNext]_svars PROVE LeasesNamed'
<1> USE DEF MeteringInv, LeasesNamed
<1>1. SlotTypeOK  BY DEF SlotInv
<1>2. ASSUME NEW z \in Zombies, NEW t \in Tokens, NEW p \in Tokens, ReclaimPriorActive(z, t, p)
      PROVE  LeasesNamed'
  <2>1. lease' = [lease EXCEPT ![z][p] = [lease[z][p] EXCEPT !.status = "expired"]]
        /\ lease[z][p].status = "active"
    BY <1>2 DEF ReclaimPriorActive, LatestActive, Active
  <2>2. lease[z][p] \in LeaseRows  BY <1>1, CellTypes
  <2>3. QED  BY <1>1, <2>1, <2>2 DEF SlotTypeOK, LeaseRows
<1>3. ASSUME NEW z \in Zombies, NEW t \in Tokens, IssueLease(z, t)  PROVE  LeasesNamed'
  <2>1. work[z][t].event \in Events /\ Home[work[z][t].event] = z  BY <1>3 DEF IssueLease, RequestsNamed
  <2>2. lease'[z][t].event = work[z][t].event  BY <1>1, <1>3 DEF IssueLease, SlotTypeOK
  <2>3. \A y \in Zombies, u \in Tokens : y # z \/ u # t => lease'[y][u] = lease[y][u]
    BY <1>1, <1>3 DEF IssueLease, SlotTypeOK
  <2>4. QED  BY <2>1, <2>2, <2>3
<1>4. ASSUME NEW z \in Zombies, NEW t \in Tokens, ClaimReport(z, t)  PROVE  LeasesNamed'
  <2>1. lease' = [lease EXCEPT ![z][t] = [lease[z][t] EXCEPT !.status = "reported"]]
        /\ lease[z][t].status = "active"
    BY <1>4 DEF ClaimReport, Active
  <2>2. lease[z][t] \in LeaseRows  BY <1>1, CellTypes
  <2>3. QED  BY <1>1, <2>1, <2>2 DEF SlotTypeOK, LeaseRows
<1>5. ASSUME NEW z \in Zombies, NEW t \in Tokens, NEW at \in ClockReads(z, t), Renew(z, t, at)
      PROVE  LeasesNamed'
  <2>1. lease' = [lease EXCEPT ![z][t] = [lease[z][t] EXCEPT !.expires = Capped(z, t, at)]]
    BY <1>5 DEF Renew
  <2>2. lease[z][t] \in LeaseRows  BY <1>1, CellTypes
  <2>3. QED  BY <1>1, <2>1, <2>2 DEF SlotTypeOK, LeaseRows
<1>6. ASSUME NEW z \in Zombies, NEW t \in Tokens,
             NoPriorActive(z, t) \/ StampLease(z, t) \/ AbandonClaim(z, t) \/ DropClaim(z, t)
             \/ ReleaseReported(z, t) \/ DropReport(z, t) \/ \E e \in Events : AcquireFresh(z, t, e)
      PROVE  UNCHANGED lease
  BY <1>6 DEF NoPriorActive, StampLease, AbandonClaim, DropClaim, ReleaseReported, DropReport, AcquireFresh
<1>7. CASE Tick \/ UNCHANGED svars \/ (\E r \in SweptRunners : ExpireActiveLeaseSlots(r))
           \/ \E z \in Zombies, r \in Runners : Claim(z, r)
  BY <1>7 DEF Tick, svars, ExpireActiveLeaseSlots, Claim
<1>8. QED
  BY <1>2, <1>3, <1>4, <1>5, <1>6, <1>7 DEF SlotNext, RequestStep, LeaseStep

-------------------------------------------------------------------------------
\* A product of amounts is one.
LEMMA ProductNat == ASSUME NEW a \in Nat, NEW b \in Nat PROVE a * b \in Nat
OBVIOUS

\* The slice p that a charge of this zombie up to (at, cum) makes.
SliceOf(p, z, e, at, cum) ==
    /\ p.id = StreamId[e] /\ p.by = z
    /\ p.seq = cursor[z].seq + 1
    /\ p.ms = Ahead(at, cursor[z].at)
    /\ p.tok = Ahead(cum, cursor[z].tok)
    /\ \A q \in periods : ~(q.id = p.id /\ q.seq = p.seq)
    /\ cursor' = [cursor EXCEPT ![z] = [tok |-> cursor[z].tok + p.tok, at |-> at, seq |-> p.seq]]

\* A slice is booked in all three tables, and leaves amounts in them.
LEMMA SliceBooked ==
    ASSUME MeteringInv, NEW z \in Zombies, NEW t \in Tokens, NEW at \in Nat, NEW cum \in Nat,
           Active(z, t), ChargeSlice(z, t, at, cum)
    PROVE  /\ MeteringTypeOK'
           /\ \E p : Booked(p) /\ SliceOf(p, z, lease[z][t].event, at, cum)
<1> DEFINE x == Tenant[z]
           i == IdOf(z, t)
           ms == Ahead(at, cursor[z].at)
           tok == Ahead(cum, cursor[z].tok)
           cost == Fee(z, t, ms, tok)
           paid == Least(cost, wallet[x])
           seq == cursor[z].seq + 1
           p == [id |-> i, by |-> z, seq |-> seq, ms |-> ms, tok |-> tok, charged |-> paid]
<1>1. MeteringTypeOK  BY DEF MeteringInv
<1>2. cursor[z] \in Cursors /\ x \in Tenants
  BY <1>1, MeteringAssumption DEF MeteringTypeOK
<1>3. i \in Ids
  BY DEF MeteringInv, LeasesNamed, Active, IdOf, Ids
<1>4. ms \in Nat /\ tok \in Nat  BY <1>2 DEF Ahead, Cursors
<1>5. cost \in Nat
  <2>1. ms * RunRate \in Nat /\ tok * TokRate \in Nat
    BY <1>4, MeteringAssumption, ProductNat
  <2> HIDE DEF ms, tok
  <2>2. QED  BY <2>1 DEF Fee
<1> HIDE DEF cost
<1>6. wallet[x] \in Nat /\ ledger[i] \in Nat  BY <1>1, <1>2, <1>3 DEF MeteringTypeOK
<1>7. paid \in Nat /\ Ahead(wallet[x], cost) = wallet[x] - paid /\ Ahead(wallet[x], cost) \in Nat
  BY <1>5, <1>6 DEF Least, Ahead
<1>8. /\ \A q \in periods : ~(q.id = i /\ q.seq = seq)
      /\ wallet' = [wallet EXCEPT ![x] = Ahead(wallet[x], cost)]
      /\ ledger' = [ledger EXCEPT ![i] = ledger[i] + paid]
      /\ periods' = periods \union {p}
      /\ cursor' = [cursor EXCEPT ![z] = [tok |-> cursor[z].tok + tok, at |-> at, seq |-> seq]]
      /\ used' = used
  BY DEF ChargeSlice, LedgerPlus, Advance, cost
<1> HIDE DEF paid, ms, tok, i, x, seq
<1>9. MeteringTypeOK'
  <2>1. wallet' \in [Tenants -> Nat] /\ ledger' \in [Ids -> Nat]
    <3> DEFINE w == Ahead(wallet[x], cost)
               l == ledger[i] + paid
    <3>1. w \in Nat /\ l \in Nat  BY <1>6, <1>7
    <3>2. wallet' = [wallet EXCEPT ![x] = w] /\ ledger' = [ledger EXCEPT ![i] = l]  BY <1>8
    <3> HIDE DEF w, l
    <3>3. QED  BY <1>1, <3>1, <3>2 DEF MeteringTypeOK
  <2>2. cursor' \in [Zombies -> Cursors]
    <3>1. [tok |-> cursor[z].tok + tok, at |-> at, seq |-> seq] \in Cursors
      BY <1>2, <1>4 DEF Cursors, seq
    <3>2. QED  BY <1>1, <1>8, <3>1 DEF MeteringTypeOK
  <2>3. p \in Periods  BY <1>2, <1>3, <1>4, <1>7 DEF Periods, Cursors, seq
  <2>4. priced' = priced  BY DEF ChargeSlice
  <2> HIDE DEF p
  <2>5. QED  BY <1>1, <1>8, <2>1, <2>2, <2>3, <2>4 DEF MeteringTypeOK
<1>10. Booked(p) /\ SliceOf(p, z, lease[z][t].event, at, cum)
  <2>1. p.id = i /\ p.seq = seq /\ p.charged = paid /\ Tenant[p.by] = x  BY DEF x
  <2>5. p \in Periods  BY <1>2, <1>3, <1>4, <1>7 DEF Periods, Cursors, seq
  <2> HIDE DEF p
  <2>2. p \notin periods  BY <1>8, <2>1
  <2>3. wallet' = [wallet EXCEPT ![x] = wallet[x] - p.charged]  BY <1>7, <1>8, <2>1
  <2>4. p.by = z /\ p.ms = ms /\ p.tok = tok  BY DEF p
  <2>6. Booked(p)  BY <1>8, <2>1, <2>2, <2>3, <2>5 DEF Booked
  <2>7. SliceOf(p, z, lease[z][t].event, at, cum)
    BY <1>8, <2>1, <2>4 DEF SliceOf, IdOf, i, ms, tok, seq
  <2>8. QED  BY <2>6, <2>7
<1>11. QED  BY <1>9, <1>10

\* The amounts stay amounts, and a step charges all three tables or none.
LEMMA MoneyStep ==
    ASSUME MeteringInv, MeteringNext
    PROVE  MeteringTypeOK' /\ BookedStep
<1>1. MeteringTypeOK /\ now \in Nat
  BY SlotAssumption DEF MeteringInv, SlotInv, SlotTypeOK
<1>2. ASSUME UNCHANGED mvars  PROVE  MeteringTypeOK' /\ BookedStep
  BY <1>1, <1>2 DEF mvars, MeteringTypeOK, BookedStep
<1>3. ASSUME NEW z \in Zombies, NEW r \in Runners, MeteredClaim(z, r)  PROVE  MeteringTypeOK' /\ BookedStep
  <2>1. UNCHANGED cursor \/ cursor' = [cursor EXCEPT ![z] = [cursor[z] EXCEPT !.at = now]]
    BY <1>3 DEF MeteredClaim
  <2>2. cursor[z] \in Cursors  BY <1>1 DEF MeteringTypeOK
  <2>3. [cursor[z] EXCEPT !.at = now] \in Cursors  BY <1>1, <2>2 DEF Cursors
  <2>4. cursor' \in [Zombies -> Cursors]  BY <1>1, <2>1, <2>3 DEF MeteringTypeOK
  <2>5. QED  BY <1>1, <1>3, <2>4 DEF MeteredClaim, MeteringTypeOK, BookedStep
<1>4. ASSUME NEW z \in Zombies, NEW t \in Tokens, MeteredStamp(z, t)  PROVE  MeteringTypeOK' /\ BookedStep
  <2>1. [tok |-> 0, at |-> now, seq |-> 0] \in Cursors  BY <1>1 DEF Cursors
  <2>2. cursor' \in [Zombies -> Cursors]  BY <1>1, <1>4, <2>1 DEF MeteredStamp, MeteringTypeOK
  <2>3. QED  BY <1>1, <1>4, <2>2 DEF MeteredStamp, MeteringTypeOK, BookedStep
<1>5. ASSUME NEW z \in Zombies, NEW t \in Tokens, MeteredIssue(z, t)  PROVE  MeteringTypeOK' /\ BookedStep
  <2>1. UNCHANGED priced \/ priced' = [priced EXCEPT ![z] = priced[z] \union {t}]
    BY <1>5 DEF MeteredIssue
  <2>2. priced' \in [Zombies -> SUBSET Tokens]  BY <1>1, <2>1 DEF MeteringTypeOK
  <2>3. QED  BY <1>1, <1>5, <2>2 DEF MeteredIssue, MeteringTypeOK, BookedStep
<1>6. ASSUME NEW z \in Zombies, NEW t \in Tokens, Consume(z, t)  PROVE  MeteringTypeOK' /\ BookedStep
  <2>1. used' \in [Zombies -> [Tokens -> 0..MaxTokens]]
    <3>1. used[z][t] + 1 \in 0..MaxTokens
      BY <1>1, <1>6, MeteringAssumption DEF Consume, MeteringTypeOK
    <3>2. used' = [used EXCEPT ![z] = [used[z] EXCEPT ![t] = used[z][t] + 1]]  BY <1>6 DEF Consume
    <3>3. QED  BY <1>1, <3>1, <3>2 DEF MeteringTypeOK
  <2>2. QED  BY <1>1, <1>6, <2>1 DEF Consume, MeteringTypeOK, BookedStep
<1>7. ASSUME NEW z \in Zombies, NEW t \in Tokens, MeteredRenew(z, t) \/ MeteredReport(z, t)
      PROVE  MeteringTypeOK' /\ BookedStep
  <2>1. PICK at \in ClockReads(z, t), cum \in 0..used[z][t] : Active(z, t) /\ ChargeSlice(z, t, at, cum)
    BY <1>7 DEF MeteredRenew, MeteredReport, Renew, ClaimReport
  <2>2. at \in Nat  BY <1>1 DEF ClockReads
  <2>3. cum \in Nat  BY <1>1, MeteringAssumption DEF MeteringTypeOK
  <2>4. QED  BY <2>1, <2>2, <2>3, SliceBooked DEF BookedStep
<1>8. ASSUME NEW z \in Zombies, NEW t \in Tokens, MeteredStep(z, t)  PROVE  MeteringTypeOK' /\ BookedStep
  BY <1>2, <1>4, <1>5, <1>6, <1>7, <1>8 DEF MeteredStep, MeteredAcquire, MeteredGiveUp
<1>9. QED  BY <1>2, <1>3, <1>8 DEF MeteringNext

-------------------------------------------------------------------------------
\* The invariant holds at the start, ...
LEMMA MeteringStart == MeteringInit => MeteringInv
<1> SUFFICES ASSUME MeteringInit  PROVE  MeteringInv  OBVIOUS
<1>1. SlotInv  BY InitInv DEF MeteringInit
<1>2. RequestsNamed /\ LeasesNamed
  BY DEF MeteringInit, SlotInit, RequestsNamed, LeasesNamed, NoRequest, NoLease
<1>3. MeteringTypeOK
  BY MeteringAssumption DEF MeteringInit, MeteringTypeOK, Cursors
<1>4. QED  BY <1>1, <1>2, <1>3 DEF MeteringInv

\* ... and every step keeps it.
LEMMA MeteringStep == MeteringInv /\ [MeteringNext]_vars => MeteringInv' /\ (BookedStep \/ UNCHANGED vars)
<1> SUFFICES ASSUME MeteringInv, [MeteringNext]_vars  PROVE  MeteringInv' /\ (BookedStep \/ UNCHANGED vars)
  OBVIOUS
<1>1. [SlotNext]_svars  BY MeteredSlotSteps DEF vars
<1>2. SlotInv'  BY <1>1, NextInv DEF MeteringInv
<1>3. RequestsNamed' /\ LeasesNamed'  BY <1>1, RequestsNamedStep, LeasesNamedStep
<1>4. CASE MeteringNext  BY <1>2, <1>3, <1>4, MoneyStep DEF MeteringInv
<1>5. CASE UNCHANGED vars
  BY <1>2, <1>3, <1>5 DEF MeteringInv, MeteringTypeOK, vars, mvars
<1>6. QED  BY <1>4, <1>5

\* Metering adds nothing to what may happen to a slot: what AffinitySlotProofs
\* shows of slots and lease rows holds with a charge in the renew and settle
\* statements (renewal.zig, renewal_settle.zig).
THEOREM MeteringImplementsSlot == MeteringSpec => SlotSpec
<1>1. MeteringInit => SlotInit  BY DEF MeteringInit
<1>2. [MeteringNext]_vars => [SlotNext]_svars
  <2>1. UNCHANGED vars => UNCHANGED svars  BY DEF vars
  <2>2. QED  BY <2>1, MeteredSlotSteps
<1>3. QED  BY <1>1, <1>2, PTL DEF MeteringSpec, SlotSpec

\* Whatever races it and however empty the wallet is, a step takes money from
\* one wallet, adds one new slice to the breakdown and the same amount to the
\* ledger row of its event, or touches none of the three (RENEW_METER_SQL,
\* the settle statement).
THEOREM EveryChargeIsBooked == MeteringSpec => ChargesAreBooked
<1>1. MeteringInv /\ [MeteringNext]_vars => MeteringInv'  BY MeteringStep
<1>2. MeteringInv /\ [MeteringNext]_vars => [BookedStep]_vars  BY MeteringStep
<1>3. QED  BY <1>1, <1>2, MeteringStart, PTL DEF MeteringSpec, ChargesAreBooked

-------------------------------------------------------------------------------
\* The fold of a sum over S, unfolded: f is the recursive function on the
\* subsets of S, and Total its value at S.
Unfolds(f, w, S) ==
    f = [s \in SUBSET S |->
           IF s = {} THEN 0 ELSE LET x == CHOOSE x \in s : TRUE IN w[x] + f[s \ {x}]]

Total(w, S) == (CHOOSE f : Unfolds(f, w, S))[S]

\* F is the sum of the weights w on every subset of U, whatever is taken first.
AddsUp(F, w, U) ==
    /\ F \in [SUBSET U -> Nat]
    /\ F[{}] = 0
    /\ \A s \in SUBSET U : \A x \in s : F[s] = w[x] + F[s \ {x}]

\* Among subsets of a finite set, one has none of the others right below it.
LEMMA LeastSubset ==
    ASSUME NEW U, IsFiniteSet(U), NEW T \in SUBSET (SUBSET U), T # {}
    PROVE  \E s \in T : \A x \in s : s \ {x} \notin T
<1>1. IsWellFoundedOn(StrictSubsetOrdering(U), SUBSET U)
  BY FS_StrictSubsetOrderingWellFounded, FS_FiniteSubsetsOfFinite
<1>2. PICK s \in T : \A r \in T : <<r, s>> \notin StrictSubsetOrdering(U)
  BY <1>1, WFMin
<1>3. ASSUME NEW x \in s, s \ {x} \in T  PROVE  FALSE
  <2>1. <<s \ {x}, s>> \in (SUBSET U) \X (SUBSET U)  BY <1>3
  <2>2. s \ {x} \subseteq s /\ s \ {x} # s  OBVIOUS
  <2>3. <<s \ {x}, s>> \in StrictSubsetOrdering(U)  BY <2>1, <2>2 DEF StrictSubsetOrdering
  <2>4. QED  BY <1>2, <1>3, <2>3
<1>4. QED  BY <1>3

\* Weights on a finite set have a sum.
LEMMA SumExists ==
    ASSUME NEW U, IsFiniteSet(U), NEW w, \A x \in U : w[x] \in Nat
    PROVE  \E F : AddsUp(F, w, U)
<1> DEFINE T == {s \in SUBSET U : ~\E F : AddsUp(F, w, s)}
<1>1. SUFFICES ASSUME T # {}  PROVE  FALSE  OBVIOUS
<1>2. PICK s \in T : \A x \in s : s \ {x} \notin T
  <2>1. T \in SUBSET (SUBSET U)  OBVIOUS
  <2> HIDE DEF T
  <2>2. QED  BY <1>1, <2>1, LeastSubset
<1>3. s \in SUBSET U /\ ~\E F : AddsUp(F, w, s)  OBVIOUS
<1>4. CASE s = {}
  <2>1. AddsUp([r \in SUBSET s |-> 0], w, s)  BY <1>4 DEF AddsUp
  <2>2. QED  BY <1>3, <2>1
<1>5. CASE s # {}
  <2>1. PICK u \in s : TRUE  BY <1>5
  <2> DEFINE v == s \ {u}
  <2>2. PICK F : AddsUp(F, w, v)  BY <1>2, <1>3, <2>1
  <2> DEFINE G == [r \in SUBSET s |-> IF u \in r THEN w[u] + F[r \ {u}] ELSE F[r]]
  <2>3. \A r \in SUBSET s : r \ {u} \in SUBSET v /\ (u \notin r => r \in SUBSET v)  OBVIOUS
  <2>4. w[u] \in Nat  BY <1>3, <2>1
  <2>5. G \in [SUBSET s -> Nat]
    <3>1. ASSUME NEW r \in SUBSET s  PROVE  (IF u \in r THEN w[u] + F[r \ {u}] ELSE F[r]) \in Nat
      <4>1. F \in [SUBSET v -> Nat]  BY <2>2 DEF AddsUp
      <4>2. F[r \ {u}] \in Nat /\ (u \notin r => F[r] \in Nat)  BY <2>3, <4>1
      <4>3. QED  BY <2>4, <4>2
    <3>2. QED  BY <3>1
  <2>6. G[{}] = 0  BY <2>2 DEF AddsUp
  <2>7. ASSUME NEW r \in SUBSET s, NEW x \in r  PROVE  G[r] = w[x] + G[r \ {x}]
    <3>1. CASE x = u  BY <3>1, <2>7
    <3>2. CASE x # u /\ u \notin r
      <4>1. F[r] = w[x] + F[r \ {x}]  BY <2>2, <2>3, <2>7, <3>2 DEF AddsUp
      <4>2. QED  BY <2>7, <3>2, <4>1
    <3>3. CASE x # u /\ u \in r
      <4>1. F[r \ {u}] = w[x] + F[(r \ {u}) \ {x}]
        BY <2>2, <2>3, <2>7, <3>3 DEF AddsUp
      <4>2. (r \ {u}) \ {x} = (r \ {x}) \ {u}  OBVIOUS
      <4>3. G[r] = w[u] + F[r \ {u}] /\ G[r \ {x}] = w[u] + F[(r \ {x}) \ {u}]
        BY <2>7, <3>3
      <4>4. F[(r \ {x}) \ {u}] \in Nat /\ w[x] \in Nat
        BY <1>3, <2>2, <2>3, <2>7 DEF AddsUp
      <4> DEFINE a == w[u]
                 b == w[x]
                 c == F[(r \ {x}) \ {u}]
      <4>5. a \in Nat /\ b \in Nat /\ c \in Nat /\ G[r] = a + (b + c) /\ G[r \ {x}] = a + c
        BY <2>4, <4>1, <4>2, <4>3, <4>4
      <4> HIDE DEF a, c, G
      <4>6. G[r] = b + G[r \ {x}]  BY <4>5
      <4>7. QED  BY <4>6
    <3>4. QED  BY <3>1, <3>2, <3>3
  <2> HIDE DEF G
  <2>8. AddsUp(G, w, s)  BY <2>5, <2>6, <2>7 DEF AddsUp
  <2>9. QED  BY <1>3, <2>8
<1>6. QED  BY <1>4, <1>5

\* The fold computes it.
LEMMA TotalIsSum ==
    ASSUME NEW U, IsFiniteSet(U), NEW w, NEW F, AddsUp(F, w, U), NEW S \in SUBSET U
    PROVE  Total(w, S) = F[S]
<1> DEFINE H == [s \in SUBSET S |-> F[s]]
<1>1. Unfolds(H, w, S)
  <2>1. ASSUME NEW s \in SUBSET S
        PROVE  F[s] = IF s = {} THEN 0 ELSE LET x == CHOOSE x \in s : TRUE IN w[x] + H[s \ {x}]
    <3>1. CASE s = {}  BY <3>1 DEF AddsUp
    <3>2. CASE s # {}
      <4> DEFINE x == CHOOSE x \in s : TRUE
      <4>1. x \in s  BY <3>2
      <4>2. s \in SUBSET U /\ s \ {x} \in SUBSET S  OBVIOUS
      <4>3. F[s] = w[x] + F[s \ {x}]  BY <4>1, <4>2 DEF AddsUp
      <4>4. QED  BY <3>2, <4>2, <4>3
    <3>3. QED  BY <3>1, <3>2
  <2>2. QED  BY <2>1 DEF Unfolds
<1> DEFINE f == CHOOSE f : Unfolds(f, w, S)
<1>2. Unfolds(f, w, S)  BY <1>1
<1> HIDE DEF f
<1> DEFINE T == {s \in SUBSET S : f[s] # F[s]}
<1>3. T = {}
  <2> SUFFICES ASSUME T # {}  PROVE  FALSE  OBVIOUS
  <2>1. IsFiniteSet(S)  BY FS_Subset
  <2>2. PICK s \in T : \A x \in s : s \ {x} \notin T
    <3>1. T \in SUBSET (SUBSET S)  OBVIOUS
    <3> HIDE DEF T
    <3>2. QED  BY <2>1, <3>1, LeastSubset
  <2>3. s \in SUBSET S /\ f[s] # F[s]  OBVIOUS
  <2>4. f[s] = IF s = {} THEN 0 ELSE LET x == CHOOSE x \in s : TRUE IN w[x] + f[s \ {x}]
    BY <1>2, <2>3 DEF Unfolds
  <2>5. CASE s = {}  BY <2>3, <2>4, <2>5 DEF AddsUp
  <2>6. CASE s # {}
    <3> DEFINE x == CHOOSE x \in s : TRUE
    <3>1. x \in s  BY <2>6
    <3>2. f[s] = w[x] + f[s \ {x}]  BY <2>4, <2>6
    <3> HIDE DEF x
    <3>3. f[s \ {x}] = F[s \ {x}]  BY <2>2, <2>3, <3>1
    <3>4. F[s] = w[x] + F[s \ {x}]  BY <2>3, <3>1 DEF AddsUp
    <3>5. QED  BY <2>3, <3>2, <3>3, <3>4
  <2>7. QED  BY <2>5, <2>6
<1>4. f[S] = F[S]  BY <1>3
<1>5. QED  BY <1>4 DEF Total, f

\* So a sum over a finite set of amounts is an amount, nothing adds up to
\* nothing, and one element more adds its weight.
LEMMA TotalAdds ==
    ASSUME NEW U, IsFiniteSet(U), NEW w, \A x \in U : w[x] \in Nat
    PROVE  /\ Total(w, {}) = 0
           /\ \A S \in SUBSET U : Total(w, S) \in Nat
           /\ \A S \in SUBSET U, x \in U : x \notin S => Total(w, S \union {x}) = Total(w, S) + w[x]
<1>1. PICK F : AddsUp(F, w, U)  BY SumExists
<1>2. \A S \in SUBSET U : Total(w, S) = F[S]  BY <1>1, TotalIsSum
<1>3. F \in [SUBSET U -> Nat] /\ F[{}] = 0  BY <1>1 DEF AddsUp
<1>4. ASSUME NEW S \in SUBSET U, NEW x \in U, x \notin S
      PROVE  F[S \union {x}] = F[S] + w[x]
  <2> DEFINE r == S \union {x}
  <2>1. r \in SUBSET U /\ x \in r  OBVIOUS
  <2>2. r \ {x} = S  BY <1>4
  <2> HIDE DEF r
  <2>3. F[r] = w[x] + F[r \ {x}]  BY <1>1, <2>1 DEF AddsUp
  <2>4. F[S] \in Nat /\ w[x] \in Nat  BY <1>3
  <2>5. F[r] = w[x] + F[S]  BY <2>2, <2>3, Zenon
  <2>6. w[x] + F[S] = F[S] + w[x]  BY <2>4
  <2>7. QED  BY <2>5, <2>6, Zenon DEF r
<1>5. \A S \in SUBSET U, x \in U : S \union {x} \in SUBSET U  OBVIOUS
<1>6. QED  BY <1>2, <1>3, <1>4, <1>5

\* The charges of slices are such a total, ...
LEMMA ChargesAddUp ==
    ASSUME NEW U, IsFiniteSet(U), \A p \in U : p.charged \in Nat
    PROVE  /\ Charged({}) = 0
           /\ \A S \in SUBSET U : Charged(S) \in Nat
           /\ \A S \in SUBSET U, p \in U : p \notin S => Charged(S \union {p}) = Charged(S) + p.charged
<1> DEFINE w == [p \in U |-> p.charged]
<1>1. ASSUME NEW S \in SUBSET U  PROVE  Charged(S) = Total(w, S)
  <2> DEFINE Fix(f) == f = [s \in SUBSET S |->
                          IF s = {} THEN 0 ELSE LET x == CHOOSE x \in s : TRUE IN x.charged + f[s \ {x}]]
  <2>1. Charged(S) = (CHOOSE f : Fix(f))[S]  BY DEF Charged, MapThenSumSet, MapThenFoldSet
  <2>2. \A f : Fix(f) <=> Unfolds(f, w, S)  BY DEF Unfolds
  <2>3. QED  BY <2>1, <2>2 DEF Total
<1>2. \A p \in U : w[p] = p.charged /\ w[p] \in Nat  OBVIOUS
<1>3. \A S \in SUBSET U, p \in U : S \union {p} \in SUBSET U  OBVIOUS
<1>4. {} \in SUBSET U  OBVIOUS
<1> HIDE DEF w
<1>5. QED  BY <1>1, <1>2, <1>3, <1>4, TotalAdds

\* ... and their times.
LEMMA TimesAddUp ==
    ASSUME NEW U, IsFiniteSet(U), \A p \in U : p.ms \in Nat
    PROVE  /\ TimeIn({}) = 0
           /\ \A S \in SUBSET U : TimeIn(S) \in Nat
           /\ \A S \in SUBSET U, p \in U : p \notin S => TimeIn(S \union {p}) = TimeIn(S) + p.ms
<1> DEFINE w == [p \in U |-> p.ms]
<1>1. ASSUME NEW S \in SUBSET U  PROVE  TimeIn(S) = Total(w, S)
  <2> DEFINE Fix(f) == f = [s \in SUBSET S |->
                          IF s = {} THEN 0 ELSE LET x == CHOOSE x \in s : TRUE IN x.ms + f[s \ {x}]]
  <2>1. TimeIn(S) = (CHOOSE f : Fix(f))[S]  BY DEF TimeIn, MapThenSumSet, MapThenFoldSet
  <2>2. \A f : Fix(f) <=> Unfolds(f, w, S)  BY DEF Unfolds
  <2>3. QED  BY <2>1, <2>2 DEF Total
<1>2. \A p \in U : w[p] = p.ms /\ w[p] \in Nat  OBVIOUS
<1>3. \A S \in SUBSET U, p \in U : S \union {p} \in SUBSET U  OBVIOUS
<1>4. {} \in SUBSET U  OBVIOUS
<1> HIDE DEF w
<1>5. QED  BY <1>1, <1>2, <1>3, <1>4, TotalAdds

-------------------------------------------------------------------------------
-------------------------------------------------------------------------------
\* The breakdown is a finite set of slices, and the books agree.
BooksInv == IsFiniteSet(periods) /\ BooksAgree

\* A selection of a breakdown that gained slice p.
LEMMA OneSliceMore ==
    ASSUME MeteringTypeOK, IsFiniteSet(periods), NEW p, Booked(p), NEW S \in SUBSET periods
    PROVE  /\ Charged(S) \in Nat /\ Charged(S \union {p}) = Charged(S) + p.charged
           /\ TimeIn(S) \in Nat /\ TimeIn(S \union {p}) = TimeIn(S) + p.ms
           /\ Charged({}) = 0 /\ TimeIn({}) = 0
<1> DEFINE U == periods \union {p}
<1>1. IsFiniteSet(U)  BY FS_AddElement
<1>2. \A q \in U : q \in Periods  BY DEF Booked, MeteringTypeOK
<1>3. \A q \in U : q.charged \in Nat /\ q.ms \in Nat  BY <1>2 DEF Periods
<1>4. S \in SUBSET U /\ p \in U /\ p \notin S  BY DEF Booked
<1> HIDE DEF U
<1>5. QED  BY <1>1, <1>3, <1>4, ChargesAddUp, TimesAddUp

\* A booked slice moves the wallet and the breakdown of one tenant, and the
\* ledger row and the breakdown of one event, by the same amount.
LEMMA BooksStep ==
    ASSUME MeteringInv, BooksInv, MeteringNext
    PROVE  BooksInv'
<1>1. BookedStep /\ MeteringTypeOK /\ MeteringTypeOK'  BY MoneyStep DEF MeteringInv
<1>2. CASE UNCHANGED <<wallet, ledger, periods>>
  BY <1>2 DEF BooksInv, BooksAgree, AuditMatchesWallet, LedgerMatchesPeriods
<1>3. ASSUME NEW p, Booked(p)  PROVE  BooksInv'
  <2>1. periods' = periods \union {p} /\ IsFiniteSet(periods) /\ p \in Periods
    BY <1>3 DEF Booked, BooksInv
  <2>2. IsFiniteSet(periods')  BY <2>1, FS_AddElement
  <2>3. AuditMatchesWallet'
    <3> SUFFICES ASSUME NEW x \in Tenants
                 PROVE  Balance - wallet'[x] = Charged({q \in periods' : Tenant[q.by] = x})
      BY DEF AuditMatchesWallet
    <3> DEFINE S == {q \in periods : Tenant[q.by] = x}
    <3>1. Balance - wallet[x] = Charged(S) /\ wallet[x] \in Int /\ Balance \in Int
      BY <1>1, MeteringAssumption DEF BooksInv, BooksAgree, AuditMatchesWallet, MeteringTypeOK
    <3>2. CASE Tenant[p.by] = x
      <4>1. {q \in periods' : Tenant[q.by] = x} = S \union {p}  BY <2>1, <3>2
      <4>2. Charged(S \union {p}) = Charged(S) + p.charged /\ p.charged \in Int
        BY <1>1, <1>3, <2>1, OneSliceMore DEF Periods
      <4>3. wallet'[x] = wallet[x] - p.charged  BY <1>1, <1>3, <3>2 DEF Booked, MeteringTypeOK
      <4>4. Charged({q \in periods' : Tenant[q.by] = x}) = Charged(S) + p.charged  BY <4>1, <4>2
      <4> HIDE DEF S
      <4>5. Balance - (wallet[x] - p.charged) = Charged(S) + p.charged  BY <3>1, <4>2
      <4>6. QED  BY <4>3, <4>4, <4>5
    <3>3. CASE Tenant[p.by] # x
      <4>1. {q \in periods' : Tenant[q.by] = x} = S  BY <2>1, <3>3
      <4>2. wallet'[x] = wallet[x]  BY <1>1, <1>3, <3>3 DEF Booked, MeteringTypeOK
      <4>3. QED  BY <3>1, <4>1, <4>2
    <3>4. QED  BY <3>2, <3>3
  <2>4. LedgerMatchesPeriods'
    <3> SUFFICES ASSUME NEW i \in Ids  PROVE  ledger'[i] = Charged({q \in periods' : q.id = i})
      BY DEF LedgerMatchesPeriods
    <3> DEFINE S == {q \in periods : q.id = i}
    <3>1. ledger[i] = Charged(S) /\ ledger[i] \in Int
      BY <1>1 DEF BooksInv, BooksAgree, LedgerMatchesPeriods, MeteringTypeOK
    <3>2. CASE p.id = i
      <4>1. {q \in periods' : q.id = i} = S \union {p}  BY <2>1, <3>2
      <4>2. Charged(S \union {p}) = Charged(S) + p.charged  BY <1>1, <1>3, <2>1, OneSliceMore
      <4>3. ledger'[i] = ledger[i] + p.charged  BY <1>1, <1>3, <3>2 DEF Booked, MeteringTypeOK
      <4>4. QED  BY <3>1, <4>1, <4>2, <4>3
    <3>3. CASE p.id # i
      <4>1. {q \in periods' : q.id = i} = S  BY <2>1, <3>3
      <4>2. ledger'[i] = ledger[i]  BY <1>1, <1>3, <3>3 DEF Booked, MeteringTypeOK
      <4>3. QED  BY <3>1, <4>1, <4>2
    <3>4. QED  BY <3>2, <3>3
  <2>5. QED  BY <2>2, <2>3, <2>4 DEF BooksInv, BooksAgree
<1>4. QED  BY <1>1, <1>2, <1>3 DEF BookedStep

\* Nothing is charged at first.
LEMMA BooksStart == MeteringInit => BooksInv
<1> SUFFICES ASSUME MeteringInit  PROVE  BooksInv  OBVIOUS
<1>1. periods = {} /\ IsFiniteSet(periods)  BY FS_EmptySet DEF MeteringInit
<1>2. Charged({}) = 0  BY FS_EmptySet, ChargesAddUp
<1>3. \A x : {q \in periods : Tenant[q.by] = x} = {}  BY <1>1
<1>4. \A i : {q \in periods : q.id = i} = {}  BY <1>1
<1>5. AuditMatchesWallet
  BY <1>2, <1>3, MeteringAssumption DEF MeteringInit, AuditMatchesWallet
<1>6. LedgerMatchesPeriods  BY <1>2, <1>4 DEF MeteringInit, LedgerMatchesPeriods
<1>7. QED  BY <1>1, <1>5, <1>6 DEF BooksInv, BooksAgree

\* A step that leaves the tables alone leaves them agreed, too.
LEMMA BooksKept == MeteringInv /\ BooksInv /\ [MeteringNext]_vars => BooksInv'
<1>1. UNCHANGED vars /\ BooksInv => BooksInv'
  BY DEF vars, mvars, BooksInv, BooksAgree, AuditMatchesWallet, LedgerMatchesPeriods
<1>2. QED  BY <1>1, BooksStep

\* A charge leaves every amount an amount: the wallet never drops below zero,
\* whatever clock reading and token count a renewal or a report carries
\* (ChargeSlice: GREATEST and LEAST in renewal.zig and renewal_settle.zig).
THEOREM MeteringTyped == MeteringSpec => []MeteringTypeOK
<1>1. MeteringInv /\ [MeteringNext]_vars => MeteringInv'  BY MeteringStep
<1>2. MeteringInv => MeteringTypeOK  BY DEF MeteringInv
<1>3. QED  BY <1>1, <1>2, MeteringStart, PTL DEF MeteringSpec

\* What left each tenant's wallet is what its slices say, and each ledger row is
\* the sum of the slices of its id: in every state, also after the slice that
\* empties the wallet and after retried, reordered or fenced-out statements.
THEOREM BooksAlwaysAgree == MeteringSpec => []BooksAgree
<1>1. MeteringInv /\ [MeteringNext]_vars => MeteringInv'  BY MeteringStep
<1>2. BooksInv => BooksAgree  BY DEF BooksInv
<1>3. QED  BY <1>1, <1>2, MeteringStart, BooksStart, BooksKept, PTL DEF MeteringSpec

-------------------------------------------------------------------------------
\* What a step does to a request: nothing, it ends or has no event yet, it takes
\* over the event of a lease row in force, it reads one, or it stamps it.
WorkMoves ==
    \A z \in Zombies, t \in Tokens :
        \/ work'[z][t] = work[z][t]
        \/ work'[z][t].stage = "none"
        \/ work'[z][t].stage \in {"claimed", "free"} /\ work'[z][t].kind = "fresh"
        \/ /\ work'[z][t].kind = "reclaim" /\ UNCHANGED <<cursor, periods>>
           /\ \E p \in Tokens : Active(z, p) /\ work'[z][t].event = lease[z][p].event
        \/ work'[z][t].stage = "acquired" /\ work'[z][t].kind = "fresh"
        \/ /\ work[z][t].stage = "acquired" /\ work'[z][t].stage = "stamped"
           /\ work'[z][t].event = work[z][t].event /\ work'[z][t].kind = work[z][t].kind
           /\ work'[z][t].at = now /\ MeteredStamp(z, t)

\* A request has not read an event before the reclaim statement found none.
KindOfRequest ==
    \A z \in Zombies, t \in Tokens :
        work[z][t].stage \in {"claimed", "free"} => work[z][t].kind = "fresh"

\* This is what a step does to the requests.
LEMMA WorkMove ==
    ASSUME MeteringInv, KindOfRequest, [MeteringNext]_vars
    PROVE  WorkMoves /\ KindOfRequest'
<1> DEFINE Goal == WorkMoves /\ KindOfRequest'
           One(z, t) == \A y \in Zombies, u \in Tokens : y # z \/ u # t => work'[y][u] = work[y][u]
<1>1. SlotTypeOK  BY DEF MeteringInv, SlotInv
<1>2. CASE UNCHANGED work  BY <1>2 DEF WorkMoves, KindOfRequest
<1>3. ASSUME NEW z \in Zombies, NEW r \in Runners, MeteredClaim(z, r)  PROVE  Goal
  <2> DEFINE t == slot[z].seq + 1
  <2>1. t \in Tokens  BY <1>1, <1>3 DEF MeteredClaim, Claim, SlotTypeOK, Slots, Tokens
  <2>2. work'[z][t].stage = "claimed" /\ work'[z][t].kind = "fresh"
    BY <1>1, <1>3, <2>1 DEF MeteredClaim, Claim, SlotTypeOK
  <2>3. One(z, t)  BY <1>1, <1>3 DEF MeteredClaim, Claim, SlotTypeOK
  <2> HIDE DEF t
  <2>4. QED  BY <2>2, <2>3 DEF WorkMoves, KindOfRequest
<1>4. ASSUME NEW z \in Zombies, NEW t \in Tokens, NEW p \in Tokens, ReclaimPriorActive(z, t, p), UNCHANGED mvars
      PROVE  Goal
  <2>1. /\ work'[z][t].stage = "acquired" /\ work'[z][t].kind = "reclaim"
        /\ work'[z][t].event = lease[z][p].event /\ One(z, t) /\ Active(z, p)
    BY <1>1, <1>4, CellTypes DEF ReclaimPriorActive, LatestActive, SlotTypeOK, Requests
  <2>2. UNCHANGED <<cursor, periods>>  BY <1>4 DEF mvars
  <2>3. QED  BY <2>1, <2>2 DEF WorkMoves, KindOfRequest
<1>5. ASSUME NEW z \in Zombies, NEW t \in Tokens, NoPriorActive(z, t)  PROVE  Goal
  <2>1. /\ work'[z][t].stage = "free" /\ work'[z][t].kind = work[z][t].kind /\ work[z][t].stage = "claimed"
        /\ One(z, t)
    BY <1>1, <1>5, CellTypes DEF NoPriorActive, SlotTypeOK, Requests
  <2>2. QED  BY <2>1 DEF WorkMoves, KindOfRequest
<1>6. ASSUME NEW z \in Zombies, NEW t \in Tokens, NEW e \in Events, MeteredAcquire(z, t, e)  PROVE  Goal
  <2>1. /\ work'[z][t].stage = "acquired" /\ work'[z][t].kind = work[z][t].kind /\ work[z][t].stage = "free"
        /\ One(z, t)
    BY <1>1, <1>6, CellTypes DEF MeteredAcquire, AcquireFresh, SlotTypeOK, Requests
  <2>2. QED  BY <2>1 DEF WorkMoves, KindOfRequest
<1>7. ASSUME NEW z \in Zombies, NEW t \in Tokens, MeteredStamp(z, t)  PROVE  Goal
  <2>1. /\ work[z][t].stage = "acquired" /\ work'[z][t].stage = "stamped"
        /\ work'[z][t].event = work[z][t].event /\ work'[z][t].kind = work[z][t].kind
        /\ work'[z][t].at = now /\ One(z, t)
    BY <1>1, <1>7, CellTypes DEF MeteredStamp, StampLease, SlotTypeOK, Requests
  <2>2. QED  BY <1>7, <2>1 DEF WorkMoves, KindOfRequest
<1>8. ASSUME NEW z \in Zombies, NEW t \in Tokens, work' = [work EXCEPT ![z][t] = NoRequest]  PROVE  Goal
  <2>1. work'[z][t].stage = "none" /\ One(z, t)  BY <1>1, <1>8 DEF NoRequest, SlotTypeOK
  <2>2. QED  BY <2>1 DEF WorkMoves, KindOfRequest
<1>9. ASSUME NEW z \in Zombies, NEW t \in Tokens, MeteredStep(z, t)  PROVE  Goal
  <2>1. CASE MeteredIssue(z, t) \/ MeteredGiveUp(z, t)
    BY <1>8, <2>1 DEF MeteredIssue, IssueLease, MeteredGiveUp, AbandonClaim, DropClaim
  <2>2. CASE Consume(z, t) \/ MeteredRenew(z, t) \/ MeteredReport(z, t) \/ ReleaseReported(z, t) \/ DropReport(z, t)
    BY <1>2, <2>2 DEF Consume, MeteredRenew, MeteredReport, Renew, ClaimReport, ReleaseReported, DropReport, svars
  <2>3. QED  BY <1>4, <1>5, <1>6, <1>7, <1>9, <2>1, <2>2 DEF MeteredStep
<1>10. CASE Tick \/ UNCHANGED vars \/ \E r \in SweptRunners : ExpireActiveLeaseSlots(r)
  BY <1>2, <1>10 DEF Tick, vars, svars, ExpireActiveLeaseSlots
<1>11. QED  BY <1>3, <1>9, <1>10 DEF MeteringNext

\* A charge: one lease in force is booked up to a clock reading and a count of
\* tokens that its run has reached.
Charge(z, t, at, cum, p) ==
    /\ Active(z, t)
    /\ at \in ClockReads(z, t) /\ cum \in 0..used[z][t]
    /\ Booked(p) /\ SliceOf(p, z, lease[z][t].event, at, cum)
    /\ UNCHANGED <<now, work, used>>

\* What a step does to the cursors: it sets the time of some to now, it resets
\* one for a fresh event, or it charges a slice.
CursorMoves ==
    \/ /\ UNCHANGED periods
       /\ \A y \in Zombies :
            /\ cursor'[y].seq = cursor[y].seq /\ cursor'[y].tok = cursor[y].tok
            /\ cursor'[y].at \in {cursor[y].at, now}
    \/ /\ UNCHANGED <<periods, used, now>>
       /\ \E z \in Zombies, t \in Tokens :
            /\ work[z][t].stage = "acquired" /\ work[z][t].kind = "fresh" /\ work'[z][t].stage = "stamped"
            /\ cursor' = [cursor EXCEPT ![z] = [tok |-> 0, at |-> now, seq |-> 0]]
    \/ \E z \in Zombies, t \in Tokens : \E at, cum, p : Charge(z, t, at, cum, p)

\* This is what a step does to the cursors; tokens and time only grow.
LEMMA CursorMove ==
    ASSUME MeteringInv, [MeteringNext]_vars
    PROVE  /\ CursorMoves
           /\ \A z \in Zombies, t \in Tokens : used'[z][t] >= used[z][t]
           /\ now' >= now
<1>1. SlotTypeOK /\ MeteringTypeOK /\ now \in Nat
  BY SlotAssumption DEF MeteringInv, SlotInv, SlotTypeOK
<1>2. \A z \in Zombies, t \in Tokens : used[z][t] \in Nat
  BY <1>1, MeteringAssumption DEF MeteringTypeOK
<1> DEFINE Goal == CursorMoves /\ (\A z \in Zombies, t \in Tokens : used'[z][t] >= used[z][t]) /\ now' >= now
<1>3. ASSUME UNCHANGED <<cursor, periods, used>>, now' = now \/ now' = now + 1  PROVE  Goal
  BY <1>1, <1>2, <1>3 DEF CursorMoves
<1>4. ASSUME NEW z \in Zombies, NEW r \in Runners, MeteredClaim(z, r)  PROVE  Goal
  <2>1. UNCHANGED cursor \/ cursor' = [cursor EXCEPT ![z] = [cursor[z] EXCEPT !.at = now]]
    BY <1>4 DEF MeteredClaim
  <2>2. cursor[z] \in Cursors  BY <1>1 DEF MeteringTypeOK
  <2>3. /\ [cursor[z] EXCEPT !.at = now].seq = cursor[z].seq
        /\ [cursor[z] EXCEPT !.at = now].tok = cursor[z].tok
        /\ [cursor[z] EXCEPT !.at = now].at = now
    BY <2>2 DEF Cursors
  <2>4. \A y \in Zombies :
          /\ cursor'[y].seq = cursor[y].seq /\ cursor'[y].tok = cursor[y].tok
          /\ cursor'[y].at \in {cursor[y].at, now}
    BY <1>1, <2>1, <2>3 DEF MeteringTypeOK
  <2>5. UNCHANGED <<periods, used, now>>  BY <1>4 DEF MeteredClaim, Claim
  <2>6. QED  BY <1>1, <1>2, <2>4, <2>5 DEF CursorMoves
<1>5. ASSUME NEW z \in Zombies, NEW t \in Tokens, MeteredStamp(z, t)  PROVE  Goal
  <2>1. UNCHANGED <<periods, used, now>> /\ work[z][t].stage = "acquired"
    BY <1>5 DEF MeteredStamp, StampLease
  <2>2. CASE work[z][t].kind = "fresh"
    <3>1. work'[z][t].stage = "stamped"
      BY <1>1, <1>5, CellTypes DEF MeteredStamp, StampLease, SlotTypeOK, Requests
    <3>2. cursor' = [cursor EXCEPT ![z] = [tok |-> 0, at |-> now, seq |-> 0]]  BY <1>5, <2>2 DEF MeteredStamp
    <3>3. \E y \in Zombies, u \in Tokens :
            /\ work[y][u].stage = "acquired" /\ work[y][u].kind = "fresh" /\ work'[y][u].stage = "stamped"
            /\ cursor' = [cursor EXCEPT ![y] = [tok |-> 0, at |-> now, seq |-> 0]]
      BY <2>1, <2>2, <3>1, <3>2
    <3>4. CursorMoves  BY <2>1, <3>3 DEF CursorMoves
    <3>5. QED  BY <1>1, <1>2, <2>1, <3>4
  <2>3. CASE work[z][t].kind # "fresh"
    <3>1. UNCHANGED cursor  BY <1>5, <2>3 DEF MeteredStamp
    <3>2. QED  BY <1>3, <2>1, <3>1
  <2>4. QED  BY <2>2, <2>3
<1>6. ASSUME NEW z \in Zombies, NEW t \in Tokens, MeteredRenew(z, t) \/ MeteredReport(z, t)  PROVE  Goal
  <2>1. PICK at \in ClockReads(z, t), cum \in 0..used[z][t] :
          Active(z, t) /\ ChargeSlice(z, t, at, cum) /\ UNCHANGED <<now, work>>
    BY <1>6 DEF MeteredRenew, MeteredReport, Renew, ClaimReport
  <2>2. at \in Nat /\ cum \in Nat  BY <1>1, <1>2 DEF ClockReads
  <2>3. PICK p : Booked(p) /\ SliceOf(p, z, lease[z][t].event, at, cum)  BY <2>1, <2>2, SliceBooked
  <2>4. UNCHANGED used  BY <2>1 DEF ChargeSlice
  <2>5. Charge(z, t, at, cum, p)  BY <2>1, <2>3, <2>4 DEF Charge
  <2>6. QED  BY <1>1, <1>2, <2>1, <2>4, <2>5 DEF CursorMoves
<1>7. ASSUME NEW z \in Zombies, NEW t \in Tokens, Consume(z, t)  PROVE  Goal
  <2>1. used' = [used EXCEPT ![z] = [used[z] EXCEPT ![t] = used[z][t] + 1]]  BY <1>7 DEF Consume
  <2>2. \A y \in Zombies, u \in Tokens : used'[y][u] >= used[y][u]  BY <1>1, <1>2, <2>1 DEF MeteringTypeOK
  <2>3. UNCHANGED <<cursor, periods, now>>  BY <1>7 DEF Consume, svars
  <2>4. QED  BY <1>1, <2>2, <2>3 DEF CursorMoves
<1>8. ASSUME NEW z \in Zombies, NEW t \in Tokens, MeteredStep(z, t)  PROVE  Goal
  <2>1. CASE \/ (\E p \in Tokens : ReclaimPriorActive(z, t, p) /\ UNCHANGED mvars)
             \/ NoPriorActive(z, t) /\ UNCHANGED mvars
             \/ (\E e \in Events : MeteredAcquire(z, t, e)) \/ MeteredIssue(z, t) \/ MeteredGiveUp(z, t)
             \/ (ReleaseReported(z, t) \/ DropReport(z, t)) /\ UNCHANGED mvars
    BY <1>3, <2>1 DEF ReclaimPriorActive, NoPriorActive, MeteredAcquire, AcquireFresh, MeteredIssue, IssueLease,
       MeteredGiveUp, AbandonClaim, DropClaim, ReleaseReported, DropReport, mvars
  <2>2. QED  BY <1>5, <1>6, <1>7, <1>8, <2>1 DEF MeteredStep
<1>9. CASE \/ Tick /\ UNCHANGED mvars
           \/ UNCHANGED vars
           \/ \E r \in SweptRunners : ExpireActiveLeaseSlots(r) /\ UNCHANGED mvars
  BY <1>3, <1>9 DEF Tick, vars, svars, mvars, ExpireActiveLeaseSlots
<1>10. QED  BY <1>4, <1>8, <1>9 DEF MeteringNext

-------------------------------------------------------------------------------
\* There is a row of the event under this token.
RowOf(e, t) == lease[Home[e]][t].status # "none"

\* A slice adds to the event it is for, and to no other.
LEMMA SliceInPeriods ==
    ASSUME NEW z \in Zombies, NEW e \in Events, Home[e] = z, NEW at, NEW cum, NEW p,
           Booked(p), SliceOf(p, z, e, at, cum)
    PROVE  /\ PeriodsOf(e)' = PeriodsOf(e) \union {p}
           /\ \A d \in Events : d # e => PeriodsOf(d)' = PeriodsOf(d)
<1>1. p.id = StreamId[e] /\ p.by = Home[e] /\ periods' = periods \union {p}  BY DEF Booked, SliceOf
<1>2. \A d \in Events : d # e => ~(StreamId[e] = StreamId[d] /\ Home[e] = Home[d])  BY MeteringAssumption
<1>3. QED  BY <1>1, <1>2 DEF PeriodsOf

\* The time of a selection is an amount.
LEMMA TimeNat ==
    ASSUME MeteringTypeOK, IsFiniteSet(periods), NEW S \in SUBSET periods
    PROVE  TimeIn(S) \in Nat
<1>1. \A q \in periods : q.ms \in Nat  BY DEF MeteringTypeOK, Periods
<1>2. QED  BY <1>1, TimesAddUp

\* No slices, no time.
LEMMA TimeOfNone == TimeIn({}) = 0
BY FS_EmptySet, TimesAddUp

\* The rows of an event only become more.
LEMMA LeasesOfGrow ==
    ASSUME MeteringInv, LeasesMove, NEW e \in Events, NEW t \in LeasesOf(e), RowOf(e, t)
    PROVE  /\ t \in LeasesOf(e)' /\ t \in Tokens /\ RowOf(e, t)'
           /\ lease'[Home[e]][t].created = lease[Home[e]][t].created
BY MeteringAssumption DEF LeasesMove, LeasesOf, RowOf

\* The breakdown stays finite: a step adds at most one slice.
LEMMA PeriodsFinite ==
    ASSUME MeteringInv, IsFiniteSet(periods), [MeteringNext]_vars
    PROVE  IsFiniteSet(periods')
<1>1. CASE UNCHANGED vars  BY <1>1 DEF vars, mvars
<1>2. CASE MeteringNext
  <2>1. BookedStep  BY <1>2, MoneyStep
  <2>2. ASSUME NEW p, Booked(p)  PROVE  IsFiniteSet(periods')
    BY <2>2, FS_AddElement DEF Booked
  <2>3. QED  BY <2>1, <2>2 DEF BookedStep
<1>3. QED  BY <1>1, <1>2

-------------------------------------------------------------------------------
\* What old clock readings may have set the cursor of z back by, so far, and the
\* moment that the cursor would be at without.
Slack(z) == MaxStall * Cardinality(Timeless(z))
Reach(z) == cursor[z].at + Slack(z)

\* No cursor is ahead of the clock, ...
CursorPast == \A z \in Zombies : cursor[z].at <= now

\* ... and an event that is leased, or taken over, was leased no later than its
\* cursor counts from.
Started(z, e) == \E u \in LeasesOf(e) : RowOf(e, u) /\ lease[z][u].created <= Reach(z)

LeasedBefore ==
    \A z \in Zombies, t \in Tokens :
        /\ lease[z][t].status # "none" => Started(z, lease[z][t].event)
        /\ work[z][t].stage \in {"acquired", "stamped"} /\ work[z][t].kind = "reclaim" => Started(z, work[z][t].event)
        /\ work[z][t].stage = "stamped" /\ work[z][t].kind = "fresh" => work[z][t].at <= Reach(z)

\* The metered time of an event fits between a lease of it and its cursor, with
\* what that was set back by.
TimeInSpan ==
    \A e \in Events :
        PeriodsOf(e) # {} =>
          \E t \in LeasesOf(e) :
             RowOf(e, t) /\ TimeIn(PeriodsOf(e)) <= Reach(Home[e]) - lease[Home[e]][t].created

TimeInv ==
    /\ MeteringInv /\ KindOfRequest /\ IsFiniteSet(periods)
    /\ CursorPast /\ LeasedBefore /\ TimeInSpan

\* The slack is an amount.
LEMMA SlackNat == ASSUME IsFiniteSet(periods), NEW z PROVE Slack(z) \in Nat
<1>1. IsFiniteSet(Timeless(z))  BY FS_Subset DEF Timeless
<1>2. Cardinality(Timeless(z)) \in Nat  BY <1>1, FS_CardinalityType
<1>3. QED  BY <1>2, ProductNat, SlotAssumption DEF Slack

\* A slice that meters no time adds one stall to the slack of its zombie; nothing
\* else changes the slack.
LEMMA SlackMoves ==
    ASSUME IsFiniteSet(periods), NEW p, Booked(p), NEW z
    PROVE  Slack(z)' = IF p.by = z /\ p.ms = 0 THEN Slack(z) + MaxStall ELSE Slack(z)
<1>1. IsFiniteSet(Timeless(z))  BY FS_Subset DEF Timeless
<1>2. PICK n \in Nat : n = Cardinality(Timeless(z))  BY <1>1, FS_CardinalityType
<1>3. periods' = periods \union {p} /\ p \notin periods  BY DEF Booked
<1>4. CASE p.by = z /\ p.ms = 0
  <2>1. Timeless(z)' = Timeless(z) \union {p} /\ p \notin Timeless(z)  BY <1>3, <1>4 DEF Timeless
  <2>2. Cardinality(Timeless(z) \union {p}) = n + 1  BY <1>1, <1>2, <2>1, FS_AddElement
  <2>3. Slack(z)' = MaxStall * (n + 1)  BY <2>1, <2>2 DEF Slack
  <2>4. MaxStall * (n + 1) = MaxStall * n + MaxStall  BY SlotAssumption
  <2>5. Slack(z) = MaxStall * n  BY <1>2 DEF Slack
  <2>6. QED  BY <1>4, <2>3, <2>4, <2>5
<1>5. CASE ~(p.by = z /\ p.ms = 0)
  <2>1. Timeless(z)' = Timeless(z)  BY <1>3, <1>5 DEF Timeless
  <2>2. QED  BY <1>5, <2>1 DEF Slack
<1>6. QED  BY <1>4, <1>5

\* A slice moves the reach of its zombie by at least the time that it meters: the
\* one that sets the cursor back meters none and adds to the slack.
LEMMA SliceReach ==
    ASSUME TimeInv, MeteringInv', NEW z \in Zombies, NEW t \in Tokens, NEW at, NEW cum, NEW p,
           Charge(z, t, at, cum, p)
    PROVE  /\ p.ms \in Nat /\ Reach(z) \in Int /\ Reach(z)' \in Int /\ Reach(z) + p.ms <= Reach(z)'
           /\ \A y \in Zombies : y # z => Reach(y)' = Reach(y)
           /\ \A y \in Zombies : cursor'[y].at <= now'
<1>1. MeteringTypeOK /\ IsFiniteSet(periods) /\ CursorPast /\ now \in Int /\ now' = now
  BY SlotAssumption DEF TimeInv, MeteringInv, SlotInv, SlotTypeOK, Charge
<1>2. Booked(p) /\ SliceOf(p, z, lease[z][t].event, at, cum) /\ at \in 0..now /\ now - at <= MaxStall
  BY DEF Charge, ClockReads
<1>3. \A y \in Zombies : cursor[y].at \in Int /\ cursor[y].at <= now
  BY <1>1 DEF MeteringTypeOK, Cursors, CursorPast
<1>4. cursor'[z].at = at /\ \A y \in Zombies : y # z => cursor'[y] = cursor[y]
  BY <1>1, <1>2 DEF SliceOf, MeteringTypeOK
<1>5. p.by = z /\ p.ms = Ahead(at, cursor[z].at)  BY <1>2 DEF SliceOf
<1>6. PICK s \in Nat : s = Slack(z)  BY <1>1, SlackNat
<1>7. Slack(z)' = IF p.ms = 0 THEN s + MaxStall ELSE s  BY <1>1, <1>2, <1>5, <1>6, SlackMoves
<1>8. PICK c \in Int : c = cursor[z].at /\ c <= now  BY <1>3
<1>9. p.ms = IF at > c THEN at - c ELSE 0  BY <1>5, <1>8 DEF Ahead
<1>10. at \in Int /\ MaxStall \in Nat  BY <1>1, <1>2, SlotAssumption
<1>11. /\ p.ms \in Nat /\ c + s \in Int /\ at + Slack(z)' \in Int
       /\ (c + s) + p.ms <= at + Slack(z)'
  BY <1>1, <1>2, <1>7, <1>8, <1>9, <1>10
<1>12. Reach(z) = c + s /\ Reach(z)' = at + Slack(z)'  BY <1>4, <1>6, <1>8 DEF Reach
<1>13. ASSUME NEW y \in Zombies, y # z  PROVE  Reach(y)' = Reach(y)
  <2>1. Slack(y)' = Slack(y)  BY <1>1, <1>2, <1>5, <1>13, SlackMoves
  <2>2. QED  BY <1>4, <1>13, <2>1 DEF Reach
<1>14. ASSUME NEW y \in Zombies  PROVE  cursor'[y].at <= now'
  <2>1. CASE y = z  BY <1>1, <1>2, <1>4, <2>1
  <2>2. CASE y # z  BY <1>1, <1>3, <1>4, <2>2
  <2>3. QED  BY <2>1, <2>2
<1>15. QED  BY <1>11, <1>12, <1>13, <1>14

\* No step sets back the reach of a zombie.
LEMMA ReachAdvances ==
    ASSUME TimeInv, CursorMoves, MeteringInv', now' >= now
    PROVE  \A z \in Zombies : /\ Reach(z) \in Int /\ Reach(z)' \in Int /\ cursor[z].at \in Int
                              /\ cursor'[z].at \in Int /\ Slack(z)' \in Nat
                              /\ Reach(z) <= Reach(z)' /\ cursor'[z].at <= now'
<1>1. CursorPast /\ MeteringTypeOK /\ MeteringTypeOK' /\ now \in Int /\ now' \in Int /\ IsFiniteSet(periods)
  BY SlotAssumption DEF TimeInv, MeteringInv, SlotInv, SlotTypeOK
<1>2. \A z \in Zombies : cursor[z].at \in Int /\ cursor'[z].at \in Int /\ cursor[z].at <= now
  BY <1>1 DEF MeteringTypeOK, Cursors, CursorPast
<1>3. \A z \in Zombies : Slack(z) \in Nat  BY <1>1, SlackNat
<1>4. ASSUME UNCHANGED periods, \A y \in Zombies : cursor'[y].at \in {cursor[y].at, now}
      PROVE  \A z \in Zombies : /\ Reach(z) \in Int /\ Reach(z)' \in Int /\ Slack(z)' \in Nat
                                /\ Reach(z) <= Reach(z)' /\ cursor'[z].at <= now'
  <2>1. \A z \in Zombies : Slack(z)' = Slack(z)  BY <1>4 DEF Slack, Timeless
  <2>2. QED  BY <1>1, <1>2, <1>3, <1>4, <2>1 DEF Reach
<1>5. ASSUME NEW z \in Zombies, NEW c, c.at = now, cursor' = [cursor EXCEPT ![z] = c]
      PROVE  \A y \in Zombies : cursor'[y].at \in {cursor[y].at, now}
  BY <1>1, <1>5 DEF MeteringTypeOK
<1>6. ASSUME NEW z \in Zombies, NEW t \in Tokens, NEW at, NEW cum, NEW p, Charge(z, t, at, cum, p)
      PROVE  \A y \in Zombies : /\ Reach(y) \in Int /\ Reach(y)' \in Int /\ Slack(y)' \in Nat
                                /\ Reach(y) <= Reach(y)' /\ cursor'[y].at <= now'
  <2>1. /\ p.ms \in Nat /\ Reach(z) \in Int /\ Reach(z)' \in Int /\ Reach(z) + p.ms <= Reach(z)'
        /\ \A y \in Zombies : y # z => Reach(y)' = Reach(y)
        /\ \A y \in Zombies : cursor'[y].at <= now'
    BY <1>6, SliceReach
  <2>2. \A y \in Zombies : Reach(y) \in Int  BY <1>2, <1>3 DEF Reach
  <2>3. \A y \in Zombies : Slack(y)' \in Nat
    <3>1. Booked(p) /\ MaxStall \in Nat  BY <1>6, SlotAssumption DEF Charge
    <3>2. QED  BY <1>1, <1>3, <3>1, SlackMoves
  <2>4. QED  BY <2>1, <2>2, <2>3
<1>7. ASSUME NEW z \in Zombies, cursor' = [cursor EXCEPT ![z] = [tok |-> 0, at |-> now, seq |-> 0]]
      PROVE  \A y \in Zombies : cursor'[y].at \in {cursor[y].at, now}
  <2> DEFINE c == [tok |-> 0, at |-> now, seq |-> 0]
  <2>1. c.at = now /\ cursor' = [cursor EXCEPT ![z] = c]  BY <1>7
  <2> HIDE DEF c
  <2>2. QED  BY <1>5, <2>1
<1>8. CASE /\ UNCHANGED <<periods, used, now>>
           /\ \E z \in Zombies, t \in Tokens :
                /\ work[z][t].stage = "acquired" /\ work[z][t].kind = "fresh" /\ work'[z][t].stage = "stamped"
                /\ cursor' = [cursor EXCEPT ![z] = [tok |-> 0, at |-> now, seq |-> 0]]
  <2>1. PICK z \in Zombies : cursor' = [cursor EXCEPT ![z] = [tok |-> 0, at |-> now, seq |-> 0]]  BY <1>8, Zenon
  <2>2. QED  BY <1>2, <1>4, <1>7, <1>8, <2>1
<1>9. CASE /\ UNCHANGED periods
           /\ \A y \in Zombies :
                /\ cursor'[y].seq = cursor[y].seq /\ cursor'[y].tok = cursor[y].tok
                /\ cursor'[y].at \in {cursor[y].at, now}
  BY <1>2, <1>4, <1>9
<1>10. CASE \E z \in Zombies, t \in Tokens : \E at, cum, p : Charge(z, t, at, cum, p)
  <2>1. PICK z \in Zombies, t \in Tokens : \E at, cum, p : Charge(z, t, at, cum, p)  BY <1>10, Zenon
  <2>2. PICK at, cum, p : Charge(z, t, at, cum, p)  BY <2>1, Zenon
  <2>3. QED  BY <1>2, <1>6, <2>2
<1>11. QED  BY <1>8, <1>9, <1>10, Zenon DEF CursorMoves


\* A reach that is not set back leaves what it counts from behind it.
LEMMA StartedStays ==
    ASSUME MeteringInv, MeteringInv', LeasesMove, NEW z \in Zombies, NEW e \in Events, Home[e] = z, Started(z, e),
           Reach(z) \in Int, Reach(z)' \in Int, Reach(z) <= Reach(z)'
    PROVE  Started(z, e)'
<1>1. SlotTypeOK  BY DEF MeteringInv, SlotInv
<1>2. PICK u \in LeasesOf(e) : RowOf(e, u) /\ lease[z][u].created <= Reach(z)  BY DEF Started
<1>3. /\ u \in LeasesOf(e)' /\ u \in Tokens /\ RowOf(e, u)' /\ lease'[z][u].created = lease[z][u].created
  BY <1>2, LeasesOfGrow
<1>4. lease[z][u].created \in Int  BY <1>1, <1>3, CellTypes DEF LeaseRows
<1>5. lease'[z][u].created <= Reach(z)'  BY <1>2, <1>3, <1>4
<1>6. QED  BY <1>3, <1>5 DEF Started

\* An event is leased before its cursor counts: a fresh lease row carries the
\* clock reading of its reset, and a reclaimed event keeps its first row.
LEMMA LeasedBeforeStep ==
    ASSUME MeteringInv, MeteringInv', LeasedBefore, LeasesMove, WorkMoves,
           \A z \in Zombies : /\ Reach(z) \in Int /\ Reach(z)' \in Int /\ cursor'[z].at \in Int
                              /\ Reach(z) <= Reach(z)' /\ Slack(z)' \in Nat
    PROVE  LeasedBefore'
<1>1. /\ LeasesNamed /\ RequestsNamed /\ SlotTypeOK /\ MeteringTypeOK
      /\ LeasesNamed' /\ RequestsNamed' /\ SlotTypeOK'
  BY DEF MeteringInv, SlotInv
<1>2. ASSUME NEW z \in Zombies, NEW t \in Tokens, lease'[z][t].status # "none"
      PROVE  Started(z, lease[z][t].event)'
  <2>1. CASE lease[z][t].status # "none"
    <3>1. PICK e \in Events : e = lease[z][t].event /\ Home[e] = z /\ Started(z, e)
      BY <1>1, <2>1 DEF LeasesNamed, LeasedBefore
    <3>2. lease'[z][t].event = e  BY <2>1, <3>1 DEF LeasesMove
    <3>3. Started(z, e)'  BY <3>1, StartedStays
    <3>4. QED  BY <3>2, <3>3 DEF Started, LeasesOf, RowOf
  <2>2. CASE lease[z][t].status = "none"
    <3>1. IssueLease(z, t)  BY <1>2, <2>2 DEF LeasesMove
    <3>2. /\ lease'[z][t].event = work[z][t].event /\ lease'[z][t].created = work[z][t].at
          /\ work[z][t].stage = "stamped" /\ work[z][t].kind \in {"fresh", "reclaim"} /\ work[z][t].at \in Int
      BY <1>1, <3>1, CellTypes DEF IssueLease, SlotTypeOK, Requests
    <3>3. PICK e \in Events : e = work[z][t].event /\ Home[e] = z  BY <1>1, <3>2 DEF RequestsNamed
    <3>4. CASE work[z][t].kind = "reclaim"
      <4>1. Started(z, e)  BY <3>2, <3>3, <3>4 DEF LeasedBefore
      <4>2. Started(z, e)'  BY <3>3, <4>1, StartedStays
      <4>3. QED  BY <3>2, <3>3, <4>2 DEF Started, LeasesOf, RowOf
    <3>5. CASE work[z][t].kind = "fresh"
      <4>1. work[z][t].at <= Reach(z)  BY <3>2, <3>5 DEF LeasedBefore
      <4>2. lease'[z][t].created <= Reach(z)'  BY <3>2, <4>1
      <4>3. t \in LeasesOf(e)' /\ RowOf(e, t)'  BY <1>2, <3>2, <3>3 DEF LeasesOf, RowOf
      <4>4. Started(z, e)'  BY <4>2, <4>3 DEF Started
      <4>5. QED  BY <3>2, <3>3, <4>4 DEF Started, LeasesOf, RowOf
    <3>6. QED  BY <3>2, <3>4, <3>5
  <2>3. QED  BY <2>1, <2>2
<1>3. ASSUME NEW z \in Zombies, NEW t \in Tokens,
             work'[z][t].stage \in {"acquired", "stamped"}, work'[z][t].kind = "reclaim"
      PROVE  Started(z, work[z][t].event)'
  <2>1. PICK e \in Events : e = work'[z][t].event /\ Home[e] = z  BY <1>1, <1>3 DEF RequestsNamed
  <2>2. Started(z, e)
    <3>1. CASE \E p \in Tokens : Active(z, p) /\ work'[z][t].event = lease[z][p].event
      BY <2>1, <3>1 DEF LeasedBefore, Active
    <3>2. CASE /\ work[z][t].stage \in {"acquired", "stamped"} /\ work[z][t].kind = "reclaim"
               /\ work'[z][t].event = work[z][t].event
      BY <2>1, <3>2 DEF LeasedBefore
    <3>3. QED  BY <1>3, <3>1, <3>2 DEF WorkMoves
  <2>3. Started(z, e)'  BY <2>1, <2>2, StartedStays
  <2>4. QED  BY <2>1, <2>3 DEF Started, LeasesOf, RowOf
<1>4. ASSUME NEW z \in Zombies, NEW t \in Tokens, work'[z][t].stage = "stamped", work'[z][t].kind = "fresh"
      PROVE  work'[z][t].at <= Reach(z)'
  <2>1. CASE work'[z][t] = work[z][t]
    <3>1. work[z][t].at <= Reach(z)  BY <1>4, <2>1 DEF LeasedBefore
    <3>2. work[z][t].at \in Int  BY <1>1, CellTypes DEF Requests
    <3>3. QED  BY <2>1, <3>1, <3>2
  <2>2. CASE MeteredStamp(z, t) /\ work[z][t].kind = "fresh" /\ work'[z][t].at = now
    <3>1. cursor'[z].at = now  BY <1>1, <2>2 DEF MeteredStamp, MeteringTypeOK
    <3>2. now \in Int  BY <1>1, SlotAssumption DEF SlotTypeOK
    <3>3. Reach(z)' = cursor'[z].at + Slack(z)'  BY DEF Reach
    <3>4. QED  BY <2>2, <3>1, <3>2, <3>3
  <2>3. QED  BY <1>4, <2>1, <2>2 DEF WorkMoves
<1>5. QED  BY <1>2, <1>3, <1>4 DEF LeasedBefore

\* A slice adds no more time than it moves the reach by, ...
LEMMA TimeInSpanStep ==
    ASSUME TimeInv, MeteringInv', LeasesMove, CursorMoves,
           \A z \in Zombies : Reach(z) \in Int /\ Reach(z)' \in Int /\ Reach(z) <= Reach(z)'
    PROVE  TimeInSpan'
<1>1. /\ LeasesNamed /\ SlotTypeOK /\ MeteringTypeOK /\ IsFiniteSet(periods) /\ MeteringInv
      /\ TimeInSpan /\ LeasedBefore /\ CursorPast /\ now \in Int
  BY SlotAssumption DEF TimeInv, MeteringInv, SlotInv, SlotTypeOK
<1>2. \A e \in Events : Home[e] \in Zombies  BY MeteringAssumption
<1>3. ASSUME NEW S \in SUBSET periods  PROVE  TimeIn(S) \in Int
  BY <1>1, TimeNat
<1>4. ASSUME NEW e \in Events, NEW t \in LeasesOf(e), RowOf(e, t)
      PROVE  /\ t \in LeasesOf(e)' /\ RowOf(e, t)'
             /\ lease'[Home[e]][t].created = lease[Home[e]][t].created /\ lease[Home[e]][t].created \in Int
  BY <1>1, <1>2, <1>4, LeasesOfGrow, CellTypes DEF LeaseRows
<1>5. ASSUME NEW e \in Events, PeriodsOf(e)' = PeriodsOf(e), PeriodsOf(e)' # {}
      PROVE  \E t \in LeasesOf(e)' :
               RowOf(e, t)' /\ TimeIn(PeriodsOf(e)') <= Reach(Home[e])' - lease'[Home[e]][t].created
  <2>1. PICK t \in LeasesOf(e) :
          RowOf(e, t) /\ TimeIn(PeriodsOf(e)) <= Reach(Home[e]) - lease[Home[e]][t].created
    BY <1>1, <1>5 DEF TimeInSpan
  <2>2. /\ t \in LeasesOf(e)' /\ RowOf(e, t)'
        /\ lease'[Home[e]][t].created = lease[Home[e]][t].created /\ lease[Home[e]][t].created \in Int
    BY <1>4, <2>1
  <2>3. PICK n \in Int : n = TimeIn(PeriodsOf(e)) /\ n = TimeIn(PeriodsOf(e)')
    <3> DEFINE S == PeriodsOf(e)
    <3>1. S \in SUBSET periods  BY DEF PeriodsOf
    <3>2. TimeIn(S) \in Int
      <4> HIDE DEF S
      <4>1. QED  BY <1>3, <3>1
    <3>3. TimeIn(PeriodsOf(e)') = TimeIn(PeriodsOf(e))  BY <1>5, Zenon
    <3>4. QED  BY <3>2, <3>3
  <2>4. n <= Reach(Home[e]) - lease[Home[e]][t].created  BY <2>1, <2>3
  <2>5. n <= Reach(Home[e])' - lease'[Home[e]][t].created  BY <1>2, <2>2, <2>3, <2>4
  <2>6. QED  BY <2>2, <2>3, <2>5
<1>6. ASSUME UNCHANGED periods  PROVE  TimeInSpan'
  <2>1. \A e : PeriodsOf(e)' = PeriodsOf(e)  BY <1>6 DEF PeriodsOf
  <2>2. QED  BY <1>5, <2>1 DEF TimeInSpan
<1>7. ASSUME NEW z \in Zombies, NEW t \in Tokens, NEW at, NEW cum, NEW p, Charge(z, t, at, cum, p)
      PROVE  TimeInSpan'
  <2>1. PICK e \in Events : e = lease[z][t].event /\ Home[e] = z
    BY <1>1, <1>7 DEF LeasesNamed, Charge, Active
  <2>2. Active(z, t) /\ Booked(p) /\ SliceOf(p, z, e, at, cum) /\ p \in Periods  BY <1>7, <2>1 DEF Charge, Booked
  <2>3. p.ms \in Nat /\ Reach(z) \in Int /\ Reach(z)' \in Int /\ Reach(z) + p.ms <= Reach(z)'
    BY <1>7, SliceReach
  <2>5. /\ PeriodsOf(e)' = PeriodsOf(e) \union {p}
        /\ \A d \in Events : d # e => PeriodsOf(d)' = PeriodsOf(d)
    BY <2>1, <2>2, SliceInPeriods
  <2>6. PICK n \in Nat : /\ n = TimeIn(PeriodsOf(e)) /\ n + p.ms = TimeIn(PeriodsOf(e)')
                         /\ PeriodsOf(e) = {} => n = 0
    <3> DEFINE S == PeriodsOf(e)
    <3>1. S \in SUBSET periods  BY DEF PeriodsOf
    <3>2. TimeIn(S) \in Nat /\ TimeIn(S \union {p}) = TimeIn(S) + p.ms
      <4> HIDE DEF S
      <4>1. QED  BY <1>1, <2>2, <3>1, OneSliceMore
    <3>3. TimeIn(PeriodsOf(e)') = TimeIn(PeriodsOf(e)) + p.ms  BY <2>5, <3>2, Zenon
    <3>4. PeriodsOf(e) = {} => TimeIn(PeriodsOf(e)) = TimeIn({})  BY Zenon
    <3>5. QED  BY <3>2, <3>3, <3>4, TimeOfNone
  <2>7. PICK u \in LeasesOf(e) : RowOf(e, u) /\ n <= Reach(z) - lease[z][u].created
    <3>1. CASE PeriodsOf(e) = {}
      <4>1. PICK u \in LeasesOf(e) : RowOf(e, u) /\ lease[z][u].created <= Reach(z)
        BY <1>1, <2>1, <2>2 DEF LeasedBefore, Started, Active
      <4>2. lease[z][u].created \in Int /\ Reach(z) \in Int  BY <1>4, <2>1, <4>1
      <4>3. n = 0  BY <2>6, <3>1
      <4>4. n <= Reach(z) - lease[z][u].created  BY <4>1, <4>2, <4>3
      <4>5. QED  BY <4>1, <4>4
    <3>2. CASE PeriodsOf(e) # {}
      <4>1. PICK u \in LeasesOf(e) :
              RowOf(e, u) /\ TimeIn(PeriodsOf(e)) <= Reach(Home[e]) - lease[Home[e]][u].created
        BY <1>1, <3>2 DEF TimeInSpan
      <4>2. n <= Reach(z) - lease[z][u].created  BY <2>1, <2>6, <4>1, Zenon
      <4>3. QED  BY <4>1, <4>2
    <3>3. QED  BY <3>1, <3>2
  <2>8. /\ u \in LeasesOf(e)' /\ RowOf(e, u)'
        /\ lease'[z][u].created = lease[z][u].created /\ lease[z][u].created \in Int
    BY <1>4, <2>1, <2>7
  <2>9. n + p.ms <= Reach(z)' - lease'[z][u].created
    BY <2>3, <2>6, <2>7, <2>8
  <2>10. TimeIn(PeriodsOf(e)') <= Reach(Home[e])' - lease'[Home[e]][u].created  BY <2>1, <2>6, <2>9, Zenon
  <2>11. ASSUME NEW d \in Events, PeriodsOf(d)' # {}
         PROVE  \E v \in LeasesOf(d)' :
                  RowOf(d, v)' /\ TimeIn(PeriodsOf(d)') <= Reach(Home[d])' - lease'[Home[d]][v].created
    <3>1. CASE d = e  BY <2>8, <2>10, <3>1
    <3>2. CASE d # e  BY <1>5, <2>5, <2>11, <3>2
    <3>3. QED  BY <3>1, <3>2
  <2>12. QED  BY <2>11 DEF TimeInSpan
<1>8. QED  BY <1>6, <1>7 DEF CursorMoves

\* ... so the argument about time is kept by every step, ...
LEMMA TimeInvStep ==
    ASSUME TimeInv, [MeteringNext]_vars
    PROVE  TimeInv'
<1>1. MeteringInv /\ MeteringInv' /\ SlotInv /\ KindOfRequest /\ IsFiniteSet(periods) /\ LeasedBefore
  BY MeteringStep DEF TimeInv, MeteringInv
<1>2. [SlotNext]_svars
  <2>1. CASE UNCHANGED vars  BY <2>1 DEF vars
  <2>2. CASE MeteringNext  BY <2>2, MeteredSlotSteps
  <2>3. QED  BY <2>1, <2>2
<1>3. LeasesMove  BY <1>1, <1>2, LeaseMove
<1>4. WorkMoves /\ KindOfRequest'  BY <1>1, WorkMove
<1>5. CursorMoves /\ now' >= now  BY <1>1, CursorMove
<1>6. IsFiniteSet(periods')  BY <1>1, PeriodsFinite
<1>7. \A z \in Zombies : /\ Reach(z) \in Int /\ Reach(z)' \in Int /\ cursor[z].at \in Int
                         /\ cursor'[z].at \in Int /\ Slack(z)' \in Nat
                         /\ Reach(z) <= Reach(z)' /\ cursor'[z].at <= now'
  BY <1>1, <1>5, ReachAdvances
<1>8. CursorPast'  BY <1>7 DEF CursorPast
<1>9. LeasedBefore'  BY <1>1, <1>3, <1>4, <1>7, LeasedBeforeStep
<1>10. TimeInSpan'  BY <1>1, <1>3, <1>5, <1>7, TimeInSpanStep
<1>11. QED  BY <1>1, <1>4, <1>6, <1>8, <1>9, <1>10 DEF TimeInv

\* ... and holds at first.
LEMMA TimeStart == MeteringInit => TimeInv
<1> SUFFICES ASSUME MeteringInit  PROVE  TimeInv  OBVIOUS
<1>1. MeteringInv /\ SlotInit  BY MeteringStart DEF MeteringInit
<1>2. periods = {} /\ IsFiniteSet(periods)  BY FS_EmptySet DEF MeteringInit
<1>3. TimeInSpan  BY <1>2 DEF TimeInSpan, PeriodsOf
<1>4. \A z \in Zombies, t \in Tokens : work[z][t].stage = "none" /\ lease[z][t].status = "none"
  BY <1>1 DEF SlotInit, NoRequest, NoLease
<1>5. KindOfRequest /\ LeasedBefore  BY <1>4 DEF KindOfRequest, LeasedBefore
<1>6. CursorPast
  <2>1. now = 0  BY <1>1 DEF SlotInit
  <2>2. cursor = [z \in Zombies |-> [tok |-> 0, at |-> 0, seq |-> 0]]  BY DEF MeteringInit
  <2>3. \A z \in Zombies : cursor[z].at = 0  BY <2>2
  <2>4. \A z \in Zombies : cursor[z].at <= now
    <3>1. 0 <= 0  OBVIOUS
    <3>2. QED  BY <2>1, <2>3, <3>1, Zenon
  <2>5. QED  BY <2>4 DEF CursorPast
<1>7. QED  BY <1>1, <1>2, <1>3, <1>5, <1>6 DEF TimeInv

\* The metered time of an event fits between a lease of it and now, however late,
\* twice or superseded its requests are, but for one stall for every slice that
\* met a cursor ahead of its clock reading (service_renew.zig:148, renewal.zig:106).
THEOREM TimeOnceButForStalls == MeteringSpec => []TimeMeteredOnce
<1>1. TimeInv /\ [MeteringNext]_vars => TimeInv'  BY TimeInvStep
<1>2. ASSUME TimeInv  PROVE  TimeMeteredOnce
  <2> SUFFICES ASSUME NEW e \in Events, PeriodsOf(e) # {}
               PROVE  \E t \in LeasesOf(e) :
                        TimeIn(PeriodsOf(e)) <= now - lease[Home[e]][t].created + Slack(Home[e])
    BY DEF TimeMeteredOnce, Slack
  <2>1. PICK t \in LeasesOf(e) :
          RowOf(e, t) /\ TimeIn(PeriodsOf(e)) <= Reach(Home[e]) - lease[Home[e]][t].created
    BY <1>2 DEF TimeInv, TimeInSpan
  <2>2. /\ cursor[Home[e]].at <= now /\ cursor[Home[e]].at \in Int /\ now \in Int
        /\ lease[Home[e]][t].created \in Int
    BY <1>2, MeteringAssumption, SlotAssumption, CellTypes
    DEF TimeInv, CursorPast, MeteringInv, MeteringTypeOK, Cursors, SlotInv, SlotTypeOK, LeasesOf, LeaseRows
  <2>3. TimeIn(PeriodsOf(e)) \in Int
    <3> DEFINE S == PeriodsOf(e)
    <3>1. S \in SUBSET periods  BY DEF PeriodsOf
    <3> HIDE DEF S
    <3>2. TimeIn(S) \in Nat  BY <1>2, <3>1, TimeNat DEF TimeInv, MeteringInv
    <3>3. QED  BY <3>2 DEF S
  <2>4. Reach(Home[e]) = cursor[Home[e]].at + Slack(Home[e])  BY DEF Reach
  <2>5. Slack(Home[e]) \in Int  BY <1>2, SlackNat DEF TimeInv
  <2>6. TimeIn(PeriodsOf(e)) <= now - lease[Home[e]][t].created + Slack(Home[e])
    BY <2>1, <2>2, <2>3, <2>4, <2>5
  <2>7. QED  BY <2>6
<1>3. QED  BY <1>1, <1>2, TimeStart, PTL DEF MeteringSpec
===============================================================================
