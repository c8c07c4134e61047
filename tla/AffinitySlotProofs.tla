-------------------------- MODULE AffinitySlotProofs --------------------------
(***************************************************************************)
(* Proofs about AffinitySlot, for every number of zombies, runners and     *)
(* events and every value of the time constants.                           *)
(***************************************************************************)
EXTENDS AffinitySlot, TLAPS

\* A request in flight, or a lease row, carries a token the slot handed out.
TokensGranted ==
    \A z \in Zombies, t \in Tokens :
        work[z][t].stage # "none" \/ lease[z][t].status # "none" => t <= slot[z].seq

\* A token is a request in flight or a lease row, never both.
RequestOrLease ==
    \A z \in Zombies, t \in Tokens :
        work[z][t].stage # "none" => lease[z][t].status = "none"

\* Only an accepted report is still closing.
ClosingReported ==
    \A z \in Zombies : \A t \in closing[z] : lease[z][t].status = "reported"

\* The newest request still owns the window it claimed, or the slot is past.
RequestWindow ==
    \A z \in Zombies, t \in Tokens :
        work[z][t].stage # "none" /\ t = slot[z].seq =>
            slot[z].until = work[z][t].until \/ slot[z].until < now

\* A claim reaches at most one TTL past the clock, and past the clock reading
\* its lease row will carry.
RequestHorizon ==
    \A z \in Zombies, t \in Tokens :
        /\ work[z][t].stage # "none" => work[z][t].until <= now + LeaseTTL
        /\ work[z][t].stage = "stamped" => work[z][t].until <= work[z][t].at + LeaseTTL

SlotInv ==
    /\ SlotTypeOK
    /\ TokensGranted
    /\ RequestOrLease
    /\ ClosingReported
    /\ RequestWindow
    /\ RequestHorizon
    /\ HolderProtected
    /\ RuntimeCap

\* No slot row, request or lease row exists at first (the tables of schema
\* 022 and 023 are empty), so the invariant holds.
THEOREM InitInv == SlotInit => SlotInv
  BY SlotAssumption
  DEF SlotInit, NoRequest, NoLease, Active, SlotInv, SlotTypeOK, TokensGranted, RequestOrLease, ClosingReported,
      RequestWindow, RequestHorizon, HolderProtected, RuntimeCap, Slots, Requests, LeaseRows, Tokens

\* An update of one cell keeps the type when the new value has it.
LEMMA WorkTyped ==
  ASSUME SlotTypeOK, NEW z \in Zombies, NEW t \in Tokens, NEW w \in Requests,
         work' = [work EXCEPT ![z][t] = w]
  PROVE  work' \in [Zombies -> [Tokens -> Requests]]
  BY DEF SlotTypeOK

\* The same for a lease row.
LEMMA LeaseTyped ==
  ASSUME SlotTypeOK, NEW z \in Zombies, NEW t \in Tokens, NEW l \in LeaseRows,
         lease' = [lease EXCEPT ![z][t] = l]
  PROVE  lease' \in [Zombies -> [Tokens -> LeaseRows]]
  BY DEF SlotTypeOK

\* The same for a slot row.
LEMMA SlotTyped ==
  ASSUME SlotTypeOK, NEW z \in Zombies, NEW s \in Slots,
         slot' = [slot EXCEPT ![z] = s]
  PROVE  slot' \in [Zombies -> Slots]
  BY DEF SlotTypeOK

\* The fields of a typed cell.
LEMMA CellTypes ==
  ASSUME SlotTypeOK, NEW z \in Zombies, NEW t \in Tokens
  PROVE  /\ slot[z] \in Slots /\ work[z][t] \in Requests /\ lease[z][t] \in LeaseRows
         /\ closing[z] \subseteq Tokens /\ now \in Int
  BY DEF SlotTypeOK

\* A won claim starts a window of its own under a new token.
LEMMA ClaimInv ==
  ASSUME SlotInv, NEW z \in Zombies, NEW r \in Runners, Claim(z, r)
  PROVE  SlotInv'
<1> DEFINE t == slot[z].seq + 1
<1>1. SlotTypeOK /\ t \in Tokens /\ now \in Int /\ LeaseTTL \in Nat /\ LeaseTTL > 0
  BY SlotAssumption DEF SlotInv, Claim, SlotTypeOK, Slots, Tokens
<1>2. /\ slot' = [slot EXCEPT ![z] = [seq |-> t, until |-> now + LeaseTTL, holder |-> r]]
      /\ work' = [work EXCEPT ![z][t] = [stage |-> "claimed", runner |-> r,
                                         until |-> now + LeaseTTL,
                                         event |-> NoEvent, kind |-> "fresh", at |-> 0]]
      /\ now' = now /\ lease' = lease /\ closing' = closing
  BY DEF Claim
<1>3. SlotTypeOK'
  <2>1. slot' \in [Zombies -> Slots]
    BY <1>1, <1>2 DEF SlotTypeOK, Slots, Tokens
  <2>2. work' \in [Zombies -> [Tokens -> Requests]]
    BY <1>1, <1>2 DEF SlotTypeOK, Requests
  <2> QED BY <1>1, <1>2, <2>1, <2>2 DEF SlotTypeOK
<1>4. /\ slot'[z].seq = t /\ slot'[z].until = now + LeaseTTL
      /\ \A y \in Zombies : y # z => slot'[y] = slot[y]
  BY <1>1, <1>2 DEF SlotTypeOK
<1>5. /\ work'[z][t].stage = "claimed" /\ work'[z][t].until = now + LeaseTTL
      /\ \A y \in Zombies, u \in Tokens : y # z \/ u # t => work'[y][u] = work[y][u]
  BY <1>1, <1>2 DEF SlotTypeOK
<1>6. \A y \in Zombies : slot[y].seq \in Int /\ slot[y].until \in Int
  BY <1>1 DEF SlotTypeOK, Slots
<1>7. TokensGranted'
  BY <1>1, <1>2, <1>4, <1>5, <1>6 DEF SlotInv, TokensGranted, Tokens
<1>8. RequestOrLease'
  BY <1>1, <1>2, <1>4, <1>5, <1>6 DEF SlotInv, TokensGranted, RequestOrLease, Tokens, SlotTypeOK, LeaseRows
<1>9. ClosingReported'
  BY <1>2 DEF SlotInv, ClosingReported
<1>10. RequestWindow'
  BY <1>1, <1>2, <1>4, <1>5, <1>6 DEF SlotInv, RequestWindow, TokensGranted, Tokens
<1>11. RequestHorizon'
  BY <1>1, <1>2, <1>4, <1>5, <1>6 DEF SlotInv, RequestHorizon
<1>12. HolderProtected'
  BY <1>1, <1>2, <1>4, <1>5, <1>6 DEF SlotInv, HolderProtected, TokensGranted, Active, Tokens
<1>13. RuntimeCap'
  BY <1>2 DEF SlotInv, RuntimeCap
<1> QED BY <1>3, <1>7, <1>8, <1>9, <1>10, <1>11, <1>12, <1>13 DEF SlotInv

\* Finding no prior lease only moves the request on.
LEMMA NoPriorInv ==
  ASSUME SlotInv, NEW z \in Zombies, NEW t \in Tokens, NoPriorActive(z, t)
  PROVE  SlotInv'
<1>1. SlotTypeOK
  BY DEF SlotInv
<1>2. SlotTypeOK'
  <2> DEFINE w == [work[z][t] EXCEPT !.stage = "free"]
  <2>1. w \in Requests
    BY <1>1, CellTypes DEF Requests
  <2>2. work' = [work EXCEPT ![z][t] = w]
    BY <1>1 DEF NoPriorActive, SlotTypeOK
  <2>3. work' \in [Zombies -> [Tokens -> Requests]]
    BY <1>1, <2>1, <2>2, WorkTyped
  <2> QED
    BY <1>1, <2>3 DEF NoPriorActive, SlotTypeOK
<1>3. /\ slot' = slot /\ lease' = lease /\ closing' = closing /\ now' = now
      /\ \A y \in Zombies, u \in Tokens : y # z \/ u # t => work'[y][u] = work[y][u]
      /\ work[z][t].stage # "none" /\ work'[z][t].stage = "free"
      /\ work'[z][t].until = work[z][t].until
  BY <1>1 DEF NoPriorActive, SlotTypeOK, Requests
<1>4. /\ now \in Int /\ LeaseTTL \in Int /\ MaxRuntime \in Int
      /\ \A y \in Zombies : slot[y].seq \in Int /\ slot[y].until \in Int
      /\ \A y \in Zombies : slot[y].seq > 0 => slot[y].seq \in Tokens
      /\ \A u \in Tokens : u \in Int
  BY <1>1, SlotAssumption DEF SlotTypeOK, Slots, Tokens
<1>5. /\ TokensGranted' /\ RequestOrLease' /\ ClosingReported' /\ RequestWindow'
      /\ RequestHorizon' /\ HolderProtected' /\ RuntimeCap'
  BY <1>3, <1>4, SlotAssumption
     DEF SlotInv, TokensGranted, RequestOrLease, ClosingReported, RequestWindow,
          RequestHorizon, HolderProtected, RuntimeCap, Active
<1> QED
  BY <1>2, <1>5 DEF SlotInv

\* Reading an event only moves the request on.
LEMMA AcquireInv ==
  ASSUME SlotInv, NEW z \in Zombies, NEW t \in Tokens, NEW e \in Events, AcquireFresh(z, t, e)
  PROVE  SlotInv'
<1>1. SlotTypeOK
  BY DEF SlotInv
<1>2. SlotTypeOK'
  <2> DEFINE w == [work[z][t] EXCEPT !.stage = "acquired", !.event = e]
  <2>1. w \in Requests
    BY <1>1, CellTypes DEF Requests
  <2>2. work' = [work EXCEPT ![z][t] = w]
    BY <1>1 DEF AcquireFresh, SlotTypeOK
  <2>3. work' \in [Zombies -> [Tokens -> Requests]]
    BY <1>1, <2>1, <2>2, WorkTyped
  <2> QED
    BY <1>1, <2>3 DEF AcquireFresh, SlotTypeOK
<1>3. /\ slot' = slot /\ lease' = lease /\ closing' = closing /\ now' = now
      /\ \A y \in Zombies, u \in Tokens : y # z \/ u # t => work'[y][u] = work[y][u]
      /\ work[z][t].stage # "none" /\ work'[z][t].stage = "acquired"
      /\ work'[z][t].until = work[z][t].until
  BY <1>1 DEF AcquireFresh, SlotTypeOK, Requests
<1>4. /\ now \in Int /\ LeaseTTL \in Int /\ MaxRuntime \in Int
      /\ \A y \in Zombies : slot[y].seq \in Int /\ slot[y].until \in Int
      /\ \A y \in Zombies : slot[y].seq > 0 => slot[y].seq \in Tokens
      /\ \A u \in Tokens : u \in Int
  BY <1>1, SlotAssumption DEF SlotTypeOK, Slots, Tokens
<1>5. /\ TokensGranted' /\ RequestOrLease' /\ ClosingReported' /\ RequestWindow'
      /\ RequestHorizon' /\ HolderProtected' /\ RuntimeCap'
  BY <1>3, <1>4, SlotAssumption
     DEF SlotInv, TokensGranted, RequestOrLease, ClosingReported, RequestWindow,
          RequestHorizon, HolderProtected, RuntimeCap, Active
<1> QED
  BY <1>2, <1>5 DEF SlotInv

\* The clock reading comes after the claim, so the claim reaches no further
\* past it than past the clock.
LEMMA StampInv ==
  ASSUME SlotInv, NEW z \in Zombies, NEW t \in Tokens, StampLease(z, t)
  PROVE  SlotInv'
<1>1. SlotTypeOK
  BY DEF SlotInv
<1>2. SlotTypeOK'
  <2> DEFINE w == [work[z][t] EXCEPT !.stage = "stamped", !.at = now]
  <2>1. w \in Requests
    BY <1>1, CellTypes DEF Requests
  <2>2. work' = [work EXCEPT ![z][t] = w]
    BY <1>1 DEF StampLease, SlotTypeOK
  <2>3. work' \in [Zombies -> [Tokens -> Requests]]
    BY <1>1, <2>1, <2>2, WorkTyped
  <2> QED
    BY <1>1, <2>3 DEF StampLease, SlotTypeOK
<1>3. /\ slot' = slot /\ lease' = lease /\ closing' = closing /\ now' = now
      /\ \A y \in Zombies, u \in Tokens : y # z \/ u # t => work'[y][u] = work[y][u]
      /\ work[z][t].stage # "none" /\ work'[z][t].stage = "stamped"
      /\ work'[z][t].until = work[z][t].until /\ work'[z][t].at = now
  BY <1>1 DEF StampLease, SlotTypeOK, Requests
<1>4. /\ now \in Int /\ LeaseTTL \in Int /\ MaxRuntime \in Int
      /\ \A y \in Zombies : slot[y].seq \in Int /\ slot[y].until \in Int
      /\ \A y \in Zombies : slot[y].seq > 0 => slot[y].seq \in Tokens
      /\ \A u \in Tokens : u \in Int
  BY <1>1, SlotAssumption DEF SlotTypeOK, Slots, Tokens
<1>5. /\ TokensGranted' /\ RequestOrLease' /\ ClosingReported' /\ RequestWindow'
      /\ RequestHorizon' /\ HolderProtected' /\ RuntimeCap'
  BY <1>3, <1>4, SlotAssumption
     DEF SlotInv, TokensGranted, RequestOrLease, ClosingReported, RequestWindow,
          RequestHorizon, HolderProtected, RuntimeCap, Active
<1> QED
  BY <1>2, <1>5 DEF SlotInv

\* A dropped request leaves the slot to lapse.
LEMMA DropInv ==
  ASSUME SlotInv, NEW z \in Zombies, NEW t \in Tokens, DropClaim(z, t)
  PROVE  SlotInv'
<1>1. SlotTypeOK
  BY DEF SlotInv
<1>2. SlotTypeOK'
  BY <1>1, SlotAssumption DEF DropClaim, NoRequest, SlotTypeOK, Requests
<1>3. /\ slot' = slot /\ lease' = lease /\ closing' = closing /\ now' = now
      /\ \A y \in Zombies, u \in Tokens : y # z \/ u # t => work'[y][u] = work[y][u]
      /\ work'[z][t].stage = "none"
  BY <1>1 DEF DropClaim, NoRequest, SlotTypeOK, Requests
<1>4. /\ now \in Int /\ LeaseTTL \in Int /\ MaxRuntime \in Int
      /\ \A y \in Zombies : slot[y].seq \in Int /\ slot[y].until \in Int
      /\ \A y \in Zombies : slot[y].seq > 0 => slot[y].seq \in Tokens
      /\ \A u \in Tokens : u \in Int
  BY <1>1, SlotAssumption DEF SlotTypeOK, Slots, Tokens
<1>5. /\ TokensGranted' /\ RequestOrLease' /\ ClosingReported' /\ RequestWindow'
      /\ RequestHorizon' /\ HolderProtected' /\ RuntimeCap'
  BY <1>3, <1>4, SlotAssumption
     DEF SlotInv, TokensGranted, RequestOrLease, ClosingReported, RequestWindow,
          RequestHorizon, HolderProtected, RuntimeCap, Active
<1> QED
  BY <1>2, <1>5 DEF SlotInv

\* A reclaim only ends a lease row; a closing report is of another row.
LEMMA ReclaimInv ==
  ASSUME SlotInv, NEW z \in Zombies, NEW t \in Tokens, NEW p \in Tokens, ReclaimPriorActive(z, t, p)
  PROVE  SlotInv'
<1>1. SlotTypeOK
  BY DEF SlotInv
<1>2. SlotTypeOK'
  <2> DEFINE w == [work[z][t] EXCEPT !.stage = "acquired", !.event = lease[z][p].event,
                                !.kind = "reclaim"]
  <2>1. w \in Requests
    <3>1. work[z][t] \in Requests /\ lease[z][p] \in LeaseRows
      BY <1>1, CellTypes
    <3> QED BY <3>1 DEF Requests, LeaseRows
  <2>2. work' = [work EXCEPT ![z][t] = w]
    BY <1>1 DEF ReclaimPriorActive, SlotTypeOK
  <2>3. work' \in [Zombies -> [Tokens -> Requests]]
    BY <1>1, <2>1, <2>2, WorkTyped
  <2> DEFINE l == [lease[z][p] EXCEPT !.status = "expired"]
  <2>4. l \in LeaseRows
    BY <1>1, CellTypes DEF LeaseRows
  <2>5. lease' = [lease EXCEPT ![z][p] = l]
    BY <1>1 DEF ReclaimPriorActive, SlotTypeOK
  <2>6. lease' \in [Zombies -> [Tokens -> LeaseRows]]
    BY <1>1, <2>4, <2>5, LeaseTyped
  <2> QED
    BY <1>1, <2>3, <2>6 DEF ReclaimPriorActive, SlotTypeOK
<1>3. /\ slot' = slot /\ closing' = closing /\ now' = now
      /\ \A y \in Zombies, u \in Tokens : y # z \/ u # t => work'[y][u] = work[y][u]
      /\ work[z][t].stage # "none" /\ work'[z][t].stage = "acquired"
      /\ work'[z][t].until = work[z][t].until
      /\ \A y \in Zombies, u \in Tokens : y # z \/ u # p => lease'[y][u] = lease[y][u]
      /\ lease[z][p].status = "active" /\ lease'[z][p].status = "expired"
      /\ lease'[z][p].expires = lease[z][p].expires
      /\ lease'[z][p].created = lease[z][p].created
  BY <1>1 DEF ReclaimPriorActive, SlotTypeOK, Requests, LeaseRows, LatestActive, Active
<1>4. /\ now \in Int /\ LeaseTTL \in Int /\ MaxRuntime \in Int
      /\ \A y \in Zombies : slot[y].seq \in Int /\ slot[y].until \in Int
      /\ \A y \in Zombies : slot[y].seq > 0 => slot[y].seq \in Tokens
      /\ \A u \in Tokens : u \in Int
      /\ \A y \in Zombies : closing[y] \subseteq Tokens
  BY <1>1, SlotAssumption DEF SlotTypeOK, Slots, Tokens
<1>5. TokensGranted'
  BY <1>1, <1>3, <1>4 DEF SlotInv, TokensGranted
<1>6. RequestOrLease'
  BY <1>1, <1>3, <1>4 DEF SlotInv, RequestOrLease, TokensGranted
<1>7. ClosingReported'
  BY <1>1, <1>3, <1>4 DEF SlotInv, ClosingReported
<1>8. RequestWindow'
  BY <1>1, <1>3, <1>4 DEF SlotInv, RequestWindow
<1>9. RequestHorizon'
  BY <1>1, <1>3, <1>4 DEF SlotInv, RequestHorizon
<1>10. HolderProtected'
  BY <1>1, <1>3, <1>4 DEF SlotInv, HolderProtected, Active
<1>11. RuntimeCap'
  BY <1>1, <1>3, <1>4 DEF SlotInv, RuntimeCap
<1> QED
  BY <1>2, <1>5, <1>6, <1>7, <1>8, <1>9, <1>10, <1>11 DEF SlotInv

\* The lease row takes over the window of its claim, also when the claim was
\* superseded meanwhile.
LEMMA IssueInv ==
  ASSUME SlotInv, NEW z \in Zombies, NEW t \in Tokens, IssueLease(z, t)
  PROVE  SlotInv'
<1>1. SlotTypeOK
  BY DEF SlotInv
<1>2. SlotTypeOK'
  BY <1>1, SlotAssumption DEF IssueLease, NoRequest, SlotTypeOK, Requests, LeaseRows
<1>3. /\ slot' = slot /\ closing' = closing /\ now' = now
      /\ \A y \in Zombies, u \in Tokens : y # z \/ u # t =>
            work'[y][u] = work[y][u] /\ lease'[y][u] = lease[y][u]
      /\ work[z][t].stage = "stamped" /\ work'[z][t].stage = "none"
      /\ work[z][t].until \in Int /\ work[z][t].at \in Int
      /\ lease'[z][t].status = "active"
      /\ lease'[z][t].expires = work[z][t].until
      /\ lease'[z][t].created = work[z][t].at
  BY <1>1 DEF IssueLease, NoRequest, SlotTypeOK, Requests, LeaseRows
<1>4. /\ now \in Int /\ LeaseTTL \in Int /\ MaxRuntime \in Int
      /\ \A y \in Zombies : slot[y].seq \in Int /\ slot[y].until \in Int
      /\ \A y \in Zombies : slot[y].seq > 0 => slot[y].seq \in Tokens
      /\ \A u \in Tokens : u \in Int
      /\ \A y \in Zombies : closing[y] \subseteq Tokens
  BY <1>1, SlotAssumption DEF SlotTypeOK, Slots, Tokens
<1>5. TokensGranted'
  BY <1>1, <1>3, <1>4 DEF SlotInv, TokensGranted
<1>6. RequestOrLease'
  BY <1>1, <1>3, <1>4 DEF SlotInv, RequestOrLease
<1>7. ClosingReported'
  BY <1>1, <1>3, <1>4 DEF SlotInv, ClosingReported, RequestOrLease
<1>8. RequestWindow'
  BY <1>1, <1>3, <1>4 DEF SlotInv, RequestWindow
<1>9. RequestHorizon'
  BY <1>1, <1>3, <1>4 DEF SlotInv, RequestHorizon
<1>10. HolderProtected'
  BY <1>1, <1>3, <1>4 DEF SlotInv, HolderProtected, RequestWindow, Active
<1>11. RuntimeCap'
  BY <1>1, <1>3, <1>4, SlotAssumption DEF SlotInv, RuntimeCap, RequestHorizon
<1> QED
  BY <1>2, <1>5, <1>6, <1>7, <1>8, <1>9, <1>10, <1>11 DEF SlotInv

\* A claim given back frees the slot only if it is the newest, and then no
\* lease row carries its token.
LEMMA AbandonInv ==
  ASSUME SlotInv, NEW z \in Zombies, NEW t \in Tokens, AbandonClaim(z, t)
  PROVE  SlotInv'
<1>1. SlotTypeOK
  BY DEF SlotInv
<1>2. SlotTypeOK'
  <2> DEFINE s == IF slot[z].seq = t THEN [slot[z] EXCEPT !.until = now] ELSE slot[z]
  <2>1. s \in Slots
    BY <1>1, CellTypes DEF Slots
  <2>2. slot' = [slot EXCEPT ![z] = s]
    BY <1>1 DEF AbandonClaim, Release, SlotTypeOK
  <2>3. slot' \in [Zombies -> Slots]
    BY <1>1, <2>1, <2>2, SlotTyped
  <2>4. work' \in [Zombies -> [Tokens -> Requests]]
    BY <1>1 DEF AbandonClaim, NoRequest, Requests, SlotTypeOK
  <2> QED
    BY <1>1, <2>3, <2>4 DEF AbandonClaim, SlotTypeOK
<1>3. /\ lease' = lease /\ closing' = closing /\ now' = now
      /\ \A y \in Zombies : slot'[y].seq = slot[y].seq
      /\ \A y \in Zombies : y # z \/ slot[z].seq # t => slot'[y].until = slot[y].until
      /\ slot[z].seq = t => slot'[z].until = now
      /\ \A y \in Zombies, u \in Tokens : y # z \/ u # t => work'[y][u] = work[y][u]
      /\ work[z][t].stage # "none" /\ work'[z][t].stage = "none"
  BY <1>1 DEF AbandonClaim, NoRequest, Release, SlotTypeOK, Requests, Slots
<1>4. /\ now \in Int /\ LeaseTTL \in Int /\ MaxRuntime \in Int
      /\ \A y \in Zombies : slot[y].seq \in Int /\ slot[y].until \in Int
      /\ \A y \in Zombies : slot[y].seq > 0 => slot[y].seq \in Tokens
      /\ \A u \in Tokens : u \in Int
  BY <1>1, SlotAssumption DEF SlotTypeOK, Slots, Tokens
<1>5. /\ TokensGranted' /\ RequestOrLease' /\ ClosingReported' /\ RequestWindow'
      /\ RequestHorizon' /\ HolderProtected' /\ RuntimeCap'
  BY <1>3, <1>4, SlotAssumption
     DEF SlotInv, TokensGranted, RequestOrLease, ClosingReported, RequestWindow,
          RequestHorizon, HolderProtected, RuntimeCap, Active
<1> QED
  BY <1>2, <1>5 DEF SlotInv

\* A renewal moves both deadlines to the same instant under the ceiling.
LEMMA RenewInv ==
  ASSUME SlotInv, NEW z \in Zombies, NEW t \in Tokens, NEW at \in ClockReads(z, t), Renew(z, t, at)
  PROVE  SlotInv'
<1>1. SlotTypeOK
  BY DEF SlotInv
<1>2. SlotTypeOK'
  <2> DEFINE s == [slot[z] EXCEPT !.until = Capped(z, t, at)]
             l == [lease[z][t] EXCEPT !.expires = Capped(z, t, at)]
  <2>1. Capped(z, t, at) \in Int
    BY <1>1, CellTypes, SlotAssumption DEF Capped, ClockReads, LeaseRows
  <2>2. s \in Slots /\ l \in LeaseRows
    BY <1>1, <2>1, CellTypes DEF Slots, LeaseRows
  <2>3. slot' = [slot EXCEPT ![z] = s] /\ lease' = [lease EXCEPT ![z][t] = l]
    BY <1>1 DEF Renew, SlotTypeOK
  <2>4. slot' \in [Zombies -> Slots] /\ lease' \in [Zombies -> [Tokens -> LeaseRows]]
    BY <1>1, <2>2, <2>3, SlotTyped, LeaseTyped
  <2> QED
    BY <1>1, <2>4 DEF Renew, SlotTypeOK
<1>3. /\ work' = work /\ closing' = closing /\ now' = now
      /\ Active(z, t) /\ t >= slot[z].seq /\ at \in Int
      /\ \A y \in Zombies : slot'[y].seq = slot[y].seq
      /\ \A y \in Zombies : y # z => slot'[y].until = slot[y].until
      /\ slot'[z].until = Capped(z, t, at)
      /\ \A y \in Zombies, u \in Tokens : y # z \/ u # t => lease'[y][u] = lease[y][u]
      /\ lease'[z][t].status = lease[z][t].status
      /\ lease'[z][t].created = lease[z][t].created
      /\ lease'[z][t].expires = Capped(z, t, at)
      /\ lease[z][t].created \in Int
      /\ Capped(z, t, at) <= lease[z][t].created + MaxRuntime
  <2>1. lease[z][t] \in LeaseRows /\ slot[z] \in Slots /\ at \in Int
    BY <1>1, CellTypes DEF ClockReads
  <2>2. Capped(z, t, at) <= lease[z][t].created + MaxRuntime
    BY <2>1, SlotAssumption DEF Capped, LeaseRows
  <2>3. /\ slot' = [slot EXCEPT ![z].until = Capped(z, t, at)]
        /\ lease' = [lease EXCEPT ![z][t].expires = Capped(z, t, at)]
        /\ Active(z, t) /\ t >= slot[z].seq
        /\ work' = work /\ closing' = closing /\ now' = now
    BY DEF Renew, Fenced
  <2> QED
    BY <1>1, <2>1, <2>2, <2>3 DEF SlotTypeOK, Slots, LeaseRows
<1>4. /\ now \in Int /\ LeaseTTL \in Int /\ MaxRuntime \in Int
      /\ \A y \in Zombies : slot[y].seq \in Int /\ slot[y].until \in Int
      /\ \A y \in Zombies : slot[y].seq > 0 => slot[y].seq \in Tokens
      /\ \A u \in Tokens : u \in Int
      /\ \A y \in Zombies : closing[y] \subseteq Tokens
  BY <1>1, SlotAssumption DEF SlotTypeOK, Slots, Tokens
<1>5. TokensGranted'
  BY <1>1, <1>3, <1>4 DEF SlotInv, TokensGranted
<1>6. RequestOrLease'
  BY <1>1, <1>3, <1>4 DEF SlotInv, RequestOrLease
<1>7. ClosingReported'
  BY <1>1, <1>3, <1>4 DEF SlotInv, ClosingReported
<1>8. RequestWindow'
  <2>1. lease[z][t].status = "active" /\ t >= slot[z].seq
    BY <1>3 DEF Active
  <2>2. t <= slot[z].seq
    BY <2>1 DEF SlotInv, TokensGranted
  <2>3. t = slot[z].seq
    BY <1>4, <2>1, <2>2
  <2>4. work[z][t].stage = "none"
    BY <2>1 DEF SlotInv, RequestOrLease
  <2> QED
    BY <1>3, <1>4, <2>3, <2>4 DEF SlotInv, RequestWindow
<1>9. RequestHorizon'
  BY <1>1, <1>3, <1>4 DEF SlotInv, RequestHorizon
<1>10. HolderProtected'
  BY <1>1, <1>3, <1>4 DEF SlotInv, HolderProtected, TokensGranted, Active
<1>11. RuntimeCap'
  BY <1>1, <1>3, <1>4 DEF SlotInv, RuntimeCap
<1> QED
  BY <1>2, <1>5, <1>6, <1>7, <1>8, <1>9, <1>10, <1>11 DEF SlotInv

\* An accepted report is closing, and its row is no longer in force.
LEMMA ClaimReportInv ==
  ASSUME SlotInv, NEW z \in Zombies, NEW t \in Tokens, ClaimReport(z, t)
  PROVE  SlotInv'
<1>1. SlotTypeOK
  BY DEF SlotInv
<1>2. SlotTypeOK'
  <2> DEFINE l == [lease[z][t] EXCEPT !.status = "reported"]
  <2>1. l \in LeaseRows
    BY <1>1, CellTypes DEF LeaseRows
  <2>2. lease' = [lease EXCEPT ![z][t] = l]
    BY <1>1 DEF ClaimReport, SlotTypeOK
  <2>3. lease' \in [Zombies -> [Tokens -> LeaseRows]]
    BY <1>1, <2>1, <2>2, LeaseTyped
  <2> QED
    BY <1>1, <2>3 DEF ClaimReport, SlotTypeOK
<1>3. /\ slot' = slot /\ work' = work /\ now' = now
      /\ lease[z][t].status = "active" /\ lease'[z][t].status = "reported"
      /\ lease'[z][t].expires = lease[z][t].expires
      /\ lease'[z][t].created = lease[z][t].created
      /\ \A y \in Zombies, u \in Tokens : y # z \/ u # t => lease'[y][u] = lease[y][u]
      /\ \A y \in Zombies : closing'[y] \subseteq Tokens
      /\ \A y \in Zombies, u \in Tokens : y # z \/ u # t =>
            (u \in closing'[y] <=> u \in closing[y])
  BY <1>1 DEF ClaimReport, SlotTypeOK, LeaseRows, Active
<1>4. /\ now \in Int /\ LeaseTTL \in Int /\ MaxRuntime \in Int
      /\ \A y \in Zombies : slot[y].seq \in Int /\ slot[y].until \in Int
      /\ \A y \in Zombies : slot[y].seq > 0 => slot[y].seq \in Tokens
      /\ \A u \in Tokens : u \in Int
      /\ \A y \in Zombies : closing[y] \subseteq Tokens
  BY <1>1, SlotAssumption DEF SlotTypeOK, Slots, Tokens
<1>5. TokensGranted'
  BY <1>1, <1>3, <1>4 DEF SlotInv, TokensGranted
<1>6. RequestOrLease'
  BY <1>1, <1>3, <1>4 DEF SlotInv, RequestOrLease
<1>7. ClosingReported'
  BY <1>1, <1>3, <1>4 DEF SlotInv, ClosingReported
<1>8. RequestWindow'
  BY <1>1, <1>3, <1>4 DEF SlotInv, RequestWindow
<1>9. RequestHorizon'
  BY <1>1, <1>3, <1>4 DEF SlotInv, RequestHorizon
<1>10. HolderProtected'
  BY <1>1, <1>3, <1>4 DEF SlotInv, HolderProtected, Active
<1>11. RuntimeCap'
  BY <1>1, <1>3, <1>4 DEF SlotInv, RuntimeCap
<1> QED
  BY <1>2, <1>5, <1>6, <1>7, <1>8, <1>9, <1>10, <1>11 DEF SlotInv

\* The slot is released by a token whose row is reported: no lease in force
\* and no request loses its window.
LEMMA ReleaseReportedInv ==
  ASSUME SlotInv, NEW z \in Zombies, NEW t \in Tokens, ReleaseReported(z, t)
  PROVE  SlotInv'
<1>1. SlotTypeOK
  BY DEF SlotInv
<1>2. SlotTypeOK'
  <2> DEFINE s == IF slot[z].seq = t THEN [slot[z] EXCEPT !.until = now] ELSE slot[z]
  <2>1. s \in Slots
    BY <1>1, CellTypes DEF Slots
  <2>2. slot' = [slot EXCEPT ![z] = s]
    BY <1>1 DEF ReleaseReported, Release, SlotTypeOK
  <2>3. slot' \in [Zombies -> Slots]
    BY <1>1, <2>1, <2>2, SlotTyped
  <2> QED
    BY <1>1, <2>3 DEF ReleaseReported, SlotTypeOK
<1>3. /\ work' = work /\ lease' = lease /\ now' = now
      /\ t \in closing[z]
      /\ \A y \in Zombies : slot'[y].seq = slot[y].seq
      /\ \A y \in Zombies : y # z \/ slot[z].seq # t => slot'[y].until = slot[y].until
      /\ slot[z].seq = t => slot'[z].until = now
      /\ \A y \in Zombies : closing'[y] \subseteq closing[y]
  BY <1>1 DEF ReleaseReported, Release, SlotTypeOK, Slots
<1>4. /\ now \in Int /\ LeaseTTL \in Int /\ MaxRuntime \in Int
      /\ \A y \in Zombies : slot[y].seq \in Int /\ slot[y].until \in Int
      /\ \A y \in Zombies : slot[y].seq > 0 => slot[y].seq \in Tokens
      /\ \A u \in Tokens : u \in Int
  BY <1>1, SlotAssumption DEF SlotTypeOK, Slots, Tokens
<1>5. /\ TokensGranted' /\ RequestOrLease' /\ ClosingReported' /\ RequestWindow'
      /\ RequestHorizon' /\ HolderProtected' /\ RuntimeCap'
  BY <1>3, <1>4, SlotAssumption
     DEF SlotInv, TokensGranted, RequestOrLease, ClosingReported, RequestWindow,
          RequestHorizon, HolderProtected, RuntimeCap, Active
<1> QED
  BY <1>2, <1>5 DEF SlotInv

\* A report that ends early leaves the slot to lapse.
LEMMA DropReportInv ==
  ASSUME SlotInv, NEW z \in Zombies, NEW t \in Tokens, DropReport(z, t)
  PROVE  SlotInv'
<1>1. SlotTypeOK
  BY DEF SlotInv
<1>2. SlotTypeOK'
  BY <1>1, SlotAssumption DEF DropReport, SlotTypeOK, Slots
<1>3. /\ slot' = slot /\ work' = work /\ lease' = lease /\ now' = now
      /\ \A y \in Zombies : closing'[y] \subseteq closing[y]
  BY <1>1 DEF DropReport, SlotTypeOK
<1>4. /\ now \in Int /\ LeaseTTL \in Int /\ MaxRuntime \in Int
      /\ \A y \in Zombies : slot[y].seq \in Int /\ slot[y].until \in Int
      /\ \A y \in Zombies : slot[y].seq > 0 => slot[y].seq \in Tokens
      /\ \A u \in Tokens : u \in Int
  BY <1>1, SlotAssumption DEF SlotTypeOK, Slots, Tokens
<1>5. /\ TokensGranted' /\ RequestOrLease' /\ ClosingReported' /\ RequestWindow'
      /\ RequestHorizon' /\ HolderProtected' /\ RuntimeCap'
  BY <1>3, <1>4, SlotAssumption
     DEF SlotInv, TokensGranted, RequestOrLease, ClosingReported, RequestWindow,
          RequestHorizon, HolderProtected, RuntimeCap, Active
<1> QED
  BY <1>2, <1>5 DEF SlotInv

\* The sweeper only moves slots into the past.
LEMMA SweepInv ==
  ASSUME SlotInv, NEW r \in SweptRunners, ExpireActiveLeaseSlots(r)
  PROVE  SlotInv'
<1>1. SlotTypeOK
  BY DEF SlotInv
<1>2. SlotTypeOK'
  <2>1. \A y \in Zombies :
          (IF Sweepable(y, r) THEN [slot[y] EXCEPT !.until = now - 1] ELSE slot[y]) \in Slots
    <3> SUFFICES ASSUME NEW y \in Zombies PROVE [slot[y] EXCEPT !.until = now - 1] \in Slots
      BY <1>1 DEF SlotTypeOK
    <3>1. slot[y] \in Slots /\ now \in Int
      BY <1>1 DEF SlotTypeOK
    <3> QED BY <3>1 DEF Slots
  <2>2. slot' \in [Zombies -> Slots]
    BY <2>1 DEF ExpireActiveLeaseSlots
  <2> QED
    BY <1>1, <2>2 DEF ExpireActiveLeaseSlots, SlotTypeOK
<1>3. /\ work' = work /\ lease' = lease /\ closing' = closing /\ now' = now
      /\ \A y \in Zombies : slot'[y].seq = slot[y].seq
      /\ \A y \in Zombies : slot'[y].until = slot[y].until \/ slot'[y].until = now - 1
  BY <1>1 DEF ExpireActiveLeaseSlots, SlotTypeOK, Slots
<1>4. /\ now \in Int /\ LeaseTTL \in Int /\ MaxRuntime \in Int
      /\ \A y \in Zombies : slot[y].seq \in Int /\ slot[y].until \in Int
      /\ \A y \in Zombies : slot[y].seq > 0 => slot[y].seq \in Tokens
      /\ \A u \in Tokens : u \in Int
  BY <1>1, SlotAssumption DEF SlotTypeOK, Slots, Tokens
<1>5. /\ TokensGranted' /\ RequestOrLease' /\ ClosingReported' /\ RequestWindow'
      /\ RequestHorizon' /\ HolderProtected' /\ RuntimeCap'
  BY <1>3, <1>4, SlotAssumption
     DEF SlotInv, TokensGranted, RequestOrLease, ClosingReported, RequestWindow,
          RequestHorizon, HolderProtected, RuntimeCap, Active
<1> QED
  BY <1>2, <1>5 DEF SlotInv

\* A slot in the past stays there, and horizons only move closer.
LEMMA TickInv ==
  ASSUME SlotInv, Tick
  PROVE  SlotInv'
<1>1. SlotTypeOK
  BY DEF SlotInv
<1>2. SlotTypeOK'
  BY <1>1, SlotAssumption DEF Tick, SlotTypeOK, Slots
<1>3. /\ slot' = slot /\ work' = work /\ lease' = lease /\ closing' = closing
      /\ now' = now + 1
      /\ \A y \in Zombies, u \in Tokens : work[y][u].until \in Int
  BY <1>1 DEF Tick, SlotTypeOK, Requests
<1>4. /\ now \in Int /\ LeaseTTL \in Int /\ MaxRuntime \in Int
      /\ \A y \in Zombies : slot[y].seq \in Int /\ slot[y].until \in Int
      /\ \A y \in Zombies : slot[y].seq > 0 => slot[y].seq \in Tokens
      /\ \A u \in Tokens : u \in Int
  BY <1>1, SlotAssumption DEF SlotTypeOK, Slots, Tokens
<1>5. /\ TokensGranted' /\ RequestOrLease' /\ ClosingReported' /\ RequestWindow'
      /\ RequestHorizon' /\ HolderProtected' /\ RuntimeCap'
  BY <1>3, <1>4, SlotAssumption
     DEF SlotInv, TokensGranted, RequestOrLease, ClosingReported, RequestWindow,
          RequestHorizon, HolderProtected, RuntimeCap, Active
<1> QED
  BY <1>2, <1>5 DEF SlotInv

-------------------------------------------------------------------------------
\* The invariant is inductive.
LEMMA NextInv ==
  ASSUME SlotInv, [SlotNext]_svars
  PROVE  SlotInv'
<1>1. ASSUME NEW z \in Zombies, NEW r \in Runners, Claim(z, r)
      PROVE  SlotInv'
  BY <1>1, ClaimInv
<1>2. ASSUME NEW z \in Zombies, NEW t \in Tokens, RequestStep(z, t)
      PROVE  SlotInv'
  BY <1>2, ReclaimInv, NoPriorInv, AcquireInv, StampInv, IssueInv, AbandonInv, DropInv
     DEF RequestStep
<1>3. ASSUME NEW z \in Zombies, NEW t \in Tokens, LeaseStep(z, t)
      PROVE  SlotInv'
  BY <1>3, RenewInv, ClaimReportInv, ReleaseReportedInv, DropReportInv DEF LeaseStep
<1>4. ASSUME NEW r \in SweptRunners, ExpireActiveLeaseSlots(r)
      PROVE  SlotInv'
  BY <1>4, SweepInv
<1>5. CASE Tick
  BY <1>5, TickInv
<1>6. CASE UNCHANGED svars
  BY <1>6 DEF svars, SlotInv, SlotTypeOK, TokensGranted, RequestOrLease, ClosingReported,
          RequestWindow, RequestHorizon, HolderProtected, RuntimeCap, Active
<1> QED
  BY <1>1, <1>2, <1>3, <1>4, <1>5, <1>6 DEF SlotNext

\* The statements of affinity.zig, reclaim.zig, service_lease_row.zig, renewal.zig,
\* renewal_settle.zig and liveness_sweeper.zig keep tokens, deadlines and requests
\* fitting together, however they interleave.
THEOREM SlotInvariant == SlotSpec => []SlotInv
<1>1. SlotInit => SlotInv
  BY InitInv
<1>2. SlotInv /\ [SlotNext]_svars => SlotInv'
  BY NextInv
<1> QED
  BY <1>1, <1>2, PTL DEF SlotSpec

\* Every state of the slot, its requests and its lease rows is well typed.
THEOREM SlotTypeCorrect == SlotSpec => []SlotTypeOK
<1>1. SlotInv => SlotTypeOK
  BY DEF SlotInv
<1> QED
  BY <1>1, SlotInvariant, PTL

\* The newest holder's row and the slot that keeps others out end together,
\* whatever renewals, sweeps and slow requests came between
\* (renewal.zig's two updates, affinity.zig's claim).
THEOREM HolderStaysProtected == SlotSpec => []HolderProtected
<1>1. SlotInv => HolderProtected
  BY DEF SlotInv
<1> QED
  BY <1>1, SlotInvariant, PTL

\* No lease outlives its hard runtime ceiling (renewal.zig's LEAST).
THEOREM RuntimeCapHolds == SlotSpec => []RuntimeCap
<1>1. SlotInv => RuntimeCap
  BY DEF SlotInv
<1> QED
  BY <1>1, SlotInvariant, PTL

-------------------------------------------------------------------------------
\* What SupersededIsInert says of one step.
Inert ==
    \A z \in Zombies, t \in Tokens :
       t < slot[z].seq =>
         /\ lease'[z][t].status = "reported" => lease[z][t].status = "reported"
         /\ lease'[z][t].expires # lease[z][t].expires => lease[z][t].status = "none"
         /\ (work'[z][t] # work[z][t] \/ lease'[z][t] # lease[z][t]
                \/ (t \in closing[z]) # (t \in closing'[z]))
              => slot'[z] = slot[z]

\* A slot is moved only by its newest token or by a step that leaves every
\* older token's request, lease row and report alone.
LEMMA RequestInert ==
  ASSUME SlotInv, NEW z \in Zombies, NEW t \in Tokens, RequestStep(z, t)
  PROVE  Inert
<1>1. SlotTypeOK
  BY DEF SlotInv
<1>2. ASSUME NEW p \in Tokens, ReclaimPriorActive(z, t, p)
      PROVE  Inert
  BY <1>1, <1>2 DEF Inert, ReclaimPriorActive, SlotTypeOK, LeaseRows
<1>3. CASE NoPriorActive(z, t)
  BY <1>3 DEF Inert, NoPriorActive
<1>4. ASSUME NEW e \in Events, AcquireFresh(z, t, e)
      PROVE  Inert
  BY <1>4 DEF Inert, AcquireFresh
<1>5. CASE StampLease(z, t)
  BY <1>5 DEF Inert, StampLease
<1>6. CASE IssueLease(z, t)
  <2>1. lease[z][t].status = "none" /\ slot' = slot /\ closing' = closing
    BY <1>6 DEF IssueLease, SlotInv, RequestOrLease
  <2>2. /\ lease'[z][t].status = "active"
        /\ \A y \in Zombies, u \in Tokens : y # z \/ u # t => lease'[y][u] = lease[y][u]
    BY <1>1, <1>6 DEF IssueLease, SlotTypeOK
  <2> QED
    BY <2>1, <2>2 DEF Inert
<1>7. CASE AbandonClaim(z, t)
  <2>1. lease' = lease /\ closing' = closing
    BY <1>7 DEF AbandonClaim
  <2>2. /\ \A y \in Zombies, u \in Tokens : y # z \/ u # t => work'[y][u] = work[y][u]
        /\ slot[z].seq # t => slot' = slot
    BY <1>1, <1>7 DEF AbandonClaim, Release, SlotTypeOK
  <2>3. \A y \in Zombies, u \in Tokens : slot[y].seq \in Int /\ u \in Int
    BY <1>1 DEF SlotTypeOK, Slots, Tokens
  <2>4. \A u \in Tokens : u < slot[z].seq => u # t \/ slot' = slot
    BY <2>2, <2>3
  <2>5. \A y \in Zombies : y # z => slot'[y] = slot[y]
    BY <1>1, <1>7 DEF AbandonClaim, Release, SlotTypeOK
  <2> QED
    BY <2>1, <2>2, <2>4, <2>5 DEF Inert
<1>8. CASE DropClaim(z, t)
  BY <1>8 DEF Inert, DropClaim
<1> QED
  BY <1>2, <1>3, <1>4, <1>5, <1>6, <1>7, <1>8 DEF RequestStep

\* The same for the holder's own statements: renewals, reports and releases.
LEMMA LeaseInert ==
  ASSUME SlotInv, NEW z \in Zombies, NEW t \in Tokens, LeaseStep(z, t)
  PROVE  Inert
<1>1. SlotTypeOK
  BY DEF SlotInv
<1>2. /\ \A y \in Zombies, u \in Tokens : slot[y].seq \in Int /\ u \in Int
      /\ closing \in [Zombies -> SUBSET Tokens]
  BY <1>1 DEF SlotTypeOK, Slots, Tokens
<1>3. ASSUME NEW at \in ClockReads(z, t), Renew(z, t, at)
      PROVE  Inert
  <2>1. /\ t >= slot[z].seq /\ work' = work /\ closing' = closing
        /\ \A y \in Zombies : y # z => slot'[y] = slot[y]
        /\ \A y \in Zombies, u \in Tokens : y # z \/ u # t => lease'[y][u] = lease[y][u]
    BY <1>1, <1>3 DEF Renew, Fenced, SlotTypeOK
  <2>2. \A u \in Tokens : u < slot[z].seq => u # t
    BY <1>2, <2>1
  <2> QED
    BY <2>1, <2>2 DEF Inert
<1>4. CASE ClaimReport(z, t)
  <2>1. /\ t >= slot[z].seq /\ work' = work /\ slot' = slot
        /\ \A y \in Zombies, u \in Tokens : y # z \/ u # t => lease'[y][u] = lease[y][u]
    BY <1>1, <1>4 DEF ClaimReport, Fenced, SlotTypeOK
  <2>2. \A u \in Tokens : u < slot[z].seq => u # t
    BY <1>2, <2>1
  <2> QED
    BY <2>1, <2>2 DEF Inert
<1>5. CASE ReleaseReported(z, t)
  <2>1. /\ work' = work /\ lease' = lease
        /\ \A y \in Zombies : y # z => slot'[y] = slot[y]
        /\ slot[z].seq # t => slot' = slot
    BY <1>1, <1>5 DEF ReleaseReported, Release, SlotTypeOK
  <2>2. \A y \in Zombies, u \in Tokens :
          y # z \/ u # t => (u \in closing'[y] <=> u \in closing[y])
    BY <1>2, <1>5 DEF ReleaseReported
  <2>3. \A u \in Tokens : u < slot[z].seq => u # t \/ slot' = slot
    BY <1>2, <2>1
  <2> QED
    BY <2>1, <2>2, <2>3 DEF Inert
<1>6. CASE DropReport(z, t)
  BY <1>6 DEF Inert, DropReport
<1> QED
  BY <1>3, <1>4, <1>5, <1>6 DEF LeaseStep

\* A superseded holder can write nothing that counts and cannot move the
\* slot: the fences of renewal.zig and renewal_settle.zig and the token match
\* of affinity.zig's release are enough, in every interleaving.
THEOREM SupersededHoldersAreInert == SlotSpec => SupersededIsInert
<1>1. ASSUME SlotInv, [SlotNext]_svars
      PROVE  [Inert]_svars
  <2>1. ASSUME NEW z \in Zombies, NEW r \in Runners, Claim(z, r)
        PROVE  Inert
    <3>1. SlotTypeOK
      BY <1>1 DEF SlotInv
    <3>2. /\ lease' = lease /\ closing' = closing
          /\ \A y \in Zombies : y # z => slot'[y] = slot[y]
          /\ \A y \in Zombies, u \in Tokens :
                y # z \/ u # slot[z].seq + 1 => work'[y][u] = work[y][u]
      BY <2>1, <3>1 DEF Claim, SlotTypeOK
    <3>3. \A u \in Tokens : u < slot[z].seq => u # slot[z].seq + 1
      BY <3>1 DEF SlotTypeOK, Slots, Tokens
    <3> QED
      BY <3>2, <3>3 DEF Inert
  <2>2. ASSUME NEW z \in Zombies, NEW t \in Tokens, RequestStep(z, t) \/ LeaseStep(z, t)
        PROVE  Inert
    BY <1>1, <2>2, RequestInert, LeaseInert
  <2>3. ASSUME NEW r \in SweptRunners, ExpireActiveLeaseSlots(r)
        PROVE  Inert
    BY <2>3 DEF Inert, ExpireActiveLeaseSlots
  <2>4. CASE Tick
    BY <2>4 DEF Inert, Tick
  <2> QED
    BY <1>1, <2>1, <2>2, <2>3, <2>4 DEF SlotNext
<1> QED
  BY <1>1, SlotInvariant, PTL DEF SlotSpec, SupersededIsInert, Inert

-------------------------------------------------------------------------------
\* A step that hands out no token and accepts no report is a shift of the
\* protection, or changes nothing the abstraction sees.
LEMMA ShiftStep ==
  ASSUME SlotInv,
         \A z \in Zombies : slot'[z].seq = slot[z].seq,
         \A z \in Zombies, t \in Tokens :
            lease'[z][t].status = "reported" <=> lease[z][t].status = "reported"
  PROVE  Promise!RNext
<1> DEFINE on == {z \in Zombies : slot'[z].seq > 0 /\ slot'[z].until >= now'}
<1>1. on \subseteq Zombies
  OBVIOUS
<1>2. \A z \in on : slot[z].seq > 0
  OBVIOUS
<1> QED
  BY <1>1, <1>2 DEF Promise!RNext, Promise!Shift

\* A won claim is a grant: the slot was past, and the token is the next one.
LEMMA ClaimGrants ==
  ASSUME SlotInv, NEW z \in Zombies, NEW r \in Runners, Claim(z, r)
  PROVE  Promise!Grant(z)
<1>1. SlotTypeOK
  BY DEF SlotInv
<1>2. /\ slot[z].seq \in Nat /\ slot[z].until \in Int /\ now \in Int /\ LeaseTTL \in Nat
      /\ slot[z].seq = 0 \/ slot[z].until < now
  BY <1>1, SlotAssumption DEF SlotTypeOK, Slots, Claim, Claimable
<1>3. /\ slot'[z].seq = slot[z].seq + 1 /\ slot'[z].until = now + LeaseTTL
      /\ now' = now /\ lease' = lease
      /\ \A y \in Zombies : y # z => slot'[y] = slot[y]
  BY <1>1 DEF Claim, SlotTypeOK
<1>4. slot'[z].seq > 0 /\ slot'[z].until >= now'
  BY <1>2, <1>3
<1>5. ~(slot[z].seq > 0 /\ slot[z].until >= now)
  BY <1>2
<1> QED
  BY <1>3, <1>4, <1>5 DEF Promise!Grant

\* An accepted report comes from the newest token, for the first time.
LEMMA ReportAccepted ==
  ASSUME SlotInv, NEW z \in Zombies, NEW t \in Tokens, ClaimReport(z, t)
  PROVE  Promise!Accept(z)
<1>1. SlotTypeOK
  BY DEF SlotInv
<1>2. lease[z][t].status = "active" /\ t >= slot[z].seq
  BY DEF ClaimReport, Active, Fenced
<1>3. t <= slot[z].seq
  BY <1>2 DEF SlotInv, TokensGranted
<1>4. t = slot[z].seq /\ slot[z].seq > 0
  BY <1>1, <1>2, <1>3 DEF SlotTypeOK, Slots, Tokens
<1>5. /\ slot' = slot /\ now' = now /\ lease'[z][t].status = "reported"
      /\ \A y \in Zombies, u \in Tokens : y # z \/ u # t => lease'[y][u] = lease[y][u]
  BY <1>1 DEF ClaimReport, SlotTypeOK, LeaseRows
<1>6. {u \in Tokens : lease'[z][u].status = "reported"} =
        {u \in Tokens : lease[z][u].status = "reported"} \union {slot[z].seq}
  BY <1>4, <1>5
<1>7. \A y \in Zombies : y # z =>
        {u \in Tokens : lease'[y][u].status = "reported"} =
        {u \in Tokens : lease[y][u].status = "reported"}
  BY <1>5
<1> DEFINE acc  == [y \in Zombies |-> {u \in Tokens : lease[y][u].status = "reported"}]
           accp == [y \in Zombies |-> {u \in Tokens : lease'[y][u].status = "reported"}]
<1>8. accp = [acc EXCEPT ![z] = acc[z] \union {slot[z].seq}]
  BY <1>6, <1>7
<1>9. slot[z].seq \notin acc[z]
  BY <1>2, <1>4
<1> QED
  BY <1>4, <1>5, <1>8, <1>9 DEF Promise!Accept

\* The affinity slot, with its requests, renewals, reports and sweeps,
\* implements the abstract fenced resource: no runner takes over a protected
\* zombie, and each token's outcome is accepted at most once, from its newest
\* holder.
THEOREM SlotImplementsFencedResource == SlotSpec => ImplementsFencedResource
<1>1. SlotInit => Promise!RInit
  <2> SUFFICES ASSUME SlotInit PROVE Promise!RInit
    OBVIOUS
  <2>1. \A z \in Zombies : slot[z].seq = 0 /\ {t \in Tokens : lease[z][t].status = "reported"} = {}
    BY DEF SlotInit, NoLease
  <2> QED
    BY <2>1 DEF Promise!RInit
<1>2. ASSUME SlotInv, [SlotNext]_svars
      PROVE  [Promise!RNext]_(Promise!rvars)
  <2>0. SlotTypeOK
    BY <1>2 DEF SlotInv
  <2>1. ASSUME NEW z \in Zombies, NEW r \in Runners, Claim(z, r)
        PROVE  Promise!RNext
    BY <1>2, <2>1, ClaimGrants DEF Promise!RNext
  <2>2. ASSUME NEW z \in Zombies, NEW t \in Tokens, ClaimReport(z, t)
        PROVE  Promise!RNext
    BY <1>2, <2>2, ReportAccepted DEF Promise!RNext
  <2>3. ASSUME NEW z \in Zombies, NEW t \in Tokens, RequestStep(z, t)
        PROVE  Promise!RNext
    <3>1. \A y \in Zombies : slot'[y].seq = slot[y].seq
      BY <2>0, <2>3 DEF RequestStep, ReclaimPriorActive, NoPriorActive, AcquireFresh, StampLease,
           IssueLease, AbandonClaim, DropClaim, Release, SlotTypeOK, Slots
    <3>2. \A y \in Zombies, u \in Tokens :
            lease'[y][u].status = "reported" <=> lease[y][u].status = "reported"
      <4>1. ASSUME NEW p \in Tokens, ReclaimPriorActive(z, t, p)
            PROVE  \A y \in Zombies, u \in Tokens :
                     lease'[y][u].status = "reported" <=> lease[y][u].status = "reported"
        BY <2>0, <4>1 DEF ReclaimPriorActive, LatestActive, Active, SlotTypeOK, LeaseRows
      <4>2. CASE IssueLease(z, t)
        <5>1. lease[z][t].status = "none"
          BY <1>2, <4>2 DEF IssueLease, SlotInv, RequestOrLease
        <5> QED
          BY <2>0, <4>2, <5>1 DEF IssueLease, SlotTypeOK
      <4>3. lease' = lease \/ IssueLease(z, t) \/ \E p \in Tokens : ReclaimPriorActive(z, t, p)
        BY <2>3 DEF RequestStep, NoPriorActive, AcquireFresh, StampLease, AbandonClaim, DropClaim
      <4> QED
        BY <4>1, <4>2, <4>3
    <3> QED
      BY <1>2, <3>1, <3>2, ShiftStep
  <2>4. ASSUME NEW z \in Zombies, NEW t \in Tokens, NEW at \in ClockReads(z, t), Renew(z, t, at)
        PROVE  Promise!RNext
    <3>1. /\ \A y \in Zombies : slot'[y].seq = slot[y].seq
          /\ \A y \in Zombies, u \in Tokens : lease'[y][u].status = lease[y][u].status
      BY <2>0, <2>4 DEF Renew, SlotTypeOK, Slots, LeaseRows
    <3> QED
      BY <1>2, <3>1, ShiftStep
  <2>5. ASSUME NEW z \in Zombies, NEW t \in Tokens, ReleaseReported(z, t) \/ DropReport(z, t)
        PROVE  Promise!RNext
    <3>1. lease' = lease /\ \A y \in Zombies : slot'[y].seq = slot[y].seq
      BY <2>0, <2>5 DEF ReleaseReported, DropReport, Release, SlotTypeOK, Slots
    <3> QED
      BY <1>2, <3>1, ShiftStep
  <2>6. ASSUME NEW r \in SweptRunners, ExpireActiveLeaseSlots(r)
        PROVE  Promise!RNext
    <3>1. lease' = lease /\ \A y \in Zombies : slot'[y].seq = slot[y].seq
      BY <2>0, <2>6 DEF ExpireActiveLeaseSlots, SlotTypeOK, Slots
    <3> QED
      BY <1>2, <3>1, ShiftStep
  <2>7. CASE Tick
    BY <1>2, <2>7, ShiftStep DEF Tick
  <2>8. CASE UNCHANGED svars
    BY <2>8 DEF svars, Promise!rvars
  <2> QED
    BY <1>2, <2>1, <2>2, <2>3, <2>4, <2>5, <2>6, <2>7, <2>8 DEF SlotNext, LeaseStep
<1> QED
  BY <1>1, <1>2, SlotInvariant, PTL DEF SlotSpec, ImplementsFencedResource, Promise!RSpec

-------------------------------------------------------------------------------
\* A lease row keeps its event and its creation, an accepted report is never
\* taken back and no row comes back into force; a row is inserted where there
\* was none.
LeasesMove ==
    \A z \in Zombies, t \in Tokens :
        /\ lease[z][t].status # "none" =>
             /\ lease'[z][t].event = lease[z][t].event /\ lease'[z][t].created = lease[z][t].created
             /\ lease'[z][t].status # "none"
             /\ lease[z][t].status = "reported" => lease'[z][t].status = "reported"
             /\ Active(z, t)' => Active(z, t)
        /\ lease[z][t].status = "none" /\ lease'[z][t].status # "none" => IssueLease(z, t)

\* This is what a step does to the lease rows.
LEMMA LeaseMove == ASSUME SlotInv, [SlotNext]_svars PROVE LeasesMove
<1>1. SlotTypeOK /\ RequestOrLease  BY DEF SlotInv
<1>2. UNCHANGED lease => LeasesMove  BY DEF LeasesMove, Active
<1>3. ASSUME NEW z \in Zombies, NEW t \in Tokens, NEW p \in Tokens, ReclaimPriorActive(z, t, p)
      PROVE  LeasesMove
  <2>1. lease' = [lease EXCEPT ![z][p] = [lease[z][p] EXCEPT !.status = "expired"]]
        /\ lease[z][p].status = "active"
    BY <1>3 DEF ReclaimPriorActive, LatestActive, Active
  <2>2. lease[z][p] \in LeaseRows  BY <1>1, CellTypes
  <2>3. QED  BY <1>1, <2>1, <2>2 DEF LeasesMove, SlotTypeOK, Active, LeaseRows
<1>4. ASSUME NEW z \in Zombies, NEW t \in Tokens, IssueLease(z, t)  PROVE  LeasesMove
  <2>1. lease[z][t].status = "none"  BY <1>1, <1>4 DEF IssueLease, RequestOrLease
  <2>2. \A y \in Zombies, u \in Tokens : y # z \/ u # t => lease'[y][u] = lease[y][u]
    BY <1>1, <1>4 DEF IssueLease, SlotTypeOK
  <2>3. ASSUME NEW y \in Zombies, NEW u \in Tokens, lease[y][u].status = "none", lease'[y][u].status # "none"
        PROVE  IssueLease(y, u)
    <3>1. y = z /\ u = t  BY <2>2, <2>3
    <3>2. QED  BY <1>4, <3>1
  <2>4. QED  BY <2>1, <2>2, <2>3 DEF LeasesMove, Active
<1>5. ASSUME NEW z \in Zombies, NEW t \in Tokens, ClaimReport(z, t)  PROVE  LeasesMove
  <2>1. lease' = [lease EXCEPT ![z][t] = [lease[z][t] EXCEPT !.status = "reported"]]
        /\ lease[z][t].status = "active"
    BY <1>5 DEF ClaimReport, Active
  <2>2. lease[z][t] \in LeaseRows  BY <1>1, CellTypes
  <2>3. QED  BY <1>1, <2>1, <2>2 DEF LeasesMove, SlotTypeOK, Active, LeaseRows
<1>6. ASSUME NEW z \in Zombies, NEW t \in Tokens, NEW at \in ClockReads(z, t), Renew(z, t, at)
      PROVE  LeasesMove
  <2>1. lease' = [lease EXCEPT ![z][t] = [lease[z][t] EXCEPT !.expires = Capped(z, t, at)]]
        /\ lease[z][t].status = "active"
    BY <1>6 DEF Renew, Active
  <2>2. lease[z][t] \in LeaseRows  BY <1>1, CellTypes
  <2>3. QED  BY <1>1, <2>1, <2>2 DEF LeasesMove, SlotTypeOK, Active, LeaseRows
<1>7. ASSUME NEW z \in Zombies, NEW t \in Tokens,
             NoPriorActive(z, t) \/ StampLease(z, t) \/ AbandonClaim(z, t) \/ DropClaim(z, t)
             \/ ReleaseReported(z, t) \/ DropReport(z, t) \/ \E e \in Events : AcquireFresh(z, t, e)
      PROVE  UNCHANGED lease
  BY <1>7 DEF NoPriorActive, StampLease, AbandonClaim, DropClaim, ReleaseReported, DropReport, AcquireFresh
<1>8. CASE Tick \/ UNCHANGED svars \/ (\E r \in SweptRunners : ExpireActiveLeaseSlots(r))
           \/ \E z \in Zombies, r \in Runners : Claim(z, r)
  BY <1>2, <1>8 DEF Tick, svars, ExpireActiveLeaseSlots, Claim
<1>9. QED
  BY <1>2, <1>3, <1>4, <1>5, <1>6, <1>7, <1>8 DEF SlotNext, RequestStep, LeaseStep

-------------------------------------------------------------------------------
\* A request past its reclaim statement: it found no lease in force, or has
\* just expired the one it found.
Past(z, t) == work[z][t].stage \in {"free", "acquired", "stamped"}

\* A request gets past its reclaim statement by that statement only.
LEMMA PastByReclaim ==
  ASSUME SlotInv, [SlotNext]_svars, NEW z \in Zombies, NEW t \in Tokens, Past(z, t)', ~Past(z, t)
  PROVE  NoPriorActive(z, t) \/ \E p \in Tokens : ReclaimPriorActive(z, t, p)
<1>1. SlotTypeOK  BY DEF SlotInv
<1>2. ASSUME UNCHANGED work  PROVE FALSE
  BY <1>2 DEF Past
<1>3. ASSUME NEW y \in Zombies, NEW u \in Tokens, y # z \/ u # t,
             \E w : work' = [work EXCEPT ![y][u] = w]
      PROVE  FALSE
  <2>1. work'[z][t] = work[z][t]  BY <1>1, <1>3 DEF SlotTypeOK
  <2>2. QED  BY <2>1 DEF Past
<1>4. ASSUME NEW y \in Zombies, NEW r \in Runners, Claim(y, r)  PROVE FALSE
  <2>1. PICK u : u = slot[y].seq + 1  OBVIOUS
  <2>2. work' = [work EXCEPT ![y][u] = [stage |-> "claimed", runner |-> r, until |-> now + LeaseTTL,
                                        event |-> NoEvent, kind |-> "fresh", at |-> 0]]
    BY <1>4, <2>1 DEF Claim
  <2>3. work'[z][t] = work[z][t] \/ work'[z][t].stage = "claimed"
    BY <1>1, <2>2 DEF SlotTypeOK
  <2>4. QED  BY <2>3 DEF Past
<1>5. ASSUME NEW y \in Zombies, NEW u \in Tokens, RequestStep(y, u), y # z \/ u # t  PROVE FALSE
  <2>1. \E w : work' = [work EXCEPT ![y][u] = w]
    <3>1. ASSUME NEW p \in Tokens, ReclaimPriorActive(y, u, p)  PROVE \E w : work' = [work EXCEPT ![y][u] = w]
      <4>1. work' = [work EXCEPT ![y][u] = [work[y][u] EXCEPT !.stage = "acquired",
                                   !.event = lease[y][p].event, !.kind = "reclaim"]]
        BY <3>1 DEF ReclaimPriorActive
      <4>2. QED  BY <4>1
    <3>2. ASSUME NEW e \in Events, AcquireFresh(y, u, e)  PROVE \E w : work' = [work EXCEPT ![y][u] = w]
      <4>1. work' = [work EXCEPT ![y][u] = [work[y][u] EXCEPT !.stage = "acquired", !.event = e]]
        BY <3>2 DEF AcquireFresh
      <4>2. QED  BY <4>1
    <3>3. CASE NoPriorActive(y, u)
      <4>1. work' = [work EXCEPT ![y][u] = [work[y][u] EXCEPT !.stage = "free"]]
        BY <3>3 DEF NoPriorActive
      <4>2. QED  BY <4>1
    <3>4. CASE StampLease(y, u)
      <4>1. work' = [work EXCEPT ![y][u] = [work[y][u] EXCEPT !.stage = "stamped", !.at = now]]
        BY <3>4 DEF StampLease
      <4>2. QED  BY <4>1
    <3>5. CASE IssueLease(y, u) \/ AbandonClaim(y, u) \/ DropClaim(y, u)
      <4>1. work' = [work EXCEPT ![y][u] = NoRequest]
        BY <3>5 DEF IssueLease, AbandonClaim, DropClaim
      <4>2. QED  BY <4>1
    <3>6. QED  BY <1>5, <3>1, <3>2, <3>3, <3>4, <3>5 DEF RequestStep
  <2>2. QED  BY <1>3, <1>5, <2>1
<1>6. CASE RequestStep(z, t)
  <2>1. ASSUME NEW e \in Events, AcquireFresh(z, t, e)  PROVE Past(z, t)
    BY <2>1 DEF AcquireFresh, Past
  <2>2. StampLease(z, t) => Past(z, t)
    BY DEF StampLease, Past
  <2>3. ASSUME IssueLease(z, t) \/ AbandonClaim(z, t) \/ DropClaim(z, t)  PROVE ~Past(z, t)'
    <3>1. work' = [work EXCEPT ![z][t] = NoRequest]
      BY <2>3 DEF IssueLease, AbandonClaim, DropClaim
    <3>2. QED  BY <1>1, <3>1 DEF SlotTypeOK, NoRequest, Past
  <2>4. QED  BY <1>6, <2>1, <2>2, <2>3 DEF RequestStep
<1>7. ASSUME NEW y \in Zombies, NEW u \in Tokens, LeaseStep(y, u)  PROVE UNCHANGED work
  BY <1>7 DEF LeaseStep, Renew, ClaimReport, ReleaseReported, DropReport
<1>8. CASE Tick \/ UNCHANGED svars \/ (\E r \in SweptRunners : ExpireActiveLeaseSlots(r))
  BY <1>2, <1>8 DEF Tick, svars, ExpireActiveLeaseSlots
<1>9. QED  BY <1>2, <1>4, <1>5, <1>6, <1>7, <1>8 DEF SlotNext

\* What OnlyLateRowsDouble says of one step.
DoublesLate ==
    \A z \in Zombies, t \in Tokens :
        Beside(z, t)' /\ ~Beside(z, t) => lease[z][t].status = "none" /\ t < slot[z].seq

\* The request that inserts a row beside a later lease is itself superseded,
\* for the later one was handed out; and a later request that finds this row in
\* force expires it, or a row beyond it.
LEMMA DoubleStep == ASSUME SlotInv, [SlotNext]_svars PROVE DoublesLate
<1>1. SUFFICES ASSUME NEW z \in Zombies, NEW t \in Tokens, Beside(z, t)', ~Beside(z, t)
               PROVE  lease[z][t].status = "none" /\ t < slot[z].seq
  BY DEF DoublesLate
<1>2. /\ LeasesMove /\ SlotTypeOK /\ TokensGranted /\ slot[z].seq \in Int
      /\ \A u \in Tokens : u \in Int
  BY LeaseMove DEF SlotInv, SlotTypeOK, Slots, Tokens
<1>3. PICK u \in Tokens : t < u /\ (Active(z, u)' \/ Past(z, u)')
  BY <1>1 DEF Beside, Past
<1>4. Active(z, t)'  BY <1>1 DEF Beside
<1>5. CASE Active(z, t)
  <2>1. ~Active(z, u) /\ ~Past(z, u)
    BY <1>1, <1>3, <1>5 DEF Beside, Past
  <2>2. ~Active(z, u)'
    <3>1. SUFFICES ASSUME Active(z, u)'  PROVE FALSE  OBVIOUS
    <3>2. IssueLease(z, u)  BY <1>2, <2>1, <3>1 DEF LeasesMove, Active
    <3>3. Past(z, u)  BY <3>2 DEF IssueLease, Past
    <3>4. QED  BY <2>1, <3>3
  <2>3. NoPriorActive(z, u) \/ \E p \in Tokens : ReclaimPriorActive(z, u, p)
    BY <1>3, <2>1, <2>2, PastByReclaim
  <2>4. ~NoPriorActive(z, u)  BY <1>5 DEF NoPriorActive
  <2>5. PICK p \in Tokens : ReclaimPriorActive(z, u, p)  BY <2>3, <2>4
  <2>6. Active(z, p) /\ t <= p  BY <1>5, <2>5 DEF ReclaimPriorActive, LatestActive
  <2>7. ~Active(z, p)'
    BY <1>2, <2>5 DEF ReclaimPriorActive, SlotTypeOK, LeaseRows, Active
  <2>8. t < p  BY <1>2, <1>4, <2>6, <2>7
  <2>9. QED  BY <1>1, <1>5, <2>6, <2>8 DEF Beside
<1>6. CASE ~Active(z, t)
  <2>1. lease[z][t].status = "none" /\ IssueLease(z, t)
    BY <1>2, <1>4, <1>6 DEF LeasesMove, Active
  <2>2. lease[z][u].status # "none" \/ work[z][u].stage # "none"
    <3>1. t # u  BY <1>2, <1>3
    <3>2. lease'[z][u] = lease[z][u] /\ work'[z][u] = work[z][u]
      BY <1>2, <2>1, <3>1 DEF IssueLease, SlotTypeOK
    <3>3. QED  BY <1>3, <3>2 DEF Active, Past
  <2>3. u <= slot[z].seq  BY <1>2, <2>2 DEF TokensGranted
  <2>4. QED  BY <1>2, <1>3, <2>1, <2>3
<1>7. QED  BY <1>5, <1>6

\* Two leases of a zombie are in force only when a request outlived its claim
\* and inserted its row after the zombie went to another, however slow the
\* requests are and whatever the sweeper does (reclaim.zig reclaimPriorActive,
\* service_lease_row.zig insertLeaseRow).
THEOREM OnlyLateRows == SlotSpec => OnlyLateRowsDouble
<1>1. SlotInv /\ [SlotNext]_svars => [DoublesLate]_svars
  BY DoubleStep
<1>2. [DoublesLate]_svars <=>
        [\A z \in Zombies, t \in Tokens :
           Beside(z, t)' /\ ~Beside(z, t) => lease[z][t].status = "none" /\ t < slot[z].seq]_svars
  BY DEF DoublesLate
<1>3. QED  BY <1>1, <1>2, SlotInvariant, PTL DEF SlotSpec, OnlyLateRowsDouble
===============================================================================
