-------------------------- MODULE EventDeliveryProofs --------------------------
(***************************************************************************)
(* Proofs about EventDelivery, for every number of zombies, runners,       *)
(* daemon instances and events.                                            *)
(*                                                                         *)
(* Whatever statement fails and whichever handler dies: an acked event has *)
(* an outcome, a terminal row stays as it is, an event is charged once,    *)
(* and a zombie's events are leased in the order of its stream.            *)
(*                                                                         *)
(* Of an event whose outcome is written: only a request that had been      *)
(* claimed before may still lease it from the stream.                      *)
(***************************************************************************)
EXTENDS SettledEvents, AffinitySlotProofs

\* A request that has read an event carries one of its own zombie, which has a
\* row as soon as the insert is past; only what is terminal is acked by it.
RequestOK(z, t) ==
    /\ req[z][t].pc \notin {"none", "select"} =>
         /\ work[z][t].stage \in {"acquired", "stamped"}
         /\ EventOf(z, t) \in Events /\ Home[EventOf(z, t)] = z
         /\ req[z][t].pc # "insert" => row[EventOf(z, t)] # "absent"
         /\ req[z][t].pc \in {"xack", "reack"} => Terminal(EventOf(z, t))
    /\ req[z][t].pc \in {"none", "select", "insert", "classify"} => ~req[z][t].first
    /\ req[z][t].pc = "debit" => req[z][t].first

\* A lease row is for an event of its zombie that has a row.
LeaseOK(z, t) ==
    lease[z][t].status # "none" =>
        /\ lease[z][t].event \in Events /\ Home[lease[z][t].event] = z
        /\ row[lease[z][t].event] # "absent"

\* Only an accepted report is being finalized.
FinOK(z, t) == fin[z][t] # "none" => lease[z][t].status = "reported"

\* This request is the one that may still charge its event.
Paying(z, t) == req[z][t].first /\ req[z][t].pc \in {"resolve", "debit"}

\* What is still to be charged has not been charged, and by one request only.
ChargePending ==
    /\ \A e \in Events : row[e] = "absent" => debits[e] = 0
    /\ \A z \in Zombies, t \in Tokens : Paying(z, t) => debits[EventOf(z, t)] = 0
    /\ \A z \in Zombies, t, u \in Tokens :
         Paying(z, t) /\ Paying(z, u) /\ EventOf(z, t) = EventOf(z, u) => t = u

RequestsOK == \A z \in Zombies, t \in Tokens : RequestOK(z, t)
LeasesOK   == \A z \in Zombies, t \in Tokens : LeaseOK(z, t)
FinsOK     == \A z \in Zombies, t \in Tokens : FinOK(z, t)

DeliveryInv ==
    /\ SlotInv
    /\ DeliveryTypeOK
    /\ RequestsOK
    /\ LeasesOK
    /\ FinsOK
    /\ ChargePending
    /\ DebitedOnce
    /\ AckedMeansSettled

\* Rows appear and become terminal; no terminal row changes.
RowsMove ==
    \A e \in Events : /\ row[e] # "absent" => row'[e] # "absent"
                      /\ Terminal(e) => row'[e] = row[e]

\* Nothing is published, requested or finalized at first.
LEMMA DeliveryStart == DeliveryInit => DeliveryInv
<1> SUFFICES ASSUME DeliveryInit  PROVE  DeliveryInv  OBVIOUS
<1>1. SlotInv  BY InitInv DEF DeliveryInit
<1>2. DeliveryTypeOK
  BY SlotAssumption, DeliveryAssumption
     DEF DeliveryInit, DeliveryTypeOK, Entries, RequestPoints, Idle
<1>3. RequestsOK /\ FinsOK /\ ChargePending
  BY DEF DeliveryInit, RequestsOK, RequestOK, FinsOK, FinOK, ChargePending, Paying, Idle
<1>4. LeasesOK  BY DEF DeliveryInit, SlotInit, NoLease, LeasesOK, LeaseOK
<1>5. DebitedOnce /\ AckedMeansSettled  BY DEF DeliveryInit, DebitedOnce, AckedMeansSettled
<1>6. QED  BY <1>1, <1>2, <1>3, <1>4, <1>5 DEF DeliveryInv

\* A step of the delivery is a step of the slot, or leaves the slot alone.
LEMMA SlotSteps == DeliveryNext => [SlotNext]_svars
<1> SUFFICES ASSUME DeliveryNext  PROVE  [SlotNext]_svars  OBVIOUS
<1>1. ASSUME NEW z \in Zombies, NEW t \in Tokens, Poll(z, t)  PROVE  RequestStep(z, t) \/ UNCHANGED svars
  BY <1>1 DEF Poll, PollReclaim, PollFree, ReadEvent, InsertReceived, Classify, ResolveAndGate, DebitReceive,
     ApprovalGate, SecretMissing, MarkBlocked, RequestXAck, PollStamp, PollIssue, PollAbandon, PollDies,
     RequestStep
<1>2. ASSUME NEW z \in Zombies, NEW t \in Tokens, RenewLease(z, t) \/ Report(z, t) \/ Finalize(z, t)
      PROVE  LeaseStep(z, t) \/ UNCHANGED svars
  BY <1>2 DEF RenewLease, Report, Finalize, MarkTerminal, Checkpoint, ReportXAck, ReportRelease, ReportDies,
     LeaseStep
<1>3. ASSUME NEW z \in Zombies, NEW r \in Runners, NEW i \in Instances, PollClaim(z, r, i)
      PROVE  Claim(z, r)
  BY <1>3 DEF PollClaim
<1>4. CASE Time \/ (\E e \in Events : XAdd(e)) \/ (\E e \in Events, i \in Instances : SweepStray(e, i))
           \/ \E r \in SweptRunners : SweepSlots(r)
  BY <1>4 DEF Time, XAdd, SweepStray, SweepSlots, SlotNext
<1>5. QED  BY <1>1, <1>2, <1>3, <1>4 DEF DeliveryNext, SlotNext

\* No step takes a row away or rewrites a terminal one.
LEMMA RowStep == ASSUME DeliveryInv, DeliveryNext PROVE RowsMove
<1> USE DEF DeliveryInv
<1>1. UNCHANGED row => RowsMove  BY DEF RowsMove
<1>2. ASSUME NEW z \in Zombies, NEW t \in Tokens, InsertReceived(z, t)  PROVE  RowsMove
  <2>1. CASE row[EventOf(z, t)] = "absent" /\ row' = [row EXCEPT ![EventOf(z, t)] = "received"]
    BY <2>1 DEF RowsMove, Terminal, DeliveryTypeOK
  <2>2. QED  BY <1>1, <1>2, <2>1 DEF InsertReceived
<1>3. ASSUME NEW z \in Zombies, NEW t \in Tokens, MarkBlocked(z, t)  PROVE  RowsMove
  <2>1. CASE row[EventOf(z, t)] = "received" /\ row' = [row EXCEPT ![EventOf(z, t)] = "gate_blocked"]
    BY <2>1 DEF RowsMove, Terminal, DeliveryTypeOK
  <2>2. QED  BY <1>1, <1>3, <2>1 DEF MarkBlocked
<1>4. ASSUME NEW z \in Zombies, NEW t \in Tokens, MarkTerminal(z, t)  PROVE  RowsMove
  <2> DEFINE e == lease[z][t].event
  <2>1. CASE row[e] = "received" /\ row' = [row EXCEPT ![e] = "processed"]
    BY <2>1 DEF RowsMove, Terminal, DeliveryTypeOK
  <2>2. QED  BY <1>1, <1>4, <2>1 DEF MarkTerminal
<1>5. ASSUME NEW z \in Zombies, NEW t \in Tokens, Poll(z, t), ~InsertReceived(z, t), ~MarkBlocked(z, t)
      PROVE  UNCHANGED row
  BY <1>5 DEF Poll, PollReclaim, PollFree, ReadEvent, Classify, ResolveAndGate, DebitReceive,
     ApprovalGate, SecretMissing, RequestXAck, PollStamp, PollIssue, PollAbandon, PollDies, evars
<1>6. ASSUME NEW z \in Zombies, NEW t \in Tokens, RenewLease(z, t) \/ Report(z, t) \/ Finalize(z, t),
             ~MarkTerminal(z, t)
      PROVE  UNCHANGED row
  BY <1>6 DEF RenewLease, Report, Finalize, Checkpoint, ReportXAck, ReportRelease, ReportDies, evars
<1>7. CASE Time \/ (\E e \in Events : XAdd(e)) \/ (\E e \in Events, i \in Instances : SweepStray(e, i))
           \/ (\E r \in SweptRunners : SweepSlots(r))
           \/ \E z \in Zombies, r \in Runners, i \in Instances : PollClaim(z, r, i)
  BY <1>1, <1>7 DEF Time, XAdd, SweepStray, SweepSlots, PollClaim, evars
<1>8. QED  BY <1>1, <1>2, <1>3, <1>4, <1>5, <1>6, <1>7 DEF DeliveryNext

\* Lease rows are inserted by PollIssue only.
LEMMA NewLease ==
    ASSUME DeliveryInv, DeliveryNext, NEW z \in Zombies, NEW t \in Tokens,
           lease[z][t].status = "none", lease'[z][t].status # "none"
    PROVE  PollIssue(z, t)
<1>1. SlotTypeOK  BY DEF DeliveryInv, SlotInv
<1>2. lease'[z][t] # lease[z][t]  OBVIOUS
<1>3. ASSUME NEW y \in Zombies, NEW u \in Tokens, PollReclaim(y, u)  PROVE  FALSE
  <2>1. PICK p \in Tokens : ReclaimPriorActive(y, u, p)  BY <1>3 DEF PollReclaim
  <2>2. lease[y][p].status = "active"  BY <2>1 DEF ReclaimPriorActive, LatestActive, Active
  <2>3. \A x \in Zombies, v \in Tokens : x # y \/ v # p => lease'[x][v] = lease[x][v]
    BY <1>1, <2>1 DEF ReclaimPriorActive, SlotTypeOK
  <2>4. QED  BY <1>2, <2>2, <2>3
<1>4. ASSUME NEW y \in Zombies, NEW u \in Tokens, PollIssue(y, u)  PROVE  y = z /\ u = t
  BY <1>1, <1>2, <1>4 DEF PollIssue, IssueLease, SlotTypeOK
<1>5. ASSUME NEW y \in Zombies, NEW u \in Tokens, RenewLease(y, u) \/ Report(y, u)  PROVE  FALSE
  <2>1. lease[y][u].status = "active"  BY <1>5 DEF RenewLease, Report, Renew, ClaimReport, Active
  <2>2. \A x \in Zombies, v \in Tokens : x # y \/ v # u => lease'[x][v] = lease[x][v]
    BY <1>1, <1>5 DEF RenewLease, Report, Renew, ClaimReport, SlotTypeOK
  <2>3. QED  BY <1>2, <2>1, <2>2
<1>6. ASSUME NEW y \in Zombies, NEW u \in Tokens,
             Poll(y, u) \/ Finalize(y, u), ~PollReclaim(y, u), ~PollIssue(y, u)
      PROVE  UNCHANGED lease
  BY <1>6 DEF Poll, PollFree, ReadEvent, InsertReceived, Classify, ResolveAndGate, DebitReceive, ApprovalGate,
     SecretMissing, MarkBlocked, RequestXAck, PollStamp, PollAbandon, PollDies, NoPriorActive, AcquireFresh,
     StampLease, AbandonClaim, DropClaim, Finalize, MarkTerminal, Checkpoint, ReportXAck, ReportRelease,
     ReportDies, ReleaseReported, DropReport, svars
<1>7. CASE Time \/ (\E e \in Events : XAdd(e)) \/ (\E e \in Events, i \in Instances : SweepStray(e, i))
           \/ (\E r \in SweptRunners : SweepSlots(r))
           \/ \E y \in Zombies, r \in Runners, i \in Instances : PollClaim(y, r, i)
  <2>1. UNCHANGED lease
    BY <1>7 DEF Time, XAdd, SweepStray, SweepSlots, PollClaim, Claim, Tick, ExpireActiveLeaseSlots, svars
  <2>2. QED  BY <1>2, <2>1
<1>8. QED  BY <1>2, <1>3, <1>4, <1>5, <1>6, <1>7 DEF DeliveryNext

\* The rows of the leases stay right.
LEMMA LeasesStep == ASSUME DeliveryInv, DeliveryNext PROVE LeasesOK'
<1> USE DEF DeliveryInv
<1>1. RowsMove /\ LeasesMove  BY RowStep, LeaseMove, SlotSteps
<1> SUFFICES ASSUME NEW z \in Zombies, NEW t \in Tokens, lease'[z][t].status # "none"
             PROVE  /\ lease'[z][t].event \in Events /\ Home[lease'[z][t].event] = z
                    /\ row'[lease'[z][t].event] # "absent"
  BY DEF LeasesOK, LeaseOK
<1>2. CASE lease[z][t].status # "none"
  BY <1>1, <1>2 DEF LeasesMove, RowsMove, LeasesOK, LeaseOK
<1>3. CASE lease[z][t].status = "none"
  <2>1. PollIssue(z, t)  BY <1>3, NewLease
  <2>2. EventOf(z, t) \in Events /\ Home[EventOf(z, t)] = z /\ row[EventOf(z, t)] # "absent"
    BY <2>1 DEF PollIssue, At, RequestsOK, RequestOK
  <2>3. lease'[z][t].event = EventOf(z, t)
    BY <2>1 DEF PollIssue, IssueLease, EventOf, SlotInv, SlotTypeOK
  <2>4. QED  BY <1>1, <2>2, <2>3 DEF RowsMove
<1>4. QED  BY <1>2, <1>3

\* A finalize starts with an accepted report.
LEMMA FinsStep == ASSUME DeliveryInv, DeliveryNext PROVE FinsOK'
<1> USE DEF DeliveryInv
<1>1. LeasesMove  BY LeaseMove, SlotSteps
<1> SUFFICES ASSUME NEW z \in Zombies, NEW t \in Tokens, fin'[z][t] # "none"
             PROVE  lease'[z][t].status = "reported"
  BY DEF FinsOK, FinOK
<1>2. CASE fin[z][t] # "none"
  BY <1>1, <1>2 DEF LeasesMove, FinsOK, FinOK
<1>3. CASE fin[z][t] = "none"
  <2>1. ASSUME NEW y \in Zombies, NEW u \in Tokens, Report(y, u)  PROVE  y = z /\ u = t
    BY <1>3, <2>1 DEF Report, DeliveryTypeOK
  <2>2. ASSUME Report(z, t)  PROVE  lease'[z][t].status = "reported"
    <3>1. lease[z][t] \in LeaseRows  BY CellTypes DEF SlotInv
    <3>2. lease' = [lease EXCEPT ![z][t] = [lease[z][t] EXCEPT !.status = "reported"]]
      BY <2>2 DEF Report, ClaimReport
    <3>3. QED  BY <3>1, <3>2 DEF LeaseRows, SlotInv, SlotTypeOK
  <2>3. ASSUME NEW y \in Zombies, NEW u \in Tokens, Finalize(y, u)  PROVE  FALSE
    <3>1. fin[y][u] # "none" \/ fin' = [fin EXCEPT ![y][u] = "none"]
      BY <2>3 DEF Finalize, MarkTerminal, Checkpoint, ReportXAck, ReportRelease, ReportDies, FinGoto
    <3>2. \E point : fin' = [fin EXCEPT ![y][u] = point]
      BY <2>3 DEF Finalize, MarkTerminal, Checkpoint, ReportXAck, ReportRelease, ReportDies, FinGoto
    <3>3. QED  BY <1>3, <3>1, <3>2 DEF DeliveryTypeOK
  <2>4. ASSUME NEW y \in Zombies, NEW u \in Tokens, Poll(y, u) \/ RenewLease(y, u)  PROVE  UNCHANGED fin
    BY <2>4 DEF Poll, PollReclaim, PollFree, ReadEvent, InsertReceived, Classify, ResolveAndGate, DebitReceive,
       ApprovalGate, SecretMissing, MarkBlocked, RequestXAck, PollStamp, PollIssue, PollAbandon, PollDies,
       RenewLease, evars
  <2>5. CASE Time \/ (\E e \in Events : XAdd(e)) \/ (\E e \in Events, i \in Instances : SweepStray(e, i))
             \/ (\E r \in SweptRunners : SweepSlots(r))
             \/ \E y \in Zombies, r \in Runners, i \in Instances : PollClaim(y, r, i)
    <3>1. UNCHANGED fin  BY <2>5 DEF Time, XAdd, SweepStray, SweepSlots, PollClaim, evars
    <3>2. QED  BY <1>3, <3>1
  <2>6. QED  BY <1>3, <2>1, <2>2, <2>3, <2>4, <2>5 DEF DeliveryNext
<1>4. QED  BY <1>2, <1>3

\* An entry is acked by a request whose event is terminal, or by a report.
LEMMA AckStep == ASSUME DeliveryInv, DeliveryNext PROVE AckedMeansSettled'
<1> USE DEF DeliveryInv
<1>1. RowsMove /\ LeasesMove  BY RowStep, LeaseMove, SlotSteps
<1>2. \A e \in Events : Terminal(e) => Terminal(e)'  BY <1>1 DEF RowsMove, Terminal
<1>3. ASSUME NEW e \in Events, Settled(e)  PROVE  Settled(e)'
  <2>1. PICK t \in Tokens : lease[Home[e]][t].event = e /\ lease[Home[e]][t].status = "reported"
    BY <1>3 DEF Settled, LeasedFor
  <2>2. Home[e] \in Zombies  BY DeliveryAssumption
  <2>3. lease'[Home[e]][t].event = e /\ lease'[Home[e]][t].status = "reported"
    BY <1>1, <2>1, <2>2 DEF LeasesMove
  <2>4. QED  BY <2>3 DEF Settled, LeasedFor
<1> SUFFICES ASSUME NEW e \in Events, entry'[e].st = "acked"  PROVE  Terminal(e)' \/ Settled(e)'
  BY DEF AckedMeansSettled
<1>4. CASE entry[e].st = "acked"
  BY <1>2, <1>3, <1>4 DEF AckedMeansSettled
<1>5. CASE entry[e].st # "acked"
  <2>1. ASSUME NEW d, Ack(d), d # e  PROVE  FALSE
    BY <1>5, <2>1 DEF Ack, DeliveryTypeOK
  <2>2. ASSUME NEW z \in Zombies, NEW t \in Tokens, RequestXAck(z, t)  PROVE  Terminal(e)'
    <3>1. EventOf(z, t) = e  BY <2>1, <2>2 DEF RequestXAck
    <3>2. Terminal(e)  BY <2>2, <3>1 DEF RequestXAck, RequestsOK, RequestOK
    <3>3. QED  BY <1>2, <3>2
  <2>3. ASSUME NEW z \in Zombies, NEW t \in Tokens, ReportXAck(z, t)  PROVE  Settled(e)'
    <3>1. lease[z][t].event = e  BY <1>5, <2>1, <2>3 DEF ReportXAck
    <3>2. lease[z][t].status = "reported"  BY <2>3 DEF ReportXAck, FinGoto, FinsOK, FinOK
    <3>3. Home[e] = z  BY <3>1, <3>2 DEF LeasesOK, LeaseOK
    <3>4. QED  BY <1>3, <3>1, <3>2, <3>3 DEF Settled, LeasedFor
  <2>4. ASSUME NEW z \in Zombies, NEW t \in Tokens,
               Poll(z, t) \/ RenewLease(z, t) \/ Report(z, t) \/ Finalize(z, t),
               ~RequestXAck(z, t), ~ReportXAck(z, t), ~\E d \in Events : ReadEvent(z, t, d)
        PROVE  UNCHANGED entry
    BY <2>4 DEF Poll, PollReclaim, PollFree, InsertReceived, Classify, ResolveAndGate, DebitReceive,
       ApprovalGate, SecretMissing, MarkBlocked, PollStamp, PollIssue, PollAbandon, PollDies,
       RenewLease, Report, Finalize, MarkTerminal, Checkpoint, ReportRelease, ReportDies, evars
  <2>5. ASSUME NEW z \in Zombies, NEW t \in Tokens, NEW d \in Events, ReadEvent(z, t, d)  PROVE  FALSE
    BY <1>5, <2>5 DEF ReadEvent, DeliveryTypeOK
  <2>6. ASSUME NEW d \in Events, XAdd(d)  PROVE  FALSE
    <3>1. entry[d] \in Entries /\ entry' = [entry EXCEPT ![d] = [entry[d] EXCEPT !.st = "queued"]]
      BY <2>6 DEF XAdd, DeliveryTypeOK
    <3>2. QED  BY <1>5, <3>1 DEF DeliveryTypeOK, Entries
  <2>7. ASSUME NEW d \in Events, NEW i \in Instances, SweepStray(d, i)  PROVE  FALSE
    <3>1. /\ entry[d] \in Entries
          /\ entry' = [entry EXCEPT ![d] = [entry[d] EXCEPT !.owner = i, !.at = now]]
      BY <2>7 DEF SweepStray, DeliveryTypeOK
    <3>2. QED  BY <1>5, <3>1 DEF DeliveryTypeOK, Entries
  <2>8. CASE Time \/ (\E r \in SweptRunners : SweepSlots(r))
             \/ \E z \in Zombies, r \in Runners, i \in Instances : PollClaim(z, r, i)
    <3>1. UNCHANGED entry  BY <2>8 DEF Time, SweepSlots, PollClaim, evars
    <3>2. QED  BY <1>5, <3>1
  <2>9. QED  BY <1>5, <2>2, <2>3, <2>4, <2>5, <2>6, <2>7, <2>8 DEF DeliveryNext
<1>6. QED  BY <1>4, <1>5

(***************************************************************************)
(* The requests.                                                           *)
(***************************************************************************)
\* A statement of a request moves its own program counter.
LEMMA GotoEffect ==
    ASSUME DeliveryTypeOK, NEW z \in Zombies, NEW t \in Tokens, NEW point, Goto(z, t, point)
    PROVE  /\ req'[z][t].pc = point /\ req'[z][t].first = req[z][t].first /\ req'[z][t].inst = req[z][t].inst
           /\ \A y \in Zombies, u \in Tokens : y # z \/ u # t => req'[y][u] = req[y][u]
<1>1. req[z][t] \in RequestPoints /\ req \in [Zombies -> [Tokens -> RequestPoints]]
  BY DEF DeliveryTypeOK
<1>2. req' = [req EXCEPT ![z] = [req[z] EXCEPT ![t] = [req[z][t] EXCEPT !.pc = point]]]  BY DEF Goto
<1>3. req'[z][t] = [req[z][t] EXCEPT !.pc = point]  BY <1>1, <1>2
<1>4. \A y \in Zombies, u \in Tokens : y # z \/ u # t => req'[y][u] = req[y][u]  BY <1>1, <1>2
<1>5. QED  BY <1>1, <1>3, <1>4 DEF RequestPoints

\* The same for the first delivery, which the insert also marks as such.
LEMMA FirstEffect ==
    ASSUME DeliveryTypeOK, NEW z \in Zombies, NEW t \in Tokens,
           req' = [req EXCEPT ![z][t].pc = "resolve", ![z][t].first = TRUE]
    PROVE  /\ req'[z][t].pc = "resolve" /\ req'[z][t].first /\ req'[z][t].inst = req[z][t].inst
           /\ \A y \in Zombies, u \in Tokens : y # z \/ u # t => req'[y][u] = req[y][u]
<1>1. req[z][t] \in RequestPoints /\ req \in [Zombies -> [Tokens -> RequestPoints]]
  BY DEF DeliveryTypeOK
<1>2. req'[z][t] = [req[z][t] EXCEPT !.pc = "resolve", !.first = TRUE]  BY <1>1
<1>3. \A y \in Zombies, u \in Tokens : y # z \/ u # t => req'[y][u] = req[y][u]  BY <1>1
<1>4. QED  BY <1>1, <1>2, <1>3 DEF RequestPoints

\* A statement of one request leaves the other requests where they are.
LEMMA OneRequest ==
    ASSUME DeliveryInv, NEW z \in Zombies, NEW t \in Tokens, Poll(z, t)
    PROVE  \A y \in Zombies, u \in Tokens :
             y # z \/ u # t => req'[y][u] = req[y][u] /\ work'[y][u] = work[y][u]
<1> USE DEF DeliveryInv
<1>1. \A y \in Zombies, u \in Tokens : y # z \/ u # t => work'[y][u] = work[y][u]
  <2>1. UNCHANGED work \/ \E w : work' = [work EXCEPT ![z][t] = w]
    <3>1. ASSUME NEW p \in Tokens, ReclaimPriorActive(z, t, p)
          PROVE  \E w : work' = [work EXCEPT ![z][t] = w]
      <4> DEFINE w == [work[z][t] EXCEPT !.stage = "acquired", !.event = lease[z][p].event, !.kind = "reclaim"]
      <4>1. work' = [work EXCEPT ![z][t] = w]  BY <3>1 DEF ReclaimPriorActive, SlotInv, SlotTypeOK
      <4>2. QED  BY <4>1
    <3>2. ASSUME NEW e \in Events, AcquireFresh(z, t, e)
          PROVE  \E w : work' = [work EXCEPT ![z][t] = w]
      <4> DEFINE w == [work[z][t] EXCEPT !.stage = "acquired", !.event = e]
      <4>1. work' = [work EXCEPT ![z][t] = w]  BY <3>2 DEF AcquireFresh, SlotInv, SlotTypeOK
      <4>2. QED  BY <4>1
    <3>3. CASE StampLease(z, t)
      BY <3>3 DEF StampLease, SlotInv, SlotTypeOK
    <3>4. CASE NoPriorActive(z, t)
      BY <3>4 DEF NoPriorActive, SlotInv, SlotTypeOK
    <3>5. CASE IssueLease(z, t) \/ AbandonClaim(z, t) \/ DropClaim(z, t)
      BY <3>5 DEF IssueLease, AbandonClaim, DropClaim
    <3>6. CASE UNCHANGED svars
      BY <3>6 DEF svars
    <3>7. QED
      BY <3>1, <3>2, <3>3, <3>4, <3>5, <3>6
         DEF Poll, PollReclaim, PollFree, ReadEvent, InsertReceived, Classify, ResolveAndGate, DebitReceive,
         ApprovalGate, SecretMissing, MarkBlocked, RequestXAck, PollStamp, PollIssue, PollAbandon, PollDies
  <2>2. QED  BY <2>1 DEF SlotInv, SlotTypeOK
<1>2. \A y \in Zombies, u \in Tokens : y # z \/ u # t => req'[y][u] = req[y][u]
  <2>1. CASE UNCHANGED req  BY <2>1
  <2>2. ASSUME NEW point, Goto(z, t, point)
        PROVE  \A y \in Zombies, u \in Tokens : y # z \/ u # t => req'[y][u] = req[y][u]
    BY <2>2, GotoEffect
  <2>3. CASE InsertReceived(z, t)
    BY <2>2, <2>3, FirstEffect DEF InsertReceived
  <2>4. CASE PollIssue(z, t) \/ PollAbandon(z, t) \/ PollDies(z, t)
    BY <2>4 DEF PollIssue, PollAbandon, PollDies, DeliveryTypeOK
  <2>5. CASE PollFree(z, t) \/ PollStamp(z, t)
    BY <2>1, <2>5 DEF PollFree, PollStamp, evars
  <2>6. CASE PollReclaim(z, t) \/ Classify(z, t) \/ ResolveAndGate(z, t) \/ DebitReceive(z, t)
             \/ ApprovalGate(z, t) \/ SecretMissing(z, t) \/ MarkBlocked(z, t) \/ RequestXAck(z, t)
             \/ \E e \in Events : ReadEvent(z, t, e)
    BY <2>2, <2>6 DEF PollReclaim, Classify, ResolveAndGate, DebitReceive, ApprovalGate, SecretMissing,
       MarkBlocked, RequestXAck, ReadEvent
  <2>7. QED  BY <2>3, <2>4, <2>5, <2>6 DEF Poll
<1>3. QED  BY <1>1, <1>2

\* A request whose statements are all still to come stays right while rows move.
LEMMA RequestKept ==
    ASSUME RowsMove, NEW z \in Zombies, NEW t \in Tokens, RequestOK(z, t),
           req'[z][t] = req[z][t], work'[z][t] = work[z][t]
    PROVE  RequestOK(z, t)'
BY DEF RowsMove, RequestOK, EventOf, Terminal

\* A statement of a request that goes on with the event that it has.
LEMMA RequestGoesOn ==
    ASSUME DeliveryTypeOK, RowsMove, NEW z \in Zombies, NEW t \in Tokens, RequestOK(z, t), NEW point,
           Goto(z, t, point), work'[z][t] = work[z][t],
           req[z][t].pc \notin {"none", "select"},
           point \notin {"none", "select", "insert"},
           point = "classify" => ~req[z][t].first,
           point = "debit" => req[z][t].first,
           row'[EventOf(z, t)] # "absent",
           point \in {"xack", "reack"} => Terminal(EventOf(z, t))'
    PROVE  RequestOK(z, t)'
<1>1. req'[z][t].pc = point /\ req'[z][t].first = req[z][t].first  BY GotoEffect
<1>2. EventOf(z, t)' = EventOf(z, t)  BY DEF EventOf
<1>3. QED  BY <1>1, <1>2 DEF RequestOK, Terminal

\* Each statement of a request leaves it right.
LEMMA PollRequest ==
    ASSUME DeliveryInv, DeliveryNext, NEW z \in Zombies, NEW t \in Tokens, Poll(z, t)
    PROVE  RequestOK(z, t)'
<1> USE DEF DeliveryInv
<1> DEFINE e == EventOf(z, t)
<1>1. RowsMove /\ RequestOK(z, t)  BY RowStep DEF RequestsOK
<1>2. work[z][t] \in Requests /\ work \in [Zombies -> [Tokens -> Requests]]
  BY CellTypes DEF SlotInv, SlotTypeOK
<1>3. req[z][t] \in RequestPoints /\ req \in [Zombies -> [Tokens -> RequestPoints]]  BY DEF DeliveryTypeOK
<1>4. ASSUME req'[z][t] = Idle  PROVE  RequestOK(z, t)'
  BY <1>4 DEF Idle, RequestOK
<1>5. CASE PollReclaim(z, t)
  <2>1. PICK p \in Tokens : ReclaimPriorActive(z, t, p)  BY <1>5 DEF PollReclaim
  <2>2. /\ work'[z][t].stage = "acquired" /\ work'[z][t].event = lease[z][p].event
        /\ work[z][t].stage = "claimed"
    BY <1>2, <2>1 DEF ReclaimPriorActive, Requests
  <2>3. LeaseOK(z, p) /\ lease[z][p].status = "active"
    BY <2>1 DEF ReclaimPriorActive, LatestActive, Active, LeasesOK
  <2>4. UNCHANGED row  BY <1>5 DEF PollReclaim
  <2>5. req'[z][t].pc = "issue"  BY <1>5, GotoEffect DEF PollReclaim
  <2>6. QED  BY <2>2, <2>3, <2>4, <2>5 DEF LeaseOK, RequestOK, EventOf
<1>6. CASE PollFree(z, t)
  <2>1. req'[z][t] = req[z][t] /\ work[z][t].stage = "claimed"  BY <1>6 DEF PollFree, NoPriorActive, evars
  <2>2. req'[z][t].pc \in {"none", "select"} /\ ~req'[z][t].first  BY <1>1, <2>1 DEF RequestOK
  <2>3. QED  BY <2>2 DEF RequestOK
<1>7. ASSUME NEW d \in Events, ReadEvent(z, t, d)  PROVE  RequestOK(z, t)'
  <2>1. /\ work'[z][t].stage = "acquired" /\ work'[z][t].event = d /\ work[z][t].stage = "free"
    BY <1>2, <1>7 DEF ReadEvent, AcquireFresh, Requests
  <2>2. Home[d] = z  BY <1>7 DEF ReadEvent, Oldest, Pending, Queued
  <2>3. req'[z][t].pc = "insert" /\ req'[z][t].first = req[z][t].first
    BY <1>7, GotoEffect DEF ReadEvent
  <2>4. ~req[z][t].first  BY <1>1, <2>1 DEF RequestOK
  <2>5. QED  BY <2>1, <2>2, <2>3, <2>4 DEF RequestOK, EventOf
<1>8. CASE InsertReceived(z, t)
  <2>1. e \in Events /\ ~req[z][t].first /\ req[z][t].pc = "insert" /\ work'[z][t] = work[z][t]
    BY <1>1, <1>8 DEF InsertReceived, At, RequestOK, svars
  <2>2. CASE row[e] = "absent" /\ row' = [row EXCEPT ![e] = "received"]
             /\ req' = [req EXCEPT ![z][t].pc = "resolve", ![z][t].first = TRUE]
    <3>1. req'[z][t].pc = "resolve" /\ req'[z][t].first  BY <2>2, FirstEffect
    <3>2. row'[e] # "absent" /\ EventOf(z, t)' = e  BY <2>1, <2>2 DEF DeliveryTypeOK, EventOf
    <3> HIDE DEF e
    <3>3. QED  BY <1>1, <2>1, <3>1, <3>2 DEF RequestOK, EventOf, e
  <2>3. CASE row[e] # "absent" /\ UNCHANGED row /\ Goto(z, t, "classify")
    BY <1>1, <2>1, <2>3, RequestGoesOn
  <2>4. QED  BY <1>8, <2>2, <2>3 DEF InsertReceived
<1>9. CASE Classify(z, t)
  <2>1. req[z][t].pc = "classify" /\ work'[z][t] = work[z][t] /\ UNCHANGED row
    BY <1>9 DEF Classify, At, svars
  <2>2. row'[e] # "absent" /\ e \in Events  BY <1>1, <2>1 DEF RequestOK
  <2>3. (Goto(z, t, "reack") /\ Terminal(e)') \/ Goto(z, t, "resolve")
    <3>1. e' = e  BY <2>1 DEF EventOf
    <3>2. CASE Terminal(e)
      BY <1>9, <2>1, <3>1, <3>2 DEF Classify, Terminal
    <3>3. CASE ~Terminal(e)
      BY <1>9, <3>3 DEF Classify
    <3>4. QED  BY <3>2, <3>3
  <2>4. QED  BY <1>1, <2>1, <2>2, <2>3, RequestGoesOn DEF Terminal
<1>10. CASE ResolveAndGate(z, t)
  <2>1. req[z][t].pc = "resolve" /\ work'[z][t] = work[z][t] /\ UNCHANGED row
    BY <1>10 DEF ResolveAndGate, At, svars
  <2>2. row'[e] # "absent"  BY <1>1, <2>1 DEF RequestOK
  <2>3. Goto(z, t, "block") \/ (Goto(z, t, "debit") /\ req[z][t].first) \/ Goto(z, t, "gate")
    BY <1>10 DEF ResolveAndGate
  <2>4. QED  BY <1>1, <2>1, <2>2, <2>3, RequestGoesOn
<1>11. CASE DebitReceive(z, t) \/ ApprovalGate(z, t) \/ SecretMissing(z, t)
  <2>1. req[z][t].pc \in {"debit", "gate", "issue"} /\ work'[z][t] = work[z][t] /\ UNCHANGED row
    BY <1>11 DEF DebitReceive, ApprovalGate, SecretMissing, At, svars
  <2>2. row'[e] # "absent"  BY <1>1, <2>1 DEF RequestOK
  <2>3. Goto(z, t, "gate") \/ Goto(z, t, "block") \/ Goto(z, t, "issue")
    BY <1>11 DEF DebitReceive, ApprovalGate, SecretMissing
  <2>4. QED  BY <1>1, <2>1, <2>2, <2>3, RequestGoesOn
<1>12. CASE MarkBlocked(z, t)
  <2>1. req[z][t].pc = "block" /\ work'[z][t] = work[z][t] /\ Goto(z, t, "xack")
    BY <1>12 DEF MarkBlocked, At, svars
  <2>2. e \in Events /\ row[e] # "absent"  BY <1>1, <2>1 DEF RequestOK
  <2>3. row' = IF row[e] = "received" THEN [row EXCEPT ![e] = "gate_blocked"] ELSE row
    BY <1>12 DEF MarkBlocked
  <2>4. row'[e] \in {"processed", "gate_blocked"}  BY <2>2, <2>3 DEF DeliveryTypeOK
  <2>5. Terminal(e)'
    <3>1. e' = e  BY <2>1 DEF EventOf
    <3>2. QED  BY <2>4, <3>1 DEF Terminal
  <2>6. QED  BY <1>1, <2>1, <2>4, <2>5, RequestGoesOn
<1>13. CASE RequestXAck(z, t)
  <2>1. req[z][t].pc \in {"xack", "reack"} /\ work'[z][t] = work[z][t] /\ Goto(z, t, "release") /\ UNCHANGED row
    BY <1>13 DEF RequestXAck, svars
  <2>2. row'[e] # "absent"  BY <1>1, <2>1 DEF RequestOK
  <2>3. QED  BY <1>1, <2>1, <2>2, RequestGoesOn
<1>14. CASE PollStamp(z, t)
  <2>1. UNCHANGED <<req, row>> /\ req[z][t].pc = "issue"  BY <1>14 DEF PollStamp, At, evars
  <2>2. work'[z][t].stage = "stamped" /\ work'[z][t].event = work[z][t].event
    BY <1>2, <1>14 DEF PollStamp, StampLease, Requests
  <2>3. QED  BY <1>1, <2>1, <2>2 DEF RequestOK, EventOf
<1>15. CASE PollIssue(z, t) \/ PollAbandon(z, t) \/ PollDies(z, t)
  BY <1>3, <1>4, <1>15 DEF PollIssue, PollAbandon, PollDies
<1>16. QED
  BY <1>5, <1>6, <1>7, <1>8, <1>9, <1>10, <1>11, <1>12, <1>13, <1>14, <1>15 DEF Poll

\* A won claim starts a request of its own.
LEMMA ClaimRequest ==
    ASSUME DeliveryInv, NEW z \in Zombies, NEW r \in Runners, NEW i \in Instances, PollClaim(z, r, i)
    PROVE  \E t \in Tokens :
             /\ req'[z][t] = [inst |-> i, pc |-> "select", first |-> FALSE]
             /\ req' = [req EXCEPT ![z][t] = [inst |-> i, pc |-> "select", first |-> FALSE]]
             /\ work'[z][t].stage = "claimed"
             /\ \A y \in Zombies, u \in Tokens :
                  y # z \/ u # t => req'[y][u] = req[y][u] /\ work'[y][u] = work[y][u]
<1> DEFINE t == slot[z].seq + 1
<1>1. SlotTypeOK /\ req \in [Zombies -> [Tokens -> RequestPoints]]
  BY DEF DeliveryInv, SlotInv, DeliveryTypeOK
<1>2. slot[z] \in Slots /\ Claim(z, r)  BY <1>1, CellTypes DEF PollClaim, SlotTypeOK
<1>3. t \in Tokens  BY <1>2, SlotAssumption DEF Claim, Slots, Tokens
<1>4. slot'[z].seq = t  BY <1>1, <1>2 DEF Claim, SlotTypeOK
<1>5. req' = [req EXCEPT ![z][t] = [inst |-> i, pc |-> "select", first |-> FALSE]]
  BY <1>4 DEF PollClaim
<1>6. \E w : work' = [work EXCEPT ![z][t] = w] /\ w.stage = "claimed"
  <2> DEFINE w == [stage |-> "claimed", runner |-> r, until |-> now + LeaseTTL,
                   event |-> NoEvent, kind |-> "fresh", at |-> 0]
  <2>1. work' = [work EXCEPT ![z][t] = w]  BY <1>2 DEF Claim
  <2>2. w.stage = "claimed"  OBVIOUS
  <2> HIDE DEF w
  <2>3. QED  BY <2>1, <2>2
<1> HIDE DEF t
<1>7. req'[z][t] = [inst |-> i, pc |-> "select", first |-> FALSE]  BY <1>1, <1>3, <1>5
<1>8. \A y \in Zombies, u \in Tokens : y # z \/ u # t => req'[y][u] = req[y][u]  BY <1>1, <1>3, <1>5
<1>9. \A y \in Zombies, u \in Tokens : y # z \/ u # t => work'[y][u] = work[y][u]
  BY <1>1, <1>3, <1>6 DEF SlotTypeOK
<1>10. work'[z][t].stage = "claimed"  BY <1>1, <1>3, <1>6 DEF SlotTypeOK
<1>11. QED  BY <1>3, <1>5, <1>7, <1>8, <1>9, <1>10

\* The other steps move no request.
LEMMA RequestsStill ==
    ASSUME DeliveryNext,
           ~\E z \in Zombies, r \in Runners, i \in Instances : PollClaim(z, r, i),
           ~\E z \in Zombies, t \in Tokens : Poll(z, t)
    PROVE  UNCHANGED <<req, work, debits>>
<1>1. ASSUME NEW z \in Zombies, NEW t \in Tokens, RenewLease(z, t) \/ Report(z, t) \/ Finalize(z, t)
      PROVE  UNCHANGED <<req, work, debits>>
  BY <1>1 DEF RenewLease, Renew, Report, ClaimReport, Finalize, MarkTerminal, Checkpoint, ReportXAck,
     ReportRelease, ReleaseReported, ReportDies, DropReport, evars, svars
<1>2. CASE Time \/ (\E e \in Events : XAdd(e)) \/ (\E e \in Events, i \in Instances : SweepStray(e, i))
           \/ (\E r \in SweptRunners : SweepSlots(r))
  BY <1>2 DEF Time, Tick, XAdd, SweepStray, SweepSlots, ExpireActiveLeaseSlots, evars, svars
<1>3. QED  BY <1>1, <1>2 DEF DeliveryNext

\* The requests stay right.
LEMMA RequestsStep == ASSUME DeliveryInv, DeliveryNext PROVE RequestsOK'
<1>1. RowsMove  BY RowStep
<1>2. ASSUME NEW y \in Zombies, NEW u \in Tokens, req'[y][u] = req[y][u], work'[y][u] = work[y][u]
      PROVE  RequestOK(y, u)'
  BY <1>1, <1>2, RequestKept DEF DeliveryInv, RequestsOK
<1>3. ASSUME NEW z \in Zombies, NEW t \in Tokens, Poll(z, t)  PROVE  RequestsOK'
  BY <1>2, <1>3, PollRequest, OneRequest DEF RequestsOK
<1>4. ASSUME NEW z \in Zombies, NEW r \in Runners, NEW i \in Instances, PollClaim(z, r, i)
      PROVE  RequestsOK'
  <2>1. PICK t \in Tokens :
          /\ req'[z][t] = [inst |-> i, pc |-> "select", first |-> FALSE]
          /\ \A y \in Zombies, u \in Tokens :
               y # z \/ u # t => req'[y][u] = req[y][u] /\ work'[y][u] = work[y][u]
    BY <1>4, ClaimRequest
  <2>2. RequestOK(z, t)'  BY <2>1 DEF RequestOK
  <2>3. QED  BY <1>2, <2>1, <2>2 DEF RequestsOK
<1>5. QED  BY <1>2, <1>3, <1>4, RequestsStill DEF RequestsOK

(***************************************************************************)
(* The charge.                                                             *)
(***************************************************************************)
\* Nothing new is to be charged.
LEMMA ChargeKept ==
    ASSUME ChargePending, DebitedOnce, RowsMove, UNCHANGED debits,
           \A z \in Zombies, t \in Tokens : Paying(z, t)' => Paying(z, t) /\ EventOf(z, t)' = EventOf(z, t)
    PROVE  ChargePending' /\ DebitedOnce'
<1>1. \A e \in Events : row'[e] = "absent" => debits'[e] = 0  BY DEF RowsMove, ChargePending
<1>2. \A z \in Zombies, t \in Tokens : Paying(z, t)' => debits'[EventOf(z, t)'] = 0  BY DEF ChargePending
<1>3. ASSUME NEW z \in Zombies, NEW t \in Tokens, NEW u \in Tokens,
             Paying(z, t)', Paying(z, u)', EventOf(z, t)' = EventOf(z, u)'
      PROVE  t = u
  <2>1. Paying(z, t) /\ Paying(z, u) /\ EventOf(z, t) = EventOf(z, u)  BY <1>3
  <2>2. QED  BY <2>1 DEF ChargePending
<1>4. DebitedOnce'  BY DEF DebitedOnce
<1>5. ChargePending'  BY <1>1, <1>2, <1>3 DEF ChargePending
<1>6. QED  BY <1>4, <1>5

\* A request that pays carries an event of its zombie that has a row.
LEMMA PayingEvent ==
    ASSUME RequestsOK, NEW z \in Zombies, NEW t \in Tokens, Paying(z, t)
    PROVE  EventOf(z, t) \in Events /\ Home[EventOf(z, t)] = z /\ row[EventOf(z, t)] # "absent"
BY DEF RequestsOK, RequestOK, Paying

\* Only the insert that makes the row takes on a charge, and only the charge
\* itself charges.
LEMMA PollCharge ==
    ASSUME DeliveryInv, DeliveryNext, NEW z \in Zombies, NEW t \in Tokens, Poll(z, t)
    PROVE  ChargePending' /\ DebitedOnce'
<1> USE DEF DeliveryInv
<1> DEFINE e == EventOf(z, t)
<1>1. RowsMove /\ RequestOK(z, t)  BY RowStep DEF RequestsOK
<1>2. \A y \in Zombies, u \in Tokens :
        y # z \/ u # t => (Paying(y, u)' <=> Paying(y, u)) /\ EventOf(y, u)' = EventOf(y, u)
  BY OneRequest DEF Paying, EventOf
<1>3. ASSUME UNCHANGED debits, Paying(z, t)' => Paying(z, t) /\ EventOf(z, t)' = EventOf(z, t)
      PROVE  ChargePending' /\ DebitedOnce'
  BY <1>1, <1>2, <1>3, ChargeKept
<1>4. ASSUME NEW point, Goto(z, t, point), point \notin {"resolve", "debit"}, UNCHANGED debits
      PROVE  ChargePending' /\ DebitedOnce'
  <2>1. ~Paying(z, t)'  BY <1>4, GotoEffect DEF Paying
  <2>2. QED  BY <1>3, <1>4, <2>1
<1>5. CASE PollFree(z, t)
  <2>1. UNCHANGED <<req, debits>> /\ work[z][t].stage = "claimed"
    BY <1>5 DEF PollFree, NoPriorActive, evars
  <2>2. ~Paying(z, t)'  BY <1>1, <2>1 DEF RequestOK, Paying
  <2>3. QED  BY <1>3, <2>1, <2>2
<1>6. CASE PollStamp(z, t)
  <2>1. UNCHANGED <<req, debits>> /\ req[z][t].pc = "issue"  BY <1>6 DEF PollStamp, At, evars
  <2>2. ~Paying(z, t)'  BY <2>1 DEF Paying
  <2>3. QED  BY <1>3, <2>1, <2>2
<1>7. CASE PollIssue(z, t) \/ PollAbandon(z, t) \/ PollDies(z, t)
  <2>1. req'[z][t] = Idle /\ UNCHANGED debits
    BY <1>7 DEF PollIssue, PollAbandon, PollDies, DeliveryTypeOK
  <2>2. ~Paying(z, t)'  BY <2>1 DEF Paying, Idle
  <2>3. QED  BY <1>3, <2>1, <2>2
<1>8. CASE PollReclaim(z, t) \/ ApprovalGate(z, t) \/ SecretMissing(z, t) \/ MarkBlocked(z, t)
           \/ RequestXAck(z, t) \/ \E d \in Events : ReadEvent(z, t, d)
  BY <1>4, <1>8 DEF PollReclaim, ApprovalGate, SecretMissing, MarkBlocked, RequestXAck, ReadEvent
<1>9. CASE Classify(z, t)
  <2>1. req[z][t].pc = "classify" /\ UNCHANGED debits  BY <1>9 DEF Classify, At
  <2>2. \E point : Goto(z, t, point)  BY <1>9 DEF Classify
  <2>3. req'[z][t].first = req[z][t].first /\ ~req[z][t].first
    BY <1>1, <2>1, <2>2, GotoEffect DEF RequestOK
  <2>4. ~Paying(z, t)'  BY <2>3 DEF Paying
  <2>5. QED  BY <1>3, <2>1, <2>4
<1>10. CASE ResolveAndGate(z, t)
  <2>1. req[z][t].pc = "resolve" /\ UNCHANGED <<debits, work>>  BY <1>10 DEF ResolveAndGate, At, svars
  <2>2. \E point : Goto(z, t, point)  BY <1>10 DEF ResolveAndGate
  <2>3. req'[z][t].first = req[z][t].first  BY <2>2, GotoEffect
  <2>4. QED  BY <1>3, <2>1, <2>3 DEF Paying, EventOf
<1>11. CASE InsertReceived(z, t)
  <2>1. UNCHANGED <<debits, work>> /\ req[z][t].pc = "insert"  BY <1>11 DEF InsertReceived, At, svars
  <2>2. e \in Events /\ Home[e] = z  BY <1>1, <2>1 DEF RequestOK
  <2>3. CASE Goto(z, t, "classify")
    BY <1>4, <2>1, <2>3
  <2>4. CASE row[e] = "absent"
    <3>1. \A y \in Zombies, u \in Tokens : Paying(y, u) => EventOf(y, u) # e
      BY <2>4, PayingEvent
    <3>2. debits[e] = 0  BY <2>2, <2>4 DEF ChargePending
    <3>3. EventOf(z, t)' = e  BY <2>1 DEF EventOf
    <3> HIDE DEF e
    <3>4. \A d \in Events : row'[d] = "absent" => debits'[d] = 0  BY <1>1, <2>1 DEF RowsMove, ChargePending
    <3>5. ASSUME NEW y \in Zombies, NEW u \in Tokens, Paying(y, u)'  PROVE  debits'[EventOf(y, u)'] = 0
      BY <1>2, <2>1, <3>2, <3>3, <3>5 DEF ChargePending
    <3>6. ASSUME NEW y \in Zombies, NEW u \in Tokens, NEW v \in Tokens,
                 Paying(y, u)', Paying(y, v)', EventOf(y, u)' = EventOf(y, v)'
          PROVE  u = v
      <4>1. CASE y = z /\ u = t  BY <1>2, <3>1, <3>3, <3>6, <4>1
      <4>2. CASE y = z /\ v = t  BY <1>2, <3>1, <3>3, <3>6, <4>2
      <4>3. CASE y # z \/ (u # t /\ v # t)
        <5>1. Paying(y, u) /\ Paying(y, v) /\ EventOf(y, u) = EventOf(y, v)  BY <1>2, <3>6, <4>3
        <5>2. QED  BY <5>1 DEF ChargePending
      <4>4. QED  BY <4>1, <4>2, <4>3
    <3>7. DebitedOnce'  BY <2>1 DEF DebitedOnce
    <3>8. ChargePending'  BY <3>4, <3>5, <3>6 DEF ChargePending
    <3>9. QED  BY <3>7, <3>8
  <2>5. QED  BY <1>11, <2>3, <2>4 DEF InsertReceived
<1>12. CASE DebitReceive(z, t)
  <2>1. UNCHANGED <<work, row>> /\ req[z][t].pc = "debit"  BY <1>12 DEF DebitReceive, At, svars
  <2>2. e \in Events /\ Home[e] = z /\ Paying(z, t) /\ row[e] # "absent"
    BY <1>1, <2>1 DEF RequestOK, Paying
  <2>3. CASE UNCHANGED debits /\ Goto(z, t, "block")
    BY <1>4, <2>3
  <2>4. CASE debits' = [debits EXCEPT ![e] = @ + 1] /\ Goto(z, t, "gate")
    <3>1. ~Paying(z, t)'  BY <2>4, GotoEffect DEF Paying
    <3>2. debits[e] = 0  BY <2>2 DEF ChargePending
    <3>3. /\ debits'[e] = 1
          /\ \A d \in Events \ {e} : debits'[d] = debits[d]
      BY <2>2, <2>4, <3>2 DEF DeliveryTypeOK
    <3> HIDE DEF e
    <3>4. \A d \in Events : row'[d] = "absent" => debits'[d] = 0
      BY <2>1, <2>2, <3>3 DEF ChargePending
    <3>5. ASSUME NEW y \in Zombies, NEW u \in Tokens, Paying(y, u)'
          PROVE  /\ Paying(y, u) /\ EventOf(y, u)' = EventOf(y, u) /\ debits'[EventOf(y, u)'] = 0
      <4>1. y # z \/ u # t  BY <3>1, <3>5
      <4>2. Paying(y, u) /\ EventOf(y, u)' = EventOf(y, u)  BY <1>2, <3>5, <4>1
      <4>3. EventOf(y, u) \in Events /\ Home[EventOf(y, u)] = y  BY <4>2, PayingEvent
      <4>4. EventOf(y, u) # e
        <5>1. CASE y # z  BY <2>2, <4>3, <5>1
        <5>2. CASE y = z  BY <2>2, <4>1, <4>2, <5>2 DEF ChargePending, e
        <5>3. QED  BY <5>1, <5>2
      <4>5. debits[EventOf(y, u)] = 0  BY <4>2 DEF ChargePending
      <4>6. QED  BY <3>3, <4>2, <4>3, <4>4, <4>5
    <3>6. ASSUME NEW y \in Zombies, NEW u \in Tokens, NEW v \in Tokens,
                 Paying(y, u)', Paying(y, v)', EventOf(y, u)' = EventOf(y, v)'
          PROVE  u = v
      <4>1. Paying(y, u) /\ Paying(y, v) /\ EventOf(y, u) = EventOf(y, v)  BY <3>5, <3>6
      <4>2. QED  BY <4>1 DEF ChargePending
    <3>7. DebitedOnce'  BY <3>3 DEF DebitedOnce
    <3>8. ChargePending'  BY <3>4, <3>5, <3>6 DEF ChargePending
    <3>9. QED  BY <3>7, <3>8
  <2>5. QED  BY <1>12, <2>3, <2>4 DEF DebitReceive
<1>13. QED  BY <1>5, <1>6, <1>7, <1>8, <1>9, <1>10, <1>11, <1>12 DEF Poll

\* No other step has to do with the charge.
LEMMA ChargeStep == ASSUME DeliveryInv, DeliveryNext PROVE ChargePending' /\ DebitedOnce'
<1>1. RowsMove  BY RowStep
<1>2. ASSUME NEW z \in Zombies, NEW r \in Runners, NEW i \in Instances, PollClaim(z, r, i)
      PROVE  ChargePending' /\ DebitedOnce'
  <2>1. UNCHANGED debits  BY <1>2 DEF PollClaim
  <2>2. PICK t \in Tokens :
          /\ req'[z][t] = [inst |-> i, pc |-> "select", first |-> FALSE]
          /\ \A y \in Zombies, u \in Tokens :
               y # z \/ u # t => req'[y][u] = req[y][u] /\ work'[y][u] = work[y][u]
    BY <1>2, ClaimRequest
  <2>3. \A y \in Zombies, u \in Tokens : Paying(y, u)' => Paying(y, u) /\ EventOf(y, u)' = EventOf(y, u)
    BY <2>2 DEF Paying, EventOf
  <2>4. QED  BY <1>1, <2>1, <2>3, ChargeKept DEF DeliveryInv
<1>3. CASE UNCHANGED <<req, work, debits>>
  <2>1. \A y \in Zombies, u \in Tokens : Paying(y, u)' => Paying(y, u) /\ EventOf(y, u)' = EventOf(y, u)
    BY <1>3 DEF Paying, EventOf
  <2>2. QED  BY <1>1, <1>3, <2>1, ChargeKept DEF DeliveryInv
<1>4. QED  BY <1>2, <1>3, PollCharge, RequestsStill

(***************************************************************************)
(* The types.                                                              *)
(***************************************************************************)
\* The stream entries keep their type.
LEMMA EntriesTyped == ASSUME DeliveryInv, DeliveryNext PROVE entry' \in [Events -> Entries]
<1>1. entry \in [Events -> Entries] /\ req \in [Zombies -> [Tokens -> RequestPoints]]
      /\ now \in 0..MaxTime /\ MaxTime \in Nat
  BY SlotAssumption DEF DeliveryInv, DeliveryTypeOK, SlotInv, SlotTypeOK
<1>2. ASSUME NEW d, Ack(d)  PROVE  entry' \in [Events -> Entries]
  <2> DEFINE gone == [st |-> "acked", owner |-> NoInstance, at |-> 0]
  <2>1. gone \in Entries  BY <1>1 DEF Entries
  <2>2. entry' = [entry EXCEPT ![d] = gone] \/ UNCHANGED entry  BY <1>2 DEF Ack
  <2> HIDE DEF gone
  <2>3. QED  BY <1>1, <2>1, <2>2
<1>3. ASSUME NEW z \in Zombies, NEW t \in Tokens, NEW e \in Events, ReadEvent(z, t, e)
      PROVE  entry' \in [Events -> Entries]
  <2>1. req[z][t].inst \in Instances \union {NoInstance}  BY <1>1 DEF RequestPoints
  <2>2. entry' = [entry EXCEPT ![e] = [st |-> "pending", owner |-> req[z][t].inst, at |-> now]]
    BY <1>3 DEF ReadEvent
  <2>3. QED  BY <1>1, <2>1, <2>2 DEF Entries
<1>4. ASSUME NEW z \in Zombies, NEW t \in Tokens,
             Poll(z, t) \/ RenewLease(z, t) \/ Report(z, t) \/ Finalize(z, t),
             ~RequestXAck(z, t), ~ReportXAck(z, t), ~\E d \in Events : ReadEvent(z, t, d)
      PROVE  UNCHANGED entry
  BY <1>4 DEF Poll, PollReclaim, PollFree, InsertReceived, Classify, ResolveAndGate, DebitReceive,
     ApprovalGate, SecretMissing, MarkBlocked, PollStamp, PollIssue, PollAbandon, PollDies,
     RenewLease, Report, Finalize, MarkTerminal, Checkpoint, ReportRelease, ReportDies, evars
<1>5. ASSUME NEW z \in Zombies, NEW t \in Tokens, RequestXAck(z, t) \/ ReportXAck(z, t)
      PROVE  entry' \in [Events -> Entries]
  <2>1. UNCHANGED entry \/ \E d : Ack(d)  BY <1>5 DEF RequestXAck, ReportXAck
  <2>2. QED  BY <1>1, <1>2, <2>1
<1>6. ASSUME NEW e \in Events, XAdd(e)  PROVE  entry' \in [Events -> Entries]
  BY <1>1, <1>6 DEF XAdd, Entries
<1>7. ASSUME NEW e \in Events, NEW i \in Instances, SweepStray(e, i)  PROVE  entry' \in [Events -> Entries]
  BY <1>1, <1>7 DEF SweepStray, Entries
<1>8. CASE Time \/ (\E r \in SweptRunners : SweepSlots(r))
           \/ \E z \in Zombies, r \in Runners, i \in Instances : PollClaim(z, r, i)
  <2>1. UNCHANGED entry  BY <1>8 DEF Time, SweepSlots, PollClaim, evars
  <2>2. QED  BY <1>1, <2>1
<1>9. QED  BY <1>1, <1>3, <1>4, <1>5, <1>6, <1>7, <1>8 DEF DeliveryNext

\* The requests keep theirs.
LEMMA RequestsTyped == ASSUME DeliveryInv, DeliveryNext PROVE req' \in [Zombies -> [Tokens -> RequestPoints]]
<1>1. req \in [Zombies -> [Tokens -> RequestPoints]] /\ DeliveryTypeOK  BY DEF DeliveryInv, DeliveryTypeOK
<1>2. ASSUME NEW z \in Zombies, NEW t \in Tokens, NEW c \in RequestPoints, req' = [req EXCEPT ![z][t] = c]
      PROVE  req' \in [Zombies -> [Tokens -> RequestPoints]]
  BY <1>1, <1>2
<1>3. ASSUME NEW z \in Zombies, NEW t \in Tokens,
             NEW point \in {"classify", "resolve", "debit", "gate", "issue", "block", "xack", "reack", "release",
                           "insert"},
             Goto(z, t, point)
      PROVE  req' \in [Zombies -> [Tokens -> RequestPoints]]
  <2> DEFINE c == [req[z][t] EXCEPT !.pc = point]
  <2>1. c \in RequestPoints
    <3>1. req[z][t] \in RequestPoints  BY <1>1
    <3>2. c = [inst |-> req[z][t].inst, pc |-> point, first |-> req[z][t].first]
      BY <3>1 DEF RequestPoints
    <3>3. QED  BY <3>1, <3>2 DEF RequestPoints
  <2>2. req' = [req EXCEPT ![z][t] = c]  BY <1>1, <1>3 DEF Goto
  <2> HIDE DEF c
  <2>3. QED  BY <1>2, <2>1, <2>2
<1>4. ASSUME NEW z \in Zombies, NEW t \in Tokens,
             req' = [req EXCEPT ![z][t].pc = "resolve", ![z][t].first = TRUE]
      PROVE  req' \in [Zombies -> [Tokens -> RequestPoints]]
  <2> DEFINE d == [req[z][t] EXCEPT !.pc = "resolve"]
             c == [d EXCEPT !.first = TRUE]
  <2>1. req' = [req EXCEPT ![z][t] = c]  BY <1>1, <1>4
  <2>2. d \in RequestPoints
    <3>1. req[z][t] \in RequestPoints  BY <1>1
    <3>2. d = [inst |-> req[z][t].inst, pc |-> "resolve", first |-> req[z][t].first]
      BY <3>1 DEF RequestPoints
    <3>3. QED  BY <3>1, <3>2 DEF RequestPoints
  <2>3. ASSUME NEW p \in RequestPoints, NEW b \in BOOLEAN  PROVE [p EXCEPT !.first = b] \in RequestPoints
    <3>1. [p EXCEPT !.first = b] = [inst |-> p.inst, pc |-> p.pc, first |-> b]
      BY <2>3 DEF RequestPoints
    <3>2. QED  BY <2>3, <3>1 DEF RequestPoints
  <2> HIDE DEF d
  <2>4. c \in RequestPoints  BY <2>2, <2>3
  <2> HIDE DEF c
  <2>5. QED  BY <1>2, <2>1, <2>4
<1>5. ASSUME NEW z \in Zombies, NEW t \in Tokens, Poll(z, t)
      PROVE  req' \in [Zombies -> [Tokens -> RequestPoints]]
  <2>1. CASE PollFree(z, t) \/ PollStamp(z, t)
    BY <1>1, <2>1 DEF PollFree, PollStamp, evars
  <2>2. CASE PollIssue(z, t) \/ PollAbandon(z, t) \/ PollDies(z, t)
    <3>1. Idle \in RequestPoints  BY DEF Idle, RequestPoints
    <3>2. QED  BY <1>2, <2>2, <3>1 DEF PollIssue, PollAbandon, PollDies
  <2>3. CASE InsertReceived(z, t)
    BY <1>3, <1>4, <2>3 DEF InsertReceived
  <2>4. CASE PollReclaim(z, t) \/ Classify(z, t) \/ ResolveAndGate(z, t) \/ DebitReceive(z, t)
             \/ ApprovalGate(z, t) \/ SecretMissing(z, t) \/ MarkBlocked(z, t) \/ RequestXAck(z, t)
             \/ \E e \in Events : ReadEvent(z, t, e)
    BY <1>3, <2>4 DEF PollReclaim, Classify, ResolveAndGate, DebitReceive, ApprovalGate, SecretMissing,
       MarkBlocked, RequestXAck, ReadEvent
  <2>5. QED  BY <1>5, <2>1, <2>2, <2>3, <2>4 DEF Poll
<1>6. ASSUME NEW z \in Zombies, NEW r \in Runners, NEW i \in Instances, PollClaim(z, r, i)
      PROVE  req' \in [Zombies -> [Tokens -> RequestPoints]]
  <2>1. [inst |-> i, pc |-> "select", first |-> FALSE] \in RequestPoints  BY DEF RequestPoints
  <2>2. PICK t \in Tokens : req' = [req EXCEPT ![z][t] = [inst |-> i, pc |-> "select", first |-> FALSE]]
    BY <1>6, ClaimRequest
  <2>3. QED  BY <1>2, <2>1, <2>2
<1>7. QED  BY <1>1, <1>5, <1>6, RequestsStill

\* The rows of the events, the charges, the finalizes and the cursors keep theirs.
LEMMA RestTyped ==
    ASSUME DeliveryInv, DeliveryNext
    PROVE  /\ row' \in [Events -> {"absent", "received", "processed", "gate_blocked"}]
           /\ debits' \in [Events -> Nat]
           /\ fin' \in [Zombies -> [Tokens -> {"none", "terminal", "checkpoint", "xack", "release"}]]
           /\ ckpt' \in [Zombies -> Events \union {NoEvent}]
<1> DEFINE R == row' \in [Events -> {"absent", "received", "processed", "gate_blocked"}]
           D == debits' \in [Events -> Nat]
           F == fin' \in [Zombies -> [Tokens -> {"none", "terminal", "checkpoint", "xack", "release"}]]
           C == ckpt' \in [Zombies -> Events \union {NoEvent}]
<1> USE DEF DeliveryInv, DeliveryTypeOK
<1>1. ASSUME NEW z \in Zombies, NEW t \in Tokens, Poll(z, t)  PROVE  R /\ D /\ F /\ C
  <2>1. UNCHANGED <<fin, ckpt>>
    BY <1>1 DEF Poll, PollReclaim, PollFree, ReadEvent, InsertReceived, Classify, ResolveAndGate, DebitReceive,
       ApprovalGate, SecretMissing, MarkBlocked, RequestXAck, PollStamp, PollIssue, PollAbandon, PollDies, evars
  <2>2. UNCHANGED row \/ \E e : row' \in {[row EXCEPT ![e] = "received"], [row EXCEPT ![e] = "gate_blocked"]}
    BY <1>1 DEF Poll, PollReclaim, PollFree, ReadEvent, InsertReceived, Classify, ResolveAndGate, DebitReceive,
       ApprovalGate, SecretMissing, MarkBlocked, RequestXAck, PollStamp, PollIssue, PollAbandon, PollDies, evars
  <2>3. UNCHANGED debits \/ \E e : debits' = [debits EXCEPT ![e] = @ + 1]
    BY <1>1 DEF Poll, PollReclaim, PollFree, ReadEvent, InsertReceived, Classify, ResolveAndGate, DebitReceive,
       ApprovalGate, SecretMissing, MarkBlocked, RequestXAck, PollStamp, PollIssue, PollAbandon, PollDies, evars
  <2>4. R  BY <2>2
  <2>5. D  BY <2>3
  <2>6. QED  BY <2>1, <2>4, <2>5
<1>2. ASSUME NEW z \in Zombies, NEW t \in Tokens, RenewLease(z, t)  PROVE  R /\ D /\ F /\ C
  BY <1>2 DEF RenewLease, evars
<1>3. ASSUME NEW z \in Zombies, NEW t \in Tokens, Report(z, t)  PROVE  R /\ D /\ F /\ C
  BY <1>3 DEF Report
<1>4. ASSUME NEW z \in Zombies, NEW t \in Tokens, Finalize(z, t)  PROVE  R /\ D /\ F /\ C
  <2>1. UNCHANGED debits
    BY <1>4 DEF Finalize, MarkTerminal, Checkpoint, ReportXAck, ReportRelease, ReportDies
  <2>2. UNCHANGED row \/ \E e : row' = [row EXCEPT ![e] = "processed"]
    BY <1>4 DEF Finalize, MarkTerminal, Checkpoint, ReportXAck, ReportRelease, ReportDies
  <2>3. \E p \in {"none", "checkpoint", "xack", "release"} : fin' = [fin EXCEPT ![z][t] = p]
    BY <1>4 DEF Finalize, MarkTerminal, Checkpoint, ReportXAck, ReportRelease, ReportDies, FinGoto
  <2>4. UNCHANGED ckpt \/ ckpt' = [ckpt EXCEPT ![z] = lease[z][t].event]
    BY <1>4 DEF Finalize, MarkTerminal, Checkpoint, ReportXAck, ReportRelease, ReportDies
  <2>5. lease[z][t].event \in Events \union {NoEvent}  BY CellTypes DEF SlotInv, LeaseRows
  <2>6. R /\ D  BY <2>1, <2>2
  <2>7. F  BY <2>3
  <2>8. C  BY <2>4, <2>5
  <2>9. QED  BY <2>6, <2>7, <2>8
<1>5. CASE Time \/ (\E e \in Events : XAdd(e)) \/ (\E e \in Events, i \in Instances : SweepStray(e, i))
           \/ (\E r \in SweptRunners : SweepSlots(r))
           \/ \E z \in Zombies, r \in Runners, i \in Instances : PollClaim(z, r, i)
  BY <1>5 DEF Time, XAdd, SweepStray, SweepSlots, PollClaim, evars
<1>6. QED  BY <1>1, <1>2, <1>3, <1>4, <1>5 DEF DeliveryNext

(***************************************************************************)
(* The theorems.                                                           *)
(***************************************************************************)
\* Every step keeps the invariant, and every terminal row.
LEMMA DeliveryStep == DeliveryInv /\ [DeliveryNext]_vars => DeliveryInv' /\ RowsMove
<1> SUFFICES ASSUME DeliveryInv, [DeliveryNext]_vars  PROVE  DeliveryInv' /\ RowsMove
  OBVIOUS
<1>1. CASE DeliveryNext
  <2>1. SlotInv'  BY <1>1, SlotSteps, NextInv DEF DeliveryInv
  <2>2. DeliveryTypeOK'  BY <1>1, EntriesTyped, RequestsTyped, RestTyped DEF DeliveryTypeOK
  <2>3. QED
    BY <1>1, <2>1, <2>2, RequestsStep, LeasesStep, FinsStep, ChargeStep, AckStep, RowStep DEF DeliveryInv
<1>2. CASE UNCHANGED vars
  <2>1. SlotInv'
    <3>1. UNCHANGED svars  BY <1>2 DEF vars
    <3>2. QED  BY <3>1, NextInv DEF DeliveryInv
  <2>2. DeliveryTypeOK' /\ DebitedOnce' /\ RowsMove /\ FinsOK' /\ LeasesOK'
    BY <1>2 DEF vars, svars, evars, DeliveryInv, DeliveryTypeOK, DebitedOnce, RowsMove, FinsOK, FinOK, LeasesOK,
       LeaseOK
  <2>3. RequestsOK' /\ ChargePending'
    BY <1>2 DEF vars, svars, evars, DeliveryInv, RequestsOK, RequestOK, ChargePending, Paying, EventOf, Terminal
  <2>4. AckedMeansSettled'
    BY <1>2 DEF vars, svars, evars, DeliveryInv, AckedMeansSettled, Terminal, Settled, LeasedFor
  <2>5. QED  BY <2>1, <2>2, <2>3, <2>4 DEF DeliveryInv
<1>3. QED  BY <1>1, <1>2

\* The invariant of the delivery, with that of the slot, holds whatever fails.
THEOREM DeliveryKeepsInv == DeliverySpec => []DeliveryInv
<1>1. DeliveryInit => DeliveryInv  BY DeliveryStart
<1>2. DeliveryInv /\ [DeliveryNext]_vars => DeliveryInv'  BY DeliveryStep
<1>3. QED  BY <1>1, <1>2, PTL DEF DeliverySpec

\* Billing, streams and event rows add nothing to what may happen to a slot:
\* what AffinitySlotProofs shows of slots and lease rows holds of every request,
\* report and sweep that goes through them (service.zig, service_report.zig).
THEOREM DeliveryImplementsSlot == DeliverySpec => SlotSpec
<1>1. DeliveryInit => SlotInit  BY DEF DeliveryInit
<1>2. [DeliveryNext]_vars => [SlotNext]_svars
  <2>1. UNCHANGED vars => UNCHANGED svars  BY DEF vars
  <2>2. QED  BY <2>1, SlotSteps
<1>3. QED  BY <1>1, <1>2, PTL DEF DeliverySpec, SlotSpec

\* The variables of the delivery keep their types.
THEOREM DeliveryTyped == DeliverySpec => []DeliveryTypeOK
<1>1. DeliveryInv => DeliveryTypeOK  BY DEF DeliveryInv
<1>2. QED  BY <1>1, DeliveryKeepsInv, PTL

\* No event is acked before its row is terminal or a report of it is accepted,
\* whatever statement fails and whichever handler dies (blockEvent, finalize,
\* the terminal re-ack of runBilling).
THEOREM AckedEventsHaveOutcome == DeliverySpec => []AckedMeansSettled
<1>1. DeliveryInv => AckedMeansSettled  BY DEF DeliveryInv
<1>2. QED  BY <1>1, DeliveryKeepsInv, PTL

\* No event is charged twice: only the insert that makes its row takes on the
\* charge, through every redelivery, takeover and crash (insertReceivedRow).
THEOREM EventsChargedOnce == DeliverySpec => []DebitedOnce
<1>1. DeliveryInv => DebitedOnce  BY DEF DeliveryInv
<1>2. QED  BY <1>1, DeliveryKeepsInv, PTL

\* A terminal row is final, for a late report and a racing refusal alike
\* (markTerminal, markBlocked).
THEOREM TerminalRowsAreFinal == DeliverySpec => TerminalIsFinal
<1>1. DeliveryInv /\ [DeliveryNext]_vars
        => [\A e \in Events : Terminal(e) => row'[e] = row[e]]_vars
  BY DeliveryStep DEF RowsMove
<1>2. QED  BY <1>1, DeliveryKeepsInv, PTL DEF DeliverySpec, TerminalIsFinal

-------------------------------------------------------------------------------
\* Event e was delivered to the consumer group.
Delivered(e) == entry[e].st \in {"pending", "acked"}

\* A zombie's events are published, and delivered to the group, in the order
\* of their ids.
StreamInOrder ==
    \A e, d \in Events :
        Home[d] = Home[e] /\ d < e =>
            /\ entry[e].st # "absent" => entry[d].st # "absent"
            /\ Delivered(e) => Delivered(d)

\* Event d is out of the way of this request: acked, another instance's, or
\* on this one's list only since the request's claim.
Passed(d, z, t) ==
    /\ Delivered(d)
    /\ entry[d].st = "pending" =>
         \/ entry[d].owner # req[z][t].inst
         \/ entry[d].at >= work[z][t].until - LeaseTTL

\* A request that read its event passed every earlier one.
ReadInOrder ==
    \A z \in Zombies, t \in Tokens :
        work[z][t].stage \in {"acquired", "stamped"} /\ work[z][t].kind = "fresh" =>
            \A d \in Events : Home[d] = z /\ d < EventOf(z, t) => Passed(d, z, t)

OrderInv == StreamInOrder /\ ReadInOrder

\* The steps that move a stream entry.
LEMMA EntryMoves ==
    ASSUME DeliveryNext
    PROVE  \/ UNCHANGED entry
           \/ \E e \in Events : XAdd(e)
           \/ \E z \in Zombies, t \in Tokens, e \in Events : ReadEvent(z, t, e)
           \/ \E z \in Zombies, t \in Tokens : RequestXAck(z, t) \/ ReportXAck(z, t)
           \/ \E e \in Events, i \in Instances : SweepStray(e, i)
<1>1. ASSUME NEW z \in Zombies, NEW t \in Tokens,
             Poll(z, t) \/ RenewLease(z, t) \/ Report(z, t) \/ Finalize(z, t),
             ~RequestXAck(z, t), ~ReportXAck(z, t), ~\E d \in Events : ReadEvent(z, t, d)
      PROVE  UNCHANGED entry
  BY <1>1 DEF Poll, PollReclaim, PollFree, InsertReceived, Classify, ResolveAndGate, DebitReceive,
     ApprovalGate, SecretMissing, MarkBlocked, PollStamp, PollIssue, PollAbandon, PollDies,
     RenewLease, Report, Finalize, MarkTerminal, Checkpoint, ReportRelease, ReportDies, evars
<1>2. CASE Time \/ (\E r \in SweptRunners : SweepSlots(r))
           \/ \E z \in Zombies, r \in Runners, i \in Instances : PollClaim(z, r, i)
  BY <1>2 DEF Time, SweepSlots, PollClaim, evars
<1>3. QED  BY <1>1, <1>2 DEF DeliveryNext

\* An entry that was delivered stays so; only a read, a sweep or an ack moves
\* it, and the first two date it now.
EntriesMove ==
    \A d \in Events :
        /\ entry[d].st # "absent" => entry'[d].st # "absent"
        /\ Delivered(d) =>
             \/ entry'[d] = entry[d]
             \/ entry'[d].st = "acked"
             \/ entry'[d].st = "pending" /\ entry'[d].at = now

\* Entries move on, and those of a zombie in the order of their ids.
LEMMA EntryStep ==
    ASSUME DeliveryInv, StreamInOrder, DeliveryNext
    PROVE  EntriesMove /\ StreamInOrder'
<1>1. entry \in [Events -> Entries] /\ \A d \in Events : d \in Nat
  BY DeliveryAssumption DEF DeliveryInv, DeliveryTypeOK
<1>2. CASE UNCHANGED entry
  BY <1>2 DEF EntriesMove, StreamInOrder, Delivered
<1>3. ASSUME NEW e \in Events, XAdd(e)  PROVE  EntriesMove /\ StreamInOrder'
  <2>1. /\ entry[e].st = "absent" /\ entry'[e].st = "queued"
        /\ \A d \in Events : d # e => entry'[d] = entry[d]
        /\ \A d \in Events : d < e /\ Home[d] = Home[e] => entry[d].st # "absent"
    BY <1>1, <1>3 DEF XAdd, Entries
  <2>2. EntriesMove  BY <2>1 DEF EntriesMove, Delivered
  <2>3. StreamInOrder'  BY <1>1, <2>1 DEF StreamInOrder, Delivered
  <2>4. QED  BY <2>2, <2>3
<1>4. ASSUME NEW z \in Zombies, NEW t \in Tokens, NEW e \in Events, ReadEvent(z, t, e)
      PROVE  EntriesMove /\ StreamInOrder'
  <2>1. /\ entry'[e].st = "pending" /\ entry'[e].at = now
        /\ \A d \in Events : d # e => entry'[d] = entry[d]
    BY <1>1, <1>4 DEF ReadEvent
  <2>2. e \in Pending(z, req[z][t].inst) \/ Oldest(e, Queued(z))
    BY <1>4 DEF ReadEvent, Oldest
  <2>3. \A d \in Events : d < e /\ Home[d] = Home[e] => Delivered(d)
    <3>1. CASE e \in Pending(z, req[z][t].inst)
      BY <3>1 DEF Pending, StreamInOrder, Delivered
    <3>2. CASE Oldest(e, Queued(z))
      <4>1. Home[e] = z /\ entry[e].st = "queued" /\ \A d \in Queued(z) : e <= d
        BY <3>2 DEF Oldest, Queued
      <4>2. ASSUME NEW d \in Events, d < e, Home[d] = z  PROVE  Delivered(d)
        <5>1. d \notin Queued(z)  BY <1>1, <4>1, <4>2
        <5>2. entry[d].st # "absent" /\ entry[d] \in Entries  BY <1>1, <4>1, <4>2 DEF StreamInOrder
        <5>3. QED  BY <4>2, <5>1, <5>2 DEF Queued, Delivered, Entries
      <4>3. QED  BY <4>1, <4>2
    <3>3. QED  BY <2>2, <3>1, <3>2
  <2>4. EntriesMove  BY <2>1 DEF EntriesMove, Delivered
  <2>5. StreamInOrder'  BY <1>1, <2>1, <2>3 DEF StreamInOrder, Delivered
  <2>6. QED  BY <2>4, <2>5
<1>5. ASSUME NEW e, Ack(e)  PROVE  EntriesMove /\ StreamInOrder'
  <2>1. CASE entry' = entry
    BY <1>2, <2>1
  <2>2. CASE entry[e].st = "pending" /\ entry' = [entry EXCEPT ![e] = [st |-> "acked", owner |-> NoInstance, at |-> 0]]
    <3>1. \A d \in Events : entry'[d] = entry[d] \/ (Delivered(d) /\ entry'[d].st = "acked")
      BY <1>1, <2>2 DEF Delivered
    <3>2. EntriesMove  BY <3>1 DEF EntriesMove
    <3>3. StreamInOrder'  BY <3>1 DEF StreamInOrder, Delivered
    <3>4. QED  BY <3>2, <3>3
  <2>3. QED  BY <1>5, <2>1, <2>2 DEF Ack
<1>6. ASSUME NEW e \in Events, NEW i \in Instances, SweepStray(e, i)  PROVE  EntriesMove /\ StreamInOrder'
  <2>1. /\ entry[e].st = "pending" /\ entry'[e].st = "pending" /\ entry'[e].at = now
        /\ \A d \in Events : d # e => entry'[d] = entry[d]
    BY <1>1, <1>6 DEF SweepStray, Entries
  <2>2. EntriesMove  BY <2>1 DEF EntriesMove
  <2>3. StreamInOrder'  BY <2>1 DEF StreamInOrder, Delivered
  <2>4. QED  BY <2>2, <2>3
<1>7. ASSUME NEW z \in Zombies, NEW t \in Tokens, RequestXAck(z, t) \/ ReportXAck(z, t)
      PROVE  EntriesMove /\ StreamInOrder'
  <2>1. UNCHANGED entry \/ \E e : Ack(e)  BY <1>7 DEF RequestXAck, ReportXAck
  <2>2. QED  BY <1>2, <1>5, <2>1
<1>8. QED  BY <1>2, <1>3, <1>4, <1>6, <1>7, EntryMoves

\* An event that was passed by a request stays passed while that request lasts.
LEMMA PassedStays ==
    ASSUME DeliveryInv, EntriesMove, NEW z \in Zombies, NEW t \in Tokens, NEW d \in Events,
           work[z][t].stage # "none", Passed(d, z, t),
           req'[z][t].inst = req[z][t].inst, work'[z][t].until = work[z][t].until
    PROVE  Passed(d, z, t)'
<1>1. entry[d] \in Entries /\ now \in Int /\ LeaseTTL \in Int /\ work[z][t].until \in Int
  BY SlotAssumption, CellTypes DEF DeliveryInv, DeliveryTypeOK, SlotInv, Requests
<1>2. now >= work[z][t].until - LeaseTTL
  BY <1>1 DEF DeliveryInv, SlotInv, RequestHorizon
<1>3. QED  BY <1>1, <1>2 DEF EntriesMove, Passed, Delivered

\* A step that starts no reading of an event keeps the order of its request.
LEMMA OrderKept ==
    ASSUME DeliveryInv, ReadInOrder, EntriesMove, NEW z \in Zombies, NEW t \in Tokens,
           work'[z][t].stage \in {"acquired", "stamped"} /\ work'[z][t].kind = "fresh" =>
              /\ work[z][t].stage \in {"acquired", "stamped"} /\ work[z][t].kind = "fresh"
              /\ work'[z][t].until = work[z][t].until /\ work'[z][t].event = work[z][t].event
              /\ req'[z][t].inst = req[z][t].inst
    PROVE  work'[z][t].stage \in {"acquired", "stamped"} /\ work'[z][t].kind = "fresh" =>
              \A d \in Events : Home[d] = z /\ d < EventOf(z, t)' => Passed(d, z, t)'
<1> SUFFICES ASSUME work'[z][t].stage \in {"acquired", "stamped"}, work'[z][t].kind = "fresh",
                    NEW d \in Events, Home[d] = z, d < EventOf(z, t)'
             PROVE  Passed(d, z, t)'
  OBVIOUS
<1>1. Passed(d, z, t) /\ work[z][t].stage # "none"  BY DEF ReadInOrder, EventOf
<1>2. QED  BY <1>1, PassedStays

\* The request that reads an event passes every earlier one.
LEMMA ReadPasses ==
    ASSUME DeliveryInv, StreamInOrder, NEW z \in Zombies, NEW t \in Tokens, NEW e \in Events, ReadEvent(z, t, e),
           NEW d \in Events, Home[d] = z, d < e
    PROVE  Passed(d, z, t)'
<1>1. entry \in [Events -> Entries] /\ d \in Nat /\ e \in Nat /\ entry[d] \in Entries
  BY DeliveryAssumption DEF DeliveryInv, DeliveryTypeOK
<1> DEFINE i == req[z][t].inst
<1>2. Oldest(e, IF Pending(z, i) # {} THEN Pending(z, i) ELSE Queued(z))  BY DEF ReadEvent
<1>3. Home[e] = z /\ entry[e].st # "absent" /\ (entry[e].st # "pending" => Pending(z, i) = {} /\ Oldest(e, Queued(z)))
  BY <1>2 DEF Oldest, Pending, Queued
<1>4. d \notin Pending(z, i)
  BY <1>1, <1>2 DEF Oldest
<1>5. Delivered(d)
  <2>1. CASE entry[e].st = "pending"
    BY <1>3, <2>1 DEF StreamInOrder, Delivered
  <2>2. CASE entry[e].st # "pending"
    <3>1. d \notin Queued(z)  BY <1>1, <1>3, <2>2 DEF Oldest
    <3>2. entry[d].st # "absent"  BY <1>3 DEF StreamInOrder
    <3>3. QED  BY <1>1, <3>1, <3>2 DEF Queued, Delivered, Entries
  <2>3. QED  BY <2>1, <2>2
<1>6. entry[d].st = "pending" => entry[d].owner # i  BY <1>4 DEF Pending
<1>7. entry'[d] = entry[d]  BY <1>1 DEF ReadEvent
<1>8. req'[z][t].inst = i  BY GotoEffect DEF ReadEvent, DeliveryInv
<1>9. QED  BY <1>5, <1>6, <1>7, <1>8 DEF Passed, Delivered

\* A request's own statements keep its instance, its claim and, once it has read
\* one, its event.
LEMMA PollKeeps ==
    ASSUME DeliveryInv, NEW z \in Zombies, NEW t \in Tokens, Poll(z, t),
           ~\E e \in Events : ReadEvent(z, t, e),
           work'[z][t].stage \in {"acquired", "stamped"}, work'[z][t].kind = "fresh"
    PROVE  /\ work[z][t].stage \in {"acquired", "stamped"} /\ work[z][t].kind = "fresh"
           /\ work'[z][t].until = work[z][t].until /\ work'[z][t].event = work[z][t].event
           /\ req'[z][t].inst = req[z][t].inst
<1> USE DEF DeliveryInv
<1>1. work[z][t] \in Requests /\ work \in [Zombies -> [Tokens -> Requests]]
      /\ req[z][t] \in RequestPoints /\ req \in [Zombies -> [Tokens -> RequestPoints]]
  BY CellTypes DEF SlotInv, SlotTypeOK, DeliveryTypeOK
<1>2. CASE PollReclaim(z, t)
  BY <1>1, <1>2 DEF PollReclaim, ReclaimPriorActive, Requests
<1>3. CASE PollFree(z, t)
  BY <1>1, <1>3 DEF PollFree, NoPriorActive, Requests
<1>4. CASE PollIssue(z, t) \/ PollAbandon(z, t) \/ PollDies(z, t)
  BY <1>1, <1>4 DEF PollIssue, IssueLease, PollAbandon, AbandonClaim, PollDies, DropClaim, NoRequest
<1>5. CASE PollStamp(z, t)
  BY <1>1, <1>5 DEF PollStamp, StampLease, Requests, evars
<1>6. CASE InsertReceived(z, t)
  BY <1>1, <1>6, GotoEffect, FirstEffect DEF InsertReceived, svars
<1>7. CASE Classify(z, t) \/ ResolveAndGate(z, t) \/ DebitReceive(z, t) \/ ApprovalGate(z, t)
           \/ SecretMissing(z, t) \/ MarkBlocked(z, t) \/ RequestXAck(z, t)
  <2>1. work' = work /\ \E point : Goto(z, t, point)
    BY <1>7 DEF Classify, ResolveAndGate, DebitReceive, ApprovalGate, SecretMissing, MarkBlocked, RequestXAck, svars
  <2>2. QED  BY <2>1, GotoEffect
<1>8. QED  BY <1>2, <1>3, <1>4, <1>5, <1>6, <1>7 DEF Poll

\* The order is kept by every step.
LEMMA OrderStep == ASSUME DeliveryInv, OrderInv, DeliveryNext PROVE OrderInv'
<1> USE DEF OrderInv
<1>1. EntriesMove /\ StreamInOrder'  BY EntryStep
<1>2. ASSUME NEW z \in Zombies, NEW t \in Tokens, work'[z][t] = work[z][t], req'[z][t] = req[z][t]
      PROVE  work'[z][t].stage \in {"acquired", "stamped"} /\ work'[z][t].kind = "fresh" =>
                \A d \in Events : Home[d] = z /\ d < EventOf(z, t)' => Passed(d, z, t)'
  BY <1>1, <1>2, OrderKept
<1>3. ASSUME NEW z \in Zombies, NEW t \in Tokens, Poll(z, t)  PROVE  ReadInOrder'
  <2>1. work'[z][t].stage \in {"acquired", "stamped"} /\ work'[z][t].kind = "fresh" =>
           \A d \in Events : Home[d] = z /\ d < EventOf(z, t)' => Passed(d, z, t)'
    <3>1. ASSUME NEW e \in Events, ReadEvent(z, t, e)
          PROVE  \A d \in Events : Home[d] = z /\ d < EventOf(z, t)' => Passed(d, z, t)'
      <4>1. EventOf(z, t)' = e
        <5>1. work[z][t] \in Requests /\ work \in [Zombies -> [Tokens -> Requests]]
          BY CellTypes DEF DeliveryInv, SlotInv, SlotTypeOK
        <5>2. QED  BY <3>1, <5>1 DEF ReadEvent, AcquireFresh, EventOf, Requests
      <4>2. QED  BY <3>1, <4>1, ReadPasses
    <3>2. CASE ~\E e \in Events : ReadEvent(z, t, e)
      BY <1>1, <1>3, <3>2, PollKeeps, OrderKept
    <3>3. QED  BY <3>1, <3>2
  <2>2. QED  BY <1>2, <1>3, <2>1, OneRequest DEF ReadInOrder
<1>4. ASSUME NEW z \in Zombies, NEW r \in Runners, NEW i \in Instances, PollClaim(z, r, i)
      PROVE  ReadInOrder'
  <2>1. PICK t \in Tokens :
          /\ work'[z][t].stage = "claimed"
          /\ \A y \in Zombies, u \in Tokens :
               y # z \/ u # t => req'[y][u] = req[y][u] /\ work'[y][u] = work[y][u]
    BY <1>4, ClaimRequest
  <2>2. QED  BY <1>2, <2>1 DEF ReadInOrder
<1>5. QED  BY <1>1, <1>2, <1>3, <1>4, RequestsStill DEF ReadInOrder

\* Nothing is published at first.
LEMMA OrderStart == DeliveryInit => OrderInv
  BY DEF DeliveryInit, SlotInit, NoRequest, OrderInv, StreamInOrder, ReadInOrder, Delivered

\* A zombie's events are leased in stream order: what a request leases, having
\* read it, is preceded only by events that were acked, are pending at another
\* instance, or came to this one's list since the request's claim
\* (acquireFresh), through every redelivery, stray sweep, failure and crash.
THEOREM LeasedInOrder == DeliverySpec => InOrder
<1> DEFINE A == \A e, d \in Events : \A t \in Tokens :
                  LET z == Home[e] IN
                  Home[d] = z /\ d < e /\ IssuedUnder(e, t) /\ work[z][t].kind = "fresh" =>
                     \/ entry[d].st = "acked"
                     \/ /\ entry[d].st = "pending"
                        /\ \/ entry[d].owner # req[z][t].inst
                           \/ entry[d].at >= work[z][t].until - LeaseTTL
<1>1. DeliveryInv /\ OrderInv /\ [DeliveryNext]_vars => OrderInv'
  <2>1. CASE UNCHANGED vars
    BY <2>1 DEF vars, svars, evars, OrderInv, StreamInOrder, ReadInOrder, Delivered, Passed, EventOf
  <2>2. QED  BY <2>1, OrderStep
<1>2. DeliveryInv /\ OrderInv /\ DeliveryNext => A
  <2> SUFFICES ASSUME DeliveryInv, OrderInv, DeliveryNext, NEW e \in Events, NEW d \in Events, NEW t \in Tokens,
                      Home[d] = Home[e], d < e, IssuedUnder(e, t), work[Home[e]][t].kind = "fresh"
               PROVE  \/ entry[d].st = "acked"
                      \/ /\ entry[d].st = "pending"
                         /\ \/ entry[d].owner # req[Home[e]][t].inst
                            \/ entry[d].at >= work[Home[e]][t].until - LeaseTTL
    OBVIOUS
  <2> DEFINE z == Home[e]
  <2>1. z \in Zombies  BY DeliveryAssumption
  <2>2. PollIssue(z, t)  BY <2>1, NewLease DEF IssuedUnder
  <2>3. work[z][t].stage = "stamped" /\ lease'[z][t].event = EventOf(z, t)
    BY <2>1, <2>2 DEF PollIssue, IssueLease, EventOf, DeliveryInv, SlotInv, SlotTypeOK
  <2>4. Passed(d, z, t)  BY <2>1, <2>3 DEF IssuedUnder, OrderInv, ReadInOrder
  <2>5. QED  BY <2>4 DEF Passed, Delivered
<1> HIDE DEF A
<1>3. DeliveryInv /\ OrderInv /\ [DeliveryNext]_vars => [A]_vars  BY <1>2
<1>4. QED  BY <1>1, <1>3, OrderStart, DeliveryKeepsInv, PTL DEF DeliverySpec, InOrder, A

-------------------------------------------------------------------------------
\* The points past the look at the row of a repeated delivery, on the way to a
\* lease.
PastTheLook == {"resolve", "debit", "gate", "issue"}

\* A request that is on the way to lease an event whose outcome is written had
\* been claimed when it was written.
ClaimedBefore(z, t) ==
    /\ req[z][t].pc \in PastTheLook
    /\ work[z][t].kind = "fresh"
    /\ Terminal(EventOf(z, t))
    => t <= seal[EventOf(z, t)]

SealInv == SealTypeOK /\ \A z \in Zombies, t \in Tokens : ClaimedBefore(z, t)

\* A step that writes a row leaves the slots and the lease rows alone.
LEMMA RowsAlone == ASSUME DeliveryNext, row' # row PROVE UNCHANGED svars
<1>1. ASSUME NEW z \in Zombies, NEW t \in Tokens, Poll(z, t)  PROVE  UNCHANGED svars
  BY <1>1 DEF Poll, PollReclaim, PollFree, ReadEvent, InsertReceived, Classify, ResolveAndGate, DebitReceive,
     ApprovalGate, SecretMissing, MarkBlocked, RequestXAck, PollStamp, PollIssue, PollAbandon, PollDies, evars
<1>2. ASSUME NEW z \in Zombies, NEW t \in Tokens, RenewLease(z, t) \/ Report(z, t) \/ Finalize(z, t)
      PROVE  UNCHANGED svars
  BY <1>2 DEF RenewLease, Report, Finalize, MarkTerminal, Checkpoint, ReportXAck, ReportRelease,
     ReportDies, evars
<1>3. ASSUME Time \/ (\E e \in Events : XAdd(e)) \/ (\E e \in Events, i \in Instances : SweepStray(e, i))
             \/ (\E r \in SweptRunners : SweepSlots(r))
             \/ \E z \in Zombies, r \in Runners, i \in Instances : PollClaim(z, r, i)
      PROVE  UNCHANGED svars
  BY <1>3 DEF Time, XAdd, SweepStray, SweepSlots, PollClaim, evars
<1>4. QED  BY <1>1, <1>2, <1>3 DEF DeliveryNext

\* A request that a step leaves past the look, at an event whose outcome was
\* written before it, was past it already.
LEMMA LookedBefore ==
    ASSUME DeliveryInv, DeliveryInv', DeliveryNext, NEW z \in Zombies, NEW t \in Tokens, Poll(z, t),
           req'[z][t].pc \in PastTheLook, work'[z][t].kind = "fresh", Terminal(work'[z][t].event)
    PROVE  /\ req[z][t].pc \in PastTheLook /\ work[z][t].kind = "fresh"
           /\ work'[z][t].event = EventOf(z, t)
<1>1. req[z][t] \in RequestPoints /\ req \in [Zombies -> [Tokens -> RequestPoints]]
  BY DEF DeliveryInv, DeliveryTypeOK
<1>2. ~\E e \in Events : ReadEvent(z, t, e)
  <2>1. ASSUME NEW e \in Events, ReadEvent(z, t, e)  PROVE  req'[z][t].pc = "insert"
    BY <2>1, GotoEffect DEF ReadEvent, DeliveryInv
  <2>2. QED  BY <2>1 DEF PastTheLook
<1>3. work'[z][t].stage \in {"acquired", "stamped"}
  BY DEF DeliveryInv, RequestsOK, RequestOK, PastTheLook
<1>4. /\ work[z][t].stage \in {"acquired", "stamped"} /\ work[z][t].kind = "fresh"
      /\ work'[z][t].event = work[z][t].event
  BY <1>2, <1>3, PollKeeps
<1>5. Terminal(EventOf(z, t))  BY <1>4 DEF EventOf
<1>6. req[z][t].pc \in PastTheLook
  <2>1. CASE InsertReceived(z, t)
    <3>1. Goto(z, t, "classify")  BY <1>5, <2>1 DEF InsertReceived, Terminal
    <3>2. QED  BY <3>1, GotoEffect DEF DeliveryInv, PastTheLook
  <2>2. CASE Classify(z, t)
    <3>1. Goto(z, t, "reack")  BY <1>5, <2>2 DEF Classify
    <3>2. QED  BY <3>1, GotoEffect DEF DeliveryInv, PastTheLook
  <2>3. CASE PollReclaim(z, t) \/ PollFree(z, t)
    BY <1>4, <2>3 DEF PollReclaim, ReclaimPriorActive, PollFree, NoPriorActive
  <2>4. CASE ResolveAndGate(z, t) \/ DebitReceive(z, t) \/ ApprovalGate(z, t) \/ SecretMissing(z, t)
             \/ PollStamp(z, t)
    BY <2>4 DEF ResolveAndGate, DebitReceive, ApprovalGate, SecretMissing, PollStamp, At, PastTheLook
  <2>5. CASE MarkBlocked(z, t) \/ RequestXAck(z, t)
    <3>1. Goto(z, t, "xack") \/ Goto(z, t, "release")  BY <2>5 DEF MarkBlocked, RequestXAck
    <3>2. QED  BY <3>1, GotoEffect DEF DeliveryInv, PastTheLook
  <2>6. CASE PollIssue(z, t) \/ PollAbandon(z, t) \/ PollDies(z, t)
    <3>1. req'[z][t] = Idle  BY <1>1, <2>6 DEF PollIssue, PollAbandon, PollDies
    <3>2. QED  BY <3>1 DEF Idle, PastTheLook
  <2>7. QED  BY <1>2, <2>1, <2>2, <2>3, <2>4, <2>5, <2>6 DEF Poll
<1>7. QED  BY <1>4, <1>6 DEF EventOf

\* The same of every request and step.
LEMMA LookedBeforeAny ==
    ASSUME DeliveryInv, DeliveryInv', DeliveryNext, NEW z \in Zombies, NEW t \in Tokens,
           req'[z][t].pc \in PastTheLook, work'[z][t].kind = "fresh", Terminal(work'[z][t].event)
    PROVE  /\ req[z][t].pc \in PastTheLook /\ work[z][t].kind = "fresh"
           /\ work'[z][t].event = EventOf(z, t)
<1>1. CASE req'[z][t] = req[z][t] /\ work'[z][t] = work[z][t]
  BY <1>1 DEF EventOf
<1>2. ASSUME NEW y \in Zombies, NEW u \in Tokens, Poll(y, u)
      PROVE  (y = z /\ u = t) \/ (req'[z][t] = req[z][t] /\ work'[z][t] = work[z][t])
  BY <1>2, OneRequest
<1>3. ASSUME NEW y \in Zombies, NEW r \in Runners, NEW i \in Instances, PollClaim(y, r, i)
      PROVE  req'[z][t] = req[z][t] /\ work'[z][t] = work[z][t]
  <2>1. PICK u \in Tokens :
          /\ req'[y][u] = [inst |-> i, pc |-> "select", first |-> FALSE]
          /\ \A x \in Zombies, v \in Tokens :
               x # y \/ v # u => req'[x][v] = req[x][v] /\ work'[x][v] = work[x][v]
    BY <1>3, ClaimRequest
  <2>2. z # y \/ t # u  BY <2>1 DEF PastTheLook
  <2>3. QED  BY <2>1, <2>2
<1>4. QED  BY <1>1, <1>2, <1>3, LookedBefore, RequestsStill

\* Every step keeps what the seals say.
LEMMA SealStep == ASSUME DeliveryInv, DeliveryInv', SealInv, SealedNext PROVE SealInv'
<1>1. DeliveryNext /\ Seals /\ RowsMove  BY RowStep DEF SealedNext
<1>2. SlotTypeOK /\ \A e \in Events : Home[e] \in Zombies
  BY DeliveryAssumption DEF DeliveryInv, SlotInv
<1>3. \A e \in Events : slot[Home[e]].seq \in 0..MaxClaims
  BY <1>2 DEF SlotTypeOK, Slots
<1>4. SealTypeOK'
  BY <1>1, <1>3 DEF Seals, SealInv, SealTypeOK
<1>5. ASSUME NEW e \in Events  PROVE  seal'[e] = IF Terminal(e)' /\ ~Terminal(e) THEN slot[Home[e]].seq ELSE seal[e]
  BY <1>1 DEF Seals
<1>6. ASSUME NEW z \in Zombies, NEW t \in Tokens  PROVE  ClaimedBefore(z, t)'
  <2> SUFFICES ASSUME NEW e \in {work'[z][t].event}, req'[z][t].pc \in PastTheLook,
                      work'[z][t].kind = "fresh", Terminal(e)'
               PROVE  t <= seal'[e]
    BY DEF ClaimedBefore, EventOf, Terminal
  <2>0. e = work'[z][t].event  OBVIOUS
  <2>1. e \in Events /\ Home[e] = z /\ work'[z][t].stage # "none"
    BY <2>0 DEF DeliveryInv, RequestsOK, RequestOK, EventOf, PastTheLook
  <2>2. CASE Terminal(e)
    <3>1. req[z][t].pc \in PastTheLook /\ work[z][t].kind = "fresh" /\ e = EventOf(z, t)
      BY <1>1, <2>0, <2>2, LookedBeforeAny
    <3>2. t <= seal[e]  BY <2>2, <3>1 DEF SealInv, ClaimedBefore
    <3>3. QED  BY <1>5, <2>1, <2>2, <3>2
  <2>3. CASE ~Terminal(e)
    <3>1. row'[e] # row[e]  BY <2>3 DEF Terminal
    <3>2. slot' = slot  BY <1>1, <3>1, RowsAlone DEF svars
    <3>3. t <= slot'[z].seq  BY <2>1 DEF DeliveryInv, SlotInv, TokensGranted
    <3>4. seal'[e] = slot[z].seq  BY <1>5, <2>1, <2>3
    <3>5. QED  BY <3>2, <3>3, <3>4
  <2>4. QED  BY <2>2, <2>3
<1>7. QED  BY <1>4, <1>6 DEF SealInv

\* A request that was claimed after the outcome of an event was written acks it
\* again and does not lease it (service_billing.zig:98-119), whatever failed or
\* died between the outcome and the ack, and however many instances serve the
\* zombie.
THEOREM SettledStaysSettled == SealedSpec => SettledNeverReleased
<1> DEFINE A == \A e \in Events, t \in Tokens :
                  IssuedUnder(e, t) /\ Terminal(e) /\ work[Home[e]][t].kind = "fresh" => t <= seal[e]
<1>1. SealedSpec => DeliverySpec
  <2>1. SealedInit => DeliveryInit  BY DEF SealedInit
  <2>2. [SealedNext]_sealvars => [DeliveryNext]_vars
    BY DEF SealedNext, sealvars
  <2>3. QED  BY <2>1, <2>2, PTL DEF SealedSpec, DeliverySpec
<1>2. SealedInit => SealInv
  <2> SUFFICES ASSUME SealedInit  PROVE  SealInv  OBVIOUS
  <2>1. SealTypeOK  BY SlotAssumption DEF SealedInit, SealTypeOK
  <2>2. QED  BY <2>1 DEF SealedInit, DeliveryInit, Idle, SealInv, ClaimedBefore, PastTheLook
<1>3. DeliveryInv /\ DeliveryInv' /\ SealInv /\ [SealedNext]_sealvars => SealInv'
  <2>1. CASE UNCHANGED sealvars
    BY <2>1 DEF sealvars, vars, svars, evars, SealInv, SealTypeOK, ClaimedBefore, EventOf, Terminal
  <2>2. QED  BY <2>1, SealStep
<1>4. DeliveryInv /\ SealInv /\ SealedNext => A
  <2> SUFFICES ASSUME DeliveryInv, SealInv, DeliveryNext, NEW e \in Events, NEW t \in Tokens,
                      IssuedUnder(e, t), Terminal(e), work[Home[e]][t].kind = "fresh"
               PROVE  t <= seal[e]
    BY DEF SealedNext
  <2> DEFINE z == Home[e]
  <2>1. z \in Zombies  BY DeliveryAssumption
  <2>2. PollIssue(z, t)  BY <2>1, NewLease DEF IssuedUnder
  <2>3. lease'[z][t].event = EventOf(z, t) /\ req[z][t].pc = "issue"
    BY <2>1, <2>2 DEF PollIssue, At, IssueLease, EventOf, DeliveryInv, SlotInv, SlotTypeOK
  <2>4. QED  BY <2>1, <2>3 DEF IssuedUnder, SealInv, ClaimedBefore, PastTheLook
<1> HIDE DEF A
<1>5. DeliveryInv /\ SealInv /\ [SealedNext]_sealvars => [A]_sealvars  BY <1>4
<1>6. QED
  BY <1>1, <1>2, <1>3, <1>5, DeliveryKeepsInv, PTL DEF SealedSpec, SettledNeverReleased, A
===============================================================================
