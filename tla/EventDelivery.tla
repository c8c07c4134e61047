----------------------------- MODULE EventDelivery -----------------------------
(***************************************************************************)
(* How an event travels from a zombie's Redis stream to a settled row: the *)
(* lease request's walk through reclaim, the stream read, the billing and  *)
(* approval gates and the lease insert; the report's walk through the      *)
(* terminal write, the checkpoint, the XACK and the slot's release; and    *)
(* the sweep that takes over entries idle under another consumer.          *)
(*                                                                         *)
(* It extends AffinitySlot: every step on the slot or a lease row is an    *)
(* action of that module, conjoined with what the same statement or        *)
(* handler does to the stream, the event row and the handler itself.       *)
(***************************************************************************)
EXTENDS AffinitySlot

CONSTANTS
    Instances,     \* the agentsfleetd hosts; each is one stream consumer
    NoInstance,    \* the owner of an entry nobody has read
    Home,          \* Home[e] is the zombie whose stream carries e
    MinIdle        \* zombie_xautoclaim_min_idle_ms

\* Events are numbered in the order of their stream ids.
ASSUME DeliveryAssumption ==
    /\ Events \subseteq Nat
    /\ Home \in [Events -> Zombies]
    /\ NoInstance \notin Instances
    /\ MinIdle \in Nat /\ MinIdle > LeaseTTL

VARIABLES
    entry,   \* the stream entry of each event in the consumer group
    row,     \* status of the event in core.zombie_events (a run that ended in
             \* agent_error is "processed" here too)
    debits,  \* how many receive charges the event has cost
    req,     \* where each lease request is in its handler
    fin,     \* where each report is in its finalize
    ckpt     \* last_event_id of core.zombie_sessions, per zombie

evars == <<entry, row, debits, req, fin, ckpt>>
vars == <<svars, evars>>

\* "absent": not published; "queued": not delivered to the group; "pending":
\* in the PEL of owner since at; "acked": removed from every PEL.
Entries == [st    : {"absent", "queued", "pending", "acked"},
            owner : Instances \union {NoInstance},
            at    : 0..MaxTime]

\* pc names the next statement; first tells a first delivery from a repeat.
RequestPoints == [inst  : Instances \union {NoInstance},
                  pc    : {"none", "select", "insert", "classify", "resolve", "debit",
                           "gate", "issue", "block", "xack", "reack", "release"},
                  first : BOOLEAN]

DeliveryTypeOK ==
    /\ entry \in [Events -> Entries]
    /\ row \in [Events -> {"absent", "received", "processed", "gate_blocked"}]
    /\ debits \in [Events -> Nat]
    /\ req \in [Zombies -> [Tokens -> RequestPoints]]
    /\ fin \in [Zombies -> [Tokens -> {"none", "terminal", "checkpoint", "xack", "release"}]]
    /\ ckpt \in [Zombies -> Events \union {NoEvent}]

Idle == [inst |-> NoInstance, pc |-> "none", first |-> FALSE]

DeliveryInit ==
    /\ SlotInit
    /\ entry = [e \in Events |-> [st |-> "absent", owner |-> NoInstance, at |-> 0]]
    /\ row = [e \in Events |-> "absent"]
    /\ debits = [e \in Events |-> 0]
    /\ req = [z \in Zombies |-> [t \in Tokens |-> Idle]]
    /\ fin = [z \in Zombies |-> [t \in Tokens |-> "none"]]
    /\ ckpt = [z \in Zombies |-> NoEvent]

Terminal(e) == row[e] \in {"processed", "gate_blocked"}

At(z, t, point) == req[z][t].pc = point

Goto(z, t, point) == req' = [req EXCEPT ![z][t].pc = point]

-------------------------------------------------------------------------------
\* A webhook, a steer or a schedule appends an event.
XAdd(e) ==
    /\ entry[e].st = "absent"
    /\ \A d \in Events : d < e /\ Home[d] = Home[e] => entry[d].st # "absent"
    /\ entry' = [entry EXCEPT ![e].st = "queued"]
    /\ UNCHANGED <<svars, row, debits, req, fin, ckpt>>

\* A runner's poll, served by instance i, wins the zombie.
PollClaim(z, r, i) ==
    /\ Claim(z, r)
    /\ req' = [req EXCEPT ![z][slot'[z].seq] = [inst |-> i, pc |-> "select", first |-> FALSE]]
    /\ UNCHANGED <<entry, row, debits, fin, ckpt>>

\* The prior holder's event is taken over; it is not billed again.
PollReclaim(z, t) ==
    /\ \E p \in Tokens : ReclaimPriorActive(z, t, p)
    /\ Goto(z, t, "issue")
    /\ UNCHANGED <<entry, row, debits, fin, ckpt>>

PollFree(z, t) ==
    /\ NoPriorActive(z, t)
    /\ UNCHANGED evars

Pending(z, i) == {e \in Events : Home[e] = z /\ entry[e].st = "pending" /\ entry[e].owner = i}

Queued(z) == {e \in Events : Home[e] = z /\ entry[e].st = "queued"}

Oldest(e, S) == e \in S /\ \A d \in S : e <= d

\* Mutant: a new entry before the pending ones.
ReadFreshFirst(z, t, e) ==
    LET i == req[z][t].inst IN
    /\ AcquireFresh(z, t, e)
    /\ Oldest(e, IF Queued(z) # {} THEN Queued(z) ELSE Pending(z, i))
    /\ entry' = [entry EXCEPT ![e] = [st |-> "pending", owner |-> i, at |-> now]]
    /\ Goto(z, t, "insert")
    /\ UNCHANGED <<row, debits, fin, ckpt>>

\* The instance's own pending entries come first, oldest first; only when it
\* has none is the next undelivered entry read into its PEL.
ReadEvent(z, t, e) ==
    LET i == req[z][t].inst IN
    /\ AcquireFresh(z, t, e)
    /\ Oldest(e, IF Pending(z, i) # {} THEN Pending(z, i) ELSE Queued(z))
    /\ entry' = [entry EXCEPT ![e] = [st |-> "pending", owner |-> i, at |-> now]]
    /\ Goto(z, t, "insert")
    /\ UNCHANGED <<row, debits, fin, ckpt>>

EventOf(z, t) == work[z][t].event

\* Mutant: every delivery taken for the first.
InsertAlwaysFirst(z, t) ==
    /\ At(z, t, "insert")
    /\ row' = [row EXCEPT ![EventOf(z, t)] = IF @ = "absent" THEN "received" ELSE @]
    /\ req' = [req EXCEPT ![z][t].pc = "resolve", ![z][t].first = TRUE]
    /\ UNCHANGED <<svars, entry, debits, fin, ckpt>>

\* INSERT ... ON CONFLICT DO NOTHING tells a first delivery from a repeat.
InsertReceived(z, t) ==
    LET e == EventOf(z, t) IN
    /\ At(z, t, "insert")
    /\ IF row[e] = "absent"
         THEN /\ row' = [row EXCEPT ![e] = "received"]
              /\ req' = [req EXCEPT ![z][t].pc = "resolve", ![z][t].first = TRUE]
         ELSE /\ Goto(z, t, "classify")
              /\ UNCHANGED row
    /\ UNCHANGED <<svars, entry, debits, fin, ckpt>>

\* Mutant: every repeat goes on.
ClassifyOpen(z, t) ==
    /\ At(z, t, "classify")
    /\ Goto(z, t, "resolve")
    /\ UNCHANGED <<svars, entry, row, debits, fin, ckpt>>

\* A repeat of a terminal row is only acked again, a received one goes on.
Classify(z, t) ==
    /\ At(z, t, "classify")
    /\ Goto(z, t, IF Terminal(EventOf(z, t)) THEN "reack" ELSE "resolve")
    /\ UNCHANGED <<svars, entry, row, debits, fin, ckpt>>

\* Tenant, provider and balance gate: refused for good, or on to the charge,
\* which only a first delivery pays.
ResolveAndGate(z, t) ==
    /\ At(z, t, "resolve")
    /\ \/ Goto(z, t, "block")
       \/ Goto(z, t, IF req[z][t].first THEN "debit" ELSE "gate")
    /\ UNCHANGED <<svars, entry, row, debits, fin, ckpt>>

\* The receive charge lands, or the balance turns out to be exhausted.
DebitReceive(z, t) ==
    /\ At(z, t, "debit")
    /\ \/ /\ debits' = [debits EXCEPT ![EventOf(z, t)] = @ + 1]
          /\ Goto(z, t, "gate")
       \/ /\ Goto(z, t, "block")
          /\ UNCHANGED debits
    /\ UNCHANGED <<svars, entry, row, fin, ckpt>>

\* The approval gate lets the event pass or refuses it.
ApprovalGate(z, t) ==
    /\ At(z, t, "gate")
    /\ \/ Goto(z, t, "issue")
       \/ Goto(z, t, "block")
    /\ UNCHANGED <<svars, entry, row, debits, fin, ckpt>>

\* A declared secret is missing from the vault.
SecretMissing(z, t) ==
    /\ At(z, t, "issue")
    /\ work[z][t].stage = "acquired"
    /\ Goto(z, t, "block")
    /\ UNCHANGED <<svars, entry, row, debits, fin, ckpt>>

\* Mutants: the XACK sent although the write failed; a status nobody knows.
MarkBlockedFails(z, t) ==
    /\ At(z, t, "block")
    /\ Goto(z, t, "xack")
    /\ UNCHANGED <<svars, entry, row, debits, fin, ckpt>>

MarkBlockedMisspelt(z, t) ==
    /\ At(z, t, "block")
    /\ row' = [row EXCEPT ![EventOf(z, t)] = "blocked"]
    /\ Goto(z, t, "xack")
    /\ UNCHANGED <<svars, entry, debits, fin, ckpt>>

\* The guarded terminal write of a refusal; its XACK is the next statement.
MarkBlocked(z, t) ==
    LET e == EventOf(z, t) IN
    /\ At(z, t, "block")
    /\ row' = IF row[e] = "received" THEN [row EXCEPT ![e] = "gate_blocked"] ELSE row
    /\ Goto(z, t, "xack")
    /\ UNCHANGED <<svars, entry, debits, fin, ckpt>>

\* XACK removes the entry from whichever PEL holds it.
Ack(e) ==
    entry' = IF entry[e].st = "pending"
               THEN [entry EXCEPT ![e] = [st |-> "acked", owner |-> NoInstance, at |-> 0]]
               ELSE entry

RequestXAck(z, t) ==
    /\ req[z][t].pc \in {"xack", "reack"}
    /\ Ack(EventOf(z, t))
    /\ Goto(z, t, "release")
    /\ UNCHANGED <<svars, row, debits, fin, ckpt>>

\* The request answers "no work" and gives its claim back: an empty stream, a
\* zombie that is not active, a decision still outstanding, a refusal already
\* recorded, or a statement that failed.
PollAbandon(z, t) ==
    /\ AbandonClaim(z, t)
    /\ req' = [req EXCEPT ![z][t] = Idle]
    /\ UNCHANGED <<entry, row, debits, fin, ckpt>>

\* The handler dies, or fails in a place that does not release the claim.
PollDies(z, t) ==
    /\ DropClaim(z, t)
    /\ req' = [req EXCEPT ![z][t] = Idle]
    /\ UNCHANGED <<entry, row, debits, fin, ckpt>>

PollStamp(z, t) ==
    /\ At(z, t, "issue")
    /\ StampLease(z, t)
    /\ UNCHANGED evars

PollIssue(z, t) ==
    /\ At(z, t, "issue")
    /\ IssueLease(z, t)
    /\ req' = [req EXCEPT ![z][t] = Idle]
    /\ UNCHANGED <<entry, row, debits, fin, ckpt>>

-------------------------------------------------------------------------------
RenewLease(z, t) ==
    /\ \E at \in ClockReads(z, t) : Renew(z, t, at)
    /\ UNCHANGED evars

\* The report wins its fence; finalize follows, one autocommit step at a time.
Report(z, t) ==
    /\ ClaimReport(z, t)
    /\ fin' = [fin EXCEPT ![z][t] = "terminal"]
    /\ UNCHANGED <<entry, row, debits, req, ckpt>>

FinGoto(z, t, from, to) ==
    /\ fin[z][t] = from
    /\ fin' = [fin EXCEPT ![z][t] = to]

\* Mutant: no status guard.
MarkTerminalUnguarded(z, t) ==
    /\ FinGoto(z, t, "terminal", "checkpoint")
    /\ row' = [row EXCEPT ![lease[z][t].event] = "processed"]
    /\ UNCHANGED <<svars, entry, debits, req, ckpt>>

\* The guarded terminal write; a failing one is logged and swallowed.
MarkTerminal(z, t) ==
    LET e == lease[z][t].event IN
    /\ FinGoto(z, t, "terminal", "checkpoint")
    /\ \/ row' = IF row[e] = "received" THEN [row EXCEPT ![e] = "processed"] ELSE row
       \/ UNCHANGED row
    /\ UNCHANGED <<svars, entry, debits, req, ckpt>>

\* The session cursor is overwritten without a guard.
Checkpoint(z, t) ==
    /\ FinGoto(z, t, "checkpoint", "xack")
    /\ \/ ckpt' = [ckpt EXCEPT ![z] = lease[z][t].event]
       \/ UNCHANGED ckpt
    /\ UNCHANGED <<svars, entry, row, debits, req>>

ReportXAck(z, t) ==
    /\ FinGoto(z, t, "xack", "release")
    /\ \/ Ack(lease[z][t].event)
       \/ UNCHANGED entry
    /\ UNCHANGED <<svars, row, debits, req, ckpt>>

ReportRelease(z, t) ==
    /\ FinGoto(z, t, "release", "none")
    /\ ReleaseReported(z, t)
    /\ UNCHANGED <<entry, row, debits, req, ckpt>>

ReportDies(z, t) ==
    /\ DropReport(z, t)
    /\ fin' = [fin EXCEPT ![z][t] = "none"]
    /\ UNCHANGED <<entry, row, debits, req, ckpt>>

-------------------------------------------------------------------------------
\* XAUTOCLAIM: an entry idle past the bound moves to instance i.
SweepStray(e, i) ==
    /\ entry[e].st = "pending"
    /\ now - entry[e].at >= MinIdle
    /\ entry' = [entry EXCEPT ![e].owner = i, ![e].at = now]
    /\ UNCHANGED <<svars, row, debits, req, fin, ckpt>>

SweepSlots(r) ==
    /\ ExpireActiveLeaseSlots(r)
    /\ UNCHANGED evars

Time ==
    /\ Tick
    /\ UNCHANGED evars

Poll(z, t) ==
    \/ PollReclaim(z, t)
    \/ PollFree(z, t)
    \/ \E e \in Events : ReadEvent(z, t, e)
    \/ InsertReceived(z, t)
    \/ Classify(z, t)
    \/ ResolveAndGate(z, t)
    \/ DebitReceive(z, t)
    \/ ApprovalGate(z, t)
    \/ SecretMissing(z, t)
    \/ MarkBlocked(z, t)
    \/ RequestXAck(z, t)
    \/ PollStamp(z, t)
    \/ PollIssue(z, t)
    \/ PollAbandon(z, t)
    \/ PollDies(z, t)

Finalize(z, t) ==
    \/ MarkTerminal(z, t)
    \/ Checkpoint(z, t)
    \/ ReportXAck(z, t)
    \/ ReportRelease(z, t)
    \/ ReportDies(z, t)

DeliveryNext ==
    \/ \E e \in Events : XAdd(e)
    \/ \E z \in Zombies, r \in Runners, i \in Instances : PollClaim(z, r, i)
    \/ \E z \in Zombies, t \in Tokens :
         Poll(z, t) \/ RenewLease(z, t) \/ Report(z, t) \/ Finalize(z, t)
    \/ \E e \in Events, i \in Instances : SweepStray(e, i)
    \/ \E r \in SweptRunners : SweepSlots(r)
    \/ Time

DeliverySpec == DeliveryInit /\ [][DeliveryNext]_vars

-------------------------------------------------------------------------------
LeasedFor(e) == {t \in Tokens : lease[Home[e]][t].event = e}

Settled(e) == \E t \in LeasedFor(e) : lease[Home[e]][t].status = "reported"

\* This step inserts a lease row for e, under token t.
IssuedUnder(e, t) ==
    /\ lease[Home[e]][t].status = "none"
    /\ lease'[Home[e]][t].status # "none"
    /\ lease'[Home[e]][t].event = e

\* Whatever fails, an event leaves the stream only when its outcome is known:
\* its row is terminal or a runner's report of it was accepted.  A refusal
\* acked before its row is written would lose the event (blockEvent,
\* finalize, the terminal re-ack of runBilling).
AckedMeansSettled ==
    \A e \in Events : entry[e].st = "acked" => Terminal(e) \/ Settled(e)

\* The receive charge is taken at most once per event, through every
\* redelivery, abandoned claim, concurrent slow handler and crash
\* (insertReceivedRow and the first_delivery test of runBilling).
DebitedOnce == \A e \in Events : debits[e] <= 1

\* A terminal row is never rewritten: not by a late report of a superseded
\* delivery, not by a refusal racing the report (markTerminal, markBlocked).
TerminalIsFinal ==
    [][\A e \in Events : Terminal(e) => row'[e] = row[e]]_vars

\* A zombie's events are leased in stream order: when a request of an
\* instance leases an event it read, every earlier event of the zombie was
\* acked, is pending at another instance, or came to this one's list since
\* the request's claim (acquireFresh: the instance's pending entries, oldest
\* first, then the next new one).
InOrder ==
    [][\A e, d \in Events : \A t \in Tokens :
         LET z == Home[e] IN
         Home[d] = z /\ d < e /\ IssuedUnder(e, t) /\ work[z][t].kind = "fresh" =>
            \/ entry[d].st = "acked"
            \/ /\ entry[d].st = "pending"
               /\ \/ entry[d].owner # req[z][t].inst
                  \/ entry[d].at >= work[z][t].until - LeaseTTL]_vars
===============================================================================
