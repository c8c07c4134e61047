-------------------------- MODULE RunnerWorkerProofs --------------------------
(***************************************************************************)
(* Proofs about RunnerWorker, for every number of hosts, workers and       *)
(* zombies and every value of the deadlines: the daemons take only steps   *)
(* of the lease slot, a run that was reported has no process left, and no  *)
(* child runs beside another of its zombie before its own deadline, but    *)
(* for the age of a clock reading.                                         *)
(*                                                                         *)
(* The last one rests on one operator, Covered: the deadline d of token t  *)
(* is past what the slot still keeps others out for by MaxStall at most,   *)
(* or it is over by as much.  It holds of the window of a request, goes    *)
(* from there into the lease row, from the row into the worker, and a      *)
(* renewal keeps it: its new deadline is one TTL past a reading that is    *)
(* MaxStall old at most, or the ceiling that no deadline is past.          *)
(***************************************************************************)
EXTENDS RunnerWorker, AffinitySlotProofs

HasLease(w) == worker[w].token > 0
InHand(w)   == worker[w].pc \notin {"off", "ready", "polling"}

\* What the fields of a worker say of each other.
Shape(s) ==
    /\ s.token > 0 => s.zombie \in Zombies
    /\ s.pc \notin {"off", "ready", "polling"} => s.token > 0
    /\ s.child = "alive" => s.pc \in {"feeding", "running", "reap"} \union Calls
    /\ s.answer = "extended" => s.pc = "renew"

WorkersTyped ==
    /\ host \in [Runners -> Hosts]
    /\ worker \in [Workers -> WorkerStates]
    /\ late \subseteq LateCalls
    /\ upsets \in 0..MaxUpsets

\* A worker's token was handed out, and its lease row is there once it runs.
Holding ==
    \A w \in Workers :
        /\ Shape(worker[w])
        /\ HasLease(w) => worker[w].token <= slot[worker[w].zombie].seq
        /\ InHand(w) => Lease(w).status # "none"

\* No two workers hold the same token of a zombie.
HeldByOne ==
    \A v, w \in Workers :
        HasLease(v) /\ v # w /\ worker[v].zombie = worker[w].zombie
            => worker[v].token # worker[w].token

\* What a worker holds is reported in its last wait only, and no report of it
\* that was given up on is on its way.
ReportedLast ==
    \A w \in Workers :
        HasLease(w) =>
            /\ Lease(w).status = "reported" => At(w, "ended")
            /\ <<"report", worker[w].zombie, worker[w].token>> \notin late

\* Calls on their way name tokens that were handed out.
LateGranted == \A q \in late : q[3] <= slot[q[2]].seq

PoolInv ==
    /\ SlotInv
    /\ WorkersTyped
    /\ Holding
    /\ HeldByOne
    /\ ReportedLast
    /\ LateGranted

\* The steps of the slot that happen here: no sweeper is among them.
PoolStep ==
    \/ \E z \in Zombies, r \in Runners : Claim(z, r)
    \/ \E z \in Zombies, t \in Tokens : RequestStep(z, t) \/ LeaseStep(z, t)
    \/ Tick
    \/ UNCHANGED svars

-------------------------------------------------------------------------------
\* The fields a worker's token and zombie have.
LEMMA TokenTyped ==
  ASSUME WorkersTyped, Holding, NEW w \in Workers, HasLease(w)
  PROVE  worker[w].zombie \in Zombies /\ worker[w].token \in Tokens
<1>1. worker[w] \in WorkerStates /\ Shape(worker[w])  BY DEF WorkersTyped, Holding
<1>2. worker[w].token \in 0..MaxClaims /\ worker[w].zombie \in Zombies
  BY <1>1 DEF WorkerStates, Shape, HasLease
<1>3. worker[w].token \in Tokens  BY <1>2, SlotAssumption DEF HasLease, Tokens
<1>4. QED  BY <1>2, <1>3

\* So has a worker that is past its poll, or holds the lease of a renewal.
LEMMA InHandTyped ==
  ASSUME WorkersTyped, Holding, NEW w \in Workers, InHand(w)
  PROVE  HasLease(w) /\ worker[w].zombie \in Zombies /\ worker[w].token \in Tokens
<1>1. HasLease(w)
  BY DEF Holding, Shape, InHand, HasLease
<1>2. QED  BY <1>1, TokenTyped

\* Every step of the daemons is one of the slot's, or leaves it alone.
LEMMA WorkerSlotSteps == ASSUME WorkersTyped, Holding, WorkerNext PROVE PoolStep
<1>1. ASSUME NEW w \in Workers, WorkerStep(w) \/ EndStream(w) \/ Exit(w)
      PROVE  PoolStep
  <2>1. ASSUME NEW z \in Zombies, ClaimFor(w, z)  PROVE  PoolStep
    BY <2>1, WorkerAssumption DEF ClaimFor, PoolStep
  <2>2. CASE RenewalGranted(w)
    <3>1. worker[w].zombie \in Zombies /\ worker[w].token \in Tokens
      BY <2>2, InHandTyped DEF RenewalGranted, At, InHand
    <3>2. LeaseStep(worker[w].zombie, worker[w].token)
      BY <2>2 DEF RenewalGranted, LeaseStep
    <3>3. QED  BY <3>1, <3>2 DEF PoolStep
  <2>3. CASE ReportArrives(w)
    <3>1. worker[w].zombie \in Zombies /\ worker[w].token \in Tokens
      BY <2>3, InHandTyped DEF ReportArrives, At, InHand
    <3>2. LeaseStep(worker[w].zombie, worker[w].token)
      BY <2>3 DEF ReportArrives, LeaseStep
    <3>3. QED  BY <3>1, <3>2 DEF PoolStep
  <2>4. \/ \E z \in Zombies : ClaimFor(w, z)
        \/ RenewalGranted(w) \/ ReportArrives(w)
        \/ UNCHANGED svars
    BY <1>1 DEF WorkerStep, Supervise, EndStream, Exit, Stop, Poll, LeaseArrives, PollEnds, WorkspaceFails,
       Start, Fed, NotStarted, ReadCapture, OnTick, Flushed, RenewalRefused, Extended, RenewalFails,
       Terminated, TimedOut, ReadEnd, Reap, ReportEnds, Moves
  <2>5. QED  BY <2>1, <2>2, <2>3, <2>4 DEF PoolStep
<1>2. ASSUME NEW q \in late, LateLands(q) \/ LateLost(q)
      PROVE  PoolStep
  <2>1. q[2] \in Zombies /\ q[3] \in Tokens
    BY DEF WorkersTyped, LateCalls
  <2>2. LeaseStep(q[2], q[3]) \/ UNCHANGED svars
    BY <1>2 DEF LateLands, LateLost, LeaseStep
  <2>3. QED  BY <2>1, <2>2 DEF PoolStep
<1>3. CASE ServerStep
  BY <1>3 DEF ServerStep, PoolStep, LeaseStep
<1>4. ASSUME NEW h \in Runners, Drain(h) \/ ControlStep(h) \/ Crash(h)
      PROVE  PoolStep
  BY <1>4 DEF Drain, ControlStep, FirstHeartbeat, Join, Crash, PoolStep
<1>5. CASE Pass
  BY <1>5 DEF Pass, PoolStep
<1>6. QED  BY <1>1, <1>2, <1>3, <1>4, <1>5 DEF WorkerNext

\* They are steps of the slot as it is specified.
LEMMA PoolIsSlot == PoolStep => [SlotNext]_svars
  BY DEF PoolStep, SlotNext

\* No step of the slot takes back a token or a lease row.
LEMMA Monotone ==
  ASSUME SlotInv, PoolStep
  PROVE  /\ \A z \in Zombies : slot[z].seq <= slot'[z].seq
         /\ \A z \in Zombies, u \in Tokens : lease[z][u].status # "none" => lease'[z][u].status # "none"
<1>1. SlotTypeOK  BY DEF SlotInv
<1>2. \A z \in Zombies : slot[z].seq \in Nat  BY <1>1 DEF SlotTypeOK, Slots
<1>3. ASSUME NEW z \in Zombies, NEW r \in Runners, Claim(z, r)
      PROVE  /\ \A y \in Zombies : slot[y].seq <= slot'[y].seq
             /\ lease' = lease
  BY <1>1, <1>2, <1>3 DEF Claim, SlotTypeOK
<1>4. ASSUME NEW z \in Zombies, NEW t \in Tokens, RequestStep(z, t)
      PROVE  /\ \A y \in Zombies : slot'[y].seq = slot[y].seq
             /\ \A y \in Zombies, u \in Tokens : lease[y][u].status # "none" => lease'[y][u].status # "none"
  <2>1. \A y \in Zombies : slot'[y].seq = slot[y].seq
    BY <1>1, <1>4 DEF RequestStep, ReclaimPriorActive, NoPriorActive, AcquireFresh, StampLease,
       IssueLease, AbandonClaim, DropClaim, Release, SlotTypeOK, Slots
  <2>2. ASSUME NEW p \in Tokens, ReclaimPriorActive(z, t, p)
        PROVE  \A y \in Zombies, u \in Tokens : lease[y][u].status # "none" => lease'[y][u].status # "none"
    BY <1>1, <2>2 DEF ReclaimPriorActive, SlotTypeOK, LeaseRows
  <2>3. CASE IssueLease(z, t)
    BY <1>1, <2>3 DEF IssueLease, SlotTypeOK
  <2>4. lease' = lease \/ IssueLease(z, t) \/ \E p \in Tokens : ReclaimPriorActive(z, t, p)
    BY <1>4 DEF RequestStep, NoPriorActive, AcquireFresh, StampLease, AbandonClaim, DropClaim
  <2>5. \A y \in Zombies, u \in Tokens : lease[y][u].status # "none" => lease'[y][u].status # "none"
    BY <2>2, <2>3, <2>4
  <2>6. QED  BY <2>1, <2>5
<1>5. ASSUME NEW z \in Zombies, NEW t \in Tokens, LeaseStep(z, t)
      PROVE  /\ \A y \in Zombies : slot'[y].seq = slot[y].seq
             /\ \A y \in Zombies, u \in Tokens : lease[y][u].status # "none" => lease'[y][u].status # "none"
  <2>1. ASSUME NEW at \in ClockReads(z, t), Renew(z, t, at)
        PROVE  /\ \A y \in Zombies : slot'[y].seq = slot[y].seq
               /\ \A y \in Zombies, u \in Tokens : lease'[y][u].status = lease[y][u].status
    BY <1>1, <2>1 DEF Renew, SlotTypeOK, Slots, LeaseRows
  <2>2. CASE ClaimReport(z, t)
    BY <1>1, <2>2 DEF ClaimReport, SlotTypeOK, LeaseRows
  <2>3. CASE ReleaseReported(z, t) \/ DropReport(z, t)
    BY <1>1, <2>3 DEF ReleaseReported, DropReport, Release, SlotTypeOK, Slots
  <2>4. QED  BY <1>5, <2>1, <2>2, <2>3 DEF LeaseStep
<1>6. CASE Tick \/ UNCHANGED svars
  BY <1>2, <1>6 DEF Tick, svars
<1>7. QED  BY <1>2, <1>3, <1>4, <1>5, <1>6 DEF PoolStep

\* Only an accepted report makes a row "reported".
LEMMA ReportsStay ==
  ASSUME SlotInv,
         \/ \E z \in Zombies, r \in Runners : Claim(z, r)
         \/ \E z \in Zombies, t \in Tokens : RequestStep(z, t) \/ ReleaseReported(z, t) \/ DropReport(z, t)
         \/ \E z \in Zombies, t \in Tokens : \E at \in ClockReads(z, t) : Renew(z, t, at)
         \/ Tick
         \/ UNCHANGED svars
  PROVE  \A z \in Zombies, u \in Tokens : lease'[z][u].status = "reported" => lease[z][u].status = "reported"
<1>1. SlotTypeOK  BY DEF SlotInv
<1>2. ASSUME NEW z \in Zombies, NEW t \in Tokens, RequestStep(z, t)
      PROVE  \A y \in Zombies, u \in Tokens : lease'[y][u].status = "reported" => lease[y][u].status = "reported"
  <2>1. ASSUME NEW p \in Tokens, ReclaimPriorActive(z, t, p)
        PROVE  \A y \in Zombies, u \in Tokens : lease'[y][u].status = "reported" => lease[y][u].status = "reported"
    BY <1>1, <2>1 DEF ReclaimPriorActive, SlotTypeOK, LeaseRows
  <2>2. CASE IssueLease(z, t)
    BY <1>1, <2>2 DEF IssueLease, SlotTypeOK
  <2>3. lease' = lease \/ IssueLease(z, t) \/ \E p \in Tokens : ReclaimPriorActive(z, t, p)
    BY <1>2 DEF RequestStep, NoPriorActive, AcquireFresh, StampLease, AbandonClaim, DropClaim
  <2>4. QED  BY <2>1, <2>2, <2>3
<1>3. ASSUME NEW z \in Zombies, NEW t \in Tokens, NEW at \in ClockReads(z, t), Renew(z, t, at)
      PROVE  \A y \in Zombies, u \in Tokens : lease'[y][u].status = lease[y][u].status
  BY <1>1, <1>3 DEF Renew, SlotTypeOK, LeaseRows
<1>4. QED
  BY <1>2, <1>3 DEF Claim, ReleaseReported, DropReport, Tick, svars

-------------------------------------------------------------------------------
\* A step of one worker, read off its record.
LEMMA Becomes ==
  ASSUME WorkersTyped, NEW w \in Workers, NEW s, Moves(w, s)
  PROVE  /\ worker'[w] = s
         /\ \A v \in Workers : v # w => worker'[v] = worker[v]
         /\ worker' = [x \in Workers |-> worker'[x]]
         /\ UNCHANGED svars /\ host' = host /\ upsets' = upsets
  BY DEF Moves, WorkersTyped

\* The steps a worker or its child takes by itself while the worker keeps the
\* lease it has.
GoesOn(w) ==
    \/ Poll(w) \/ LeaseArrives(w) \/ Start(w) \/ Fed(w) \/ NotStarted(w)
    \/ ReadCapture(w) \/ OnTick(w) \/ Flushed(w)
    \/ RenewalRefused(w) \/ Extended(w) \/ RenewalFails(w)
    \/ Terminated(w) \/ TimedOut(w) \/ ReadEnd(w) \/ Reap(w)
    \/ EndStream(w) \/ Exit(w)

\* The steps with which it lets go of the lease.
LetsGo(w) == Stop(w) \/ PollEnds(w) \/ WorkspaceFails(w) \/ ReportEnds(w)

\* What such a step makes of the worker's record, up to a call ...
Begins(s, s2, at, d) ==
    \/ s.pc = "ready" /\ s2 = [s EXCEPT !.pc = "polling"]
    \/ s.pc = "polling" /\ s.token > 0 /\ s2 = [s EXCEPT !.pc = "leased", !.kill = d]
    \/ s.pc = "leased" /\ s2 = [s EXCEPT !.pc = "feeding", !.child = "alive"]
    \/ s.pc = "feeding" /\ s2 = [s EXCEPT !.pc = "running"]
    \/ s.pc = "leased" /\ s2 = [s EXCEPT !.pc = "ended"]
    \/ /\ s.pc = "running" /\ at < s.kill
       /\ \E c \in Calls : s2 = [s EXCEPT !.pc = c]
    \/ /\ s.pc = "capture"
       /\ \E c \in {"flush", "renew"} : s2 = [s EXCEPT !.pc = c]
    \/ s.pc = "flush" /\ s2 = [s EXCEPT !.pc = "running"]

\* ... through its renewals ...
Renews(s, s2) ==
    \/ s.pc = "renew" /\ s2 = [s EXCEPT !.answer = "terminal"]
    \/ s.pc = "renew" /\ s.answer = "extended"
       /\ s2 = [s EXCEPT !.pc = "running", !.kill = s.offer,
                         !.answer = "none", !.offer = Never]
    \/ s.pc = "renew" /\ s2 = [s EXCEPT !.pc = "running", !.answer = "none", !.offer = Never]

\* ... to its end.
Finishes(s, s2, at) ==
    \/ (s.pc = "renew" \/ (s.pc = "running" /\ at >= s.kill))
       /\ s2 = [s EXCEPT !.pc = "reap", !.answer = "none",
                         !.child = "dead", !.stream = "ended"]
    \/ s.pc = "running" /\ s2 = [s EXCEPT !.pc = "reap"]
    \/ s.pc = "reap" /\ s.child # "alive" /\ s2 = [s EXCEPT !.pc = "ended", !.kill = Never]
    \/ s.child = "alive" /\ s2 = [s EXCEPT !.stream = "ended"]
    \/ s.child = "alive" /\ s2 = [s EXCEPT !.child = "dead", !.stream = "ended"]

\* A record that changes so stays one, under the lease it had.
StaysWell(s, s2) ==
    /\ s2 \in WorkerStates /\ Shape(s2)
    /\ s2.zombie = s.zombie /\ s2.token = s.token

\* The first steps of a lease keep the record of its worker well formed.
LEMMA BeginsWell ==
  ASSUME NEW s \in WorkerStates, Shape(s), NEW s2, NEW at \in Int, NEW d \in Int, Begins(s, s2, at, d)
  PROVE  StaysWell(s, s2)
<1>1. Never \in Int  BY DEF Never
<1>2. QED  BY <1>1 DEF Begins, StaysWell, WorkerStates, Shape, Calls

\* So does a renewal ...
LEMMA RenewsWell ==
  ASSUME NEW s \in WorkerStates, Shape(s), NEW s2, Renews(s, s2)
  PROVE  StaysWell(s, s2)
<1>1. Never \in Int  BY DEF Never
<1>2. QED  BY <1>1 DEF Renews, StaysWell, WorkerStates, Shape, Calls

\* ... and so do the last steps.
LEMMA FinishesWell ==
  ASSUME NEW s \in WorkerStates, Shape(s), NEW s2, NEW at \in Int, Finishes(s, s2, at)
  PROVE  StaysWell(s, s2)
<1>1. Never \in Int  BY DEF Never
<1>2. QED  BY <1>1 DEF Finishes, StaysWell, WorkerStates, Shape, Calls

\* Which of these the actions are, and that a poll takes a lease in hand only
\* when its row is there.
LEMMA GoesOnTo ==
  ASSUME WorkersTyped, NEW w \in Workers, Shape(worker[w]), GoesOn(w)
  PROVE  /\ \/ Begins(worker[w], worker'[w], now, Lease(w).expires)
            \/ Renews(worker[w], worker'[w])
            \/ Finishes(worker[w], worker'[w], now)
         /\ At(w, "polling") => Lease(w).status # "none" /\ HasLease(w)
<1>1. CASE Poll(w) \/ LeaseArrives(w) \/ Start(w) \/ Fed(w) \/ NotStarted(w)
  BY <1>1 DEF Moves, WorkersTyped, Poll, LeaseArrives, HasLease, Start, Fed, NotStarted, At, Begins
<1>2. CASE ReadCapture(w) \/ OnTick(w) \/ Flushed(w)
  BY <1>2 DEF Moves, WorkersTyped, ReadCapture, OnTick, MayRead, Flushed, Calls, At, Begins
<1>3. CASE RenewalRefused(w) \/ Extended(w) \/ RenewalFails(w)
  BY <1>3 DEF Moves, WorkersTyped, RenewalRefused, Extended, NewDeadline, RenewalFails, At, Renews
<1>4. CASE Terminated(w) \/ TimedOut(w)
  <2>1. worker'[w] = Killed(w)
    BY <1>4 DEF Moves, WorkersTyped, Terminated, TimedOut
  <2>2. At(w, "renew") \/ (At(w, "running") /\ now >= worker[w].kill)
    BY <1>4 DEF Terminated, TimedOut
  <2>3. Finishes(worker[w], worker'[w], now)
    BY <2>1, <2>2 DEF Killed, At, Finishes
  <2>4. QED  BY <2>2, <2>3 DEF At
<1>5. CASE ReadEnd(w) \/ Reap(w)
  BY <1>5 DEF Moves, WorkersTyped, MayRead, ReadEnd, Reap, Reaped, Lives, At, Finishes
<1>6. CASE EndStream(w) \/ Exit(w)
  BY <1>6 DEF Moves, WorkersTyped, EndStream, Exit, Lives, At, Finishes, Shape, Calls
<1>7. QED  BY <1>1, <1>2, <1>3, <1>4, <1>5, <1>6 DEF GoesOn

\* What the other workers and agentsfleetd see of it: nothing.
LEMMA StepsAlone ==
  ASSUME WorkersTyped, NEW w \in Workers, GoesOn(w) \/ LetsGo(w)
  PROVE  /\ \A v \in Workers : v # w => worker'[v] = worker[v]
         /\ worker' = [x \in Workers |-> worker'[x]]
         /\ UNCHANGED svars /\ host' = host /\ upsets' = upsets
<1>1. \E s : Moves(w, s)
  BY DEF GoesOn, LetsGo, Poll, LeaseArrives, Start, Fed, NotStarted, ReadCapture, OnTick, Flushed,
         RenewalRefused, Extended, RenewalFails, Terminated, TimedOut, ReadEnd, Reap, EndStream, Exit,
         Stop, PollEnds, WorkspaceFails, ReportEnds
<1>2. QED  BY <1>1, Becomes

\* What a worker that lets go is left with.
LEMMA LetsGoTo ==
  ASSUME WorkersTyped, NEW w \in Workers, LetsGo(w)
  PROVE  worker'[w] \in {Off, Ready}
  BY Becomes DEF LetsGo, Stop, PollEnds, WorkspaceFails, ReportEnds

\* A worker without a lease.
LEMMA OffTyped ==
  /\ Off \in WorkerStates /\ Ready \in WorkerStates
  /\ Shape(Off) /\ Shape(Ready)
  /\ Off.token = 0 /\ Ready.token = 0
  /\ Off.pc = "off" /\ Ready.pc = "ready"
  /\ Off.child = "none" /\ Ready.child = "none"
<1>1. Off \in WorkerStates /\ Off.token = 0 /\ Off.pc = "off" /\ Off.child = "none" /\ Off.answer = "none"
  BY SlotAssumption DEF Off, WorkerStates, Never
<1>2. Ready \in WorkerStates /\ Ready.token = 0 /\ Ready.pc = "ready" /\ Ready.child = "none" /\ Ready.answer = "none"
  BY <1>1 DEF Ready, WorkerStates
<1>3. QED  BY <1>1, <1>2 DEF Shape

-------------------------------------------------------------------------------
\* What a step makes of a worker: it goes on with the lease it has, lets go of
\* it, or is the one a claim is won for.
Kept(w) ==
    /\ StaysWell(worker[w], worker'[w])
    /\ worker'[w].pc \notin {"off", "ready", "polling"} => Lease(w).status # "none"
    /\ At(w, "ended") => worker'[w].pc = "ended"

LetGo(w) == worker'[w] \in {Off, Ready}

\* A worker that goes on keeps its lease.
LEMMA GoesOnWell ==
  ASSUME SlotInv, WorkersTyped, Holding, NEW w \in Workers, GoesOn(w)
  PROVE  Kept(w)
<1>1. /\ worker[w] \in WorkerStates /\ Shape(worker[w])
      /\ InHand(w) => Lease(w).status # "none"
      /\ now \in Int
  BY DEF WorkersTyped, Holding, SlotInv, SlotTypeOK
<1>2. HasLease(w) => Lease(w).expires \in Int
  BY TokenTyped DEF SlotInv, SlotTypeOK, LeaseRows, Lease
<1>3. StaysWell(worker[w], worker'[w])
  <2>1. CASE Begins(worker[w], worker'[w], now, Lease(w).expires)
    <3>1. CASE HasLease(w)
      BY <1>1, <1>2, <2>1, <3>1, BeginsWell
    <3>2. CASE ~HasLease(w)
      <4>1. Begins(worker[w], worker'[w], now, 0)
        BY <2>1, <3>2 DEF Begins, HasLease
      <4>2. QED  BY <1>1, <4>1, BeginsWell
    <3>3. QED  BY <3>1, <3>2
  <2>2. QED  BY <1>1, <2>1, GoesOnTo, RenewsWell, FinishesWell
<1>4. ASSUME worker'[w].pc \notin {"off", "ready", "polling"}, ~InHand(w)
      PROVE  At(w, "polling")
  <2>1. CASE Begins(worker[w], worker'[w], now, Lease(w).expires)
    BY <1>1, <1>4, <2>1 DEF Begins, InHand, At, WorkerStates
  <2>2. CASE Renews(worker[w], worker'[w])
    BY <1>1, <1>4, <2>2 DEF Renews, InHand
  <2>3. CASE Finishes(worker[w], worker'[w], now)
    BY <1>1, <1>4, <2>3 DEF Finishes, InHand, Shape, Calls
  <2>4. QED  BY <1>1, <2>1, <2>2, <2>3, GoesOnTo
<1>5. ~At(w, "ended")
  <2>1. CASE Begins(worker[w], worker'[w], now, Lease(w).expires)
    BY <2>1 DEF Begins, At
  <2>2. CASE Renews(worker[w], worker'[w])
    BY <2>2 DEF Renews, At
  <2>3. CASE Finishes(worker[w], worker'[w], now)
    BY <1>1, <2>3 DEF Finishes, At, Shape, Calls
  <2>4. QED  BY <1>1, <2>1, <2>2, <2>3, GoesOnTo
<1>6. QED  BY <1>1, <1>3, <1>4, <1>5, GoesOnTo DEF Kept

\* One that nothing happens to keeps its lease.
LEMMA SameWell ==
  ASSUME WorkersTyped, Holding, NEW w \in Workers, worker'[w] = worker[w]
  PROVE  Kept(w)
  BY DEF WorkersTyped, Holding, Kept, StaysWell, InHand, At

\* A renewal that is granted leaves the worker as it is, but for the answer.
LEMMA GrantedWell ==
  ASSUME SlotInv, WorkersTyped, Holding, NEW w \in Workers, RenewalGranted(w), SlotInv'
  PROVE  /\ Kept(w)
         /\ worker'[w] = [worker[w] EXCEPT !.answer = "extended",
                                           !.offer = lease'[worker[w].zombie][worker[w].token].expires]
         /\ \A v \in Workers : v # w => worker'[v] = worker[v]
         /\ worker' = [x \in Workers |-> worker'[x]]
<1> DEFINE d == lease'[worker[w].zombie][worker[w].token].expires
<1>1. /\ worker'[w] = [worker[w] EXCEPT !.answer = "extended", !.offer = d]
      /\ \A v \in Workers : v # w => worker'[v] = worker[v]
      /\ worker' = [x \in Workers |-> worker'[x]]
  BY DEF RenewalGranted, WorkersTyped
<1>2. worker[w] \in WorkerStates /\ Shape(worker[w]) /\ worker[w].pc = "renew" /\ Lease(w).status # "none"
  BY DEF WorkersTyped, Holding, RenewalGranted, At, InHand
<1>3. worker[w].zombie \in Zombies /\ worker[w].token \in Tokens
  BY <1>2, InHandTyped DEF InHand
<1>4. d \in Int
  BY <1>3 DEF SlotInv, SlotTypeOK, LeaseRows
<1>5. ASSUME NEW s \in WorkerStates, Shape(s), s.pc = "renew", NEW e \in Int,
             NEW s2, s2 = [s EXCEPT !.answer = "extended", !.offer = e]
      PROVE  StaysWell(s, s2)
  BY <1>5 DEF StaysWell, WorkerStates, Shape, Calls
<1>6. StaysWell(worker[w], worker'[w])
  BY <1>1, <1>2, <1>4, <1>5
<1>7. QED  BY <1>1, <1>2, <1>6 DEF Kept, At

\* A claim gives its worker the next token of the zombie.
LEMMA ClaimedWell ==
  ASSUME SlotInv, WorkersTyped, Holding, NEW w \in Workers, NEW z \in Zombies, ClaimFor(w, z)
  PROVE  /\ worker' = [x \in Workers |-> worker'[x]]
         /\ \A v \in Workers : v # w => worker'[v] = worker[v]
         /\ worker'[w] \in WorkerStates /\ Shape(worker'[w])
         /\ worker'[w].zombie = z /\ worker'[w].token = slot[z].seq + 1
         /\ worker'[w].pc = "polling" /\ ~HasLease(w)
         /\ slot'[z].seq = slot[z].seq + 1 /\ lease' = lease /\ late' = late
<1>1. /\ worker' = [x \in Workers |-> worker'[x]]
      /\ \A v \in Workers : v # w => worker'[v] = worker[v]
      /\ worker'[w] = [worker[w] EXCEPT !.zombie = z, !.token = slot[z].seq + 1]
  BY DEF ClaimFor, WorkersTyped
<1>2. worker[w] \in WorkerStates /\ Shape(worker[w]) /\ worker[w].pc = "polling" /\ worker[w].token = 0
  BY DEF WorkersTyped, Holding, ClaimFor, At
<1>3. slot[z].seq + 1 \in 0..MaxClaims
  BY SlotAssumption DEF ClaimFor, Claim, SlotInv, SlotTypeOK, Slots
<1>4. ASSUME NEW s \in WorkerStates, Shape(s), s.pc = "polling", NEW s2, NEW t \in 0..MaxClaims,
             s2 = [s EXCEPT !.zombie = z, !.token = t]
      PROVE  s2 \in WorkerStates /\ Shape(s2) /\ s2.zombie = z /\ s2.token = t /\ s2.pc = "polling"
  BY <1>4 DEF WorkerStates, Shape, Calls
<1>5. /\ worker'[w] \in WorkerStates /\ Shape(worker'[w])
      /\ worker'[w].zombie = z /\ worker'[w].token = slot[z].seq + 1 /\ worker'[w].pc = "polling"
  <2> DEFINE t == slot[z].seq + 1
  <2> HIDE DEF t
  <2>1. t \in 0..MaxClaims /\ worker'[w] = [worker[w] EXCEPT !.zombie = z, !.token = t]
    BY <1>1, <1>3 DEF t
  <2>2. /\ worker'[w] \in WorkerStates /\ Shape(worker'[w])
        /\ worker'[w].zombie = z /\ worker'[w].token = t /\ worker'[w].pc = "polling"
    BY <1>2, <1>4, <2>1
  <2>3. QED  BY <2>2 DEF t
<1>6. slot'[z].seq = slot[z].seq + 1 /\ lease' = lease /\ late' = late
  BY DEF ClaimFor, Claim, SlotInv, SlotTypeOK, Slots
<1>7. QED  BY <1>1, <1>2, <1>5, <1>6 DEF HasLease

\* What a step does to the workers: a claim is won for one of them, or each
\* goes on with what it has or lets go of it.
LEMMA WorkersMove ==
  ASSUME SlotInv, SlotInv', WorkersTyped, Holding, WorkerNext
  PROVE  /\ worker' = [x \in Workers |-> worker'[x]]
         /\ \/ \A w \in Workers : Kept(w) \/ LetGo(w)
            \/ \E w \in Workers, z \in Zombies :
                 ClaimFor(w, z) /\ \A v \in Workers : v # w => worker'[v] = worker[v]
<1>1. ASSUME NEW w \in Workers, WorkerStep(w) \/ EndStream(w) \/ Exit(w)
      PROVE  /\ worker' = [x \in Workers |-> worker'[x]]
             /\ \A v \in Workers : v # w => worker'[v] = worker[v]
             /\ Kept(w) \/ LetGo(w) \/ \E z \in Zombies : ClaimFor(w, z)
  <2>1. CASE GoesOn(w)
    BY <2>1, StepsAlone, GoesOnWell
  <2>2. CASE LetsGo(w)
    BY <2>2, StepsAlone, LetsGoTo DEF LetGo
  <2>3. CASE \E z \in Zombies : ClaimFor(w, z)
    BY <2>3 DEF ClaimFor, WorkersTyped
  <2>4. CASE RenewalGranted(w)
    BY <2>4, GrantedWell
  <2>5. CASE ReportArrives(w)
    BY <2>5, SameWell DEF ReportArrives, WorkersTyped
  <2>6. QED  BY <1>1, <2>1, <2>2, <2>3, <2>4, <2>5 DEF WorkerStep, Supervise, GoesOn, LetsGo
<1>2. CASE worker' = worker
  BY <1>2, SameWell DEF WorkersTyped
<1>3. ASSUME NEW h \in Runners, FirstHeartbeat(h) \/ Crash(h)
      PROVE  /\ worker' = [x \in Workers |-> worker'[x]]
             /\ \A w \in Workers : Kept(w) \/ LetGo(w)
  <2>1. /\ worker' = [x \in Workers |-> worker'[x]]
        /\ \A w \in Workers : worker'[w] = worker[w] \/ LetGo(w)
    BY <1>3 DEF FirstHeartbeat, Crash, LetGo
  <2>2. QED  BY <2>1, SameWell
<1>4. \/ \E w \in Workers : WorkerStep(w) \/ EndStream(w) \/ Exit(w)
      \/ worker' = worker
      \/ \E h \in Runners : FirstHeartbeat(h) \/ Crash(h)
  BY DEF WorkerNext, Drain, ControlStep, Join, LateLands, LateLost, ServerStep, Pass
<1>5. QED  BY <1>1, <1>2, <1>3, <1>4, SameWell

\* A call is given up on by the worker that made it; after its report, the
\* worker has let go of the lease.
LEMMA LateMoves ==
  ASSUME WorkersTyped, Holding, WorkerNext, NEW q \in late', q \notin late
  PROVE  \E w \in Workers :
           /\ HasLease(w) /\ q \in {"renew", "report"} \X {worker[w].zombie} \X {worker[w].token}
           /\ q[1] = "report" => LetGo(w)
<1>1. ASSUME NEW w \in Workers, q \in InFlight(w)
      PROVE  /\ HasLease(w) /\ q \in {"renew", "report"} \X {worker[w].zombie} \X {worker[w].token}
             /\ q[1] = "report" => At(w, "ended")
  BY <1>1 DEF InFlight, Holding, Shape, At, HasLease
<1>2. CASE \E w \in Workers : RenewalFails(w) \/ ReportEnds(w)
  <2>1. PICK w \in Workers : RenewalFails(w) \/ ReportEnds(w)  BY <1>2
  <2>2. q \in InFlight(w)
    BY <2>1 DEF RenewalFails, ReportEnds, GiveUp
  <2>3. ReportEnds(w) => LetGo(w)
    BY LetsGoTo DEF LetsGo, LetGo
  <2>4. RenewalFails(w) => ~At(w, "ended")
    BY DEF RenewalFails, At
  <2>5. QED  BY <1>1, <2>1, <2>2, <2>3, <2>4
<1>3. CASE \E h \in Runners : Crash(h)
  <2>1. PICK h \in Runners : Crash(h)  BY <1>3
  <2>2. PICK w \in Workers : Host[w] = h /\ q \in InFlight(w)
    BY <2>1 DEF Crash, GiveUp
  <2>3. LetGo(w)
    BY <2>1, <2>2 DEF Crash, LetGo
  <2>4. QED  BY <1>1, <2>2, <2>3
<1>4. \/ late' \subseteq late
      \/ \E w \in Workers : RenewalFails(w) \/ ReportEnds(w)
      \/ \E h \in Runners : Crash(h)
  <2>1. ASSUME NEW w \in Workers, WorkerStep(w)
        PROVE  late' = late \/ RenewalFails(w) \/ ReportEnds(w)
    BY <2>1 DEF WorkerStep, Supervise, Stop, Poll, ClaimFor, LeaseArrives, PollEnds, WorkspaceFails,
       Start, Fed, NotStarted, ReadCapture, OnTick, Flushed, RenewalGranted, RenewalRefused, Extended,
       Terminated, TimedOut, ReadEnd, Reap, ReportArrives
  <2>2. QED
    BY <2>1 DEF WorkerNext, Drain, ControlStep, FirstHeartbeat, Join, EndStream, Exit, LateLands,
       LateLost, ServerStep, Pass
<1>5. QED  BY <1>2, <1>3, <1>4

\* A row becomes "reported" by the report its worker waits for, or by one that
\* was given up on.
LEMMA ReportsMove ==
  ASSUME SlotInv, WorkersTyped, Holding, WorkerNext, NEW z \in Zombies, NEW t \in Tokens,
         lease'[z][t].status = "reported", lease[z][t].status # "reported"
  PROVE  \/ \E w \in Workers :
              /\ HasLease(w) /\ worker[w].zombie = z /\ worker[w].token = t
              /\ At(w, "ended") /\ worker' = worker
         \/ <<"report", z, t>> \in late
<1>1. ASSUME NEW y \in Zombies, NEW u \in Tokens, ClaimReport(y, u)
      PROVE  y = z /\ u = t
  BY <1>1 DEF ClaimReport, SlotInv, SlotTypeOK, LeaseRows
<1>2. ASSUME NEW w \in Workers, ReportArrives(w)
      PROVE  /\ HasLease(w) /\ worker[w].zombie = z /\ worker[w].token = t
             /\ At(w, "ended") /\ worker' = worker
  <2>1. HasLease(w) /\ worker[w].zombie \in Zombies /\ worker[w].token \in Tokens
    BY <1>2, InHandTyped DEF ReportArrives, At, InHand
  <2>2. QED  BY <1>1, <1>2, <2>1 DEF ReportArrives
<1>3. ASSUME NEW q \in late, q[1] = "report", ClaimReport(q[2], q[3])
      PROVE  <<"report", z, t>> \in late
  <2>1. q[2] \in Zombies /\ q[3] \in Tokens /\ q = <<q[1], q[2], q[3]>>
    BY DEF WorkersTyped, LateCalls
  <2>2. QED  BY <1>1, <1>3, <2>1
<1>4. ASSUME NEW y \in Zombies, NEW u \in Tokens, NEW at \in ClockReads(y, u), Renew(y, u, at)
      PROVE  FALSE
  BY <1>4, ReportsStay
<1>5. ASSUME NEW w \in Workers, WorkerStep(w) \/ EndStream(w) \/ Exit(w)
      PROVE  ReportArrives(w)
  <2>1. CASE GoesOn(w) \/ LetsGo(w)
    BY <2>1, StepsAlone DEF svars
  <2>2. CASE \E y \in Zombies : ClaimFor(w, y)
    BY <2>2 DEF ClaimFor, Claim
  <2>3. CASE RenewalGranted(w)
    <3>1. worker[w].zombie \in Zombies /\ worker[w].token \in Tokens
      BY <2>3, InHandTyped DEF RenewalGranted, At, InHand
    <3>2. PICK at \in ClockReads(worker[w].zombie, worker[w].token) :
              Renew(worker[w].zombie, worker[w].token, at)
      BY <2>3 DEF RenewalGranted
    <3>3. QED  BY <1>4, <3>1, <3>2
  <2>4. QED  BY <1>5, <2>1, <2>2, <2>3 DEF WorkerStep, Supervise, GoesOn, LetsGo
<1>6. ASSUME NEW q \in late, LateLands(q)
      PROVE  q[1] = "report" /\ ClaimReport(q[2], q[3])
  <2>1. q[2] \in Zombies /\ q[3] \in Tokens
    BY DEF WorkersTyped, LateCalls
  <2>2. QED  BY <1>4, <1>6, <2>1 DEF LateLands
<1>7. CASE ServerStep
  BY <1>7, ReportsStay DEF ServerStep
<1>8. \/ \E w \in Workers : WorkerStep(w) \/ EndStream(w) \/ Exit(w)
      \/ \E q \in late : LateLands(q)
      \/ ServerStep
      \/ UNCHANGED lease
  BY DEF WorkerNext, Drain, ControlStep, FirstHeartbeat, Join, Crash, LateLost, Pass, Tick, svars
<1>9. QED  BY <1>2, <1>3, <1>5, <1>6, <1>7, <1>8

-------------------------------------------------------------------------------
\* The invariant of the pool, conjunct by conjunct.
LEMMA WorkersTypedStep ==
  ASSUME PoolInv, SlotInv', WorkerNext  PROVE WorkersTyped'
<1>1. SlotInv /\ WorkersTyped /\ Holding  BY DEF PoolInv
<1>2. worker' \in [Workers -> WorkerStates]
  <2>1. ASSUME NEW w \in Workers, Kept(w) \/ LetGo(w)
        PROVE  worker'[w] \in WorkerStates
    BY <2>1, OffTyped DEF Kept, LetGo, StaysWell
  <2>2. CASE \A w \in Workers : Kept(w) \/ LetGo(w)
    <3>1. worker' = [x \in Workers |-> worker'[x]]  BY <1>1, WorkersMove
    <3>2. \A w \in Workers : worker'[w] \in WorkerStates  BY <2>1, <2>2
    <3>3. QED  BY <3>1, <3>2
  <2>3. ASSUME NEW w \in Workers, NEW z \in Zombies, ClaimFor(w, z)
        PROVE  worker' \in [Workers -> WorkerStates]
    <3>1. worker' = [x \in Workers |-> worker'[x]] /\ worker'[w] \in WorkerStates
      BY <1>1, <2>3, ClaimedWell
    <3>2. \A v \in Workers : v # w => worker'[v] = worker[v]
      BY <1>1, <2>3, ClaimedWell
    <3>3. QED  BY <1>1, <3>1, <3>2 DEF WorkersTyped
  <2>4. QED  BY <1>1, <2>2, <2>3, WorkersMove
<1>3. late' \subseteq LateCalls
  <2>1. ASSUME NEW q \in late', q \notin late
        PROVE  q \in LateCalls
    BY <1>1, <2>1, LateMoves, TokenTyped DEF LateCalls
  <2>2. QED  BY <1>1, <2>1 DEF WorkersTyped
<1>4. host' \in [Runners -> Hosts] /\ upsets' \in 0..MaxUpsets
  <2>1. ASSUME NEW h \in Runners, Drain(h) \/ ControlStep(h) \/ Crash(h)
        PROVE  host' \in [Runners -> Hosts] /\ upsets' \in 0..MaxUpsets
    <3>1. \/ host' = [host EXCEPT ![h].drain = TRUE]
          \/ \E at \in {"up", "gone"} : host' = [host EXCEPT ![h].at = at]
          \/ host' = [host EXCEPT ![h] = [at |-> "booting", drain |-> FALSE]]
      BY <2>1 DEF Drain, ControlStep, FirstHeartbeat, Join, Crash
    <3>2. upsets' \in 0..MaxUpsets
      BY <1>1, <2>1, WorkerAssumption DEF Drain, ControlStep, FirstHeartbeat, Join, Crash, WorkersTyped
    <3>3. ASSUME NEW k \in Hosts, NEW at \in {"up", "gone"}
          PROVE  [k EXCEPT !.drain = TRUE] \in Hosts /\ [k EXCEPT !.at = at] \in Hosts
      BY DEF Hosts
    <3>4. host[h] \in Hosts /\ [at |-> "booting", drain |-> FALSE] \in Hosts
      BY <1>1 DEF WorkersTyped, Hosts
    <3>5. \E k \in Hosts : host' = [host EXCEPT ![h] = k]
      BY <3>1, <3>3, <3>4
    <3>6. QED  BY <1>1, <3>2, <3>5 DEF WorkersTyped
  <2>2. ASSUME NEW w \in Workers, WorkerStep(w) \/ EndStream(w) \/ Exit(w)
        PROVE  host' = host /\ upsets' = upsets
    <3>1. CASE GoesOn(w) \/ LetsGo(w)
      BY <1>1, <3>1, StepsAlone
    <3>2. CASE ~(GoesOn(w) \/ LetsGo(w))
      BY <2>2, <3>2 DEF WorkerStep, Supervise, GoesOn, LetsGo, ClaimFor, RenewalGranted, ReportArrives
    <3>3. QED  BY <3>1, <3>2
  <2>3. QED
    BY <1>1, <2>1, <2>2 DEF WorkersTyped, WorkerNext, LateLands, LateLost, ServerStep, Pass
<1>5. QED  BY <1>2, <1>3, <1>4 DEF WorkersTyped

\* Tokens and rows outlive what the workers do with them.
LEMMA HoldingStep ==
  ASSUME PoolInv, SlotInv', WorkersTyped', WorkerNext  PROVE Holding'
<1>1. SlotInv /\ WorkersTyped /\ Holding  BY DEF PoolInv
<1>2. PoolStep  BY <1>1, WorkerSlotSteps
<1>3. SUFFICES ASSUME NEW w \in Workers
               PROVE  /\ Shape(worker'[w])
                      /\ worker'[w].token > 0 => worker'[w].token <= slot'[worker'[w].zombie].seq
                      /\ worker'[w].pc \notin {"off", "ready", "polling"} =>
                           lease'[worker'[w].zombie][worker'[w].token].status # "none"
  BY DEF Holding, HasLease, InHand, Lease
<1>4. CASE Kept(w)
  <2>1. StaysWell(worker[w], worker'[w])  BY <1>4 DEF Kept
  <2>2. ASSUME worker'[w].token > 0
        PROVE  /\ worker[w].zombie \in Zombies /\ worker[w].token \in Tokens
               /\ worker[w].token <= slot[worker[w].zombie].seq
    BY <1>1, <2>1, <2>2, TokenTyped DEF StaysWell, HasLease, Holding
  <2>3. ASSUME worker'[w].token > 0  PROVE worker'[w].token <= slot'[worker'[w].zombie].seq
    <3>1. slot[worker[w].zombie].seq <= slot'[worker[w].zombie].seq
      BY <1>1, <1>2, <2>2, <2>3, Monotone
    <3>2. /\ slot[worker[w].zombie].seq \in Int /\ slot'[worker[w].zombie].seq \in Int
          /\ worker[w].token \in Int
      BY <2>2, <2>3 DEF SlotInv, SlotTypeOK, Slots, Tokens, PoolInv
    <3>3. QED  BY <2>1, <2>2, <2>3, <3>1, <3>2 DEF StaysWell
  <2>4. ASSUME worker'[w].pc \notin {"off", "ready", "polling"}
        PROVE  lease'[worker'[w].zombie][worker'[w].token].status # "none"
    <3>1. worker'[w].token > 0  BY <2>1, <2>4 DEF StaysWell, Shape
    <3>2. lease[worker[w].zombie][worker[w].token].status # "none"
      BY <1>4, <2>4 DEF Kept, Lease
    <3>3. QED  BY <1>1, <1>2, <2>1, <2>2, <3>1, <3>2, Monotone DEF StaysWell
  <2>5. QED  BY <2>1, <2>3, <2>4 DEF StaysWell
<1>5. CASE LetGo(w)
  BY <1>5, OffTyped DEF LetGo
<1>6. ASSUME NEW v \in Workers, NEW z \in Zombies, ClaimFor(v, z)
      PROVE  Kept(w) \/ (w = v /\ ClaimFor(w, z))
  BY <1>1, <1>6, ClaimedWell, SameWell
<1>7. ASSUME NEW z \in Zombies, ClaimFor(w, z)
      PROVE  /\ Shape(worker'[w])
             /\ worker'[w].token <= slot'[worker'[w].zombie].seq
             /\ worker'[w].pc = "polling"
  <2>1. slot[z].seq \in Int  BY <1>1 DEF SlotInv, SlotTypeOK, Slots
  <2>2. QED  BY <1>1, <1>7, <2>1, ClaimedWell
<1>8. QED
  BY <1>1, <1>4, <1>5, <1>6, <1>7, WorkersMove

\* A claim hands out a token nobody has.
LEMMA HeldByOneStep ==
  ASSUME PoolInv, SlotInv', WorkerNext  PROVE HeldByOne'
<1>1. SlotInv /\ WorkersTyped /\ Holding /\ HeldByOne  BY DEF PoolInv
<1>2. SUFFICES ASSUME NEW v \in Workers, NEW w \in Workers, v # w,
                      worker'[v].token > 0, worker'[v].zombie = worker'[w].zombie,
                      worker'[v].token = worker'[w].token
               PROVE  FALSE
  BY DEF HeldByOne, HasLease
<1>3. \A x \in Workers : LetGo(x) => worker'[x].token = 0
  BY OffTyped DEF LetGo
<1>4. \A x \in Workers : Kept(x) => worker'[x].zombie = worker[x].zombie /\ worker'[x].token = worker[x].token
  BY DEF Kept, StaysWell
<1>5. CASE Kept(v) /\ Kept(w)
  BY <1>1, <1>2, <1>4, <1>5 DEF HeldByOne, HasLease
<1>6. ASSUME NEW x \in Workers, NEW y \in Workers, x # y, NEW z \in Zombies, ClaimFor(x, z)
      PROVE  /\ Kept(y)
             /\ worker'[x].zombie = z /\ worker'[x].token = slot[z].seq + 1 /\ slot[z].seq \in Int
  BY <1>1, <1>6, ClaimedWell, SameWell DEF SlotInv, SlotTypeOK, Slots
<1>7. ASSUME NEW x \in Workers, NEW z \in Zombies, HasLease(x), worker[x].zombie = z
      PROVE  worker[x].token \in Int /\ worker[x].token <= slot[z].seq
  BY <1>1, <1>7, TokenTyped DEF Holding, Tokens
<1>8. ASSUME NEW x \in Workers, NEW y \in Workers, x # y, NEW z \in Zombies, ClaimFor(x, z),
             worker'[y].zombie = worker'[x].zombie, worker'[y].token = worker'[x].token,
             worker'[y].token > 0
      PROVE  FALSE
  <2>1. worker[y].zombie = z /\ worker[y].token = slot[z].seq + 1 /\ HasLease(y) /\ slot[z].seq \in Int
    BY <1>4, <1>6, <1>8 DEF HasLease
  <2>2. worker[y].token <= slot[z].seq  BY <1>7, <2>1
  <2>3. QED  BY <2>1, <2>2
<1>9. CASE \E x \in Workers, z \in Zombies : ClaimFor(x, z)
  <2>1. PICK x \in Workers, z \in Zombies : ClaimFor(x, z)  BY <1>9
  <2>2. CASE x = v  BY <1>2, <1>8, <2>1, <2>2
  <2>3. CASE x = w  BY <1>2, <1>8, <2>1, <2>3
  <2>4. CASE x # v /\ x # w  BY <1>5, <1>6, <2>1, <2>4
  <2>5. QED  BY <2>2, <2>3, <2>4
<1>10. QED
  BY <1>1, <1>2, <1>3, <1>5, <1>9, WorkersMove

\* A report is made by the worker that holds the lease, in its last wait, or
\* was made by one that let go of it, so it is not made of one that runs.
LEMMA ReportedLastStep ==
  ASSUME PoolInv, SlotInv', WorkersTyped', Holding', WorkerNext  PROVE ReportedLast'
<1>1. SlotInv /\ WorkersTyped /\ Holding /\ HeldByOne /\ ReportedLast /\ LateGranted  BY DEF PoolInv
<1>2. SUFFICES ASSUME NEW w \in Workers, worker'[w].token > 0
               PROVE  /\ lease'[worker'[w].zombie][worker'[w].token].status = "reported" =>
                           worker'[w].pc = "ended"
                      /\ <<"report", worker'[w].zombie, worker'[w].token>> \notin late'
  BY DEF ReportedLast, HasLease, Lease, At
<1>3. ~LetGo(w)
  BY <1>2, OffTyped DEF LetGo
<1>4. CASE Kept(w)
  <2>1. worker'[w].zombie = worker[w].zombie /\ worker'[w].token = worker[w].token
    BY <1>4 DEF Kept, StaysWell
  <2>2. HasLease(w) /\ worker[w].zombie \in Zombies /\ worker[w].token \in Tokens
    BY <1>1, <1>2, <2>1, TokenTyped DEF HasLease
  <2>3. /\ lease[worker[w].zombie][worker[w].token].status = "reported" => At(w, "ended")
        /\ <<"report", worker[w].zombie, worker[w].token>> \notin late
    BY <1>1, <2>2 DEF ReportedLast, Lease
  <2>4. ASSUME NEW v \in Workers, HasLease(v), worker[v].zombie = worker[w].zombie,
               worker[v].token = worker[w].token, LetGo(v)
        PROVE  FALSE
    BY <1>1, <1>3, <2>4 DEF HeldByOne
  <2>5. ASSUME lease'[worker[w].zombie][worker[w].token].status = "reported"
        PROVE  worker'[w].pc = "ended"
    <3>1. CASE lease[worker[w].zombie][worker[w].token].status = "reported"
      BY <1>4, <2>3, <3>1 DEF Kept
    <3>2. CASE lease[worker[w].zombie][worker[w].token].status # "reported"
      <4>1. PICK v \in Workers :
              /\ HasLease(v) /\ worker[v].zombie = worker[w].zombie
              /\ worker[v].token = worker[w].token
              /\ At(v, "ended") /\ worker' = worker
        BY <1>1, <2>2, <2>3, <2>5, <3>2, ReportsMove
      <4>2. v = w  BY <1>1, <4>1 DEF HeldByOne
      <4>3. QED  BY <4>1, <4>2 DEF At
    <3>3. QED  BY <3>1, <3>2
  <2>6. ASSUME <<"report", worker[w].zombie, worker[w].token>> \in late'  PROVE FALSE
    <3> DEFINE q == <<"report", worker[w].zombie, worker[w].token>>
    <3>1. PICK v \in Workers :
            /\ HasLease(v) /\ q \in {"renew", "report"} \X {worker[v].zombie} \X {worker[v].token}
            /\ q[1] = "report" => LetGo(v)
      BY <1>1, <2>3, <2>6, LateMoves
    <3>2. LetGo(v) /\ worker[v].zombie = worker[w].zombie /\ worker[v].token = worker[w].token
      BY <3>1
    <3>3. QED  BY <2>4, <3>1, <3>2
  <2>7. QED  BY <2>1, <2>5, <2>6
<1>5. ASSUME NEW z \in Zombies, ClaimFor(w, z)
      PROVE  /\ lease'[worker'[w].zombie][worker'[w].token].status # "reported"
             /\ <<"report", worker'[w].zombie, worker'[w].token>> \notin late'
  <2>1. /\ worker'[w].zombie = z /\ worker'[w].token = slot[z].seq + 1
        /\ lease' = lease /\ late' = late
    BY <1>1, <1>5, ClaimedWell
  <2>2. slot[z].seq \in Int /\ slot[z].seq + 1 \in Tokens
    BY <1>1, <1>5, SlotAssumption DEF ClaimFor, Claim, SlotInv, SlotTypeOK, Slots, Tokens
  <2>3. lease[z][slot[z].seq + 1].status = "none"
    BY <1>1, <2>2 DEF SlotInv, TokensGranted
  <2>4. <<"report", z, slot[z].seq + 1>> \notin late
    BY <1>1, <2>2 DEF LateGranted
  <2>5. QED  BY <2>1, <2>3, <2>4
<1>6. Kept(w) \/ \E z \in Zombies : ClaimFor(w, z)
  BY <1>1, <1>3, WorkersMove, SameWell
<1>7. QED  BY <1>4, <1>5, <1>6

\* A call on its way names the token of the worker that made it.
LEMMA LateGrantedStep ==
  ASSUME PoolInv, SlotInv', WorkerNext  PROVE LateGranted'
<1>1. SlotInv /\ WorkersTyped /\ Holding /\ LateGranted  BY DEF PoolInv
<1>2. PoolStep  BY <1>1, WorkerSlotSteps
<1>3. ASSUME NEW z \in Zombies, NEW t \in Int, t <= slot[z].seq
      PROVE  t <= slot'[z].seq
  <2>1. slot[z].seq <= slot'[z].seq  BY <1>1, <1>2, Monotone
  <2>2. slot[z].seq \in Int /\ slot'[z].seq \in Int
    BY <1>1 DEF SlotInv, SlotTypeOK, Slots
  <2>3. QED  BY <1>3, <2>1, <2>2
<1>4. ASSUME NEW q \in late', q \notin late
      PROVE  q[2] \in Zombies /\ q[3] \in Int /\ q[3] <= slot[q[2]].seq
  <2>1. PICK w \in Workers :
          HasLease(w) /\ q \in {"renew", "report"} \X {worker[w].zombie} \X {worker[w].token}
    BY <1>1, <1>4, LateMoves
  <2>2. q[2] = worker[w].zombie /\ q[3] = worker[w].token
    BY <2>1
  <2>3. QED  BY <1>1, <2>1, <2>2, TokenTyped DEF Holding, Tokens
<1>5. ASSUME NEW q \in late
      PROVE  q[2] \in Zombies /\ q[3] \in Int /\ q[3] <= slot[q[2]].seq
  BY <1>1 DEF WorkersTyped, LateCalls, LateGranted, Tokens
<1>6. QED  BY <1>3, <1>4, <1>5 DEF LateGranted

-------------------------------------------------------------------------------
\* Daemons that boot hold nothing.
LEMMA PoolInit == WorkerInit => PoolInv
<1> SUFFICES ASSUME WorkerInit PROVE PoolInv
  OBVIOUS
<1>1. SlotInv  BY InitInv DEF WorkerInit
<1>2. \A w \in Workers : worker[w] = Off  BY DEF WorkerInit
<1>3. WorkersTyped
  BY OffTyped, WorkerAssumption DEF WorkerInit, WorkersTyped, Hosts
<1>4. Holding /\ HeldByOne /\ ReportedLast
  BY <1>2, OffTyped DEF Holding, HeldByOne, ReportedLast, HasLease, InHand
<1>5. LateGranted  BY DEF WorkerInit, LateGranted
<1>6. QED  BY <1>1, <1>3, <1>4, <1>5 DEF PoolInv

\* Every step keeps the invariant of the pool.
LEMMA PoolNext == ASSUME PoolInv, [WorkerNext]_wvars PROVE PoolInv'
<1>1. CASE WorkerNext
  <2>1. SlotInv'
    BY <1>1, WorkerSlotSteps, PoolIsSlot, NextInv DEF PoolInv
  <2>2. WorkersTyped'  BY <1>1, <2>1, WorkersTypedStep
  <2>3. Holding'  BY <1>1, <2>1, <2>2, HoldingStep
  <2>4. QED
    BY <1>1, <2>1, <2>2, <2>3, HeldByOneStep, ReportedLastStep, LateGrantedStep DEF PoolInv
<1>2. CASE UNCHANGED wvars
  <2>1. UNCHANGED svars  BY <1>2 DEF wvars, svars
  <2>2. SlotInv'  BY <2>1, NextInv DEF PoolInv
  <2>3. QED
    BY <1>2, <2>2
    DEF PoolInv, wvars, WorkersTyped, Holding, HeldByOne, ReportedLast, LateGranted, HasLease, InHand,
        Lease, At
<1>3. QED  BY <1>1, <1>2

\* What the pool keeps true.
THEOREM PoolInvariant == WorkerSpec => []PoolInv
  BY PoolInit, PoolNext, PTL DEF WorkerSpec

\* The daemons, with their crashes, drains and late calls, only ever take
\* steps of the lease slot: all that is proved of it holds under them
\* (worker_pool.zig workerLoop, renew_driver.zig, loop_report.zig).
THEOREM WorkerImplementsSlot == WorkerSpec => SlotSpec
<1>1. WorkerInit => SlotInit  BY DEF WorkerInit
<1>2. PoolInv /\ [WorkerNext]_wvars => [SlotNext]_svars
  <2>1. PoolInv /\ WorkerNext => [SlotNext]_svars
    BY WorkerSlotSteps, PoolIsSlot DEF PoolInv
  <2>2. UNCHANGED wvars => UNCHANGED svars  BY DEF wvars, svars
  <2>3. QED  BY <2>1, <2>2
<1>3. QED  BY <1>1, <1>2, PoolInvariant, PTL DEF WorkerSpec, SlotSpec

-------------------------------------------------------------------------------
\* The deadline d of token t of zombie z is not past what the slot still keeps
\* the others out for, but for the age of a clock reading; once a later token is
\* out, d is over but for as much.
Covered(z, t, d) ==
    /\ d <= now + LeaseTTL
    /\ slot[z].seq = t => d <= slot[z].until + MaxStall
    /\ slot[z].seq > t => d <= now + MaxStall

\* The same after a step.
CoveredNext(z, t, d) ==
    /\ d <= now' + LeaseTTL
    /\ slot'[z].seq = t => d <= slot'[z].until + MaxStall
    /\ slot'[z].seq > t => d <= now' + MaxStall

RequestsCovered ==
    \A z \in Zombies, t \in Tokens :
        work[z][t].stage # "none" => Covered(z, t, work[z][t].until)

\* A row that was not reported: reports free the slot early.
InForce(z, t) == lease[z][t].status \in {"active", "expired"}

LeasesCovered ==
    \A z \in Zombies, t \in Tokens : InForce(z, t) => Covered(z, t, lease[z][t].expires)

\* No deadline of a lease is past its ceiling.
Capping(z, t, d) == d <= lease[z][t].created + MaxRuntime

\* The deadline a worker enforces, and the one it is about to.
WorkersCovered ==
    \A w \in Workers :
        InHand(w) /\ ~At(w, "ended") =>
            /\ Covered(worker[w].zombie, worker[w].token, worker[w].kill)
            /\ Capping(worker[w].zombie, worker[w].token, worker[w].kill)
            /\ worker[w].answer = "extended" =>
                 /\ Covered(worker[w].zombie, worker[w].token, worker[w].offer)
                 /\ Capping(worker[w].zombie, worker[w].token, worker[w].offer)

CoverInv == RequestsCovered /\ LeasesCovered /\ WorkersCovered

\* What one step does to the slot of a zombie: nothing, the next claim once it
\* is past, a renewal of its token, or its release.
SlotSame(z)     == slot'[z] = slot[z]
SlotClaimed(z)  == /\ slot'[z].seq = slot[z].seq + 1 /\ now' = now
                   /\ slot'[z].until = now + LeaseTTL
                   /\ slot[z].seq = 0 \/ slot[z].until < now
SlotRenewed(z)  == /\ slot'[z].seq = slot[z].seq /\ now' = now
                   /\ \E t \in Tokens, at \in Int :
                        /\ t = slot[z].seq /\ InForce(z, t) /\ now - at <= MaxStall
                        /\ slot'[z].until \in {at + LeaseTTL, lease[z][t].created + MaxRuntime}
SlotReleased(z) == /\ slot'[z].seq = slot[z].seq /\ slot'[z].until = now /\ now' = now
                   /\ \E t \in Tokens : /\ t = slot[z].seq /\ ~InForce(z, t)
                                        /\ work[z][t].stage # "none" => work'[z][t].stage = "none"

\* A renewal gives one TTL past the clock it read, or all that the ceiling
\* leaves.
LEMMA RenewedOn ==
  ASSUME SlotInv, NEW z \in Zombies, NEW t \in Tokens, NEW at \in ClockReads(z, t), Renew(z, t, at)
  PROVE  /\ slot[z].seq = t /\ slot'[z].seq = t /\ now' = now
         /\ at \in Int /\ now - at <= MaxStall /\ at <= now /\ InForce(z, t)
         /\ slot'[z].until \in {at + LeaseTTL, lease[z][t].created + MaxRuntime}
         /\ slot'[z].until <= at + LeaseTTL
         /\ lease'[z][t].expires = slot'[z].until
         /\ \A y \in Zombies : y # z => slot'[y] = slot[y]
<1>1. SlotTypeOK /\ slot[z] \in Slots /\ lease[z][t] \in LeaseRows /\ now \in Int
  BY CellTypes DEF SlotInv
<1>2. at \in Int /\ now - at <= MaxStall /\ at <= now
  BY <1>1 DEF ClockReads
<1>3. slot[z].seq = t
  BY <1>1 DEF Renew, Fenced, Active, SlotInv, TokensGranted, Slots, Tokens
<1>4. LET c == Capped(z, t, at) IN
        /\ slot' = [slot EXCEPT ![z].until = c] /\ lease' = [lease EXCEPT ![z][t].expires = c]
        /\ now' = now
  BY DEF Renew
<1>5. /\ Capped(z, t, at) \in {at + LeaseTTL, lease[z][t].created + MaxRuntime}
      /\ Capped(z, t, at) <= at + LeaseTTL
  BY <1>1, <1>2, SlotAssumption DEF Capped, LeaseRows
<1>6. /\ slot'[z].until = Capped(z, t, at) /\ slot'[z].seq = t
      /\ lease'[z][t].expires = Capped(z, t, at)
      /\ \A y \in Zombies : y # z => slot'[y] = slot[y]
  BY <1>1, <1>3, <1>4 DEF SlotTypeOK, Slots, LeaseRows
<1>7. InForce(z, t)  BY DEF Renew, Active, InForce
<1>8. QED  BY <1>2, <1>3, <1>4, <1>5, <1>6, <1>7

\* Every step of the pool does one of these four to a slot, and the clock goes on.
LEMMA SlotMoves ==
  ASSUME SlotInv, PoolStep, NEW z \in Zombies
  PROVE  /\ SlotSame(z) \/ SlotClaimed(z) \/ SlotRenewed(z) \/ SlotReleased(z)
         /\ now <= now'
<1>1. SlotTypeOK /\ slot[z] \in Slots /\ now \in Int  BY DEF SlotInv, SlotTypeOK
<1>2. ASSUME NEW y \in Zombies, NEW r \in Runners, Claim(y, r)
      PROVE  (SlotSame(z) \/ SlotClaimed(z)) /\ now' = now
  BY <1>1, <1>2 DEF Claim, Claimable, SlotSame, SlotClaimed, SlotTypeOK, Slots
<1>3. ASSUME NEW y \in Zombies, NEW t \in Tokens, NEW at \in ClockReads(y, t), Renew(y, t, at)
      PROVE  (SlotSame(z) \/ SlotRenewed(z)) /\ now' = now
  BY <1>3, RenewedOn DEF SlotSame, SlotRenewed
<1>4. ASSUME NEW y \in Zombies, NEW t \in Tokens, Release(y, t), now' = now, ~InForce(y, t),
             work[y][t].stage # "none" => work'[y][t].stage = "none"
      PROVE  SlotSame(z) \/ SlotReleased(z)
  BY <1>1, <1>4 DEF Release, SlotSame, SlotReleased, SlotTypeOK, Slots
<1>5. ASSUME NEW y \in Zombies, NEW t \in Tokens, AbandonClaim(y, t)
      PROVE  (SlotSame(z) \/ SlotReleased(z)) /\ now' = now
  <2>1. ~InForce(y, t)
    BY <1>5 DEF AbandonClaim, InForce, SlotInv, RequestOrLease
  <2>2. work'[y][t].stage = "none"
    BY <1>1, <1>5 DEF AbandonClaim, NoRequest, SlotTypeOK
  <2>3. QED  BY <1>4, <1>5, <2>1, <2>2 DEF AbandonClaim
<1>6. ASSUME NEW y \in Zombies, NEW t \in Tokens, ReleaseReported(y, t)
      PROVE  (SlotSame(z) \/ SlotReleased(z)) /\ now' = now
  <2>1. lease[y][t].status = "reported"
    BY <1>6 DEF ReleaseReported, SlotInv, ClosingReported
  <2>2. work[y][t].stage = "none"
    BY <2>1 DEF SlotInv, RequestOrLease
  <2>3. QED  BY <1>4, <1>6, <2>1, <2>2 DEF ReleaseReported, InForce
<1>7. ASSUME NEW y \in Zombies, NEW t \in Tokens, RequestStep(y, t) \/ LeaseStep(y, t),
             ~AbandonClaim(y, t), ~ReleaseReported(y, t),
             ~\E at \in ClockReads(y, t) : Renew(y, t, at)
      PROVE  SlotSame(z) /\ now' = now
  BY <1>7 DEF RequestStep, LeaseStep, ReclaimPriorActive, NoPriorActive, AcquireFresh, StampLease,
     IssueLease, DropClaim, ClaimReport, DropReport, SlotSame
<1>8. CASE Tick \/ UNCHANGED svars
  BY <1>1, <1>8 DEF Tick, svars, SlotSame
<1>9. ASSUME now' = now  PROVE now <= now'
  BY <1>1, <1>9
<1>10. QED  BY <1>2, <1>3, <1>5, <1>6, <1>7, <1>8, <1>9 DEF PoolStep

\* So what is covered stays covered, while its token is not given back.
LEMMA Persists ==
  ASSUME SlotInv, SlotInv', PoolStep,
         NEW z \in Zombies, NEW t \in Tokens, NEW d \in Int, Covered(z, t, d),
         \/ InForce(z, t) /\ Capping(z, t, d)
         \/ work[z][t].stage # "none" /\ work'[z][t].stage # "none"
  PROVE  CoveredNext(z, t, d)
<1>1. /\ slot[z] \in Slots /\ slot'[z] \in Slots /\ now \in Int /\ now' \in Int
      /\ now <= now' /\ t \in Int /\ LeaseTTL \in Nat /\ MaxStall \in Nat
      /\ d <= now + LeaseTTL
  BY SlotMoves, SlotAssumption DEF SlotInv, SlotTypeOK, Tokens, Covered
<1>2. t <= slot[z].seq
  BY DEF SlotInv, TokensGranted, InForce
<1>3. CASE SlotSame(z)
  BY <1>1, <1>3 DEF SlotSame, Covered, CoveredNext, Slots
<1>4. CASE SlotClaimed(z)
  BY <1>1, <1>2, <1>4 DEF SlotClaimed, Covered, CoveredNext, Slots, Tokens
<1>5. CASE SlotRenewed(z)
  <2>1. PICK u \in Tokens, at \in Int :
          /\ u = slot[z].seq /\ InForce(z, u) /\ now - at <= MaxStall
          /\ slot'[z].until \in {at + LeaseTTL, lease[z][u].created + MaxRuntime}
    BY <1>5 DEF SlotRenewed
  <2>2. u = t => Capping(z, t, d)
    BY <2>1 DEF SlotInv, RequestOrLease, InForce
  <2>3. u = t => d <= slot'[z].until + MaxStall
    <3>1. u = t => d <= lease[z][t].created + MaxRuntime
      BY <2>2 DEF Capping
    <3>2. slot'[z].until \in Int  BY <1>1 DEF Slots
    <3>3. QED  BY <1>1, <2>1, <3>1, <3>2
  <2>4. QED  BY <1>1, <1>5, <2>1, <2>3 DEF SlotRenewed, Covered, CoveredNext
<1>6. CASE SlotReleased(z)
  BY <1>1, <1>2, <1>6 DEF SlotReleased, Covered, CoveredNext, Slots
<1>7. QED  BY <1>3, <1>4, <1>5, <1>6, SlotMoves

\* A new request owns the window its claim opened; an old one keeps it.
LEMMA RequestsStep ==
  ASSUME SlotInv, SlotInv', RequestsCovered, PoolStep
  PROVE  RequestsCovered'
<1>1. SUFFICES ASSUME NEW z \in Zombies, NEW t \in Tokens, work'[z][t].stage # "none"
               PROVE  CoveredNext(z, t, work'[z][t].until)
  BY DEF RequestsCovered, Covered, CoveredNext
<1>2. SlotTypeOK /\ work[z][t] \in Requests  BY CellTypes DEF SlotInv
<1>3. ASSUME NEW r \in Runners, Claim(z, r), t = slot[z].seq + 1
      PROVE  CoveredNext(z, t, work'[z][t].until)
  <2>1. /\ slot'[z].seq = t /\ slot'[z].until = now + LeaseTTL /\ work'[z][t].until = now + LeaseTTL
        /\ now' = now
    BY <1>2, <1>3 DEF Claim, SlotTypeOK, Slots
  <2>2. t \in Int /\ now + LeaseTTL \in Int /\ MaxStall \in Nat
    BY <1>2, SlotAssumption DEF SlotTypeOK, Tokens
  <2>3. QED  BY <2>1, <2>2 DEF CoveredNext
<1>4. ASSUME ~\E r \in Runners : Claim(z, r) /\ t = slot[z].seq + 1
      PROVE  work[z][t].stage # "none" /\ work'[z][t].until = work[z][t].until
  <2>1. ASSUME NEW y \in Zombies, NEW r \in Runners, Claim(y, r)
        PROVE  work'[z][t] = work[z][t]
    BY <1>2, <1>4, <2>1 DEF Claim, SlotTypeOK
  <2>2. ASSUME NEW y \in Zombies, NEW u \in Tokens, RequestStep(y, u)
        PROVE  work[z][t].stage # "none" /\ work'[z][t].until = work[z][t].until
    <3>1. ASSUME NEW p \in Tokens, ReclaimPriorActive(y, u, p)
          PROVE  work[z][t].stage # "none" /\ work'[z][t].until = work[z][t].until
      BY <1>1, <1>2, <3>1 DEF ReclaimPriorActive, SlotTypeOK, Requests
    <3>2. ASSUME NEW e \in Events, AcquireFresh(y, u, e)
          PROVE  work[z][t].stage # "none" /\ work'[z][t].until = work[z][t].until
      BY <1>1, <1>2, <3>2 DEF AcquireFresh, SlotTypeOK, Requests
    <3>3. CASE NoPriorActive(y, u)
      BY <1>1, <1>2, <3>3 DEF NoPriorActive, SlotTypeOK, Requests
    <3>4. CASE StampLease(y, u)
      BY <1>1, <1>2, <3>4 DEF StampLease, SlotTypeOK, Requests
    <3>5. CASE IssueLease(y, u) \/ AbandonClaim(y, u) \/ DropClaim(y, u)
      <4>1. work' = [work EXCEPT ![y][u] = NoRequest]
        BY <3>5 DEF IssueLease, AbandonClaim, DropClaim
      <4>2. QED  BY <1>1, <1>2, <4>1 DEF SlotTypeOK, NoRequest
    <3>6. QED  BY <2>2, <3>1, <3>2, <3>3, <3>4, <3>5 DEF RequestStep
  <2>3. ASSUME NEW y \in Zombies, NEW u \in Tokens, LeaseStep(y, u)
        PROVE  work' = work
    BY <2>3 DEF LeaseStep, Renew, ClaimReport, ReleaseReported, DropReport
  <2>4. CASE Tick \/ UNCHANGED svars
    BY <1>1, <2>4 DEF Tick, svars
  <2>5. QED  BY <1>1, <2>1, <2>2, <2>3, <2>4 DEF PoolStep
<1>5. CASE ~\E r \in Runners : Claim(z, r) /\ t = slot[z].seq + 1
  <2>1. work[z][t].stage # "none" /\ work'[z][t].until = work[z][t].until
    BY <1>4, <1>5
  <2>2. work[z][t].until \in Int  BY <1>2 DEF Requests
  <2>3. Covered(z, t, work[z][t].until)  BY <2>1 DEF RequestsCovered
  <2>4. CoveredNext(z, t, work[z][t].until)
    BY <1>1, <2>1, <2>2, <2>3, Persists
  <2>5. QED  BY <2>1, <2>4
<1>6. QED  BY <1>3, <1>5

\* A row takes its deadline from its request, and a renewal moves it with the slot.
LEMMA LeasesStep ==
  ASSUME SlotInv, SlotInv', RequestsCovered, LeasesCovered, PoolStep
  PROVE  LeasesCovered'
<1>1. SUFFICES ASSUME NEW z \in Zombies, NEW t \in Tokens,
                      lease'[z][t].status \in {"active", "expired"}
               PROVE  CoveredNext(z, t, lease'[z][t].expires)
  BY DEF LeasesCovered, InForce, Covered, CoveredNext
<1>2. SlotTypeOK /\ work[z][t] \in Requests /\ lease[z][t] \in LeaseRows  BY CellTypes DEF SlotInv
<1>3. CASE IssueLease(z, t)
  <2>1. /\ lease'[z][t].expires = work[z][t].until /\ work[z][t].stage # "none"
        /\ slot' = slot /\ now' = now
    BY <1>2, <1>3 DEF IssueLease, SlotTypeOK
  <2>2. Covered(z, t, work[z][t].until)  BY <2>1 DEF RequestsCovered
  <2>3. QED  BY <2>1, <2>2 DEF Covered, CoveredNext
<1>4. ASSUME NEW at \in ClockReads(z, t), Renew(z, t, at)
      PROVE  CoveredNext(z, t, lease'[z][t].expires)
  <2>1. /\ slot'[z].seq = t /\ lease'[z][t].expires = slot'[z].until /\ now' = now
        /\ at \in Int /\ at <= now /\ slot'[z].until <= at + LeaseTTL
    BY <1>4, RenewedOn
  <2>2. slot'[z] \in Slots /\ t \in Int /\ MaxStall \in Nat /\ LeaseTTL \in Nat /\ now \in Int
    BY <1>2, SlotAssumption DEF SlotInv, SlotTypeOK, Tokens
  <2>3. QED  BY <2>1, <2>2 DEF CoveredNext, Slots
<1>5. ASSUME ~IssueLease(z, t), ~\E at \in ClockReads(z, t) : Renew(z, t, at)
      PROVE  InForce(z, t) /\ lease'[z][t].expires = lease[z][t].expires
  <2>1. ASSUME NEW y \in Zombies, NEW u \in Tokens, NEW p \in Tokens, ReclaimPriorActive(y, u, p)
        PROVE  InForce(z, t) /\ lease'[z][t].expires = lease[z][t].expires
    BY <1>1, <1>2, <2>1 DEF ReclaimPriorActive, LatestActive, Active, InForce, SlotTypeOK, LeaseRows
  <2>2. ASSUME NEW y \in Zombies, NEW u \in Tokens, IssueLease(y, u)
        PROVE  lease'[z][t] = lease[z][t]
    BY <1>2, <1>5, <2>2 DEF IssueLease, SlotTypeOK
  <2>3. ASSUME NEW y \in Zombies, NEW u \in Tokens, NEW at \in ClockReads(y, u), Renew(y, u, at)
        PROVE  lease'[z][t] = lease[z][t]
    BY <1>2, <1>5, <2>3 DEF Renew, SlotTypeOK
  <2>4. ASSUME NEW y \in Zombies, NEW u \in Tokens, ClaimReport(y, u)
        PROVE  lease'[z][t] = lease[z][t]
    BY <1>1, <1>2, <2>4 DEF ClaimReport, SlotTypeOK, LeaseRows
  <2>5. \/ lease' = lease
        \/ \E y \in Zombies, u \in Tokens :
             \/ \E p \in Tokens : ReclaimPriorActive(y, u, p)
             \/ IssueLease(y, u)
             \/ \E at \in ClockReads(y, u) : Renew(y, u, at)
             \/ ClaimReport(y, u)
    BY DEF PoolStep, RequestStep, LeaseStep, Claim, NoPriorActive, AcquireFresh, StampLease,
       AbandonClaim, DropClaim, ReleaseReported, DropReport, Tick, svars
  <2>6. QED  BY <1>1, <2>1, <2>2, <2>3, <2>4, <2>5 DEF InForce
<1>6. CASE ~IssueLease(z, t) /\ ~\E at \in ClockReads(z, t) : Renew(z, t, at)
  <2>1. InForce(z, t) /\ lease'[z][t].expires = lease[z][t].expires
    BY <1>5, <1>6
  <2>2. lease[z][t].expires \in Int  BY <1>2 DEF LeaseRows
  <2>3. Covered(z, t, lease[z][t].expires) /\ Capping(z, t, lease[z][t].expires)
    BY <2>1 DEF LeasesCovered, SlotInv, RuntimeCap, Capping, InForce
  <2>4. CoveredNext(z, t, lease[z][t].expires)
    BY <2>1, <2>2, <2>3, Persists
  <2>5. QED  BY <2>1, <2>4
<1>7. QED  BY <1>3, <1>4, <1>6

\* The lease of a worker that has one in hand was not reported.
LEMMA HeldInForce ==
  ASSUME PoolInv, NEW w \in Workers, HasLease(w), Lease(w).status # "none", ~At(w, "ended")
  PROVE  InForce(worker[w].zombie, worker[w].token)
<1>1. worker[w].zombie \in Zombies /\ worker[w].token \in Tokens
  BY TokenTyped DEF PoolInv
<1>2. Lease(w).status \in {"none", "active", "reported", "expired"}
  BY <1>1 DEF PoolInv, SlotInv, SlotTypeOK, LeaseRows, Lease
<1>3. QED  BY <1>2 DEF PoolInv, ReportedLast, InForce, Lease

\* A worker that goes on enforces the deadline it had, the one of the lease it
\* was given, or the one of the renewal it was granted.
LEMMA KillFrom ==
  ASSUME PoolInv, NEW w \in Workers, GoesOn(w),
         worker'[w].pc \notin {"off", "ready", "polling", "ended"}
  PROVE  /\ \/ InHand(w) /\ ~At(w, "ended") /\ worker'[w].kill = worker[w].kill
            \/ /\ HasLease(w) /\ Lease(w).status # "none" /\ ~At(w, "ended")
               /\ worker'[w].kill = Lease(w).expires
            \/ /\ InHand(w) /\ ~At(w, "ended") /\ worker[w].answer = "extended"
               /\ worker'[w].kill = worker[w].offer
         /\ worker'[w].answer = "extended" =>
              /\ InHand(w) /\ ~At(w, "ended") /\ worker[w].answer = "extended"
              /\ worker'[w].offer = worker[w].offer
<1>1. worker[w] \in WorkerStates /\ Shape(worker[w])
  BY DEF PoolInv, WorkersTyped, Holding
<1>2. CASE Begins(worker[w], worker'[w], now, Lease(w).expires)
  BY <1>1, <1>2, GoesOnTo DEF PoolInv, Begins, WorkerStates, Shape, InHand, At, Calls
<1>3. CASE Renews(worker[w], worker'[w])
  BY <1>1, <1>3 DEF Renews, WorkerStates, Shape, InHand, At, Calls
<1>4. CASE Finishes(worker[w], worker'[w], now)
  BY <1>1, <1>4 DEF Finishes, WorkerStates, Shape, InHand, At, Calls
<1>5. QED  BY <1>1, <1>2, <1>3, <1>4, GoesOnTo DEF PoolInv

\* What a step does to one worker.
LEMMA WorkerCases ==
  ASSUME PoolInv, WorkerNext, NEW w \in Workers
  PROVE  \/ worker'[w] = worker[w]
         \/ GoesOn(w)
         \/ LetGo(w)
         \/ RenewalGranted(w)
         \/ \E z \in Zombies : ClaimFor(w, z)
<1>1. SlotInv /\ WorkersTyped /\ Holding  BY DEF PoolInv
<1>2. ASSUME NEW v \in Workers, WorkerStep(v) \/ EndStream(v) \/ Exit(v)
      PROVE  \/ v # w /\ worker'[w] = worker[w]
             \/ v = w /\ (GoesOn(v) \/ LetsGo(v) \/ RenewalGranted(v) \/ ReportArrives(v)
                            \/ \E z \in Zombies : ClaimFor(v, z))
  <2>1. CASE GoesOn(v) \/ LetsGo(v)
    BY <1>1, <2>1, StepsAlone
  <2>2. CASE ~(GoesOn(v) \/ LetsGo(v))
    BY <1>1, <1>2, <2>2 DEF WorkerStep, Supervise, GoesOn, LetsGo, ClaimFor, RenewalGranted, ReportArrives, WorkersTyped
  <2>3. QED  BY <2>1, <2>2
<1>3. /\ LetsGo(w) => LetGo(w)
      /\ ReportArrives(w) => worker'[w] = worker[w]
  BY <1>1, LetsGoTo DEF ReportArrives, LetGo
<1>4. ASSUME NEW h \in Runners, FirstHeartbeat(h) \/ Crash(h)
      PROVE  worker'[w] = worker[w] \/ LetGo(w)
  BY <1>4 DEF FirstHeartbeat, Crash, LetGo
<1>5. QED
  BY <1>2, <1>3, <1>4 DEF WorkerNext, Drain, ControlStep, Join, LateLands, LateLost, ServerStep, Pass

\* No step changes when a lease was created.
LEMMA CreatedStays ==
  ASSUME SlotInv, PoolStep, NEW z \in Zombies, NEW t \in Tokens, lease[z][t].status # "none"
  PROVE  lease'[z][t].created = lease[z][t].created
<1>1. SlotTypeOK /\ lease[z][t] \in LeaseRows  BY CellTypes DEF SlotInv
<1>2. ASSUME NEW y \in Zombies, NEW u \in Tokens, NEW p \in Tokens, ReclaimPriorActive(y, u, p)
      PROVE  lease'[z][t].created = lease[z][t].created
  BY <1>1, <1>2 DEF ReclaimPriorActive, SlotTypeOK, LeaseRows
<1>3. ASSUME NEW y \in Zombies, NEW u \in Tokens, IssueLease(y, u)
      PROVE  lease'[z][t] = lease[z][t]
  <2>1. lease[y][u].status = "none"
    BY <1>3 DEF IssueLease, SlotInv, RequestOrLease
  <2>2. QED  BY <1>1, <1>3, <2>1 DEF IssueLease, SlotTypeOK
<1>4. ASSUME NEW y \in Zombies, NEW u \in Tokens, NEW at \in ClockReads(y, u), Renew(y, u, at)
      PROVE  lease'[z][t].created = lease[z][t].created
  BY <1>1, <1>4 DEF Renew, SlotTypeOK, LeaseRows
<1>5. ASSUME NEW y \in Zombies, NEW u \in Tokens, ClaimReport(y, u)
      PROVE  lease'[z][t].created = lease[z][t].created
  BY <1>1, <1>5 DEF ClaimReport, SlotTypeOK, LeaseRows
<1>6. \/ lease' = lease
      \/ \E y \in Zombies, u \in Tokens :
           \/ \E p \in Tokens : ReclaimPriorActive(y, u, p)
           \/ IssueLease(y, u)
           \/ \E at \in ClockReads(y, u) : Renew(y, u, at)
           \/ ClaimReport(y, u)
  BY DEF PoolStep, RequestStep, LeaseStep, Claim, NoPriorActive, AcquireFresh, StampLease,
     AbandonClaim, DropClaim, ReleaseReported, DropReport, Tick, svars
<1>7. QED  BY <1>2, <1>3, <1>4, <1>5, <1>6

\* A worker takes its deadline from a row, or from a renewal that moved one.
LEMMA WorkersStep ==
  ASSUME PoolInv, PoolInv', CoverInv, WorkerNext  PROVE WorkersCovered'
<1> DEFINE Well(z, t, d) == CoveredNext(z, t, d) /\ d <= lease'[z][t].created + MaxRuntime
<1>1. SlotInv /\ SlotInv' /\ WorkersTyped /\ Holding /\ WorkersTyped' /\ Holding' /\ PoolStep
  BY WorkerSlotSteps DEF PoolInv
<1>2. SUFFICES ASSUME NEW w \in Workers,
                      worker'[w].pc \notin {"off", "ready", "polling", "ended"}
               PROVE  /\ Well(worker'[w].zombie, worker'[w].token, worker'[w].kill)
                      /\ worker'[w].answer = "extended" =>
                           Well(worker'[w].zombie, worker'[w].token, worker'[w].offer)
  BY DEF WorkersCovered, Covered, CoveredNext, InHand, At, Capping
<1>3. worker[w] \in WorkerStates /\ worker'[w] \in WorkerStates
  BY <1>1 DEF WorkersTyped
<1>4. ASSUME InHand(w), ~At(w, "ended")
      PROVE  /\ worker[w].zombie \in Zombies /\ worker[w].token \in Tokens
             /\ InForce(worker[w].zombie, worker[w].token)
             /\ Well(worker[w].zombie, worker[w].token, worker[w].kill)
             /\ worker[w].answer = "extended" =>
                  Well(worker[w].zombie, worker[w].token, worker[w].offer)
  <2>1. worker[w].zombie \in Zombies /\ worker[w].token \in Tokens /\ HasLease(w)
    BY <1>1, <1>4, InHandTyped
  <2>2. InForce(worker[w].zombie, worker[w].token)
    BY <1>1, <1>4, <2>1, HeldInForce DEF Holding
  <2>3. worker[w].kill \in Int /\ worker[w].offer \in Int
    BY <1>3 DEF WorkerStates
  <2>4. lease'[worker[w].zombie][worker[w].token].created = lease[worker[w].zombie][worker[w].token].created
    BY <1>1, <2>1, <2>2, CreatedStays DEF InForce
  <2>5. ASSUME NEW d \in Int, Covered(worker[w].zombie, worker[w].token, d),
               Capping(worker[w].zombie, worker[w].token, d)
        PROVE  Well(worker[w].zombie, worker[w].token, d)
    BY <1>1, <2>1, <2>2, <2>4, <2>5, Persists DEF Capping
  <2>6. QED
    BY <1>4, <2>1, <2>2, <2>3, <2>5 DEF CoverInv, WorkersCovered
<1>5. CASE worker'[w] = worker[w]
  BY <1>2, <1>4, <1>5 DEF InHand, At
<1>6. CASE GoesOn(w)
  <2>1. worker'[w].zombie = worker[w].zombie /\ worker'[w].token = worker[w].token
    BY <1>1, <1>6, GoesOnWell DEF Kept, StaysWell
  <2>2. ASSUME HasLease(w), Lease(w).status # "none", ~At(w, "ended")
        PROVE  Well(worker[w].zombie, worker[w].token, Lease(w).expires)
    <3>1. /\ InForce(worker[w].zombie, worker[w].token)
          /\ worker[w].zombie \in Zombies /\ worker[w].token \in Tokens
      BY <1>1, <2>2, HeldInForce, TokenTyped
    <3>2. /\ Covered(worker[w].zombie, worker[w].token, Lease(w).expires)
          /\ Capping(worker[w].zombie, worker[w].token, Lease(w).expires)
      BY <1>1, <3>1 DEF CoverInv, LeasesCovered, Lease, SlotInv, RuntimeCap, Capping, InForce
    <3>3. slot' = slot /\ now' = now /\ lease' = lease
      BY <1>1, <1>6, StepsAlone DEF svars
    <3>4. QED  BY <3>2, <3>3 DEF Covered, CoveredNext, Capping
  <2>3. QED  BY <1>2, <1>4, <1>6, <2>1, <2>2, KillFrom
<1>7. CASE RenewalGranted(w)
  <2>1. InHand(w) /\ ~At(w, "ended")
    BY <1>7 DEF RenewalGranted, InHand, At
  <2>2. /\ worker'[w].zombie = worker[w].zombie /\ worker'[w].token = worker[w].token
        /\ worker'[w].kill = worker[w].kill
        /\ worker'[w].offer = lease'[worker[w].zombie][worker[w].token].expires
    BY <1>1, <1>3, <1>7, GrantedWell DEF WorkerStates
  <2>3. worker[w].zombie \in Zombies /\ worker[w].token \in Tokens
    BY <1>4, <2>1
  <2>4. InForce(worker[w].zombie, worker[w].token)'
    <3>1. ASSUME NEW z \in Zombies, NEW t \in Tokens, NEW at, Renew(z, t, at)
          PROVE  lease'[z][t].status = "active"
      BY <1>1, <3>1 DEF Renew, Active, SlotInv, SlotTypeOK, LeaseRows
    <3>2. PICK at \in ClockReads(worker[w].zombie, worker[w].token) :
              Renew(worker[w].zombie, worker[w].token, at)
      BY <1>7 DEF RenewalGranted
    <3>3. QED  BY <2>2, <2>3, <3>1, <3>2 DEF InForce
  <2>5. LeasesCovered'
    BY <1>1, LeasesStep DEF CoverInv
  <2>6. Well(worker[w].zombie, worker[w].token, lease'[worker[w].zombie][worker[w].token].expires)
    <3>1. CoveredNext(worker[w].zombie, worker[w].token, lease'[worker[w].zombie][worker[w].token].expires)
      BY <2>2, <2>3, <2>4, <2>5 DEF LeasesCovered, InForce, Covered, CoveredNext
    <3>2. /\ InForce(worker[w].zombie, worker[w].token)'
          /\ lease'[worker[w].zombie][worker[w].token].status # "none"
      BY <2>2, <2>4 DEF InForce
    <3>3. QED  BY <1>1, <2>3, <3>1, <3>2 DEF SlotInv, RuntimeCap
  <2>7. QED  BY <1>4, <2>1, <2>2, <2>6
<1>8. CASE LetGo(w) \/ \E z \in Zombies : ClaimFor(w, z)
  BY <1>1, <1>2, <1>8, OffTyped, ClaimedWell DEF LetGo
<1>9. QED  BY <1>5, <1>6, <1>7, <1>8, WorkerCases

\* Nothing is covered at first, for nothing is held.
LEMMA CoverInit == WorkerInit => CoverInv
<1> SUFFICES ASSUME WorkerInit PROVE CoverInv
  OBVIOUS
<1>2. RequestsCovered /\ LeasesCovered
  BY DEF WorkerInit, SlotInit, RequestsCovered, LeasesCovered, InForce, NoRequest, NoLease
<1>3. WorkersCovered
  BY OffTyped DEF WorkerInit, WorkersCovered, InHand
<1>4. QED  BY <1>2, <1>3 DEF CoverInv

\* Every step keeps the deadlines covered.
LEMMA CoverNext ==
  ASSUME PoolInv, PoolInv', CoverInv, [WorkerNext]_wvars  PROVE CoverInv'
<1>1. CASE WorkerNext
  <2>1. SlotInv /\ SlotInv' /\ PoolStep
    BY <1>1, WorkerSlotSteps DEF PoolInv
  <2>2. QED
    BY <1>1, <2>1, RequestsStep, LeasesStep, WorkersStep DEF CoverInv
<1>2. CASE UNCHANGED wvars
  BY <1>2 DEF wvars, CoverInv, Capping, RequestsCovered, LeasesCovered, WorkersCovered,
     Covered, InForce, InHand, At
<1>3. QED  BY <1>1, <1>2

\* Every child dies, or is past its own deadline, before a later lease of its
\* zombie has one, or it runs beside it for as long as the clock reading of a
\* renewal may be old: "never double-run" (constants.zig:40,
\* renew_driver.zig:9-10) holds up to the deadline each parent enforces, less
\* that.
THEOREM RunsStayAlone == WorkerSpec => []RunsAlone
<1>1. ASSUME PoolInv, CoverInv  PROVE RunsAlone
  <2>1. SUFFICES ASSUME NEW v \in Workers, NEW w \in Workers, Lives(v), Lives(w),
                        worker[v].zombie = worker[w].zombie, worker[v].token < worker[w].token
                 PROVE  now + MaxStall >= worker[v].kill
    BY DEF RunsAlone
  <2>2. InHand(v) /\ ~At(v, "ended") /\ InHand(w)
    BY <1>1, <2>1 DEF PoolInv, Holding, Shape, Lives, InHand, At, Calls
  <2>3. /\ worker[v].zombie \in Zombies /\ worker[v].token \in Tokens
        /\ worker[w].token \in Tokens /\ worker[w].token <= slot[worker[w].zombie].seq
    BY <1>1, <2>2, InHandTyped DEF PoolInv, Holding
  <2>4. Covered(worker[v].zombie, worker[v].token, worker[v].kill)
    BY <1>1, <2>2 DEF CoverInv, WorkersCovered
  <2>5. /\ slot[worker[v].zombie].seq \in Int /\ worker[v].kill \in Int /\ now \in Int
        /\ worker[v].token \in Int /\ worker[w].token \in Int /\ MaxStall \in Nat
    BY <1>1, <2>3, SlotAssumption DEF PoolInv, SlotInv, SlotTypeOK, Slots, WorkersTyped, WorkerStates, Tokens
  <2>6. slot[worker[v].zombie].seq > worker[v].token
    BY <2>1, <2>3, <2>5
  <2>7. QED  BY <2>4, <2>5, <2>6 DEF Covered
<1>2. WorkerInit => CoverInv  BY CoverInit
<1>3. PoolInv /\ PoolInv' /\ CoverInv /\ [WorkerNext]_wvars => CoverInv'
  BY CoverNext
<1>4. PoolInv /\ CoverInv => RunsAlone  BY <1>1
<1>5. QED  BY <1>2, <1>3, <1>4, PoolInvariant, PTL DEF WorkerSpec

-------------------------------------------------------------------------------
\* The whole of WorkerInvariant: the states are well typed, and a run that was
\* reported has no process left, however long a call, a write to a child or its
\* exit takes (child_supervisor.zig 154-196, loop_report.zig).
THEOREM WorkersAreSound == WorkerSpec => []WorkerInvariant
<1>1. PoolInv => WorkerInvariant
  BY DEF PoolInv, SlotInv, WorkersTyped, WorkerInvariant, WorkerTypeOK, ReportedHasNoChild,
     ReportedLast, Holding, Shape, HasLease, Lives, At, Calls
<1>2. QED  BY <1>1, PoolInvariant, PTL
===============================================================================
