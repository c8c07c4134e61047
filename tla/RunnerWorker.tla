----------------------------- MODULE RunnerWorker -----------------------------
(***************************************************************************)
(* The runner daemon on its hosts: the control loop that brings a pool of  *)
(* workers up and takes it down, and each worker's poll for a lease, its   *)
(* supervision of the child process that runs the leased event, and its    *)
(* report.  The requests it makes are steps of the lease slot.             *)
(*                                                                         *)
(* A worker is one thread: while it is in a call to agentsfleetd, or       *)
(* writes the lease to its child, it reads nothing from the child and      *)
(* watches no deadline.  Nothing bounds such a wait here: a call is cut    *)
(* after its connection is up and if its watchdog thread could be started, *)
(* and the write has no deadline.  A call given up on may still land.      *)
(*                                                                         *)
(* Hosts and agentsfleetd read one clock, and the liveness sweeper, which  *)
(* may give a running host's zombies to others, does not act here.         *)
(***************************************************************************)
EXTENDS AffinitySlot

CONSTANTS
    Workers,        \* the worker threads of all hosts
    Host,           \* the host (runner) a worker belongs to
    NoZombie,       \* a worker without a lease
    Window,         \* RENEWAL_WINDOW_MS
    LastClaim,      \* bound: no lease is claimed or issued later than this
    MaxUpsets       \* bound on the drains and crashes of hosts

ASSUME WorkerAssumption ==
    /\ Host \in [Workers -> Runners]
    /\ NoZombie \notin Zombies
    /\ Window \in Nat
    /\ LastClaim \in Nat
    /\ MaxUpsets \in Nat

VARIABLES
    host,      \* the control loop of each host and its drain flag
    worker,    \* the workers
    late,      \* calls their worker gave up on, still on their way
    upsets     \* how often a host was drained or crashed

wvars == <<now, slot, work, lease, closing, host, worker, late, upsets>>

Hosts == [at : {"booting", "up", "gone"}, drain : BOOLEAN]

\* "leased": the workspace is made and the memory fetched; "feeding": the lease
\* is written to the child; "running": between two reads of the child's stream;
\* "capture", "flush", "renew": in that call; "reap": waiting for the child to
\* exit; "ended": reporting.
Calls == {"capture", "flush", "renew"}

WorkerStates ==
    [pc     : {"off", "ready", "polling", "leased", "feeding", "running", "reap", "ended"} \union Calls,
     zombie : Zombies \union {NoZombie},
     token  : 0..MaxClaims,
     kill   : Int,                                \* the deadline it enforces
     answer : {"none", "extended", "terminal"},   \* of the renewal
     offer  : Int,                                \* the deadline in that answer
     child  : {"none", "alive", "dead"},
     stream : {"open", "ended"}]

\* The time of what does not happen.
Never == 0

Off == [pc |-> "off", zombie |-> NoZombie, token |-> 0, kill |-> Never,
        answer |-> "none", offer |-> Never, child |-> "none", stream |-> "open"]

Ready == [Off EXCEPT !.pc = "ready"]

LateCalls == {"renew", "report"} \X Zombies \X Tokens

WorkerTypeOK ==
    /\ SlotTypeOK
    /\ host \in [Runners -> Hosts]
    /\ worker \in [Workers -> WorkerStates]
    /\ late \subseteq LateCalls
    /\ upsets \in 0..MaxUpsets

WorkerInit ==
    /\ SlotInit
    /\ host = [h \in Runners |-> [at |-> "booting", drain |-> FALSE]]
    /\ worker = [w \in Workers |-> Off]
    /\ late = {}
    /\ upsets = 0

At(w, pc) == worker[w].pc = pc
Lives(w)  == worker[w].child = "alive"
Lease(w)  == lease[worker[w].zombie][worker[w].token]

\* A step of worker w alone: neither agentsfleetd nor a control loop moves.
Moves(w, state) ==
    /\ worker' = [worker EXCEPT ![w] = state]
    /\ UNCHANGED <<svars, host, upsets>>

-------------------------------------------------------------------------------
\* The control loop of a host (loop.zig runLoop).  A failed heartbeat is
\* repeated and changes nothing; agentsfleetd only ever answers "ok".

\* SIGTERM or SIGINT.
Drain(h) ==
    /\ host[h].at # "gone" /\ ~host[h].drain
    /\ upsets < MaxUpsets
    /\ upsets' = upsets + 1
    /\ host' = [host EXCEPT ![h].drain = TRUE]
    /\ UNCHANGED <<svars, worker, late>>

\* The first heartbeat that is answered brings the pool up.
FirstHeartbeat(h) ==
    /\ host[h] = [at |-> "booting", drain |-> FALSE]
    /\ host' = [host EXCEPT ![h].at = "up"]
    /\ worker' = [w \in Workers |-> IF Host[w] = h THEN Ready ELSE worker[w]]
    /\ UNCHANGED <<svars, late, upsets>>

\* The loop leaves at a drain and joins the workers, if there are any.
Join(h) ==
    /\ host[h].drain /\ host[h].at # "gone"
    /\ \A w \in Workers : Host[w] = h => At(w, "off")
    /\ host' = [host EXCEPT ![h].at = "gone"]
    /\ UNCHANGED <<svars, worker, late, upsets>>

\* What worker w has sent and agentsfleetd has not acted on.
InFlight(w) ==
    {kind \in {"renew", "report"} :
        \/ kind = "renew" /\ At(w, "renew") /\ worker[w].answer = "none"
        \/ kind = "report" /\ At(w, "ended") /\ Lease(w).status # "reported"}
    \X {worker[w].zombie} \X {worker[w].token}

\* Bound: one given-up call at a time is still on its way, another one is lost.
GiveUp(ws) == late' = IF late = {} THEN UNION {InFlight(w) : w \in ws} ELSE late

\* The daemon dies and is started again; its children die with it
\* (bwrap --die-with-parent), and its leases are left to lapse.
Crash(h) ==
    /\ host[h].at # "gone"
    /\ upsets < MaxUpsets
    /\ upsets' = upsets + 1
    /\ host' = [host EXCEPT ![h] = [at |-> "booting", drain |-> FALSE]]
    /\ worker' = [w \in Workers |-> IF Host[w] = h THEN Off ELSE worker[w]]
    /\ GiveUp({w \in Workers : Host[w] = h})
    /\ UNCHANGED svars

-------------------------------------------------------------------------------
\* A worker between two leases (worker_pool.zig workerLoop).
Stop(w) ==
    /\ At(w, "ready") /\ host[Host[w]].drain
    /\ Moves(w, Off) /\ UNCHANGED late

Poll(w) ==
    /\ At(w, "ready") /\ ~host[Host[w]].drain
    /\ Moves(w, [worker[w] EXCEPT !.pc = "polling"]) /\ UNCHANGED late

\* agentsfleetd claims a zombie for the poll.  Bound: LastClaim, so that the
\* longest run that follows ends within the clock.
ClaimFor(w, z) ==
    /\ At(w, "polling") /\ worker[w].token = 0
    /\ now <= LastClaim
    /\ Claim(z, Host[w])
    /\ worker' = [worker EXCEPT ![w].zombie = z, ![w].token = slot[z].seq + 1]
    /\ UNCHANGED <<host, late, upsets>>

\* The lease row is there and the answer of the poll carries its deadline.
LeaseArrives(w) ==
    /\ At(w, "polling") /\ worker[w].token > 0
    /\ Lease(w).status # "none"
    /\ Moves(w, [worker[w] EXCEPT !.pc = "leased", !.kill = Lease(w).expires])
    /\ UNCHANGED late

\* No work, a failed poll, or an answer that never came.
PollEnds(w) ==
    /\ At(w, "polling")
    /\ Moves(w, Ready) /\ UNCHANGED late

\* The workspace cannot be made: the worker drops the lease without a report.
WorkspaceFails(w) ==
    /\ At(w, "leased")
    /\ Moves(w, Ready) /\ UNCHANGED late

\* The child is forked and enrolled, once the memory was fetched or that call
\* failed, and the parent begins to write the lease to it.
Start(w) ==
    /\ At(w, "leased")
    /\ Moves(w, [worker[w] EXCEPT !.pc = "feeding", !.child = "alive"])
    /\ UNCHANGED late

\* The child has read the lease, or the write failed for it is gone; its
\* supervision begins.
Fed(w) ==
    /\ At(w, "feeding")
    /\ Moves(w, [worker[w] EXCEPT !.pc = "running"]) /\ UNCHANGED late

\* Sandbox, network policy, spawn or cgroup refuse: a failure to report.  A
\* child that could not be enrolled is killed and waited for first.
NotStarted(w) ==
    /\ At(w, "leased")
    /\ Moves(w, [worker[w] EXCEPT !.pc = "ended"]) /\ UNCHANGED late

-------------------------------------------------------------------------------
\* The supervision of a running child (child_supervisor_read.zig readResult):
\* every read and every wait for a read looks at the deadline first.
\* Mutant: the deadline looked at in the idle gaps only.
MayReadAnyTime(w) == At(w, "running")

MayRead(w) == At(w, "running") /\ now < worker[w].kill

InWindow(w) == worker[w].kill <= now + Window

\* A memory frame is read and posted.
ReadCapture(w) ==
    /\ MayRead(w) /\ Lives(w) /\ worker[w].stream = "open"
    /\ Moves(w, [worker[w] EXCEPT !.pc = "capture"]) /\ UNCHANGED late

\* The renewal tick, in the idle gap, after any other frame, or after a
\* capture: the buffered activity goes out, then, inside the window, the
\* renewal does.
OnTick(w) ==
    /\ MayRead(w) \/ At(w, "capture")
    /\ Moves(w, [worker[w] EXCEPT !.pc = IF InWindow(w) THEN "renew" ELSE "flush"])
    /\ UNCHANGED late

Flushed(w) ==
    /\ At(w, "flush")
    /\ Moves(w, [worker[w] EXCEPT !.pc = "running"]) /\ UNCHANGED late

\* agentsfleetd renews ...
RenewalGranted(w) ==
    LET z == worker[w].zombie
        t == worker[w].token
    IN
    /\ At(w, "renew") /\ worker[w].answer = "none"
    /\ \E at \in ClockReads(z, t) : Renew(z, t, at)
    /\ worker' = [worker EXCEPT ![w].answer = "extended", ![w].offer = lease'[z][t].expires]
    /\ UNCHANGED <<host, late, upsets>>

\* ... or refuses for good: superseded, at the ceiling, out of credits, or the
\* runner revoked.
RenewalRefused(w) ==
    /\ At(w, "renew") /\ worker[w].answer = "none"
    /\ Moves(w, [worker[w] EXCEPT !.answer = "terminal"]) /\ UNCHANGED late

\* Mutant: the runner counts the new deadline from its own clock.
DeadlineFromOwnClock(w) == now + LeaseTTL

\* The deadline a renewed lease is killed at: the one in the answer.
NewDeadline(w) == worker[w].offer

Extended(w) ==
    /\ At(w, "renew") /\ worker[w].answer = "extended"
    /\ Moves(w, [worker[w] EXCEPT !.pc = "running", !.kill = NewDeadline(w),
                                  !.answer = "none", !.offer = Never])
    /\ UNCHANGED late

\* A renewal that fails, or whose answer does not come in time, keeps the
\* deadline it had; the request may still arrive.
RenewalFails(w) ==
    /\ At(w, "renew")
    /\ GiveUp({w})
    /\ Moves(w, [worker[w] EXCEPT !.pc = "running", !.answer = "none", !.offer = Never])

Killed(w) == [worker[w] EXCEPT !.pc = "reap", !.answer = "none",
                               !.child = "dead", !.stream = "ended"]

Terminated(w) ==
    /\ At(w, "renew") /\ worker[w].answer = "terminal"
    /\ Moves(w, Killed(w)) /\ UNCHANGED late

TimedOut(w) ==
    /\ At(w, "running") /\ now >= worker[w].kill
    /\ Moves(w, Killed(w)) /\ UNCHANGED late

\* The result frame, the end of the stream or a malformed frame is read: the
\* parent waits for the child's exit, with no deadline and no kill.
ReadEnd(w) ==
    /\ MayRead(w) /\ worker[w].stream = "ended"
    /\ Moves(w, [worker[w] EXCEPT !.pc = "reap"]) /\ UNCHANGED late

\* Mutant: the report does not wait for the exit.
ReapedAnyway(w) == At(w, "reap")

Reaped(w) == At(w, "reap") /\ ~Lives(w)

Reap(w) ==
    /\ Reaped(w)
    /\ Moves(w, [worker[w] EXCEPT !.pc = "ended", !.kill = Never]) /\ UNCHANGED late

\* The report arrives and is accepted.
ReportArrives(w) ==
    /\ At(w, "ended")
    /\ ClaimReport(worker[w].zombie, worker[w].token)
    /\ UNCHANGED <<host, worker, late, upsets>>

\* Its call is answered, or it fails; it is made once.
ReportEnds(w) ==
    /\ At(w, "ended")
    /\ GiveUp({w})
    /\ Moves(w, Ready)

-------------------------------------------------------------------------------
\* The child.  It may close its stream, or write its result or nonsense, and
\* live on.
EndStream(w) ==
    /\ Lives(w) /\ worker[w].stream = "open"
    /\ Moves(w, [worker[w] EXCEPT !.stream = "ended"]) /\ UNCHANGED late

Exit(w) ==
    /\ Lives(w)
    /\ Moves(w, [worker[w] EXCEPT !.child = "dead", !.stream = "ended"]) /\ UNCHANGED late

\* A call that was given up on reaches agentsfleetd after all, or never.
LateLands(q) ==
    /\ q \in late
    /\ \/ q[1] = "renew" /\ \E at \in ClockReads(q[2], q[3]) : Renew(q[2], q[3], at)
       \/ q[1] = "report" /\ ClaimReport(q[2], q[3])
    /\ late' = late \ {q}
    /\ UNCHANGED <<host, worker, upsets>>

LateLost(q) ==
    /\ q \in late
    /\ late' = late \ {q}
    /\ UNCHANGED <<svars, host, worker, upsets>>

\* What agentsfleetd does by itself: the requests in progress and the slots
\* that reports free.  Bound: LastClaim.
ServerStep ==
    /\ \E z \in Zombies, t \in Tokens :
         \/ now <= LastClaim /\ RequestStep(z, t)
         \/ ReleaseReported(z, t) \/ DropReport(z, t)
    /\ UNCHANGED <<host, worker, late, upsets>>

Pass == Tick /\ UNCHANGED <<host, worker, late, upsets>>

Supervise(w) ==
    \/ ReadCapture(w) \/ OnTick(w) \/ Flushed(w)
    \/ RenewalGranted(w) \/ RenewalRefused(w) \/ Extended(w) \/ RenewalFails(w)
    \/ Terminated(w) \/ TimedOut(w) \/ ReadEnd(w) \/ Reap(w)

WorkerStep(w) ==
    \/ Stop(w) \/ Poll(w) \/ (\E z \in Zombies : ClaimFor(w, z))
    \/ LeaseArrives(w) \/ PollEnds(w) \/ WorkspaceFails(w) \/ Start(w) \/ NotStarted(w) \/ Fed(w)
    \/ Supervise(w)
    \/ ReportArrives(w) \/ ReportEnds(w)

ControlStep(h) == FirstHeartbeat(h) \/ Join(h)

WorkerNext ==
    \/ \E h \in Runners : Drain(h) \/ ControlStep(h) \/ Crash(h)
    \/ \E w \in Workers : WorkerStep(w) \/ EndStream(w) \/ Exit(w)
    \/ \E q \in late : LateLands(q) \/ LateLost(q)
    \/ ServerStep
    \/ Pass

\* What a worker is waiting for: the answer of a call, or its child.
Waits(w) ==
    \/ worker[w].pc \in {"polling", "leased", "ended"} \union Calls
    \/ worker[w].pc \in {"feeding", "reap"} /\ Lives(w)

\* What its thread does by itself when it is in no such wait.
Proceed(w) ==
    \/ Stop(w)
    \/ Fed(w) /\ ~Lives(w)
    \/ TimedOut(w) \/ ReadEnd(w) \/ Reap(w)

\* The threads of a daemon run.  No call and no child is taken to end.
WorkerFairness ==
    /\ WF_wvars(Pass)
    /\ \A h \in Runners : WF_wvars(ControlStep(h))
    /\ \A w \in Workers : WF_wvars(Proceed(w))

WorkerSpec == WorkerInit /\ [][WorkerNext]_wvars /\ WorkerFairness

-------------------------------------------------------------------------------
\* A run that was reported has no process left: its event may be settled, its
\* zombie given to another worker and its workspace deleted.
ReportedHasNoChild ==
    \A w \in Workers : Lives(w) => Lease(w).status # "reported"

WorkerInvariant == WorkerTypeOK /\ ReportedHasNoChild

\* A child runs beside another of its zombie only from its own deadline on, or
\* as much earlier as the clock reading of a renewal may be old
\* (renew_driver.zig:9-10, "the lease simply expires and is reclaimed (never
\* double-run)"), however long its parent is kept from looking at the deadline.
RunsAlone ==
    \A v, w \in Workers :
        /\ Lives(v) /\ Lives(w) /\ worker[v].zombie = worker[w].zombie
        /\ worker[v].token < worker[w].token
        => now + MaxStall >= worker[v].kill

\* A drained daemon finishes the runs it has and goes (loop.zig:40-46), or one
\* of its workers is left for ever in a single wait, for a call or a child, to
\* which the daemon sets no end (child_supervisor.zig:162 and 182).  A drain
\* may come at any moment of a run: every run ends, however much its child has
\* to say and however often its lease is renewed.
DrainEnds ==
    \A h \in Runners :
        \/ host[h].drain ~> host[h].at = "gone" \/ ~host[h].drain
        \/ \E w \in Workers : Host[w] = h /\ <>[]Waits(w)
===============================================================================
