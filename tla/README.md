# Verification of usezombie

TLA+ models, TLC runs and TLAPS proofs for usezombie: the control plane
`agentsfleetd`, the runner daemons that work for it, the command line `agentsfleet`
and the dashboard.  Paths are those of the repository; `fleet/` is short for
`src/agentsfleetd/fleet/`, `app/` for `ui/packages/app/`.

## 1. The system

`agentsfleetd` is a horizontally replicated HTTP daemon over Postgres and Redis.
A tenant configures *zombies* (long-lived agents).  Webhooks, schedules and users
append *events* to a zombie's Redis stream.  *Runners* on other hosts poll the
daemon for *leases*: a lease is the right to run one event of one zombie in a
sandboxed child, to renew that right while the child runs, and to report the
outcome.  The wallet of the tenant is charged on the way.  People reach all this
through the command line and a dashboard, which talk to the same HTTP API.

| Component | State | Operations |
|---|---|---|
| lease slot (`fleet/affinity.zig`, `reclaim.zig`) | `fleet.runner_affinity`: per zombie a fencing sequence, a deadline, the last runner, the metering cursor | claim, release, reset cursor, sweep |
| lease rows (`service_lease_row.zig`, `renewal*.zig`) | `fleet.runner_leases`: token, status, event, deadline, creation time | issue, reclaim, renew, settle |
| lease request (`service.zig`, `assign.zig`, `service_billing.zig`) | a handler's local variables between some ten autocommit statements | claim, reclaim or read an event, bill, gate, issue, block, give up |
| event rows (`event_rows.zig`) | `core.zombie_events.status`, `core.zombie_sessions` | insert received, classify, mark blocked or terminal, checkpoint |
| event stream (`queue/redis_zombie.zig`) | stream entries and the pending list of each consumer | XADD, XREADGROUP, XACK, XAUTOCLAIM |
| stray-entry sweeper (`reclaim_sweeper.zig`) | none | moves idle pending entries to this instance |
| report (`service_report.zig`, `renewal_settle.zig`) | a handler's progress | claim and settle in one statement, then terminal row, checkpoint, XACK, release |
| metering (`renewal*.zig`, `state/tenant_billing.zig`) | the wallet, the ledger row per event, the breakdown `fleet.metering_periods` | receive charge, slice at renewal, slice at settlement, credit gate |
| runner fleet (`liveness_sweeper.zig`, runner handlers) | `fleet.runners`, `fleet.runner_events` | register, cordon, drain, revoke, authenticate, heartbeat, sweep |
| runner daemon (`src/runner`) | worker threads, one supervised child per lease, the deadlines of each | poll, supervise, renew, flush, capture, kill, report, drain |
| device login (`auth/`, `commands/auth*.ts`, `app/app/cli-auth`) | the session in Redis, the page, `credentials.json` | create, approve, prompt, verify, save, validate, sign out |
| live thread (`event_bus`, `events_stream.zig`, the zombie stream registry, `steer`) | bounded queues of frames, one connection per zombie, the list of a page | publish, follow, fold, reconnect, poll |
| command line (`src/agentsfleet`) | `workspaces.json`, `credentials.json` | some forty commands: reads, requests with retries, file rewrites |
| dashboard (`app/`) | what each tab shows, dialogs, server actions in flight, a cookie | inbox, lists, tables, forms |
| approval gate, memory, vault, configuration, observability, website | see `PROJECT.json` | |

The components meet in four places.  The *slot* serialises lease requests, but only
its single statements do: a request is a chain of statements without a transaction,
so requests of several daemons, reports, renewals, two sweepers and time come between
any two of them.  The *stream and the event row* are two stores that are never
written together.  The *wallet* is charged inside the statement that renews or
settles a lease.  The *API* is shared by runners, command lines and tabs that each
hold what they read last, and whose requests can land after their sender has given
them up.

What makes it hard, and what therefore is stated about it:

* A **slow handler** still works for a token that was superseded.  Nothing a
  superseded holder does may be accepted; the deadlines of the current lease must
  stay together.
* A **runner's thread** that is in a call watches no deadline: two children of one
  zombie must not run side by side before the older one's deadline.
* **Crash and failing statement** at every point between Postgres and Redis: no
  event may leave the stream unsettled, none be charged twice for receipt.
* **Redelivery and order**: a claim that comes after an event's outcome does not run it
  again; a zombie's events run in stream order.
* **Metering across retries, reclaims and an emptying wallet**: three tables in
  agreement, and a bound on the time that is metered twice.
* **Sweepers on stale reads, on every replica**: an operator's decision is final,
  a silence recorded once, a drain completed.
* **A retried request** whose first answer was lost, **a handler that fails after its
  commit**, and **two processes over one file**: what a command says at its end must be
  so.
* **Frames that nobody keeps**: what a page or `steer` shows must come from the
  zombie's events, and must not wait for ever for a lost one.
* **Pages that show what was read some time ago**, acted on by two people: one
  verdict per gate, no control for what no longer is so after a refresh.

`PROJECT.json` lists each hazard at its line with the properties aimed at it.

## 2. The modules

```
FencedResource             abstract: what a slot promises
   ^ refined by
AffinitySlot               slot, lease rows, handlers as chains of statements
   ^ EXTENDS    ^ EXTENDS   ^ EXTENDS
EventDelivery   Metering    RunnerWorker     events / money / the daemons
   ^ EXTENDS
SettledEvents              EventDelivery with a history variable
RunnerFleet                runners, operators, sweepers (own view of slots and rows)

HttpRetry                  the retry policy, pure operators
   ^ EXTENDS    ^ EXTENDS   ^ EXTENDS
DeviceLogin     LiveTail    CliCommands --refines--> ZombieLifecycle (abstract)

ServerActions              how a tab of the dashboard talks to the API
   ^ EXTENDS      ^ EXTENDS       ^ EXTENDS
ConsoleFeeds      ConsoleTables   ConsoleForms
   ^------------------^---------------^---- Console composes them
```

`MC*.tla` and the `.cfg` files next to them are the TLC instances; `*Proofs.tla` hold
the theorems of a component.

### The control plane

**FencedResource.**  Ownership of a resource is handed out under increasing
tokens, never while the newest owner is protected, and an outcome is accepted only
from the newest token and once per token.  No leases, no clocks.

**AffinitySlot.**  `slot` is the affinity row, `lease[z][t]` the lease row with
fencing token `t`, `work[z][t]` the request that won token `t` and has not
inserted its row, `closing[z]` the reports between settlement and release, `now`
the wall clock.  One action per statement: `Claim` (`affinity.claim`),
`ReclaimPriorActive`/`NoPriorActive` (the two outcomes of `reclaimPriorActive`),
`AcquireFresh`, `StampLease` (the clock read of `insertLeaseRow` and the cursor
reset), `IssueLease` (its insert), `AbandonClaim` (`affinity.release`),
`DropClaim` (a handler that ends without it), `Renew`, `ClaimReport`,
`ReleaseReported`, `DropReport`, `ExpireActiveLeaseSlots`, `Tick`.  A renewal
carries the clock reading it was given, up to `MaxStall` old.  No label,
stickiness or payload is modelled.

**EventDelivery.**  Adds `entry` (stream entry: queued, pending at an instance
since a time, acked), `row`, `debits`, `req` (the program counter of a lease
request), `fin` (that of a report's finalize) and `ckpt`.  Every step on a slot or
row is an `AffinitySlot` action conjoined with its effect here.  `Faults` lets any
statement of a handler fail and any handler die; `agent_error` and `processed` are
one terminal status, and the verdicts of the balance and approval gates are
choices.  **SettledEvents** adds a history variable, `seal`: the last token that had
been handed out when an event's outcome was written.  It watches the steps and guards
none of them.

**Metering.**  Adds the cursor, the wallet, the ledger, the breakdown, and the
tokens each child has consumed.  `ChargeSlice` is the charging part of
`RENEW_METER_SQL` and of the settle statement; it happens in the same step as
`Renew` or `ClaimReport`, as in the code.  Simplifications: fees are linear in
milliseconds and tokens (the code divides and rounds down each slice), the three
token tiers are one, posture is platform after the free trial, the receive charge
is not here but in `EventDelivery`, and `MeteredAcquire` takes it that an event
with an accepted report is not read again (its ack did not fail).  Under
the `stop` policy a renewal completes only when the gate can price it.

**RunnerFleet.**  `admin`, `seen`, `touched` (the order of `updated_at`), `offline`
(the deduplicated event rows), `call`, `slot`, `rows`, `sweep`.  A runner's
`last_seen_at` is never, fresh or stale, and a slot live or past: time is only that
change.  An episode names one silence, the `dedup_key` of its event row.  A sweep is
a batch of stale reads worked off in three transactions per runner, and it moves no
runner in the order of `updated_at`: `Scrapped` runners, which are never heard of again,
keep their place at the front of it.  A request takes
over any prior row (the code: the highest token), and a runner has one call in
flight.

### The runner daemon

**RunnerWorker.**  `AffinitySlot` with its real clients: `host` is the daemon on a
host (first heartbeat, working, draining, gone), `worker` a thread of its pool with
its lease, its child (`stream`, alive or not), the deadline `kill` it will enforce and
the call it is in, `late` the calls that it gave up and that may still land.  The
thread reads frames, ticks, renews when the deadline is near (`renew_driver.zig`),
flushes activity, captures memory and reports, one thing at a time
(`child_supervisor*.zig`): while it is in a call, or writes the lease to the child
(`feeding`), or waits for its exit (`reap`), the deadline passes unseen.  **Nothing
bounds such a wait.**  `call_deadline.zig` cuts a call once its connection is up and its
watchdog thread runs; name lookup and connect are before that
(`control_plane_client.zig:16-17`), and the write of the lease and the wait have no
deadline at all.  So a call may end at any time or never, and no property bounds how late
a kill is.  `Crash` takes a host with all its threads and children.  The requests are the
slot's own actions, so a poll that is refused, an answer that is lost and a renewal that
lands after it was given up are all slot behaviours.

What is left out: the sweeper that may give a running host's zombies away; different
clocks on hosts and server; the sleeps between attempts; a pool that starts only part
of its threads; more than one given-up call on its way at a time; the `dev_none` tier,
whose children do not die with the daemon.  A flush on behalf of a frame is the flush of
the tick that follows the frame.

### The command line and the live thread

**HttpRetry.**  `classifyError`, the gate on methods, the backoff and the attempt
count of `lib/http-retry.ts` (and of the dashboard's twin) as operators: what is
retried, how often, and how much time a request may take in all.  A 408 or 425 is an
outcome of its own (`early`), retried whatever the method.  The rewrite of the delay by
the body of a 429 is left out: no property depends on it.

**DeviceLogin.**  `session` (status, code, wrong attempts, replay window), `page`
(the approval pages, each of one signed-in user), `cli` (processes that sign in by
code, sign in with a given token, or sign out) and `creds` (one
`credentials.json`).  Requests can be carried out with the answer lost, pages be
closed, sessions be evicted, codes be mistyped, a file write be torn.  Who is signed
in where tells whose token ends on disk.  The daemon's Redis client sends a script a
second time after a transport error (`redis_client.zig:225-265`), so an approval that
landed may be answered 409 or 500 by the daemon itself, and the page then drops the code
it shows; verify and abort are sent twice alike.

**LiveTail.**  `events` are the zombie's events: what the row says, the outcomes the
server was told of or decided on, and those it still has to publish.  The report writes
the row, if the statement succeeds and the row is not terminal yet, and publishes *its*
outcome afterwards whether or not the row changed (`service_report.zig:185-192`); so a
frame and the row may disagree, and an event may be completed twice.  `view` is the
mounted threads and the pages they were rendered from, `tail` the registry's one entry
for the zombie (rows, connection, timers), `send` the composer, `steer` a command-line
run with its poll fallback, `framing` what type line the server writes.  Entry and runs
have a `queue` at the server (`QUEUE_CAPACITY`, dropping).  Text of chunks is left
out, and the newest-first pages of 20 and 200 rows are taken to hold the events in
question.  A `cast` says which
followers a behaviour has, so that they do not multiply the states of each other.

**ZombieLifecycle.**  Abstract: a zombie is installed once, into one workspace
without another of its name, lives until killed, and is deleted only after that, unless
its own install, which has not ended, takes it back; a killed zombie lives again only by
the pause of a gate that loaded it alive.

**CliCommands.**  `server` (what the API holds), `setup` (installs between the commit of
their row and the end of their handler), `file` (`workspaces.json`), `gate` (the zombies
that lease requests have loaded and may still pause, whatever the status is by then),
`creds`, and `cli`: a run is the list of the steps its command takes, each a file read, a
request with its retries, or a file write.  A request may be carried out and its answer
lost, and a request that was given up may land later.  An install (`create.zig:121-175`)
is two steps: `InsertZombie` commits the row, and the zombie is then listed, killed,
given a key and deleted like any other; `InstallEnds` answers 201, or answers 500 and
either deletes the row without a look at its status (`deleteZombieRow`) or leaves it
(`create.zig:143-151`, `:163-166`).  The caller may have stopped waiting in between
(`StopWaiting`).  Left out: the order of the workspace
list, the two parallel reads of `billing show` (one read here), `doctor`'s later
checks, `--workspace` overrides, a guard passed by an API key alone, torn credential
writes and revoked sessions (both in `DeviceLogin`).  "error" also stands for a 500
that changed nothing.

### The dashboard

**ServerActions.**  The calls of a tab as a queue that the framework works off in
order (external), the clicks still to come, the faults still to come; and what the API
and the components do with lists: sort (`Ordered`), drop rows (`Filtered`).  A call is
made with what the tab shows, carried out by the API later, and its answer handled
later still, if its component is still there.

**ConsoleFeeds** is the inbox of approvals, which polls, the page of one gate, and
the lists of zombies and events with their cursors; the gates are resolved by other
channels and the timeout too.  **ConsoleTables** is the tables of runners and of API
keys with their dialogs.  **ConsoleForms** is the controls of one zombie, the
credential vault with the model provider, and the workspaces with the switcher.
**Console** composes them: a behaviour is about one scene, with one or two tabs, each
with its own operator and sharing the cookie.  Left out: filters and sort orders that
are not the default, wording, answers of 401, two polls of a tab at once; a page is
rendered in one step with its answer and a refresh never fails.

## 3. The runs

| Run | Question | Instance | Result |
|---|---|---|---|
| `slot_any` | does the fence alone hold with handlers of any speed and a sweeper? | 1 zombie, 2 runners, 3 tokens, clock to 4, TTL 1, cap 2, stall 1 | holds |
| `delivery_faults` | what survives failures, crashes, two daemons and slow handlers? | 2 events, 2 daemons, 2 tokens, clock to 3 | holds |
| `metering_any` | do the three tables agree, how much time is metered twice? | 1 event, 2 tokens, 3 slices, balance 3, clock to 4, stall 1, a sweeper | holds |
| `fleet_sweep` | operators, silence and a sweeper on stale reads, with liveness | a healthy runner, another one, and one silent for good; 1 zombie, batch of 1, 1 episode | holds |
| `worker_pool` | does a zombie run alone, and does a drain end, when no wait is bounded? | 1 host, 2 workers, TTL 2, cap 2, window 1, stall 1, clock to 6, 1 drain or crash | holds |
| `login_faults` | is what the screens and the disk say about a login true, under lost answers and races? | 2 processes, 2 pages, 3 pairs of commands, 3 wrong codes | holds |
| `tail_faults` | do pages and `steer` tell the truth about events when frames are lost and reported outcomes differ from rows? | 6 casts of two views, a view and a message, one view, a REPL steer, a single steer; 2 events, 2 outcomes, queue of 1 | holds |
| `cli_commands` | are exit codes, files and server in agreement when two commands race and retry? | 28 pairs of commands, 2 attempts | holds |
| `console` | one verdict per gate, true panels, no dropped secrets, nothing revived | 16 scenes, 1 or 2 tabs, 2 or 3 rows, pages of 1 or 2, up to 3 clicks and 1 fault | holds |
| `tail_deaf` | does the thread show what the agent does? | 1 view, 1 message, nothing lost | violated |
| `cli_resurrected` | is killed terminal? | the pairs of `cli_commands` | violated |
| `login_code_dropped` | does the page keep the code that the session waits for? | that of `login_faults` | violated |

### What each run shows

`slot_any`.  The current holder's slot and row carry one deadline or the slot is past
(`HolderProtected`), no row outlives its cap (`RuntimeCap`), a superseded holder
neither reports, extends nor moves the slot (`SupersededIsInert`), and the whole
implements `FencedResource`.  Two leases of a zombie may be in force at once, and
`OnlyLateRowsDouble` says how: only by the late row of a request that outlived its claim,
under a token that is superseded when the row comes; no claim that holds puts its lease
beside an older one.

`delivery_faults`.  Whatever fails: an acked entry has a terminal row or an accepted
report (`AckedMeansSettled`), receipt is charged at most once
(`DebitedOnce`), a terminal row is final (`TerminalIsFinal`), events are leased in
stream order: what a request read and leases is preceded only by events that were
acked, are pending at another daemon, or came to this one's list since the request's
claim (`InOrder`).  A request that was claimed after the outcome of an event was
written does not lease that event from the stream (`SettledNeverReleased`); one that was
claimed before and looked at the row while it was open does, see section 4.

`metering_any`.  The wallet, the ledger and the breakdown agree after every statement
(`BooksAgree`).  The metered time of an event fits between a lease of it and now, give or
take `MaxStall`, the age of a clock reading, for every slice that metered no time
(`TimeMeteredOnce`): only such a slice can have set the cursor back.  There is no such
property of tokens: a lease request that was superseded resets the cursor late, and what
was counted before it is then metered again, in the code as in the model.

`fleet_sweep`.  One offline row per silence (`FleetInvariant`), a revoked runner stays
revoked (`RevokedIsFinal`).  A silence is recorded, runners out of service lose their
work, drains complete (`FleetSettles`), each unless the runner falls behind a full batch:
the selector orders by `updated_at`, which a sweep does not move, so `BatchLimit`
runners that stay due starve those behind them for good.  In the run the batch is one and
the runner that is silent for good is ahead of it, so both outcomes occur.

`worker_pool`.  No child runs beside a later one of its zombie before its own deadline,
less the age of the clock reading a renewal wrote (`RunsAlone`); a reported run has no
process left (`WorkerInvariant`); a drained daemon ends, or one of its workers stays for
ever in a single wait to which the daemon sets no end (`DrainEnds`).

`login_faults`.  A code shown as confirmed is the one the session compares with, and a
token that was not validated does not stay on disk (`LoginInvariant`); a lost
answer to verification does not cost the login (`NeverStrandedByRetry`); every
command ends (`EveryCommandComesBack`).

`tail_faults`.  A row under a server's id is an event, and its outcome one that the log
or a report of that event has; a watched zombie has a connection or a timer to get one
(`TailInvariant`); `steer` says of an event only what its row says or what was reported
of it (`SteerTellsTheTruth`), which the row need not say; steers end, idle
connections close, broken ones are tried again (`TailSettles`).

`cli_commands`.  The file lists workspaces that exist and its current one is among them,
a `POST` or `PATCH` is replayed only after silence, nothing is done in a workspace that
the token's account does not own, and an agent key that was printed works unless another
run deletes it or its zombie (`CliInvariant`); a command that says it succeeded did, and
one that says it failed changed nothing unless an answer to it was lost or it was an
install whose 500 left the row (`ExitCodesAreTrue`); zombies keep the promise of
`ZombieLifecycle` (`ImplementsLifecycle`), through installs that are taken back and gates
that pause late; every command ends (`CommandEnds`).

`console`.  A gate that a tab was told is resolved does not come back to its inbox, a
poll made for the workspace before is dropped, and lists that do not poll show no row
twice (`FeedsInvariant`); all who are told a verdict are told the one that stands
(`OneVerdict`); a runner's panel shows what was read for that runner, and a secret that
arrived is on screen until it is dismissed (`TablesInvariant`); what a tab was told it
wrote is what it shows when nothing is under way, and a rename leaves one of the two
names when no other tab is at work (`FormsInvariant`); what a tab shows as revoked it
never shows in another state (`RevokedStaysRevoked`); an inbox that did not load more
catches up, and loads settle (`ConsoleSettles`).

### Bounds

Three tokens are what the interleavings of the slot need: one holder, one that takes
over, and one that takes over while the second is still on its way; a property of two
tokens needs only the first two.  One lease window is one or two ticks, so each
boundary (one before, at, one past the deadline) is a separate state, and the clock
runs for several windows.  A second zombie shares nothing with the first in
`AffinitySlot`; the theorems cover any number.  Two events are enough to be out of
order; two daemons to move an entry between.  `slot_any` and `delivery_faults` take
runners and daemons that do not differ as one (`SYMMETRY`): both check safety only.  A balance of 3 is emptied within a run
of three slices at rates of 1.  Two workers are enough for two children of one zombie,
and a call of any length spans every deadline there is.  One scrapped runner and a
healthy one fill, and do not fill, a batch of one.  Two commands meet in each
pair; a third would only repeat one of them.  Pages of one row make every list longer
than a page.  `MaxTime`, `MaxClaims`, `MaxSlices`, `MaxTokens`, `MaxStall`,
`MaxEpisodes`, `LastClaim`, `MaxUpsets`, `MaxEvents`, `MaxOutcomes`, `MaxPolls`, `MaxEntries`,
`MaxItems`, `MaxCalls` and the clicks and faults of a cast bound what is unbounded in the code;
when one is reached a behaviour stops, which is why the runs do not check for
deadlock (and the daemon may have nothing to do, a person nothing to click).

### Preconditions

No run assumes that a handler, a report or a call is prompt.  `MaxStall` is how old the
clock reading of a renewal may be when its statement runs (`service_renew.zig:148` reads
the clock before it waits for a connection); it is 1, a whole lease term, in `slot_any`
and `metering_any`, half of one in `worker_pool`, and 0 in `delivery_faults`, whose properties do
not look at deadlines.  The theorems take any value.  `metering_any` takes the policy that does not
stop.

### Fairness

*Fleet.*  The sweeper loops until shutdown (`liveness_sweeper.run`); a healthy runner
polls for ever and is left in service; a handler returns or its connection drops
(`CallsEnd`); a claim lapses, and so does a lease, by `MAX_RUNTIME_MS` (`LeasesEnd`),
but that is *not* assumed of runners out of service, whose leases the sweep has to end;
sweeps are not cut short for ever (`SweepsRecover`).  Strong fairness is on a healthy
runner's claim, takeover and report: of infinitely many polls while a zombie is
claimable some win it.  Nothing is assumed of a scrapped runner.

*Worker.*  Time passes, the control loop goes on, and so does a worker thread that is in
no wait.  No call and no child is taken to end, which is why `DrainEnds` has the second
disjunct.

*Login.*  A process and an open page go on; nobody has to open a page or type.

*Tail.*  The timers of the page fire, a connection attempt is answered, a frame that
arrived is handled, a command goes on, and events that were accepted are run and end.

*Command line.*  A process goes on; each of its requests is answered or times out.

*Dashboard.*  The inbox's timer fires, the API answers, the browser handles answers.
There is no fairness for clicks.

## 4. Disagreements between code and text

Three runs show the program doing what a comment or document of the repository excludes:

1. `tail_deaf`: `events_stream.zig` names every frame (`event: <kind>`), the dashboard
   listens to unnamed ones only (`zombie-stream-registry.ts:92`).  Nothing arrives in
   the thread; after the first accepted message the composer stays disabled.
2. `cli_resurrected`: `approval_gate.zig:223` pauses a zombie whatever its status is
   by then, on behalf of a request that loaded it earlier.  A zombie killed in between
   is paused, can be resumed, and runs again.
3. `login_code_dropped`: the page takes an answer of 409 or 500 for an approval that did
   not land (`page.tsx:196-211`), and drops the code.  The daemon gives these answers to
   approvals that landed: its Redis client sends the script again after a lost reply.

Seen while modelling, without a run of their own.

*Leases and events*

* A report is accepted as long as no newer token exists, also after its slot lapsed.  A
  slow request that classified the re-read entry before the report and inserts its lease
  after it runs a settled event again (`service_billing.zig:99`).
* With the liveness sweeper a third request gets in between a claim and its reclaim: a
  sweep of the runner pushes a fresh claim into the past, a third request claims, takes
  over the prior row and issues its own, and the delayed request then expires the row
  of that holder (`reclaim.zig:43`).  `slot_any` has what holds all the same.
* The session checkpoint is an unguarded write: a late finalize moves it back
  (`event_rows.zig:179`).
* `finalize` swallows a failing terminal write and acks (`service_report.zig:185`),
  against "never acked-and-lost" in the specification of that milestone.
* A handler that dies between `insertReceivedRow` and the receive charge leaves an event
  that later deliveries take for paid.
* Entry ids are unique within a stream, the ledger and breakdown keys are not per
  stream: two zombies' events of one millisecond share them.
* The stray sweep reads the same hundred zombies on every pass, and the batch of the
  liveness sweep is ordered by `updated_at`, which sweeping does not touch: runners that
  stay due fill it for ever (`liveness_sweeper.zig:109`).

*Metering*

* A reclaim that expires the prior row and then gives up leaves the entry to a fresh
  lease, whose slice numbers restart at 1 on keys already taken (`affinity.zig:88`).
  Every renewal and the report of that lease fail.
* A reclaimed row has no provider (`service_lease_row.zig:43`); under the `stop` policy
  its first renewal prices an estimate it has no rate for, and panics
  (`tenant_billing.zig:187`).  Under the other policy it is charged its run time only.
* The clock of a renewal is read before a connection is awaited
  (`service_renew.zig:148`); the late statement moves `last_metered_at_ms` back and the
  next slice meters that span twice.

*Runner daemon*

* "Never double-run" (`renew_driver.zig:9-10`) and "two workers never run the same
  zombie" (`worker_pool.zig:6-7`) hold up to each child's own deadline only.  While a
  parent is in a call past its deadline, writes the lease or is in a `wait`, another
  worker may already run the zombie.  `call_deadline.zig:24-25` says a hung control plane
  delays the kill by at most the renewal's bound.  A capture and a flush can come before
  it, and name lookup and connect of each of them are under no deadline
  (`control_plane_client.zig:16-17`): nothing bounds the delay.
* After the end of the stream, a malformed frame or a result from a child that lives on
  the parent waits without a kill or a deadline (`child_supervisor.zig:147-153`, `:182`);
  the write of the lease to the child's input has no deadline either.
* A renewal that was given up and carries an old clock reading can move the slot back to
  before the worker's own deadline.
* A workspace that cannot be prepared ends the run without a report.  The drain is
  checked between leases only, so a poll in flight may still take one.  A failing `wait`
  is followed by a report although the child may live.  No server handler sends the
  `drain` and `stop` answers the daemon understands.

*Login*

* Two logins at once: the check for an existing login and its rewrite are apart
  (`login.ts:181-183`), and the second clobbers the first.  Token and workspace are read
  in separate reads; a failed hydration leaves the workspaces of the old account.
* Comments say the environment's token wins (`auth-token.ts:8-14`, `cli.ts:205-207`,
  `cli-tree.ts:57`); the stored one does.  `session_helpers.zig:183` says the command
  line polls; it prompts.  The verify script renews the TTL without `expires_at`.

*Command line*

* A `POST` is replayed after a timeout although `http-retry.ts:125-127` warns of
  duplicates, and `newIdempotencyKey` is never used: duplicate workspaces, keys and
  messages; a retried stop can undo another's resume; a replayed install is reported as a
  failure after a success (409 or 500), so is a replayed delete (404); an install whose
  set-up fails may answer 500 and keep its row (`create.zig:143-151`), or delete a zombie
  that somebody has begun to use; a replayed agent
  key loses the key printed by nobody.
* `workspace list` says "re-fetch + persist" and reads the local file; `workspace delete`
  ("irreversible") edits only that file, whose rewrites race and whose torn read loses
  entries.
* `billing show` asks for twice the rows it prints and hands out a cursor past the rest;
  `credential add` lists and then posts.
* `http.ts` parses `error.code`, the server sends `error_code`; `create.zig`'s test for a
  taken name is never true, so a taken name is a 500.

*Live thread*

* The optimistic row reconciled after `EVENT_RECEIVED` came gives two rows with one id,
  the second stuck.  A completion for an unknown id is dropped; a message whose answer
  was lost is marked failed; a temporary id is reused; a view mounted between render and
  connection misses frames.
* Nothing is fetched again after a reconnect, although `events_stream.zig:27-29,40-42`
  says clients backfill; after an answer of 401 or 503 the page can stay "connecting".

*Dashboard*

* After a switch of workspace the lists of zombies and events keep the rows of the old
  one (`zombies/page.tsx:64`, `events/page.tsx:34`), against `multi-workspace.spec.ts:47`;
  Load more then mixes the two.  The switcher goes stale when another tab switches.
* Load more during a poll doubles rows; an inbox emptied while more exist says "No
  pending approvals" for ever; approving on a gate's page and navigating away yanks the
  operator back.  Who is back in the inbox before the answer is there keeps the gate's
  row: `useState(initialItems)` ignores push and refresh, against "they see the fresh
  queue" (`ResolveButtons.tsx:48`).
* A kill of a zombie that was killed elsewhere gets 404, not 409: an error, and stale
  controls.  A stale Cordon dialog un-drains a drained runner.  A key confirmed revoked
  twice is reported as an error.  Errors outlive the dialog they belong to.
* Deleting or renaming a credential leaves the provider with a name that is not there.
* A new key or runner whose answer is lost exists with its secret unknown; the retry is a
  conflict or a duplicate.  Escape right before the secret's render drops it unseen.
* Two tabs that rename n1 to n2 and n2 to n1 can leave neither.  `getZombie` looks at the
  first hundred.  A page emptied by others says there are no keys.

## 5. The proofs

tlapm proves the theorems below for every value of the constants that the named
assumptions allow; the bounds (`MaxTime`, `MaxClaims`, ...) are arbitrary naturals.
They are not claims about liveness: a behaviour may stop at any point.

| Theorem | Says |
|---|---|
| `SlotInvariant`, `SlotTypeCorrect` | the strengthened invariant of `AffinitySlot`, and its types |
| `HolderStaysProtected` | slot and row of the current token carry one deadline, or the slot is past |
| `RuntimeCapHolds` | no lease row outlives `created_at + MAX_RUNTIME_MS` |
| `SupersededHoldersAreInert` | no step of a superseded holder reports, extends or moves the slot |
| `SlotImplementsFencedResource` | `SlotSpec => Promise!RSpec`, by the mapping of `AffinitySlot` |
| `OnlyLateRows` | a lease comes into force beside another only as the late row of a superseded request |
| `DeliveryImplementsSlot`, `MeteringImplementsSlot`, `WorkerImplementsSlot` | each composition implements `SlotSpec`, so all of the above holds under it |
| `DeliveryTyped`, `AckedEventsHaveOutcome`, `EventsChargedOnce`, `TerminalRowsAreFinal`, `LeasedInOrder` | the properties of `delivery_faults`, for any failures |
| `SettledStaysSettled` | no request claimed after an event's outcome leases it from the stream, for any failures |
| `EveryChargeIsBooked`, `MeteringTyped`, `BooksAlwaysAgree` | each step charges the three tables alike; amounts stay amounts; the tables' sums agree |
| `TimeOnceButForStalls` | `TimeMeteredOnce`, for handlers of any speed and readings of any bounded age |
| `FleetIsSound`, `RevokedRunnersStay` | `FleetInvariant`: one offline row per silence; revocation is final |
| `RunsStayAlone` | `RunsAlone`, for calls of any length and readings of any bounded age |
| `WorkersAreSound` | `WorkerInvariant`, for calls of any length |
| `LoginsTellTheTruth`, `RetriesStrandNobody` | `LoginInvariant` and `NeverStrandedByRetry` |
| `ThreadsTellTheTruth`, `SteersTellTheTruth` | `TailInvariant` and `SteerTellsTheTruth`, whatever is lost and whatever the type line says |
| `CommandsKeepTheirWord`, `ExitCodesTellTheTruth` | `CliInvariant` and `ExitCodesAreTrue`, for any set of command lines |
| `CommandsImplementLifecycle` | `Spec => ImplementsLifecycle`, installs in two phases and late pauses included |
| `NamesStayUnique`, `NothingComesBack` | no two zombies of a name in a workspace, deletion is final, no zombie moves |
| `VerdictsAreTrue`, `FirstResolverWins` | `OneVerdict`, and no verdict of a gate ever changes |
| `FeedsAreTrue` | `FeedsInvariant`: a gate that was told of stays gone, polls stay in their workspace, no row twice |
| `DialogsKeepTheirRow`, `RevokedRowsStay` | `TablesInvariant`, and nothing shown as revoked is shown otherwise later |
| `FormsTellTheTruth` | `FormsInvariant` |

**AffinitySlotProofs.**  `HolderProtected` alone is not inductive: when a lease row is
inserted its deadline is that of a claim made some steps earlier.  So the invariant
carries what the request in flight knows: tokens in use were handed out
(`TokensGranted`), a token is a request or a row but never both (`RequestOrLease`), the
newest request's deadline is the slot's unless the slot is past (`RequestWindow`), and
it is within a TTL of the clock and of the reading its row will carry
(`RequestHorizon`, which gives `RuntimeCap` at the insert).  `ClosingReported` says
that only reported rows release, so a release never frees the slot under an active row
of the same token.  One lemma per action shows the conjunction preserved; `NextInv`
collects them.  The refinement maps a won claim to `Grant`, an accepted report to
`Accept` and every other step to a change of protection or a stutter; the fence of the
settle statement, with `TokensGranted`, is what makes the accepted token the newest.
`OnlyLateRows` is about one step: a lease row comes into force beside another (`Beside`)
only where it was not, and `LeaseMove` says where rows come from.  If its token is the
newest no later request is past its takeover; if it is not, the step is the one the
theorem allows.  `PastByReclaim` has what a request knows of older rows once it has
looked for them.

**EventDeliveryProofs.**  Every step is a slot step or leaves the slot alone
(`SlotSteps`), so the slot's invariant comes for free and `DeliveryInv` adds what
handlers know: a request past its insert has a row for its event, and acks only what is
terminal (`RequestsOK`), one request at most may still charge an event, and only if
nobody has (`ChargePending`), a lease row's event has a row (`LeasesOK`), and only an
accepted report is finalized (`FinsOK`).  Rows only move forward
(`RowsMove`, `LeasesMove`), which gives the action property and carries what a handler
knew through the steps of the others.  For `LeasedInOrder` two more invariants: a stream
is handed out from its front (`StreamInOrder`), and what precedes an event that a
request has read is in one of the three conditions of `InOrder` (`ReadInOrder`); an
entry that comes to a list does so at the clock, which is not before the claim.

`SettledStaysSettled` is about `SettledEvents`.  A step that writes an outcome leaves the
slot alone (`RowsAlone`), so the seal is the newest token of that moment.  `SealInv` says
of a request past its look at the row (`PastTheLook`) that it was claimed before the seal
of its event, if that is terminal by now: true when it looks, for the row was open
(`LookedBefore`), and kept since seals and rows do not go back.

**MeteringProofs.**  `MeteringInv` types the money and names the events of requests and
rows.  `EveryChargeIsBooked` is the inductive step of `BooksAgree`: the amount that
leaves the wallet is the one that the ledger row and the breakdown gain.  That the sums
agree then needs what a sum over a finite set becomes when one slice is added: the
module's lemmas on sums show it from the definition of the fold, by a
smallest counterexample over cardinalities, and `BooksInv` carries finiteness and the
agreement.  `TimeInv` bounds the metered time of an event by the span from a lease of it
to the cursor plus the slack of its zombie (`TimeInSpan`), and every cursor is at the
clock or before (`CursorPast`).  A slice that meters time moves the cursor to its reading;
one that meters none may carry an older reading, by `MaxStall` at most, and adds as much
to the slack (`SlackMoves`); a fresh lease that restarts the cursor does so at a reading
of its own lease's time (`LeasedBefore`).

**RunnerFleetProofs.**  `FleetInvariant` is inductive: only a sweep inserts an offline row,
and the `dedup_key` turns the second insert into none; an update moves a runner to the
end of the order of `updated_at` and duplicates nobody (`Touched`); a batch, which starts
with the least recently updated, is a finite sequence of registered runners (`FetchFine`).
Of the actions that write a runner's state each has a guard that a revoked one fails.

**RunnerWorkerProofs.**  `PoolInv` adds to the slot's invariant that a worker's lease is
a row it holds (`Holding`), held by nobody else (`HeldByOne`), that only the worker that
lets go has reported it (`ReportedLast`) and that a given-up call names a granted token
(`LateGranted`).  Every worker step keeps its lease, lets go, or is a won claim
(`WorkersMove`); reports come only from a worker that lets go.  For `RunsStayAlone` the
key is `Covered(z, t, d)`: a deadline `d` of token `t` is over, or within what the slot
still keeps others out for.  It holds of a request's window, goes into the lease row,
and from the row to the worker.  A renewal with an old reading moves a slot back by
`MaxStall` at most below what was covered, which is the slack of the property
(`RenewedOn`).  When a newer token exists the slot was past at its grant, hence so is
every older child's deadline, but for the slack.  No bound on a call is used.

**ClientProofs.**  *Login*: a token goes from a page to a session, to the process and into
the file; the invariant says at each place whose it is.  `SessionsOK`: the code of an
approved session is a page of that process, and the budget of wrong codes is not spent
while it waits.  `PagesOK`: a session that a page was told is approved never is pending
again, so of two tabs the one that lost cannot overwrite the code of the other.
`RunOK` and `TokenOK`: a process has no session and no page before it makes one, a token
before it is checked is its own session's, and what an ended login leaves is valid or no
longer its own.  `RetriesStrandNobody` is arithmetic: while a process repeats what its
lost request has bought, the window shrinks by one tick per attempt at most
(`ReplayOK`); the window is four times `Timeout`, and a `Span` of attempts shorter than
it has three at most (`FewAttempts`, from the recursive definition of `Span`,
which is unfolded once at each number up to `HardCap`).

*Live thread*: `TailInvariant` is not inductive, since a frame that is still in a queue may
become a row.  `TailInv` says of everything a client keeps of an event that it fits the
log: rows (`RowsFit`), frames on their way (`QueueFits`: a completion carries an outcome
of its event), rendered pages and the event a turn follows (`TurnFits`).  The log only grows,
what has ended stays so and outcomes are never taken back (`Grew`), so what fits now fits after any step
(`EntryKept`, `TurnKept`), and each action is left to show that what it adds fits.  A turn
under way has said nothing yet, so its last word is the status it finds at its own
event.  A dead entry is never on the screen because one is closed exactly while its retry
timer is armed (`EntryFits`).  Temporary ids stay within the messages sent (`SendFits`).

**CliCommandsProofs.**  `Planned` says what the 34 commands have in common, and is shown
of each list of steps: one step changes the API, it comes after a token was read, and
only writes to `workspaces.json` follow it.  Everything else is about a run with such a
plan, whichever it is.  `PlanFits`: what is still to do is the end of the plan, and what
it builds on was done before.  `CountsFit`: what landed, may still land, timed out or
stayed unheard, against what is still to do; nothing fails after the change, and an
attempt that is tried again has counted as silent when its method is a POST or a PATCH
(`GatewayEnds`).  `HoldsFit`: workspaces a run holds exist, its draft of the file is
coherent, and a change that landed did so at home; since no request takes a workspace
from its owner (`Keeps`) the steps of the others leave that alone.  `KeysFit`: a key
that landed is its zombie's as long as nobody deletes and its row is there.  `WaitsFit`:
a run waits only for an install that it asked for, in its own workspace; what the second
half of an install answers then counts like the answer of any other request (`KeptIs`).
Each request does one thing at the API (`EffectIs`), seen as the life of a zombie in
`Lives`, and `LivesImplement` maps that to `Kill`, `Delete` or a stutter,
`InsertImplements` and `EndImplements` the halves of an install to `Install` and `Settle`,
`GateImplements` a gate to `Load` and `Pause`.

**ConsoleProofs.**  Each theorem is about answers that are still under way, and says what
they agree with.  *Approvals*: the answer of a resolve, once the API gave it, repeats
what the row says (`CallsSound`); that stays so because no verdict ever changes
(`VerdictsStand`, the guarded update of `approval_gate_db.zig`), and only such an answer
is ever told.  *Forms*: a field that a tab was told it wrote is what it shows, but for
the second half of a rename (`NoneStale`), which is alone in its queue (`RenameLast`);
the name it will take away is not the only one (`NewNameStored`).  *Tables*
(`TablesInv`): rows that are shown or in an answer say one thing of an item, and what
they say is revoked has ended at the API (`RowsFine`), for good (`ItemsGoOn`); an answer
brings no shown row back from revoked (`AnswerFine`), only the first call of a queue is
answered and at most one of it mints (`QueueFine`), and a confirmation is about an item
and an action that its table has (`StateFine`).  *Lists* (`FeedsInv`): a page that the API
answered holds rows of its workspace past its cursor, in order (`PageFine`), and, as long
as it is heard in the inbox, none that the tab was told of (`AnswerFits`), because only
the first call of a queue has an answer (`Brief`) and what the tab is told meanwhile
comes out of that answer; a poll that is heard is for the workspace of the inbox; at
most one call for more is heard, for rows past those on the screen (`CallFits`,
`QueueFits`), which are in the API's order down to their cursor (`ShownFine`).  The
calls of a component that goes away are silenced, and so are the polls of an inbox that
changes its workspace: without that the queue would fit the old screen, not the new one
(`FitsSilenced`).  Each scene leaves the others alone.

Assumptions on constants that the proofs needed and the code justifies: entry ids are
unique within a stream (`MeteringAssumption`); the fleet starts with finitely many runners
(`FleetAssumption`); a cast has so many clicks and faults, and
a cookie that names a workspace (`CallsAssumption`, `FeedsAssumption`); the operators, names and cursors of a
cast are of the kinds they stand for, and the one that is nobody's tab is no tab
(`FormsAssumption`, `TablesAssumption`); what the API and `workspaces.json` hold when the
runs start was left by earlier runs: names are unique in a workspace and the file is
torn or coherent, a login signs in as someone, and values that stand for nothing are none
of the others (`CliAssumption`); the replay window is a whole number of
timeouts, and pages, processes and the markers of files and codes are different things
(`LoginAssumption`).

Only model-checked: all liveness (out of the prover's reach, as is `ENABLED`), with it the
settling of the fleet and of the live thread.  Every invariant and action property that a
passing run checks is stated by a theorem.

## 6. Not modelled

Candidate selection and labels; payloads, rates and rounding; the stream trim; the
choice of zombies of the stray sweep; the run engine, sandbox and network scope of a
child (an agent library and kernel interfaces); the Redis mirror of an approval and the
poll of the parked event; zombie memory; the shared Redis subscription behind the live
streams and the pools; migrations; authentication formats; HTTP routing and parsing;
encryption in the vault; model rates; zombie configuration; observability; argument
parsing, help and analytics of the command line; the parts of the dashboard that only
display; the website.  `PROJECT.json` gives the reason per component, and the note of a
hazard says where a property does not reach.

## 7. What could come next

1. `ZombieMemory`: the push of a superseded holder between fence check and write.
2. The Redis mirror of an approval: a decision, the deadline, the sweep of expired gates
   and the re-poll of the parked event; a parked event is resolved in the end.
3. `SubscriptionHub` and `EventBus`: reference counts and ring buffer under threads.
4. Two tenants and colliding ids in `Metering`; several sweepers in `RunnerFleet`; the
   liveness sweeper with the workers.
5. `FencedResource`-style abstract specifications of the live thread and of the
   approvals, and proofs that the modules implement them.
