------------------------------- MODULE LiveTail -------------------------------
(***************************************************************************)
(* Following one zombie live.  The server runs the events of its stream    *)
(* and publishes frames that nobody keeps; the dashboard holds one         *)
(* connection per zombie for all the views of it and folds the frames into *)
(* a list; `agentsfleet steer` posts a message, follows the same frames    *)
(* and falls back to polling the event rows.                               *)
(***************************************************************************)
EXTENDS HttpRetry, Integers, Sequences, FiniteSets

CONSTANTS
    Views,        \* mounted consumers of useZombieEventStream, for one zombie
    MaxSends,     \* bound on the messages sent from the dashboard
    Steers,       \* runs of `agentsfleet steer`
    Repl,         \* those of them that read lines from a terminal
    Casts,        \* the scenes: which views and runs take part, how many messages are
                  \* sent and events run, and what the type line of a frame says
    Turns,        \* how many lines each of these is given
    Ends,         \* the terminal statuses that a run of the model tells apart
    MaxEvents,    \* bound on the events of the stream
    MaxOutcomes,  \* bound on the outcomes given of all of them
    QueueCap,     \* QUEUE_CAPACITY, the frames the server keeps for a consumer
    MaxPolls,     \* how many polls fit in SSE_FALLBACK_TIMEOUT_MS
    Lossy         \* whether frames, connections and answers may be lost

\* The daemon names each frame after its kind.  A frame without a name, or named
\* "message", is what the dashboard's handler was written for.
Framings == {"named", "message"}

ASSUME TailAssumption ==
    /\ "gate_blocked" \in Ends /\ Ends \subseteq {"processed", "agent_error", "gate_blocked"}
    /\ Repl \subseteq Steers
    /\ Casts \subseteq [views : SUBSET Views, steers : SUBSET Steers, sends : 0..MaxSends,
                        events : 1..MaxEvents, framing : Framings]
    /\ {MaxSends, Turns, MaxEvents, MaxOutcomes, QueueCap, MaxPolls} \subseteq Nat \ {0}
    /\ Lossy \in BOOLEAN

VARIABLES
    cast,      \* the scene, which stays
    events,    \* the events, by their place in the stream
    view,      \* the views
    tail,      \* the registry's entry for the zombie
    send,      \* the messages of the dashboard
    steer      \* the command line runs

tailVars == <<cast, events, view, tail, send, steer>>

Sends == 1..MaxSends
Known == 1..Len(events)
FrameKinds == {"event_received", "chunk", "event_complete"}

\* row is the status that the log holds; outcomes are those the server was told
\* of or decided on itself, owed those of them still to be published.
Logged == [row : {"queued", "received"} \union Ends, outcomes : SUBSET Ends, owed : SUBSET Ends]
Queued == [row |-> "queued", outcomes |-> {}, owed |-> {}]

\* A frame names an event; a completion carries the outcome it was told.
Frames == [kind : FrameKinds, id : 1..MaxEvents, status : {"none"} \union Ends]

\* A row of the thread: ids above 0 are the server's, -n is the n-th temporary
\* id of the entry.
Rows == [id     : -MaxSends..MaxEvents,
         status : {"received", "optimistic", "failed"} \union Ends]

Absent == [rows |-> <<>>, source |-> "absent", queue |-> <<>>, retry |-> FALSE,
           idle |-> FALSE, refs |-> {}, temps |-> 0]

\* source is entry.eventSource, retry and idle say that a timer is armed.
TailStates == [rows : Seq(Rows), source : {"absent", "closed", "connecting", "open"},
               queue : Seq(Frames), retry : BOOLEAN, idle : BOOLEAN,
               refs : SUBSET Views, temps : Nat]
TurnPoints == {"prompt", "post", "tail", "poll", "ended"}
Said == Ends \union {"nothing", "timeout", "interrupted", "error"}

TailTypeOK ==
    /\ cast \in Casts
    /\ events \in Seq(Logged) /\ Len(events) <= MaxEvents
    /\ view \in [Views -> [at : {"never", "away", "rendered", "mounted"}, initial : Seq(Rows)]]
    /\ tail \in TailStates /\ Len(tail.queue) <= QueueCap
    /\ send \in [Sends -> [at : {"unsent", "posting", "settled"}, temp : Nat,
                           try : 1..MaxAttempts]]
    /\ steer \in [Steers -> [at : TurnPoints, turns : 0..Turns, try : 1..MaxAttempts,
                             event : 0..MaxEvents, said : Said, polls : 0..MaxPolls,
                             aborted : BOOLEAN, open : BOOLEAN, queue : Seq(Frames)]]

TailInit ==
    /\ events = <<>>
    /\ tail = Absent
    /\ cast \in Casts
    /\ view = [v \in Views |-> [at |-> IF v \in cast.views THEN "away" ELSE "never", initial |-> <<>>]]
    /\ send = [s \in Sends |-> [at |-> IF s <= cast.sends THEN "unsent" ELSE "settled",
                               temp |-> 0, try |-> 1]]
    /\ steer = [c \in Steers |->
           [at |-> IF c \notin cast.steers THEN "ended" ELSE IF c \in Repl THEN "prompt" ELSE "post",
            turns |-> IF c \in Repl THEN Turns ELSE 0, try |-> 1, event |-> 0, said |-> "nothing",
            polls |-> MaxPolls, aborted |-> FALSE, open |-> FALSE, queue |-> <<>>]]

(***************************************************************************)
(* The server.  A publish reaches who is subscribed; a full ring drops its *)
(* oldest frame, and a lost publish or copy is only logged.                *)
(***************************************************************************)
FedUncapped(queue, frame) == Append(queue, frame)
Fed(queue, frame) == IF Len(queue) < QueueCap THEN Append(queue, frame) ELSE Append(Tail(queue), frame)

Publish(kind, e, status) ==
    LET frame  == [kind |-> kind, id |-> e, status |-> status]
        losing == IF Lossy THEN BOOLEAN ELSE {FALSE}
    IN  /\ \E lost \in losing :
             tail' = IF tail.source = "open" /\ ~lost THEN [tail EXCEPT !.queue = Fed(@, frame)] ELSE tail
        /\ \E lost \in losing :
             steer' = [c \in Steers |-> IF steer[c].open /\ ~lost
                                        THEN [steer[c] EXCEPT !.queue = Fed(@, frame)] ELSE steer[c]]

MoreEvents == Len(events) < cast.events
Landed == Append(events, Queued)
NewEvent == Len(events) + 1

\* A webhook, a schedule or somebody else's message.
Trigger ==
    /\ MoreEvents /\ events' = Landed
    /\ UNCHANGED <<cast, view, tail, send, steer>>

\* runBilling inserts the row and opens the bracket, once per event.
Receive(e) ==
    /\ events[e].row = "queued" /\ events' = [events EXCEPT ![e].row = "received"]
    /\ Publish("event_received", e, "none")
    /\ UNCHANGED <<cast, view, send>>

Work(e) ==
    /\ events[e].row = "received" /\ Publish("chunk", e, "none")
    /\ UNCHANGED <<cast, events, view, send>>

\* An event is leased again when its lease is reclaimed, so that a second outcome
\* may come after a first one.  The write finds the row "received" or changes
\* nothing.
Given == {given \in Known \X Ends : given[2] \in events[given[1]].outcomes}
Outcome(e, outcome, row) ==
    /\ events[e].row # "queued" /\ outcome \notin events[e].outcomes
    /\ Cardinality(Given) < MaxOutcomes
    /\ events' = [events EXCEPT ![e] = [row      |-> row,
                                        outcomes |-> @.outcomes \union {outcome},
                                        owed     |-> @.owed \union {outcome}]]
    /\ UNCHANGED <<cast, view, tail, send, steer>>
Marks(e, outcome) == IF events[e].row = "received" THEN outcome ELSE events[e].row

\* finalize: the outcome is published whether or not the row could be written.
Reported(e, outcome) ==
    /\ outcome # "gate_blocked"
    /\ \/ Outcome(e, outcome, Marks(e, outcome))
       \/ Lossy /\ Outcome(e, outcome, events[e].row)

\* blockEvent: a failed write ends it, a row that is terminal already does not.
Blocked(e) == Outcome(e, "gate_blocked", Marks(e, "gate_blocked"))

Complete(e) ==
    \E outcome \in events[e].owed :
        /\ events' = [events EXCEPT ![e].owed = @ \ {outcome}]
        /\ Publish("event_complete", e, outcome)
        /\ UNCHANGED <<cast, view, send>>

(***************************************************************************)
(* The frames in the list of the dashboard.                                *)
(***************************************************************************)
Row(id, status) == [id |-> id, status |-> status]
Shows(rows, id) == \E i \in 1..Len(rows) : rows[i].id = id
IsFirst(rows, i, id) == rows[i].id = id /\ \A j \in 1..(i - 1) : rows[j].id # id

\* applyLiveFrame.  The text that a chunk adds is left out.
Applied(rows, frame) ==
    CASE frame.kind # "event_complete" /\ ~Shows(rows, frame.id) ->
           Append(rows, Row(frame.id, "received"))
      [] frame.kind = "event_complete" ->
           [i \in 1..Len(rows) |-> IF IsFirst(rows, i, frame.id) THEN Row(frame.id, frame.status)
                                                                ELSE rows[i]]
      [] OTHER -> rows

\* map over the rows with one id.
Marked(rows, id, row) == [i \in 1..Len(rows) |-> IF rows[i].id = id THEN row ELSE rows[i]]

\* The rows of the log, in the order of the stream, when the page is rendered on
\* the server: an event has one from its first delivery.
Backfills ==
    LET logged == {e \in Known : events[e].row # "queued"}
        orders == {order \in [1..Cardinality(logged) -> logged] :
                     \A i, j \in DOMAIN order : i < j => order[i] < order[j]}
    IN  {[i \in DOMAIN order |-> Row(order[i], events[order[i]].row)] : order \in orders}

IsRunning == \E i \in 1..Len(tail.rows) : tail.rows[i].status = "received"

(***************************************************************************)
(* The registry: one entry, shared by the views, kept for a while after    *)
(* the last of them is gone.                                               *)
(***************************************************************************)
Render(v) ==
    /\ view[v].at = "away"
    /\ \E rows \in Backfills : view' = [view EXCEPT ![v] = [at |-> "rendered", initial |-> rows]]
    /\ UNCHANGED <<cast, events, tail, send, steer>>

\* Clears the idle timer of an entry that exists.
SubscribedKeepsTimer(v) ==
    IF tail.source = "absent"
    THEN [Absent EXCEPT !.rows = view[v].initial, !.source = "connecting", !.refs = {v}]
    ELSE [tail EXCEPT !.refs = @ \union {v}]
Subscribed(v) ==
    IF tail.source = "absent"
    THEN [Absent EXCEPT !.rows = view[v].initial, !.source = "connecting", !.refs = {v}]
    ELSE [tail EXCEPT !.refs = @ \union {v}, !.idle = FALSE]

Mount(v) ==
    /\ view[v].at = "rendered"
    /\ view' = [view EXCEPT ![v] = [at |-> "mounted", initial |-> <<>>]]
    /\ tail' = Subscribed(v)
    /\ UNCHANGED <<cast, events, send, steer>>

\* releaseSubscriber: the last one out arms the timer.
ReleasedForGood(v) == [tail EXCEPT !.refs = @ \ {v}]
Released(v) == [tail EXCEPT !.refs = @ \ {v}, !.idle = tail.refs = {v}]
Unmount(v) ==
    /\ view[v].at = "mounted"
    /\ view' = [view EXCEPT ![v].at = "away"]
    /\ tail' = Released(v)
    /\ UNCHANGED <<cast, events, send, steer>>

IdleTimeout ==
    /\ tail.idle /\ tail' = Absent
    /\ UNCHANGED <<cast, events, view, send, steer>>

Connected ==
    /\ tail.source = "connecting" /\ tail' = [tail EXCEPT !.source = "open"]
    /\ UNCHANGED <<cast, events, view, send, steer>>

\* onEventSourceError: what was on its way is lost, nothing is read again.
SourceError ==
    /\ Lossy /\ tail.source \in {"connecting", "open"}
    /\ tail' = [tail EXCEPT !.source = "closed", !.queue = <<>>, !.retry = TRUE]
    /\ UNCHANGED <<cast, events, view, send, steer>>

ReconnectedNever == [tail EXCEPT !.retry = FALSE]
Reconnected == [tail EXCEPT !.retry = FALSE, !.source = "connecting"]
ReconnectTimeout ==
    /\ tail.retry /\ tail' = Reconnected
    /\ UNCHANGED <<cast, events, view, send, steer>>

\* A browser hands an event stream frame to onmessage when its type is
\* "message"; other types go to listeners of their own name, and there are none.
ReachesHandler(frame) == cast.framing = "message"

OnFrame ==
    /\ tail.queue # <<>>
    /\ tail' = [tail EXCEPT !.queue = Tail(@),
                            !.rows = IF ReachesHandler(Head(tail.queue))
                                     THEN Applied(@, Head(tail.queue)) ELSE @]
    /\ UNCHANGED <<cast, events, view, send, steer>>

(***************************************************************************)
(* A message from the dashboard: useNewMessageHandler.  The composer is    *)
(* disabled while a row is running.                                        *)
(***************************************************************************)
SendMessage(s) ==
    /\ send[s].at = "unsent" /\ \A r \in Sends : r < s => send[r].at # "unsent"
    /\ tail.refs # {} /\ ~IsRunning
    /\ send' = [send EXCEPT ![s].at = "posting", ![s].temp = tail.temps + 1]
    /\ tail' = [tail EXCEPT !.temps = @ + 1, !.rows = Append(@, Row(-(tail.temps + 1), "optimistic"))]
    /\ UNCHANGED <<cast, events, view, steer>>

\* reconcileOptimistic and markOptimisticFailed look the temporary id up in
\* whatever entry the zombie has by then.
ReconciledAsDone(id, e) == Row(e, "processed")
Reconciled(id, e) == Row(e, "received")
Settle(s, row) ==
    /\ send' = [send EXCEPT ![s].at = "settled", ![s].try = 1]
    /\ tail' = [tail EXCEPT !.rows = Marked(@, -send[s].temp, row)]

LostAnswers == {"timeout", "network", "gateway"}
MayLose(outcomes) == IF Lossy THEN outcomes ELSE {}

RetrySend(s, outcome) ==
    IF Retries("POST", outcome, send[s].try)
    THEN send' = [send EXCEPT ![s].try = @ + 1] /\ UNCHANGED tail
    ELSE Settle(s, Row(-send[s].temp, "failed"))

\* steerZombie under the server action; the action itself may get lost.
PostMessage(s) ==
    /\ send[s].at = "posting"
    /\ \/ /\ MoreEvents /\ events' = Landed
          /\ \/ Settle(s, Reconciled(-send[s].temp, NewEvent))
             \/ \E o \in MayLose(LostAnswers) : RetrySend(s, o)
             \/ Lossy /\ Settle(s, Row(-send[s].temp, "failed"))
       \/ /\ \E o \in Outcomes \ {"ok"} : RetrySend(s, o)
          /\ UNCHANGED events
    /\ UNCHANGED <<cast, view, steer>>

(***************************************************************************)
(* `agentsfleet steer`: one message, or one for each line of a terminal.   *)
(***************************************************************************)
EndTurn(c, said) ==
    steer' = [steer EXCEPT ![c].at = IF c \in Repl /\ ~steer[c].aborted THEN "prompt" ELSE "ended",
                           ![c].said = IF steer[c].aborted THEN "interrupted" ELSE said,
                           ![c].open = FALSE, ![c].queue = <<>>, ![c].polls = MaxPolls]

\* The next line, or the end of the input.
NextLine(c) ==
    /\ steer[c].at = "prompt"
    /\ \/ /\ steer[c].turns > 0
          /\ steer' = [steer EXCEPT ![c].at = "post", ![c].turns = @ - 1, ![c].try = 1,
                                    ![c].event = 0, ![c].said = "nothing"]
       \/ steer' = [steer EXCEPT ![c].at = "ended"]
    /\ UNCHANGED <<cast, events, view, tail, send>>

\* ^C aborts the turn under way, which ends at its next step; at the prompt,
\* or without one, it ends the process.
Interrupt(c) ==
    /\ steer[c].at # "ended"
    /\ steer' = IF c \in Repl /\ steer[c].at # "prompt"
                THEN [steer EXCEPT ![c].aborted = TRUE]
                ELSE [steer EXCEPT ![c].at = "ended", ![c].said = "interrupted",
                                   ![c].open = FALSE, ![c].queue = <<>>, ![c].polls = MaxPolls]
    /\ UNCHANGED <<cast, events, view, tail, send>>

RetryTurn(c, outcome) ==
    IF Retries("POST", outcome, steer[c].try)
    THEN steer' = [steer EXCEPT ![c].try = @ + 1]
    ELSE EndTurn(c, "error")

PostTurn(c) ==
    /\ steer[c].at = "post"
    /\ \/ /\ MoreEvents /\ events' = Landed
          /\ \/ steer' = [steer EXCEPT ![c].at = "tail", ![c].event = NewEvent]
             \/ \E o \in MayLose(LostAnswers) : RetryTurn(c, o)
       \/ /\ \E o \in Outcomes \ {"ok"} : RetryTurn(c, o)
          /\ UNCHANGED events
    /\ UNCHANGED <<cast, view, tail, send>>

ToPoll(c) == steer' = [steer EXCEPT ![c].at = "poll", ![c].open = FALSE, ![c].queue = <<>>]

\* tailEventStream: nothing that was published before is seen.
OpenStream(c) ==
    /\ steer[c].at = "tail" /\ ~steer[c].open
    /\ IF steer[c].aborted THEN EndTurn(c, "interrupted")
       ELSE steer' = [steer EXCEPT ![c].open = TRUE] \/ ToPoll(c)
    /\ UNCHANGED <<cast, events, view, tail, send>>

\* The stream ends, breaks or has been open for DEFAULT_TIMEOUT_MS.
StreamEnds(c) ==
    /\ steer[c].at = "tail" /\ steer[c].open
    /\ IF steer[c].aborted THEN EndTurn(c, "interrupted") ELSE ToPoll(c)
    /\ UNCHANGED <<cast, events, view, tail, send>>

\* makeFrameCallback goes by the type line.
EndsTurnAny(c, frame) == cast.framing = "named" /\ frame.kind = "event_complete"
EndsTurn(c, frame) ==
    cast.framing = "named" /\ frame.kind = "event_complete" /\ frame.id = steer[c].event

OnSteerFrame(c) ==
    /\ steer[c].at = "tail" /\ steer[c].queue # <<>> /\ ~steer[c].aborted
    /\ IF EndsTurn(c, Head(steer[c].queue))
       THEN EndTurn(c, Head(steer[c].queue).status)
       ELSE steer' = [steer EXCEPT ![c].queue = Tail(@)]
    /\ UNCHANGED <<cast, events, view, tail, send>>

\* pollEventTerminal: a request that fails is an empty page.
PolledForever(c) ==
    steer' = [steer EXCEPT ![c].polls = IF @ = 0 THEN MaxPolls ELSE @ - 1]
Polled(c) ==
    IF steer[c].polls = 0 THEN EndTurn(c, "timeout")
    ELSE steer' = [steer EXCEPT ![c].polls = @ - 1]

Poll(c) ==
    /\ steer[c].at = "poll"
    /\ IF steer[c].aborted THEN EndTurn(c, "interrupted")
       ELSE \/ /\ steer[c].polls > 0 /\ events[steer[c].event].row \in Ends
               /\ EndTurn(c, events[steer[c].event].row)
            \/ Polled(c)
    /\ UNCHANGED <<cast, events, view, tail, send>>

(***************************************************************************)
(* The specification.                                                      *)
(***************************************************************************)
Server ==
    \/ Trigger
    \/ \E e \in Known :
         Receive(e) \/ Work(e) \/ Blocked(e) \/ Complete(e) \/ \E outcome \in Ends : Reported(e, outcome)
Dashboard ==
    \/ \E v \in Views : Render(v) \/ Mount(v) \/ Unmount(v)
    \/ IdleTimeout \/ Connected \/ SourceError \/ ReconnectTimeout \/ OnFrame
    \/ \E s \in Sends : SendMessage(s) \/ PostMessage(s)
SteerStep(c) == PostTurn(c) \/ OpenStream(c) \/ StreamEnds(c) \/ OnSteerFrame(c) \/ Poll(c)
CommandLine == \E c \in Steers : NextLine(c) \/ Interrupt(c) \/ SteerStep(c)

TailNext == Server \/ Dashboard \/ CommandLine

\* Timers fire, requests end within their timeout, runners ask for work; nobody has
\* to look or type, and no run has to end.
TailFairness ==
    /\ WF_tailVars(IdleTimeout) /\ WF_tailVars(ReconnectTimeout) /\ WF_tailVars(Connected) /\ WF_tailVars(OnFrame)
    /\ \A s \in Sends : WF_tailVars(PostMessage(s))
    /\ \A c \in Steers : WF_tailVars(SteerStep(c)) /\ WF_tailVars(StreamEnds(c))
    /\ \A e \in 1..MaxEvents : WF_tailVars(e \in Known /\ Receive(e))
TailSpec == TailInit /\ [][TailNext]_tailVars /\ TailFairness

(***************************************************************************)
(* Properties.                                                             *)
(***************************************************************************)
\* A view on the screen is never left on a dead entry: whatever the mounts,
\* timers and broken connections did, its entry counts it, will not be torn
\* down, and is connected or about to be (subscribe against the idle timer of
\* releaseSubscriber and the retry timer of onEventSourceError).
WatchedMeansConnected ==
    \A v \in Views : view[v].at = "mounted" =>
        /\ v \in tail.refs /\ ~tail.idle
        /\ tail.source \in {"connecting", "open"} \/ tail.retry

\* The thread invents nothing: a row under a server's id is an event of the
\* stream, and an outcome on it was given of that very event, although rows
\* come from a page rendered earlier, from frames and from late answers
\* (mergeBackfill, applyLiveFrame, reconcileOptimistic).
RowsAreReal ==
    \A i \in 1..Len(tail.rows) : LET row == tail.rows[i] IN
        row.id > 0 => row.id \in Known /\ (row.status \in Ends => row.status \in events[row.id].outcomes)

\* What a thread shows at every moment: well-formed rows that the server bears
\* out, on an entry of the registry that is alive.
TailInvariant == TailTypeOK /\ RowsAreReal /\ WatchedMeansConnected

\* What steer says of a message is an outcome that was given of that message, not
\* of another that ran meanwhile, by whichever way it learned it
\* (makeFrameCallback, pollEventTerminal).  It may not be the one in the log: a
\* report is published although its write was lost or came second.
SteerTellsTheTruth ==
    \A c \in Steers : steer[c].said \in Ends => steer[c].said \in events[steer[c].event].outcomes

\* A turn of steer comes back, also when every frame is lost and every poll
\* fails (the stream's timeout, the deadline of pollEventTerminal).
SteerEnds ==
    \A c \in Steers : steer[c].at \in {"post", "tail", "poll"} ~> steer[c].at \in {"prompt", "ended"}

\* A connection that nobody watches any more is closed unless somebody comes
\* back (releaseSubscriber, teardown).
IdleConnectionsClose == tail.source # "absent" /\ tail.refs = {} ~> tail.source = "absent" \/ tail.refs # {}

\* A connection that broke is tried again (onEventSourceError).
TailReconnects == tail.source = "closed" ~> tail.source # "closed"

\* Nothing is left hanging: a turn comes back, a connection that nobody watches
\* is closed and one that broke is tried again.
TailSettles == SteerEnds /\ IdleConnectionsClose /\ TailReconnects

\* What the zombie receives while the thread is connected appears in it
\* (the thread's own hint: "Tool calls, chunks, and completions appear here as
\* the agent runs").
LiveEventsAppear ==
    \A e \in 1..MaxEvents :
        tail.source = "open" /\ e \in Known /\ events[e].row = "queued"
          ~> Shows(tail.rows, e) \/ tail.source # "open"
================================================================================
