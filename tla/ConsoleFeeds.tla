----------------------------- MODULE ConsoleFeeds -----------------------------
(***************************************************************************)
(* The lists of the dashboard that are read a page at a time: the inbox of *)
(* pending approvals, which polls, and the lists of agents and of events,  *)
(* which do not.  An approval is resolved from the inbox or from its own   *)
(* page, while other channels and the timeout may resolve it too.          *)
(***************************************************************************)
EXTENDS ServerActions

CONSTANTS
    Workspaces,
    MaxEntries,   \* bound on the rows, numbered in the order they are created
    Home,         \* the workspace of each row
    PageSize,     \* the limit of a page
    Outcomes      \* how another channel may resolve a gate

VARIABLES
    entry,        \* the rows of the database
    cookie,       \* active_workspace_id, shared by the tabs
    feed,         \* the page that each tab shows
    told          \* the verdicts that each tab was told

feedVars == <<entry, cookie, feed, told>>

Entries   == 1..MaxEntries
NoEntry   == 0
Verdicts  == {"approved", "denied", "timed_out"}

\* The words of the request, where the row wants those of the verdict.
DecisionVerbs == {"approve", "deny"}
Decisions == {"approved", "denied"}
Feeds     == {"approvals", "agents", "events"}
Resolvers == Tabs \union {"elsewhere", "nobody"}

ASSUME FeedsAssumption ==
    /\ MaxEntries \in Nat /\ PageSize \in Nat \ {0}
    /\ Home \in [Entries -> Workspaces] /\ Outcomes \subseteq Verdicts
    /\ \A cast \in Casts : cast.cookies \subseteq Workspaces

Never  == [status |-> "never", by |-> "nobody"]
Unborn == [status |-> "unborn", by |-> "nobody"]
Open   == [status |-> "pending", by |-> "nobody"]

\* at says what is on the screen; ws, items, cursor and error are the state of
\* the list, paged is hasLoadedMore and fresh says that the rows were read for
\* ws; gate and status are what a gate's own page was rendered with; active is
\* the workspace that the switcher shows.
FeedStates == [at : {"list", "gate", "nothing"}, ws : Workspaces, active : Workspaces,
               items : Seq(Entries), cursor : 0..MaxEntries, paged : BOOLEAN,
               fresh : BOOLEAN, error : BOOLEAN, gate : 0..MaxEntries,
               status : Verdicts \union {"unborn", "pending"}]

FeedsTypeOK ==
    /\ entry \in [Entries -> [status : {"never", "unborn", "pending"} \union Verdicts, by : Resolvers]]
    /\ cookie \in Workspaces
    /\ feed \in [Tabs -> FeedStates]
    /\ told \in [Tabs -> SUBSET [gate : Entries, status : Verdicts, by : Resolvers]]

(***************************************************************************)
(* What the API lists: gates by age, the others by youth.  A full page     *)
(* carries a cursor, the row it ends with.                                 *)
(***************************************************************************)
OldestFirst == scene = "approvals"
Past(cursor, e) == cursor = NoEntry \/ (IF OldestFirst THEN e > cursor ELSE e < cursor)
Listed(ws, cursor) ==
    Ordered({e \in Entries : entry[e].status = "pending" /\ Home[e] = ws /\ Past(cursor, e)}, OldestFirst)
Page(ws, cursor) ==
    LET items == SubSeq(Listed(ws, cursor), 1, Min({PageSize, Len(Listed(ws, cursor))}))
    IN  [items |-> items,
         cursor |-> IF Len(items) = PageSize THEN Last(items) ELSE NoEntry]
NoRows == [items |-> <<>>, cursor |-> NoEntry]

\* useState(initial...) at the first render of the component.
ListOf(ws, active, page) ==
    [at |-> "list", ws |-> ws, active |-> active, items |-> page.items, cursor |-> page.cursor,
     paged |-> FALSE, fresh |-> TRUE, error |-> FALSE, gate |-> NoEntry, status |-> "unborn"]
\* A gate that was requested has a row.
Requested(e) == entry[e].status \notin {"never", "unborn"}

GateOf(ws, active, e) ==
    IF e \in Entries /\ Home[e] = ws /\ Requested(e)
    THEN [ListOf(ws, active, NoRows) EXCEPT !.at = "gate", !.gate = e, !.status = entry[e].status]
    ELSE [ListOf(ws, active, NoRows) EXCEPT !.at = "nothing"]
NotFound(ws, active) == GateOf(ws, active, NoEntry)

FeedsInit(cast) ==
    /\ entry = [e \in Entries |-> IF e <= cast.rows THEN Open
                                  ELSE IF e <= cast.rows + cast.births THEN Unborn ELSE Never]
    /\ cookie \in cast.cookies
    /\ told = [t \in Tabs |-> {}]
    /\ feed = [t \in Tabs |-> IF t \in tabs /\ scene \in Feeds
                              THEN ListOf(cookie, cookie, Page(cookie, NoEntry))
                              ELSE NotFound(cookie, cookie)]

(***************************************************************************)
(* What happens elsewhere: a gate is requested, an agent is installed or   *)
(* an event arrives; Slack, the command line or the timeout resolves.      *)
(***************************************************************************)
Create(e) ==
    /\ entry[e] = Unborn /\ \A d \in 1..(e - 1) : entry[d] # Unborn
    /\ entry' = [entry EXCEPT ![e] = Open]
    /\ UNCHANGED <<callVars, cookie, feed, told>>

ResolvableTwice(e) == entry[e].status # "never"

\* The update names the pending status: the first resolver wins.
Resolvable(e) == entry[e].status = "pending"

ResolveElsewhere(e, outcome) ==
    /\ scene = "approvals" /\ Resolvable(e)
    /\ entry' = [entry EXCEPT ![e] = [status |-> outcome, by |-> "elsewhere"]]
    /\ UNCHANGED <<callVars, cookie, feed, told>>

(***************************************************************************)
(* The clicks, and the tick of the inbox.                                  *)
(***************************************************************************)
\* The list is on the screen and hasLoadedMore is not set.
FirstPageShown(t) == feed[t].at = "list" /\ ~feed[t].paged

TicksWhenFilled(t) == FirstPageShown(t) /\ feed[t].items # <<>>
Ticks(t) == FirstPageShown(t)

\* setInterval in the inbox; a tick is left out while the one before is under way.
Poll(t) ==
    /\ scene = "approvals" /\ Ticks(t) /\ ~Asked(t, {"poll"})
    /\ Ask(t, "poll", [ws |-> feed[t].ws, cursor |-> NoEntry])
    /\ UNCHANGED <<scene, tabs, clicks, faults, feedVars>>

CanLoadMoreAgain(t) == feed[t].at = "list" /\ feed[t].cursor # NoEntry

\* The early return for an empty list hides the button too, unless an error shows.
CanLoadMore(t) ==
    /\ feed[t].at = "list" /\ feed[t].cursor # NoEntry
    /\ feed[t].items # <<>> \/ feed[t].error
    /\ ~Asked(t, {"more"})

LoadMore(t) ==
    /\ CanLoadMore(t)
    /\ Click(t, "more", [ws |-> feed[t].ws, cursor |-> feed[t].cursor])
    /\ feed' = [feed EXCEPT ![t].error = FALSE]
    /\ UNCHANGED <<entry, cookie, told>>

\* The buttons of a card are never disabled; those of the page are.
CanResolve(t, e) ==
    \/ feed[t].at = "list" /\ scene = "approvals" /\ e \in Range(feed[t].items)
    \/ feed[t].at = "gate" /\ e = feed[t].gate /\ feed[t].status = "pending" /\ ~Asked(t, {"resolve"})

Resolve(t, e, decision) ==
    /\ CanResolve(t, e)
    /\ Click(t, "resolve", [from |-> feed[t].at, ws |-> feed[t].ws, gate |-> e, status |-> decision])
    /\ feed' = [feed EXCEPT ![t].error = FALSE]
    /\ UNCHANGED <<entry, cookie, told>>

Switch(t, ws) ==
    /\ feed[t].at # "nothing" /\ ws # feed[t].active /\ ~Asked(t, {"switch"})
    /\ Click(t, "switch", [ws |-> ws]) /\ UNCHANGED feedVars

(***************************************************************************)
(* Rendering.  A page is rendered for the workspace of the cookie; the     *)
(* layout with its switcher is rendered again by a refresh only, and what  *)
(* a mounted list holds outlives a refresh.                                *)
(***************************************************************************)
\* Navigation unmounts the page; the switcher is in the layout, and stays.
Leaving(t) == Silenced(calls[t], {"poll", "more", "resolve"})

ShowList(t, active) ==
    \/ feed' = [feed EXCEPT ![t] = ListOf(cookie, active, Page(cookie, NoEntry))] /\ UNCHANGED faults
    \/ Faulty /\ feed' = [feed EXCEPT ![t] = ListOf(cookie, active, NoRows)]

VerdictOn(state) ==
    IF state.at = "gate" /\ state.status # "pending"
    THEN {[gate |-> state.gate, status |-> entry[state.gate].status, by |-> entry[state.gate].by]}
    ELSE {}
Told(t, verdicts) == told' = [told EXCEPT ![t] = @ \union verdicts]

ShowGate(t, active, e) ==
    \/ /\ feed' = [feed EXCEPT ![t] = GateOf(cookie, active, e)] /\ UNCHANGED faults
       /\ Told(t, VerdictOn(GateOf(cookie, active, e)))
    \/ Faulty /\ feed' = [feed EXCEPT ![t] = NotFound(cookie, active)] /\ UNCHANGED told

\* A mounted list takes the new workspace as a property; the agents' page
\* mounts its list when there is something to list.
Remounted(state, ws) == scene = "agents" /\ (state.items = <<>> \/ Page(ws, NoEntry).items = <<>>)

Refreshed(state, ws) ==
    IF state.at = "gate" THEN GateOf(ws, ws, state.gate)
    ELSE IF Remounted(state, ws) THEN ListOf(ws, ws, Page(ws, NoEntry))
    ELSE [state EXCEPT !.ws = ws, !.active = ws, !.fresh = @ /\ ws = state.ws]

\* A list that is unmounted hears nothing of its rows; one that stays drops its
\* polls when the workspace changes, in the cleanup of the polling effect.
Unheard(state, ws) ==
    IF Remounted(state, ws) THEN {"more"} ELSE IF ws = state.ws THEN {} ELSE {"poll"}

Rerender(t, ws) ==
    /\ feed' = [feed EXCEPT ![t] = Refreshed(@, ws)]
    /\ calls' = [calls EXCEPT ![t] = Silenced(Tail(@), Unheard(feed[t], ws))]

OpenGate(t, e) ==
    /\ scene = "approvals" /\ feed[t].at = "list" /\ e \in Range(feed[t].items)
    /\ Clicked /\ calls' = [calls EXCEPT ![t] = Leaving(t)] /\ ShowGate(t, feed[t].active, e)
    /\ UNCHANGED <<entry, cookie>>

OpenList(t) ==
    /\ feed[t].at = "gate"
    /\ Clicked /\ calls' = [calls EXCEPT ![t] = Leaving(t)] /\ ShowList(t, feed[t].active)
    /\ UNCHANGED <<entry, cookie, told>>

(***************************************************************************)
(* The API.                                                                *)
(***************************************************************************)
ServeList(t) ==
    /\ AtServer(t, {"poll", "more"})
    /\ Reply(t, "ok", Page(Arg(t).ws, Arg(t).cursor))
    /\ UNCHANGED feedVars

ServeResolve(t) ==
    /\ AtServer(t, {"resolve"}) /\ Home[Arg(t).gate] = Arg(t).ws /\ Resolvable(Arg(t).gate)
    /\ entry' = [entry EXCEPT ![Arg(t).gate] = [status |-> Arg(t).status, by |-> t]]
    /\ Reply(t, "ok", <<>>)
    /\ UNCHANGED <<cookie, feed, told>>

RefuseResolve(t) ==
    /\ AtServer(t, {"resolve"})
    /\ IF Home[Arg(t).gate] # Arg(t).ws \/ ~Requested(Arg(t).gate) THEN Reply(t, "missing", <<>>)
       ELSE ~Resolvable(Arg(t).gate) /\ Reply(t, "already", entry[Arg(t).gate])
    /\ UNCHANGED feedVars

ServeSwitch(t) ==
    /\ AtServer(t, {"switch"}) /\ cookie' = Arg(t).ws
    /\ Reply(t, "ok", <<>>)
    /\ UNCHANGED <<entry, feed, told>>

(***************************************************************************)
(* The answers.                                                            *)
(***************************************************************************)
AppliesLate(t) == Ticks(t)

\* alive and alreadyPaged(), read again after the await.
Applies(t) == Live(t) /\ Ticks(t)

ReceivePoll(t) ==
    /\ Answered(t, {"poll"}) /\ Received(t)
    /\ feed' = IF Applies(t) /\ Answer(t).kind = "ok"
               THEN [feed EXCEPT ![t].items = Answer(t).data.items, ![t].fresh = TRUE,
                                 ![t].cursor = Answer(t).data.cursor]
               ELSE feed
    /\ UNCHANGED <<entry, cookie, told>>

ReceiveMore(t) ==
    /\ Answered(t, {"more"}) /\ Received(t)
    /\ feed' = IF ~Live(t) THEN feed
               ELSE IF Answer(t).kind # "ok" THEN [feed EXCEPT ![t].error = TRUE]
               ELSE [feed EXCEPT ![t].items = @ \o Answer(t).data.items, ![t].paged = TRUE,
                                 ![t].cursor = Answer(t).data.cursor]
    /\ UNCHANGED <<entry, cookie, told>>

\* What the tab makes of an answer: that its own decision stands, or whose does.
Understood(t) ==
    {[gate |-> Arg(t).gate,
      status |-> IF Answer(t).kind = "ok" THEN Arg(t).status ELSE Answer(t).data.status,
      by |-> IF Answer(t).kind = "ok" THEN t ELSE Answer(t).data.by]}
Settled(t) == Answer(t).kind \in {"ok", "already"}

OtherRows(t) == {n \in DOMAIN feed[t].items : feed[t].items[n] # Arg(t).gate}
RemovedWhenOk(t) == IF Answer(t).kind = "ok" THEN Filtered(feed[t].items, OtherRows(t)) ELSE feed[t].items
Removed(t) == Filtered(feed[t].items, OtherRows(t))

ReceiveResolved(t) ==
    /\ Answered(t, {"resolve"}) /\ Arg(t).from = "list" /\ Received(t)
    /\ feed' = IF ~Live(t) THEN feed
               ELSE IF ~Settled(t) THEN [feed EXCEPT ![t].error = TRUE]
               ELSE [feed EXCEPT ![t].items = Removed(t), ![t].error = Answer(t).kind = "already"]
    /\ Told(t, IF Live(t) /\ Settled(t) THEN Understood(t) ELSE {})
    /\ UNCHANGED <<entry, cookie>>

\* The page goes back to the inbox, wherever the operator has gone meanwhile; an
\* inbox that is there already stays mounted, and keeps its rows.
GateResolved(t) ==
    /\ Answered(t, {"resolve"}) /\ Arg(t).from = "gate" /\ Answer(t).kind = "ok"
    /\ IF feed[t].at = "list" THEN Rerender(t, cookie) /\ UNCHANGED <<faults, told>>
       ELSE /\ calls' = [calls EXCEPT ![t] = Tail(Leaving(t))] /\ ShowList(t, cookie)
            /\ Told(t, Understood(t))
    /\ UNCHANGED <<scene, tabs, clicks, entry, cookie>>

GateAlreadyResolved(t) ==
    /\ Answered(t, {"resolve"}) /\ Arg(t).from = "gate" /\ Answer(t).kind = "already"
    /\ Rerender(t, cookie) /\ Told(t, VerdictOn(Refreshed(feed[t], cookie)))
    /\ UNCHANGED <<scene, tabs, clicks, faults, entry, cookie>>

GateNotResolved(t) ==
    /\ Answered(t, {"resolve"}) /\ Arg(t).from = "gate" /\ ~Settled(t) /\ Received(t)
    /\ feed' = IF Live(t) THEN [feed EXCEPT ![t].error = TRUE] ELSE feed
    /\ UNCHANGED <<entry, cookie, told>>

\* The action revalidates the layout; if it throws, the error page replaces it.
ReceiveSwitch(t) ==
    /\ Answered(t, {"switch"}) /\ UNCHANGED <<scene, tabs, clicks, faults, entry, cookie, told>>
    /\ IF Answer(t).kind = "ok"
       THEN Rerender(t, Arg(t).ws)
       ELSE /\ feed' = [feed EXCEPT ![t] = NotFound(@.ws, @.active)]
            /\ calls' = [calls EXCEPT ![t] = Tail(Leaving(t))]

(***************************************************************************)
(* The specification of the feeds.                                         *)
(***************************************************************************)
FeedsServe(t) == ServeList(t) \/ ServeResolve(t) \/ RefuseResolve(t) \/ ServeSwitch(t)
FeedsReceive(t) == \/ ReceivePoll(t) \/ ReceiveMore(t) \/ ReceiveResolved(t) \/ GateResolved(t)
                   \/ GateAlreadyResolved(t) \/ GateNotResolved(t) \/ ReceiveSwitch(t)
FeedsClick(t) ==
    \/ LoadMore(t) \/ OpenList(t)
    \/ \E e \in Entries : OpenGate(t, e) \/ \E d \in Decisions : Resolve(t, e, d)
    \/ \E ws \in Workspaces : Switch(t, ws)
FeedsNext ==
    \/ \E e \in Entries : Create(e) \/ \E o \in Outcomes : ResolveElsewhere(e, o)
    \/ \E t \in Tabs : \/ Poll(t) \/ FeedsClick(t) \/ FeedsServe(t) \/ FeedsReceive(t)
                       \/ Unreached(t) /\ UNCHANGED feedVars

(***************************************************************************)
(* Properties.                                                             *)
(***************************************************************************)
\* What a tab was told of a gate stays true: the verdict it names is the one
\* on the row, whoever else resolved the gate at the same moment.
OneVerdict ==
    \A t \in Tabs : \A v \in told[t] :
        entry[v.gate] = [status |-> v.status, by |-> v.by]

\* A gate that the tab was told is resolved does not come back to its inbox,
\* neither by a poll that was under way nor by a page that is loaded later.
ResolvedStaysGone ==
    scene = "approvals" =>
        \A t \in Tabs : \A v \in told[t] : feed[t].at = "list" => v.gate \notin Range(feed[t].items)

\* Once the inbox was read for the workspace it is in, it shows gates of that
\* workspace only, until the operator asks for more: a poll made for the
\* workspace before it is dropped.
PollsNeverCross ==
    scene = "approvals" =>
        \A t \in Tabs : feed[t].fresh /\ FirstPageShown(t) /\ ~Asked(t, {"more"}) =>
            \A e \in Range(feed[t].items) : Home[e] = feed[t].ws

\* Loading more never shows a row twice in the lists that do not poll.
NoRowTwice ==
    scene \in {"agents", "events"} =>
        \A t \in Tabs : \A i, j \in DOMAIN feed[t].items :
            feed[t].items[i] = feed[t].items[j] => i = j

\* The inbox of a tab that stays open and did not load more ends up showing
\* the first page of what is pending in its workspace.
InboxCatchesUp ==
    \A t \in Tabs :
        <>[](scene = "approvals" /\ FirstPageShown(t) => feed[t].items = Page(feed[t].ws, NoEntry).items)

\* What the feeds show at every moment: no verdict outlived by its row, no
\* gate of another workspace, no row twice.
FeedsInvariant == CallsTypeOK /\ FeedsTypeOK /\ ResolvedStaysGone /\ PollsNeverCross /\ NoRowTwice
=============================================================================
