----------------------------- MODULE ConsoleTables -----------------------------
(***************************************************************************)
(* The administrator's tables of the dashboard: runners and API keys.  A   *)
(* table shows a page of rows, its dialogs confirm what happens to a row,  *)
(* mint a runner or a key whose secret is shown once, and follow the       *)
(* activity of a runner.  Nothing polls: a tab learns of the others when   *)
(* it loads a page.                                                        *)
(***************************************************************************)
EXTENDS ServerActions

CONSTANTS
    MaxItems,    \* bound on the runners or keys, numbered in the order of their creation
    TableSize    \* DEFAULT_PAGE_SIZE

VARIABLES
    item,        \* the rows of the database
    table,       \* what each tab shows
    drift        \* whether the API may call a page invalid

tableVars == <<item, table, drift>>

Items   == 1..MaxItems
NoItem  == 0
Nobody  == "nobody"
Tables  == {"runners", "keys"}
Actions == {"cordon", "drain", "revoke", "delete"}
Statuses == {"active", "cordoned", "draining", "drained", "revoked"}
NoTarget == [id |-> NoItem, action |-> "revoke"]

ASSUME TablesAssumption ==
    /\ MaxItems \in Nat /\ TableSize \in Nat \ {0}
    /\ \A cast \in Casts : cast.drift \in BOOLEAN

\* rows, total and page are the list's; target is what the confirmation is
\* about; open and created are the mint dialog's; runner is whose activity is
\* shown, with data and error naming the runner that they came for; heard and
\* seen are the items whose secret reached the component, and the operator.
TableStates == [rows : Seq([id : Items, status : Statuses]), total : 0..MaxItems, page : Nat \ {0},
                target : [id : 0..MaxItems, action : Actions], open : BOOLEAN, created : 0..MaxItems,
                runner : 0..MaxItems, data : 0..MaxItems, error : 0..MaxItems,
                heard : SUBSET Items, seen : SUBSET Items]

TablesTypeOK ==
    /\ item \in [Items -> [status : Statuses \union {"unborn", "deleted"}, name : Tabs \union {Nobody}]]
    /\ table \in [Tabs -> TableStates] /\ drift \in BOOLEAN

(***************************************************************************)
(* Pages, newest first.                                                    *)
(***************************************************************************)
Existing == {i \in Items : item[i].status \notin {"unborn", "deleted"}}
Rows     == LET ids == Ordered(Existing, FALSE)
            IN  [n \in DOMAIN ids |-> [id |-> ids[n], status |-> item[ids[n]].status]]
TablePage(page) ==
    [rows |-> SubSeq(Rows, (page - 1) * TableSize + 1, Min({page * TableSize, Len(Rows)})),
     total |-> Len(Rows), page |-> page]
LastPage(total) == IF total = 0 THEN 1 ELSE (total - 1) \div TableSize + 1

TablesInit(cast) ==
    /\ drift = cast.drift
    /\ item = [i \in Items |-> [status |-> IF scene \in Tables /\ i <= cast.rows THEN "active" ELSE "unborn",
                                name |-> Nobody]]
    /\ table = [t \in Tabs |->
           [rows |-> TablePage(1).rows, total |-> Len(Rows), page |-> 1, target |-> NoTarget, open |-> FALSE,
            created |-> NoItem, runner |-> NoItem, data |-> NoItem, error |-> NoItem,
            heard |-> {}, seen |-> {}]]

\* The sweep of the fleet takes a runner without leases from draining to drained.
Sweep(i) ==
    /\ item[i].status = "draining" /\ item' = [item EXCEPT ![i].status = "drained"]
    /\ UNCHANGED <<callVars, table, drift>>

(***************************************************************************)
(* The clicks.  Dialogs are modal, and the buttons of the table are        *)
(* disabled while the table waits for an answer.                           *)
(***************************************************************************)
Active(t) == scene \in Tables /\ t \in tabs /\ Len(calls[t]) < MaxCalls
Modal(t)  == table[t].target # NoTarget \/ table[t].open \/ table[t].runner # NoItem
Free(t)   == Active(t) /\ ~Modal(t) /\ ~Asked(t, {"load", "act"})

Load(page, retried, quiet) == [page |-> page, retried |-> retried, quiet |-> quiet]
QuietLoad(page)  == Call("load", Load(page, FALSE, TRUE))
FirstPage        == Call("load", Load(1, TRUE, FALSE))

GoTo(t, page) ==
    /\ Free(t) /\ page \in {table[t].page - 1, table[t].page + 1} /\ page \in 1..LastPage(table[t].total)
    /\ Click(t, "load", Load(page, FALSE, FALSE)) /\ UNCHANGED tableVars

ActionsFor(status) ==
    IF scene = "keys" THEN {IF status = "active" THEN "revoke" ELSE "delete"}
    ELSE (IF status = "active" THEN {"cordon"} ELSE {})
         \union (IF status \in {"active", "cordoned"} THEN {"drain"} ELSE {})
         \union (IF status # "revoked" THEN {"revoke"} ELSE {})

PickAction(t, n, action) ==
    /\ Free(t) /\ n \in DOMAIN table[t].rows /\ action \in ActionsFor(table[t].rows[n].status)
    /\ table' = [table EXCEPT ![t].target = [id |-> table[t].rows[n].id, action |-> action]]
    /\ UNCHANGED <<callVars, item, drift>>

Dismiss(t) ==
    /\ table[t].target # NoTarget /\ table' = [table EXCEPT ![t].target = NoTarget]
    /\ UNCHANGED <<callVars, item, drift>>

\* onConfirm returns before its transition ends, so the button stays enabled.
Confirm(t) ==
    /\ table[t].target # NoTarget
    /\ Click(t, "act", [target |-> table[t].target, page |-> table[t].page])
    /\ UNCHANGED tableVars

OpenMint(t) ==
    /\ Active(t) /\ ~Modal(t) /\ table' = [table EXCEPT ![t].open = TRUE]
    /\ UNCHANGED <<callVars, item, drift>>

\* Without the pending of the transition.
CanMintAgain(t) == table[t].open /\ table[t].created = NoItem
CanMint(t) == table[t].open /\ table[t].created = NoItem /\ ~Asked(t, {"mint"})

Mint(t) ==
    /\ CanMint(t) /\ Click(t, "mint", <<>>) /\ UNCHANGED tableVars

\* A created secret is on the screen of an open dialog; closing drops it, and
\* onCreated loads the first page.
CloseMint(t) ==
    /\ table[t].open
    /\ table' = [table EXCEPT ![t].open = FALSE, ![t].created = NoItem,
                              ![t].seen = @ \union ({table[t].created} \ {NoItem})]
    /\ IF table[t].created = NoItem THEN UNCHANGED calls ELSE Ask(t, "load", Load(1, FALSE, FALSE))
    /\ UNCHANGED <<scene, tabs, clicks, faults, item, drift>>

OpenActivity(t, n) ==
    /\ scene = "runners" /\ Free(t) /\ n \in DOMAIN table[t].rows
    /\ Click(t, "events", [runner |-> table[t].rows[n].id])
    /\ table' = [table EXCEPT ![t].runner = table[t].rows[n].id, ![t].data = NoItem, ![t].error = NoItem]
    /\ UNCHANGED <<item, drift>>

\* Previous and Next of the panel.
PageActivity(t) ==
    /\ table[t].runner # NoItem /\ table[t].data = table[t].runner /\ ~Asked(t, {"events"})
    /\ Click(t, "events", [runner |-> table[t].runner]) /\ UNCHANGED tableVars

CloseActivity(t) ==
    /\ table[t].runner # NoItem
    /\ table' = [table EXCEPT ![t].runner = NoItem, ![t].data = NoItem, ![t].error = NoItem]
    /\ UNCHANGED <<callVars, item, drift>>

(***************************************************************************)
(* The API.                                                                *)
(***************************************************************************)
ServeLoad(t) ==
    /\ AtServer(t, {"load"})
    /\ \/ Reply(t, "ok", TablePage(Arg(t).page))
       \/ drift /\ Reply(t, "invalid", <<>>)
    /\ UNCHANGED tableVars

ServeEvents(t) ==
    /\ AtServer(t, {"events"}) /\ Reply(t, "ok", <<>>) /\ UNCHANGED tableVars

\* Revoked is terminal for a runner; nothing else is asked of its state.  A key
\* is revoked once, and deleted when it is revoked.
AllowedAnyway(action, status) == action # "delete" \/ status = "revoked"
Allowed(action, status) ==
    IF scene = "runners" THEN status # "revoked" \/ action = "revoke"
    ELSE status = (IF action = "revoke" THEN "active" ELSE "revoked")

AfterNamesAction(action) == action
After(action) == CASE action = "cordon" -> "cordoned" [] action = "drain" -> "draining"
                   [] action = "revoke" -> "revoked"  [] action = "delete" -> "deleted"

ServeAct(t) ==
    /\ AtServer(t, {"act"})
    /\ LET i == Arg(t).target.id
           action == Arg(t).target.action
       IN  IF Allowed(action, item[i].status)
           THEN item' = [item EXCEPT ![i].status = After(action)] /\ Reply(t, "ok", <<>>)
           ELSE UNCHANGED item /\ Reply(t, "terminal", <<>>)
    /\ UNCHANGED <<table, drift>>

\* A tab names what it mints; the names of keys are unique, those of hosts are not.
Taken(t) == scene = "keys" /\ \E i \in Existing : item[i].name = t

ServeMint(t, i) ==
    /\ AtServer(t, {"mint"}) /\ ~Taken(t)
    /\ item[i].status = "unborn" /\ \A j \in 1..(i - 1) : item[j].status # "unborn"
    /\ item' = [item EXCEPT ![i] = [status |-> "active", name |-> t]]
    /\ Reply(t, "ok", [id |-> i])
    /\ UNCHANGED <<table, drift>>

\* The bound on the items refuses too.
RefuseMint(t) ==
    /\ AtServer(t, {"mint"})
    /\ Taken(t) \/ \A i \in Items : item[i].status # "unborn"
    /\ Reply(t, "conflict", <<>>) /\ UNCHANGED tableVars

(***************************************************************************)
(* The answers.                                                            *)
(***************************************************************************)
\* The first page is tried when the API rejects the one asked for: once.
RetriesAlways(t) == Answer(t).kind = "invalid" /\ ~Arg(t).quiet
Retries(t) == Answer(t).kind = "invalid" /\ ~Arg(t).quiet /\ ~Arg(t).retried

ReceiveLoad(t) ==
    /\ Answered(t, {"load"})
    /\ IF Retries(t) THEN ReceivedThen(t, FirstPage) ELSE Received(t)
    /\ table' = IF Answer(t).kind # "ok" THEN table
                ELSE [table EXCEPT ![t].rows = Answer(t).data.rows, ![t].page = Answer(t).data.page,
                                   ![t].total = Answer(t).data.total]
    /\ UNCHANGED <<item, drift>>

\* updateLocalAdminState: the row takes the state that was asked for.
Updated(rows, target) ==
    [n \in DOMAIN rows |-> IF rows[n].id = target.id
                           THEN [rows[n] EXCEPT !.status = After(target.action)] ELSE rows[n]]

RunnerActed(t) ==
    /\ scene = "runners" /\ Answered(t, {"act"}) /\ Received(t)
    /\ table' = IF Answer(t).kind # "ok" THEN table
                ELSE [table EXCEPT ![t].rows = Updated(@, Arg(t).target), ![t].target = NoTarget]
    /\ UNCHANGED <<item, drift>>

\* The keys are read again whatever the answer; the dialog closes on success.
KeyActed(t) ==
    /\ scene = "keys" /\ Answered(t, {"act"}) /\ ReceivedThen(t, QuietLoad(Arg(t).page))
    /\ table' = IF Answer(t).kind # "ok" THEN table ELSE [table EXCEPT ![t].target = NoTarget]
    /\ UNCHANGED <<item, drift>>

\* An answer shows whether or not the dialog is open.
ReceiveMint(t) ==
    /\ Answered(t, {"mint"}) /\ Received(t)
    /\ table' = IF Answer(t).kind # "ok" THEN table
                ELSE [table EXCEPT ![t].created = Answer(t).data.id,
                                   ![t].heard = @ \union {Answer(t).data.id}]
    /\ UNCHANGED <<item, drift>>

\* activityRunnerIdRef names the runner of the panel that is open now.
IsForPanelIfAny(t) == table[t].runner # NoItem
IsForPanel(t) == table[t].runner = Arg(t).runner

ReceiveEvents(t) ==
    /\ Answered(t, {"events"}) /\ Received(t)
    /\ table' = IF ~IsForPanel(t) THEN table
                ELSE IF Answer(t).kind # "ok" THEN [table EXCEPT ![t].error = Arg(t).runner]
                ELSE [table EXCEPT ![t].data = Arg(t).runner, ![t].error = NoItem]
    /\ UNCHANGED <<item, drift>>

(***************************************************************************)
(* The specification of the tables.                                        *)
(***************************************************************************)
TablesServe(t) == \/ ServeLoad(t) \/ ServeEvents(t) \/ ServeAct(t) \/ RefuseMint(t)
                  \/ \E i \in Items : ServeMint(t, i)
TablesReceive(t) == \/ ReceiveLoad(t) \/ RunnerActed(t) \/ KeyActed(t) \/ ReceiveMint(t)
                    \/ ReceiveEvents(t)
TablesClick(t) ==
    \/ Dismiss(t) \/ Confirm(t) \/ OpenMint(t) \/ Mint(t) \/ CloseMint(t)
    \/ PageActivity(t) \/ CloseActivity(t)
    \/ \E page \in 1..MaxItems : GoTo(t, page)
    \/ \E n \in 1..TableSize : OpenActivity(t, n) \/ \E action \in Actions : PickAction(t, n, action)
TablesNext ==
    \/ \E i \in Items : Sweep(i)
    \/ \E t \in Tabs : \/ TablesClick(t) \/ TablesServe(t) \/ TablesReceive(t)
                       \/ Unreached(t) /\ UNCHANGED tableVars

(***************************************************************************)
(* Properties.                                                             *)
(***************************************************************************)
Shows(t, i, status) == \E n \in DOMAIN table[t].rows : table[t].rows[n] = [id |-> i, status |-> status]

\* A runner or key that a tab shows as revoked is never shown there in another
\* state: neither a tab with an older page nor an answer that was under way
\* brings it back.
RevokedStaysRevoked ==
    [][\A t \in Tabs, i \in Items, s \in Statuses \ {"revoked"} :
          Shows(t, i, "revoked") => ~Shows(t, i, s)']_<<callVars, tableVars>>

\* The panel shows the events, or the error, of the runner that it names, when
\* the answer for another panel arrives after it was opened.
PanelMatches ==
    \A t \in Tabs : {table[t].data, table[t].error} \subseteq {NoItem, table[t].runner}

\* A secret that reached the dialog is on its screen, or was until the operator
\* closed it: the next answer does not replace it.
SecretNotDropped == \A t \in Tabs : table[t].heard \subseteq table[t].seen \union {table[t].created}

\* The calls of a tab come to an end, even if the API rejects the first page.
LoadsSettle == scene \in Tables => \A t \in Tabs : <>[](calls[t] = <<>>)

\* What the dialogs of a table show at every moment: the runner that the panel
\* names, and a secret until it is closed.
TablesInvariant == TablesTypeOK /\ PanelMatches /\ SecretNotDropped
=============================================================================
