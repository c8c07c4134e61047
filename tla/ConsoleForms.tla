----------------------------- MODULE ConsoleForms -----------------------------
(***************************************************************************)
(* The dialogs and forms of the dashboard that change something and then   *)
(* refresh the page they are on: the controls of one agent, the credential *)
(* vault with the model provider, and the workspaces of the account.  Each *)
(* page shows what was read when it was last rendered.                     *)
(***************************************************************************)
EXTENDS ServerActions

CONSTANTS
    Names,      \* names of credentials
    Spaces,     \* workspaces; FirstSpace is the oldest
    FirstSpace

VARIABLES
    store,      \* the fields that the API keeps, and the cookie of the browser
    shown,      \* what each tab was last rendered with
    form,       \* the state of the dialogs and forms of each tab
    writer,     \* who wrote each field last
    acked       \* the fields whose last write by the tab was acknowledged to it

formVars == <<store, shown, form, writer, acked>>

Forms    == {"agent", "install", "vault", "spaces"}
Fields   == {"status", "creds", "provider", "spaces", "cookie"}
Platform == "platform"
Nothing  == "nothing"
SomebodyElse == "somebody else"
Settable == {"active", "stopped", "killed"}
Stages   == {"unborn", "active", "paused", "stopped", "killed", "gone"}

ASSUME FormsAssumption ==
    /\ FirstSpace \in Spaces /\ {Platform, Nothing} \cap Names = {} /\ SomebodyElse \notin Tabs
    /\ \A cast \in Casts : cast.creds \subseteq Names /\ IsFiniteSet(cast.tabs)

Stores == [status : Stages, creds : SUBSET Names, provider : Names \union {Platform},
           spaces : SUBSET Spaces, cookie : Spaces]

\* at is the page, dialog what the open confirmation is about and ref the
\* credential that is selected in the model setup.
FormStates == [at : {"page", "install", "left"}, dialog : Settable \union {"delete", Nothing} \union Names,
               ref : Names \union {Nothing}]

FormsTypeOK ==
    /\ store \in Stores /\ shown \in [Tabs -> Stores] /\ form \in [Tabs -> FormStates]
    /\ writer \in [Fields -> Tabs \union {SomebodyElse}] /\ acked \in [Tabs -> SUBSET Fields]
    /\ FirstSpace \in store.spaces

FormsInit(cast) ==
    /\ store = [status |-> IF scene = "install" THEN "unborn" ELSE "active",
                creds |-> cast.creds, provider |-> Platform, spaces |-> {FirstSpace}, cookie |-> FirstSpace]
    /\ shown = [t \in Tabs |-> store]
    /\ form = [t \in Tabs |-> [at |-> IF scene = "install" THEN "install" ELSE "page", dialog |-> Nothing,
                               ref |-> IF cast.creds = {} THEN Nothing ELSE CHOOSE n \in cast.creds : TRUE]]
    /\ writer = [f \in Fields |-> SomebodyElse] /\ acked = [t \in Tabs |-> {}]

Here(t, s) == scene = s /\ t \in tabs /\ form[t].at = "page"
Closed(t)  == form[t].dialog = Nothing
Opens(t, dialog) == /\ form' = [form EXCEPT ![t].dialog = dialog]
                    /\ UNCHANGED <<callVars, store, shown, writer, acked>>
Sends(t, what, arg) == Click(t, what, arg) /\ UNCHANGED formVars

(***************************************************************************)
(* The agent: KillSwitch and ZombieConfig.                                 *)
(***************************************************************************)
\* useOptimistic: the target of the last change that is under way.
StatusCalls(t) == SelectSeq(calls[t], LAMBDA c : c.what = "status")
Displayed(t) == IF StatusCalls(t) = <<>> THEN shown[t].status ELSE Last(StatusCalls(t)).arg.to
Offered(status) == CASE status = "active" -> {"stopped", "killed"}
                     [] status \in {"paused", "stopped"} -> {"active", "killed"}
                     [] OTHER -> {}

PickStatus(t, status) ==
    /\ Here(t, "agent") /\ Closed(t) /\ status \in Offered(Displayed(t)) /\ Opens(t, status)
PickDelete(t) == Here(t, "agent") /\ Closed(t) /\ Opens(t, "delete")
Cancel(t) == Here(t, "agent") /\ ~Closed(t) /\ ~Asked(t, {"delete"}) /\ Opens(t, Nothing)

\* The transition is not awaited, so the button stays enabled; the dialog is
\* not rendered for an agent that is shown as killed.
ConfirmStatus(t) ==
    /\ Here(t, "agent") /\ form[t].dialog \in Settable /\ Offered(Displayed(t)) # {}
    /\ Sends(t, "status", [to |-> form[t].dialog])
ConfirmDelete(t) ==
    /\ Here(t, "agent") /\ form[t].dialog = "delete" /\ ~Asked(t, {"delete"})
    /\ Sends(t, "delete", <<>>)
Install(t) ==
    /\ scene = "install" /\ t \in tabs /\ form[t].at = "install" /\ ~Asked(t, {"install"})
    /\ Sends(t, "install", <<>>)

(***************************************************************************)
(* The vault: the list with its dialogs, the form that adds, and the model *)
(* setup, whose inline form adds and selects.                              *)
(***************************************************************************)
\* The edit dialog cannot be closed while it saves; the confirmation can.
Editing(t) == Asked(t, {"rotate", "rename", "unname"})
RowFree(t, n) == /\ Here(t, "vault") /\ n \in shown[t].creds /\ Closed(t) /\ ~Editing(t)
                 /\ ~Asked(t, {"drop"})
FormFree(t)   == Here(t, "vault") /\ Closed(t) /\ ~Editing(t)

Add(t, n)    == FormFree(t) /\ ~Asked(t, {"add"}) /\ Sends(t, "add", [name |-> n])
Rotate(t, n) == RowFree(t, n) /\ Sends(t, "rotate", [name |-> n])
Rename(t, n, m) == RowFree(t, n) /\ n # m /\ Sends(t, "rename", [name |-> m, old |-> n])
PickDrop(t, n) == RowFree(t, n) /\ Opens(t, n)
ConfirmDrop(t) == Here(t, "vault") /\ ~Closed(t) /\ Sends(t, "drop", [name |-> form[t].dialog])
CancelDrop(t)  == Here(t, "vault") /\ ~Closed(t) /\ Opens(t, Nothing)
AddInline(t, n) == FormFree(t) /\ ~Asked(t, {"inline"}) /\ Sends(t, "inline", [name |-> n])
Select(t, n) ==
    /\ FormFree(t) /\ n \in shown[t].creds /\ form' = [form EXCEPT ![t].ref = n]
    /\ UNCHANGED <<callVars, store, shown, writer, acked>>
SaveProvider(t) ==
    /\ FormFree(t) /\ form[t].ref # Nothing /\ ~Asked(t, {"provider", "reset"})
    /\ Sends(t, "provider", [name |-> form[t].ref])
ResetProvider(t) ==
    /\ FormFree(t) /\ ~Asked(t, {"provider", "reset"}) /\ Sends(t, "reset", <<>>)

(***************************************************************************)
(* The workspaces: the switcher and the dialog that creates one.           *)
(***************************************************************************)
\* resolveActiveWorkspace falls back on the first of the list.
ActiveSpace(s) == IF s.cookie \in s.spaces THEN s.cookie ELSE FirstSpace

CreateSpace(t) == Here(t, "spaces") /\ ~Asked(t, {"space"}) /\ Sends(t, "space", <<>>)
SwitchSpace(t, w) ==
    /\ Here(t, "spaces") /\ w \in shown[t].spaces \ {ActiveSpace(shown[t])} /\ ~Asked(t, {"switch"})
    /\ Sends(t, "switch", [to |-> w])

(***************************************************************************)
(* The API.  A call that is accepted writes one field, or none.            *)
(***************************************************************************)
Accepts(t, field, value) ==
    /\ store' = [store EXCEPT ![field] = value]
    /\ writer' = [writer EXCEPT ![field] = t]
    /\ acked' = [acked EXCEPT ![t] = @ \ {field}]
    /\ Reply(t, "ok", <<>>) /\ UNCHANGED <<shown, form>>
Refuses(t, kind) == Reply(t, kind, <<>>) /\ UNCHANGED formVars

\* The guard of the update: killed is final, and only a change is a change.
MayBecome(from, to) ==
    CASE to = "killed"  -> from \in {"active", "paused", "stopped"}
      [] to = "stopped" -> from \in {"active", "paused"}
      [] to = "active"  -> from \in {"stopped", "paused"}

ServeStatus(t) ==
    /\ AtServer(t, {"status"})
    /\ IF MayBecome(store.status, Arg(t).to) THEN Accepts(t, "status", Arg(t).to)
       ELSE Refuses(t, IF store.status \in {"killed", "gone"} THEN "missing" ELSE "conflict")
ServeDelete(t) ==
    /\ AtServer(t, {"delete"})
    /\ IF store.status = "killed" THEN Accepts(t, "status", "gone")
       ELSE Refuses(t, IF store.status = "gone" THEN "missing" ELSE "conflict")
\* A name that is taken is an error of the server, not a conflict.
ServeInstall(t) ==
    /\ AtServer(t, {"install"})
    /\ IF store.status \in {"unborn", "gone"} THEN Accepts(t, "status", "active") ELSE Refuses(t, "failed")

\* The gate pauses an agent on its own.
PauseAgent ==
    /\ scene = "agent" /\ store.status = "active"
    /\ store' = [store EXCEPT !.status = "paused"]
    /\ writer' = [writer EXCEPT !["status"] = SomebodyElse]
    /\ UNCHANGED <<callVars, shown, form, acked>>

\* Storing replaces what is there, deleting what is not there succeeds.
ServeCredential(t) ==
    \/ /\ AtServer(t, {"add", "rotate", "rename", "inline"})
       /\ Accepts(t, "creds", store.creds \union {Arg(t).name})
    \/ /\ AtServer(t, {"drop"}) /\ Accepts(t, "creds", store.creds \ {Arg(t).name})
    \/ /\ AtServer(t, {"unname"}) /\ Accepts(t, "creds", store.creds \ {Arg(t).old})
ServeProvider(t) ==
    \/ /\ AtServer(t, {"provider"})
       /\ IF Arg(t).name \in store.creds THEN Accepts(t, "provider", Arg(t).name) ELSE Refuses(t, "missing")
    \/ AtServer(t, {"reset"}) /\ Accepts(t, "provider", Platform)

\* The action writes the cookie when the API has answered: a lost answer leaves
\* a workspace that nobody switched to.
ServeSpace(t, w) ==
    /\ AtServer(t, {"space"}) /\ w \notin store.spaces
    /\ \/ /\ store' = [store EXCEPT !.spaces = @ \union {w}, !.cookie = w]
          /\ writer' = [writer EXCEPT !["spaces"] = t, !["cookie"] = t]
          /\ calls' = WithAnswer(t, [kind |-> "ok", data |-> <<>>]) /\ UNCHANGED <<scene, tabs, clicks, faults>>
       \/ /\ store' = [store EXCEPT !.spaces = @ \union {w}]
          /\ writer' = [writer EXCEPT !["spaces"] = t]
          /\ Faulty /\ calls' = WithAnswer(t, Failed) /\ UNCHANGED <<scene, tabs, clicks>>
    /\ acked' = [acked EXCEPT ![t] = @ \ {"spaces", "cookie"}]
    /\ UNCHANGED <<shown, form>>
\* The bound on the workspaces.
RefuseSpace(t) == AtServer(t, {"space"}) /\ store.spaces = Spaces /\ Refuses(t, "failed")
ServeSwitchSpace(t) == AtServer(t, {"switch"}) /\ Accepts(t, "cookie", Arg(t).to)

(***************************************************************************)
(* The answers.                                                            *)
(***************************************************************************)
FieldOf(what) ==
    CASE what \in {"status", "delete", "install"} -> {"status"}
      [] what \in {"provider", "reset"} -> {"provider"}
      [] what = "space" -> {"spaces", "cookie"}
      [] what = "switch" -> {"cookie"}
      [] OTHER -> {"creds"}

\* router.refresh: the tab is rendered with what the store holds now.  A page
\* of an agent that is gone is not found.
Refresh(t) == shown' = [shown EXCEPT ![t] = store]
AtAfter(t) == IF scene = "agent" /\ store.status = "gone" THEN "left" ELSE "page"

Ok(t) == Answer(t).kind = "ok"
Acknowledged(t) == acked' = [acked EXCEPT ![t] = IF Ok(t) THEN @ \union FieldOf(Head(calls[t]).what) ELSE @]

\* The handlers that refresh: on success, and a change of status on a conflict too.
RefreshesNeverInline(t) == Ok(t) /\ Head(calls[t]).what # "inline"
Refreshes(t) == Ok(t) \/ (Head(calls[t]).what = "status" /\ Answer(t).kind = "conflict")

\* The name is read when the form was cleared.
AfterReset(t) == [form[t] EXCEPT !.dialog = Nothing, !.ref = IF Head(calls[t]).what = "inline" THEN "" ELSE @]

\* The first answer closes the dialog, whichever is open by then; a form selects
\* the credential that it has just stored.
AfterAnswer(t) ==
    LET what == Head(calls[t]).what
    IN  [form[t] EXCEPT !.at = AtAfter(t),
                        !.dialog = IF what \in {"status", "drop"} THEN Nothing ELSE @,
                        !.ref = IF what = "inline" THEN Arg(t).name ELSE @]

Refreshing == {"status", "add", "rotate", "inline", "drop", "provider", "reset", "space", "switch"}

ReceiveForm(t) ==
    /\ Answered(t, Refreshing) /\ Received(t) /\ Acknowledged(t)
    /\ IF Refreshes(t) THEN Refresh(t) /\ form' = [form EXCEPT ![t] = AfterAnswer(t)]
       ELSE UNCHANGED <<shown, form>>
    /\ UNCHANGED <<store, writer>>

\* A rename stores the new name first and then deletes the old one.
DropsOldAnyway(t) == Head(calls[t]).what = "rename"
DropsOld(t) == Head(calls[t]).what = "rename" /\ Ok(t)

ReceiveRename(t) ==
    /\ Answered(t, {"rename"}) /\ Acknowledged(t)
    /\ IF DropsOld(t) THEN ReceivedThen(t, Call("unname", Arg(t))) ELSE Received(t)
    /\ UNCHANGED <<store, shown, form, writer>>

\* The page is refreshed even if the old name could not be deleted.
ReceiveUnname(t) ==
    /\ Answered(t, {"unname"}) /\ Received(t) /\ Acknowledged(t) /\ Refresh(t)
    /\ UNCHANGED <<store, form, writer>>

\* A deletion goes to the list of agents, an installation to the agent's page.
ReceiveMove(t) ==
    /\ Answered(t, {"delete", "install"}) /\ Received(t) /\ Acknowledged(t)
    /\ IF Ok(t) THEN /\ Refresh(t)
                     /\ form' = [form EXCEPT ![t].at = IF Head(calls[t]).what = "delete" THEN "left" ELSE "page"]
       ELSE UNCHANGED <<shown, form>>
    /\ UNCHANGED <<store, writer>>

(***************************************************************************)
(* The specification of the forms.                                         *)
(***************************************************************************)
FormsServe(t) ==
    \/ ServeStatus(t) \/ ServeDelete(t) \/ ServeInstall(t) \/ ServeCredential(t) \/ ServeProvider(t)
    \/ RefuseSpace(t) \/ ServeSwitchSpace(t) \/ \E w \in Spaces : ServeSpace(t, w)
FormsReceive(t) == ReceiveForm(t) \/ ReceiveRename(t) \/ ReceiveUnname(t) \/ ReceiveMove(t)
FormsClick(t) ==
    \/ \E status \in Settable : PickStatus(t, status)
    \/ PickDelete(t) \/ Cancel(t) \/ ConfirmStatus(t) \/ ConfirmDelete(t) \/ Install(t)
    \/ \E n \in Names : \/ Add(t, n) \/ Rotate(t, n) \/ PickDrop(t, n) \/ AddInline(t, n) \/ Select(t, n)
                        \/ \E m \in Names : Rename(t, n, m)
    \/ ConfirmDrop(t) \/ CancelDrop(t) \/ SaveProvider(t) \/ ResetProvider(t)
    \/ CreateSpace(t) \/ \E w \in Spaces : SwitchSpace(t, w)
FormsNext ==
    \/ PauseAgent
    \/ \E t \in Tabs : \/ FormsClick(t) \/ FormsServe(t) \/ FormsReceive(t)
                       \/ Unreached(t) /\ UNCHANGED formVars

(***************************************************************************)
(* Properties.                                                             *)
(***************************************************************************)
\* What a tab wrote last, and was told it wrote, is what the tab shows once it
\* has nothing under way: no form forgets to refresh, and no refresh shows
\* what was there before the write.
ToldIsShown ==
    \A t \in Tabs, f \in Fields :
        scene \in Forms /\ calls[t] = <<>> /\ writer[f] = t /\ f \in acked[t] => shown[t][f] = store[f]

\* A rename never strands the secret with neither name: when the old name is
\* deleted the new one is stored.
RenameKeepsOne ==
    scene = "vault" /\ Cardinality(tabs) = 1 =>
        \A t \in Tabs : calls[t] # <<>> /\ Head(calls[t]).what = "unname" => Arg(t).name \in store.creds

\* What the forms keep at every moment: the page shows the tab's own write, and
\* a renamed credential has a name.
FormsInvariant == FormsTypeOK /\ ToldIsShown /\ RenameKeepsOne
=============================================================================
