------------------------------- MODULE Console -------------------------------
(***************************************************************************)
(* The dashboard in a browser with several tabs: a behaviour is about one  *)
(* scene, a page that the tabs have open, and the server actions of each   *)
(* tab run one after the other while the other tabs, the other channels    *)
(* and the sweeps of the daemon change the same rows.                      *)
(***************************************************************************)
EXTENDS ConsoleFeeds, ConsoleTables, ConsoleForms

vars == <<callVars, feedVars, tableVars, formVars>>

Init == \E cast \in Casts :
            CallsInit(cast) /\ FeedsInit(cast) /\ TablesInit(cast) /\ FormsInit(cast)

Feed  == scene \in Feeds  /\ FeedsNext  /\ UNCHANGED <<tableVars, formVars>>
Table == scene \in Tables /\ TablesNext /\ UNCHANGED <<feedVars, formVars>>
Form  == scene \in Forms  /\ FormsNext  /\ UNCHANGED <<feedVars, tableVars>>
Next  == Feed \/ Table \/ Form

\* The API answers, the browser handles the answer and the timer of the inbox
\* fires; nobody has to click, and nothing has to go wrong.
Tick(t)    == Poll(t) /\ UNCHANGED <<tableVars, formVars>>
Serve(t)   == \/ scene \in Feeds  /\ FeedsServe(t)  /\ UNCHANGED <<tableVars, formVars>>
              \/ scene \in Tables /\ TablesServe(t) /\ UNCHANGED <<feedVars, formVars>>
              \/ scene \in Forms  /\ FormsServe(t)  /\ UNCHANGED <<feedVars, tableVars>>
Receive(t) == \/ scene \in Feeds  /\ FeedsReceive(t)  /\ UNCHANGED <<tableVars, formVars>>
              \/ scene \in Tables /\ TablesReceive(t) /\ UNCHANGED <<feedVars, formVars>>
              \/ scene \in Forms  /\ FormsReceive(t)  /\ UNCHANGED <<feedVars, tableVars>>

Fairness == \A t \in Tabs : WF_vars(Tick(t)) /\ WF_vars(Serve(t)) /\ WF_vars(Receive(t))

Spec == Init /\ [][Next]_vars /\ Fairness

\* Left alone, the dashboard comes to rest: its calls end, and an inbox shows
\* what is pending.
ConsoleSettles == InboxCatchesUp /\ LoadsSettle
=============================================================================
