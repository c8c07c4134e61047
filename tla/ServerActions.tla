---------------------------- MODULE ServerActions ----------------------------
(***************************************************************************)
(* How a tab of the dashboard talks to the API: a click calls a server     *)
(* action, the action calls the API once, and the component that asked     *)
(* handles the result when it arrives, if it is still mounted.  The        *)
(* framework runs the server actions of a tab one after the other.         *)
(***************************************************************************)
EXTENDS Integers, Sequences, SequencesExt

CONSTANTS
    Tabs,       \* browser tabs, each with an operator in front of it
    Casts,      \* what a behaviour is about: a scene, its tabs, its rows, its clicks and faults
    MaxCalls    \* bound on the calls that a tab has under way

VARIABLES
    scene,      \* the page that the behaviour is about
    tabs,       \* the tabs that are open
    calls,      \* the calls of each tab, the one that the API works on first
    clicks,     \* the clicks still to come
    faults      \* the faults still to come

callVars == <<scene, tabs, calls, clicks, faults>>

ASSUME CallsAssumption ==
    /\ MaxCalls \in Nat
    /\ \A cast \in Casts : cast.clicks \in Nat /\ cast.faults \in Nat

Waiting == [kind |-> "waiting", data |-> <<>>]
Failed  == [kind |-> "failed", data |-> <<>>]
Kinds   == {"waiting", "failed", "ok", "already", "missing", "conflict", "invalid", "terminal"}

CallsTypeOK ==
    /\ \A t \in Tabs : Len(calls[t]) <= MaxCalls
    /\ \A t \in Tabs, i \in 1..MaxCalls : i \in DOMAIN calls[t] =>
         calls[t][i].answer.kind \in (IF i = 1 THEN Kinds ELSE {"waiting"})
    /\ clicks \in Nat /\ faults \in Nat

CallsInit(cast) ==
    /\ scene = cast.scene /\ tabs = cast.tabs
    /\ calls = [t \in Tabs |-> <<>>]
    /\ clicks = cast.clicks /\ faults = cast.faults

Call(what, arg) == [what |-> what, arg |-> arg, live |-> TRUE, answer |-> Waiting]

\* useTransition's pending: a call of one of these kinds is under way.
Asked(t, whats) == \E i \in DOMAIN calls[t] : calls[t][i].live /\ calls[t][i].what \in whats

Ask(t, what, arg) ==
    /\ t \in tabs /\ Len(calls[t]) < MaxCalls
    /\ calls' = [calls EXCEPT ![t] = Append(@, Call(what, arg))]

Clicked == clicks > 0 /\ clicks' = clicks - 1 /\ UNCHANGED <<scene, tabs>>
Click(t, what, arg) == Clicked /\ Ask(t, what, arg) /\ UNCHANGED faults

AtServer(t, whats) == /\ calls[t] # <<>> /\ Head(calls[t]).what \in whats
                      /\ Head(calls[t]).answer.kind = "waiting"
Answered(t, whats) == /\ calls[t] # <<>> /\ Head(calls[t]).what \in whats
                      /\ Head(calls[t]).answer.kind # "waiting"

Arg(t)    == Head(calls[t]).arg
Live(t)   == Head(calls[t]).live
Answer(t) == Head(calls[t]).answer

Faulty == faults > 0 /\ faults' = faults - 1
AnswersLatest(t, answer) == [calls EXCEPT ![t][Len(calls[t])].answer = answer]
WithAnswer(t, answer) == [calls EXCEPT ![t][1].answer = answer]

\* withToken turns whatever goes wrong into a failed result: the handler's
\* answer, or a failure that the tab cannot tell from a call that never landed.
Reply(t, kind, data) ==
    /\ UNCHANGED <<scene, tabs, clicks>>
    /\ \/ calls' = WithAnswer(t, [kind |-> kind, data |-> data]) /\ UNCHANGED faults
       \/ calls' = WithAnswer(t, Failed) /\ Faulty

\* No session token, or a request that did not reach its handler.
Unreached(t) ==
    /\ calls[t] # <<>> /\ Answer(t).kind = "waiting"
    /\ Faulty /\ calls' = WithAnswer(t, Failed) /\ UNCHANGED <<scene, tabs, clicks>>

\* The result is handled, and may be followed by a call from the handler.
Received(t)            == calls' = [calls EXCEPT ![t] = Tail(@)] /\ UNCHANGED <<scene, tabs, clicks, faults>>
ReceivedThen(t, call)  == calls' = [calls EXCEPT ![t] = Append(Tail(@), call)] /\ UNCHANGED <<scene, tabs, clicks, faults>>

\* The ids of a set, as the API sorts them: the oldest first, or the youngest.
Ordered(ids, oldest) ==
    CHOOSE s \in [1..Cardinality(ids) -> ids] :
        \A i, j \in 1..Cardinality(ids) : i < j => IF oldest THEN s[i] < s[j] ELSE s[i] > s[j]

\* What a list keeps when a component filters it: its rows at some places.
Filtered(rows, places) ==
    LET kept == Ordered(places, TRUE) IN [n \in 1..Cardinality(places) |-> rows[kept[n]]]

\* What a component asked for before it went away is still done, for nobody.
Silenced(queue, whats) == [i \in DOMAIN queue |-> [queue[i] EXCEPT !.live = @ /\ queue[i].what \notin whats]]
=============================================================================
