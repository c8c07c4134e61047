----------------------------- MODULE ConsoleProofs -----------------------------
(***************************************************************************)
(* Proofs about the dashboard: what a tab was told of an approval, what    *)
(* its forms and its tables show and ask, stay true, whatever other tabs,  *)
(* other channels, the timeout and a lost answer do, for any number of     *)
(* tabs, workspaces, rows, clicks and faults.                              *)
(*                                                                         *)
(* A verdict may sit in an answer for a long time before the tab reads it. *)
(* The invariants therefore speak of every call under way: the answer of a *)
(* resolve repeats what the row of its gate says; a write that a form was  *)
(* told of is shown, unless the second half of a rename is under way; the  *)
(* rows in the answer to a table are no older than what the tab shows, and *)
(* a key or runner is minted only while its dialog waits for it; a page of *)
(* a feed that is still heard holds no gate that the tab was told of and,  *)
(* where more is loaded, only rows past those that the tab shows.          *)
(***************************************************************************)
EXTENDS Console, TLAPS, FiniteSetTheorems, SequenceTheorems

RowStates == [status : {"never", "unborn", "pending"} \union Verdicts, by : Resolvers]
Tellings  == [gate : Entries, status : Verdicts, by : Resolvers]

\* A call has its four fields, and a queue is a sequence of what is in it.
Whole(c) == c = [what |-> c.what, arg |-> c.arg, live |-> c.live, answer |-> c.answer]
Queue(q) == q \in Seq(Range(q))

\* The answer to tab t's call c agrees with the rows.
Truthful(rows, t, c) ==
    c.what = "resolve" =>
        /\ c.arg.gate \in Entries /\ c.arg.status \in Decisions
        /\ c.answer.kind = "ok" => rows[c.arg.gate] = [status |-> c.arg.status, by |-> t]
        /\ c.answer.kind = "already" =>
               c.answer.data = rows[c.arg.gate] /\ rows[c.arg.gate].status \in Verdicts

Sound(rows, t, q) == Queue(q) /\ \A c \in Range(q) : Whole(c) /\ Truthful(rows, t, c)

\* No verdict of the old rows is changed in the new ones.
VerdictsStand(old, new) == \A e \in Entries : old[e].status \in Verdicts => new[e] = old[e]

RowsTyped  == entry \in [Entries -> RowStates]
ToldTyped  == told \in [Tabs -> SUBSET Tellings]
FeedShaped == feed = [t \in Tabs |-> feed[t]] /\ \A t \in Tabs : "at" \in DOMAIN feed[t]
CallsSound == calls = [t \in Tabs |-> calls[t]] /\ \A t \in Tabs : Sound(entry, t, calls[t])

FeedInv == RowsTyped /\ ToldTyped /\ FeedShaped /\ CallsSound /\ OneVerdict

\* The calls of the other scenes are not about approvals.
ConsoleInv ==
    /\ RowsTyped /\ ToldTyped /\ FeedShaped /\ OneVerdict
    /\ scene \in Feeds => CallsSound

(***************************************************************************)
(* Queues of calls.                                                        *)
(***************************************************************************)
\* A sequence has the type that its elements have.
LEMMA Retyped ==
    ASSUME NEW S, NEW R, NEW q \in Seq(S), \A i \in 1..Len(q) : q[i] \in R
    PROVE  q \in Seq(R)
<1>1. Len(q) \in Nat /\ q \in [1..Len(q) -> R]
  <2>1. Len(q) \in Nat /\ q \in [1..Len(q) -> S]  OBVIOUS
  <2>2. QED  BY <2>1
<1>2. QED  BY <1>1

\* An empty queue is sound.
LEMMA SoundEmpty == ASSUME NEW rows, NEW t PROVE Sound(rows, t, <<>>)
BY DEF Sound, Queue, Range

\* A new call waits for its answer, so it is sound when it is well formed.
LEMMA SoundAppend ==
    ASSUME NEW rows, NEW t, NEW q, Sound(rows, t, q), NEW what, NEW arg,
           what = "resolve" => arg.gate \in Entries /\ arg.status \in Decisions
    PROVE  Sound(rows, t, Append(q, Call(what, arg)))
<1> DEFINE c == Call(what, arg)  qc == Append(q, c)  S == Range(q) \union {c}
<1>1. q \in Seq(S) /\ c \in S
  <2>1. q \in Seq(Range(q))  BY DEF Sound, Queue
  <2>2. QED  BY <2>1
<1>2. Len(qc) = Len(q) + 1 /\ DOMAIN q = 1..Len(q) /\ DOMAIN qc = 1..(Len(q) + 1) /\ Len(q) \in Nat
  BY <1>1
<1>3. \A i \in 1..Len(q) : qc[i] = q[i]  BY <1>1
<1>4. qc[Len(q) + 1] = c  BY <1>1
<1>5. Range(qc) = S  BY <1>2, <1>3, <1>4 DEF Range
<1>6. Queue(qc)  BY <1>1, <1>5 DEF Queue
<1>7. Whole(c) /\ Truthful(rows, t, c)
  BY DEF Call, Waiting, Whole, Truthful
<1>8. QED  BY <1>5, <1>6, <1>7 DEF Sound

\* The rest of a sound queue is sound, and so is its head.
LEMMA SoundTail ==
    ASSUME NEW rows, NEW t, NEW q, Sound(rows, t, q), q # <<>>
    PROVE  Sound(rows, t, Tail(q)) /\ Whole(Head(q)) /\ Truthful(rows, t, Head(q))
<1>1. q \in Seq(Range(q))  BY DEF Sound, Queue
<1>2. DOMAIN Tail(q) = 1..(Len(q) - 1) /\ DOMAIN q = 1..Len(q) /\ Len(q) \in Nat \ {0}  BY <1>1
<1>3. \A i \in 1..(Len(q) - 1) : Tail(q)[i] = q[i + 1]  BY <1>1
<1>4. Range(Tail(q)) \subseteq Range(q)  BY <1>2, <1>3 DEF Range
<1>5. Head(q) \in Range(q)
  <2>1. Head(q) = q[1] /\ 1 \in DOMAIN q  BY <1>1, <1>2
  <2>2. QED  BY <2>1 DEF Range
<1>6. Queue(Tail(q))
  <2>1. Len(Tail(q)) = Len(q) - 1 /\ Tail(q) \in Seq(Range(q))  BY <1>1
  <2>2. \A i \in 1..Len(Tail(q)) : Tail(q)[i] \in Range(Tail(q))  BY <1>2, <2>1 DEF Range
  <2>3. QED  BY <2>1, <2>2, Retyped DEF Queue
<1>7. QED  BY <1>4, <1>5, <1>6 DEF Sound

\* A queue of the same length is sound when each of its calls comes from the
\* call in its place and is itself sound.
LEMMA SoundPointwise ==
    ASSUME NEW rows, NEW t, NEW q, Sound(rows, t, q), NEW p, DOMAIN p = DOMAIN q,
           p = [i \in DOMAIN p |-> p[i]],
           \A i \in DOMAIN p : Whole(p[i]) /\ Truthful(rows, t, p[i])
    PROVE  Sound(rows, t, p)
<1>1. q \in Seq(Range(q))  BY DEF Sound, Queue
<1>2. Len(q) \in Nat /\ DOMAIN q = 1..Len(q)  BY <1>1
<1>3. p \in [1..Len(q) -> Range(p)]  BY <1>2 DEF Range
<1>4. p \in Seq(Range(p))  BY <1>2, <1>3
<1>5. QED  BY <1>4 DEF Sound, Queue, Range

\* Any call of a sound queue is sound.
LEMMA SoundElement ==
    ASSUME NEW rows, NEW t, NEW q, Sound(rows, t, q), NEW i \in DOMAIN q
    PROVE  Whole(q[i]) /\ Truthful(rows, t, q[i])
BY DEF Sound, Range

\* A component that goes away changes nothing that a call says.
LEMMA SoundSilenced ==
    ASSUME NEW rows, NEW t, NEW q, Sound(rows, t, q), NEW whats
    PROVE  Sound(rows, t, Silenced(q, whats)) /\ (q # <<>> => Silenced(q, whats) # <<>>)
<1> DEFINE p == Silenced(q, whats)
<1>1. DOMAIN p = DOMAIN q /\ p = [i \in DOMAIN p |-> p[i]]  BY DEF Silenced
<1>2. ASSUME NEW i \in DOMAIN p  PROVE  Whole(p[i]) /\ Truthful(rows, t, p[i])
  <2> DEFINE c == q[i]
  <2>1. PICK heard : heard = (c.live /\ c.what \notin whats)  OBVIOUS
  <2>2. p[i] = [c EXCEPT !.live = heard]  BY <2>1 DEF Silenced
  <2>3. c = [what |-> c.what, arg |-> c.arg, live |-> c.live, answer |-> c.answer]
    BY <1>1, SoundElement DEF Whole
  <2>4. p[i] = [what |-> c.what, arg |-> c.arg, live |-> heard, answer |-> c.answer]
    BY <2>2, <2>3
  <2>5. p[i].what = c.what /\ p[i].arg = c.arg /\ p[i].answer = c.answer /\ p[i].live = heard  BY <2>4
  <2>6. Truthful(rows, t, c)  BY <1>1, SoundElement
  <2>7. QED  BY <2>4, <2>5, <2>6 DEF Whole, Truthful
<1>3. Sound(rows, t, p)
  <2> HIDE DEF p
  <2>1. QED  BY <1>1, <1>2, SoundPointwise
<1>4. q # <<>> => p # <<>>
  <2>1. q \in Seq(Range(q))  BY DEF Sound, Queue
  <2>2. q # <<>> => 1 \in DOMAIN q  BY <2>1
  <2>3. QED  BY <1>1, <2>2
<1>5. QED  BY <1>3, <1>4

\* An answer that agrees with the rows keeps the queue sound.
LEMMA SoundAnswered ==
    ASSUME NEW rows, NEW t, NEW q, Sound(rows, t, q), q # <<>>, NEW answer,
           Truthful(rows, t, [Head(q) EXCEPT !.answer = answer])
    PROVE  Sound(rows, t, [q EXCEPT ![1] = [q[1] EXCEPT !.answer = answer]])
<1> DEFINE c == q[1]
           d == [c EXCEPT !.answer = answer]
           p == [q EXCEPT ![1] = d]
<1>1. q \in Seq(Range(q))  BY DEF Sound, Queue
<1>2. 1 \in DOMAIN q /\ Head(q) = c  BY <1>1
<1>3. DOMAIN p = DOMAIN q /\ p = [i \in DOMAIN p |-> p[i]]  OBVIOUS
<1>4. c = [what |-> c.what, arg |-> c.arg, live |-> c.live, answer |-> c.answer]
  BY <1>2, SoundElement DEF Whole
<1>5. d = [what |-> c.what, arg |-> c.arg, live |-> c.live, answer |-> answer]  BY <1>4
<1>6. Whole(d)  BY <1>5 DEF Whole
<1>7. Truthful(rows, t, d)  BY <1>2
<1>8. ASSUME NEW i \in DOMAIN p  PROVE  Whole(p[i]) /\ Truthful(rows, t, p[i])
  <2>1. p[i] = IF i = 1 THEN d ELSE q[i]  BY <1>2, <1>3
  <2> HIDE DEF d
  <2>2. QED  BY <1>3, <1>6, <1>7, <2>1, SoundElement
<1>9. Sound(rows, t, p)
  <2> HIDE DEF p
  <2>1. QED  BY <1>3, <1>8, SoundPointwise
<1>10. QED  BY <1>9

\* A queue stays sound while verdicts stand.
LEMMA SoundLater ==
    ASSUME NEW old, NEW new, VerdictsStand(old, new), NEW t, NEW q, Sound(old, t, q)
    PROVE  Sound(new, t, q)
<1>1. ASSUME NEW c, Truthful(old, t, c)  PROVE  Truthful(new, t, c)
  BY <1>1 DEF Truthful, VerdictsStand, Verdicts, Decisions
<1>2. QED  BY <1>1 DEF Sound

(***************************************************************************)
(* What the steps do to the rows and to the calls.                         *)
(***************************************************************************)
\* A step creates a row that was unborn or resolves one that is pending: it
\* keeps the type of the rows, and every verdict.
LEMMA RowsStep == ASSUME RowsTyped, CallsSound, FeedsNext PROVE RowsTyped' /\ VerdictsStand(entry, entry')
<1>1. ASSUME NEW e \in Entries, Create(e)  PROVE  RowsTyped' /\ VerdictsStand(entry, entry')
  BY <1>1 DEF Create, RowsTyped, RowStates, VerdictsStand, Unborn, Open, Verdicts, Resolvers
<1>2. ASSUME NEW e \in Entries, NEW o \in Outcomes, ResolveElsewhere(e, o)
      PROVE  RowsTyped' /\ VerdictsStand(entry, entry')
  BY <1>2, FeedsAssumption
     DEF ResolveElsewhere, Resolvable, RowsTyped, RowStates, VerdictsStand, Verdicts, Resolvers
<1>3. ASSUME NEW t \in Tabs, ServeResolve(t)  PROVE  RowsTyped' /\ VerdictsStand(entry, entry')
  <2> DEFINE g == Arg(t).gate  d == Arg(t).status
  <2>1. g \in Entries /\ d \in Decisions
    BY <1>3, SoundTail DEF ServeResolve, AtServer, CallsSound, Truthful, Arg
  <2>2. entry' = [entry EXCEPT ![g] = [status |-> d, by |-> t]] /\ entry[g].status = "pending"
    BY <1>3 DEF ServeResolve, Resolvable
  <2> HIDE DEF g, d
  <2>3. QED  BY <2>1, <2>2 DEF RowsTyped, RowStates, VerdictsStand, Verdicts, Decisions, Resolvers
<1>4. UNCHANGED entry => RowsTyped' /\ VerdictsStand(entry, entry')
  BY DEF RowsTyped, VerdictsStand
<1>5. ASSUME NEW t \in Tabs,
             Poll(t) \/ FeedsClick(t) \/ FeedsReceive(t) \/ ServeList(t) \/ RefuseResolve(t)
             \/ ServeSwitch(t) \/ (Unreached(t) /\ UNCHANGED feedVars)
      PROVE  UNCHANGED entry
  BY <1>5 DEF Poll, FeedsClick, LoadMore, OpenList, OpenGate, Resolve, Switch, FeedsReceive, ReceivePoll,
     ReceiveMore, ReceiveResolved, GateResolved, GateAlreadyResolved, GateNotResolved, ReceiveSwitch,
     ServeList, RefuseResolve, ServeSwitch, feedVars
<1>6. QED  BY <1>1, <1>2, <1>3, <1>4, <1>5 DEF FeedsNext, FeedsServe

\* The calls stay sound when one queue is replaced by a sound one, or none is.
LEMMA CallsReplaced ==
    ASSUME CallsSound, VerdictsStand(entry, entry'), NEW t \in Tabs, NEW q, Sound(entry', t, q),
           calls' = [calls EXCEPT ![t] = q]
    PROVE  CallsSound'
<1>1. calls' = [u \in Tabs |-> IF u = t THEN q ELSE calls[u]]  BY DEF CallsSound
<1>2. \A u \in Tabs : Sound(entry', u, calls[u])  BY SoundLater DEF CallsSound
<1>3. QED  BY <1>1, <1>2 DEF CallsSound

\* The same for a step that leaves the calls alone.
LEMMA CallsKept ==
    ASSUME CallsSound, VerdictsStand(entry, entry'), UNCHANGED calls PROVE CallsSound'
<1>1. \A u \in Tabs : Sound(entry', u, calls[u])  BY SoundLater DEF CallsSound
<1>2. QED  BY <1>1 DEF CallsSound

\* A new call.
LEMMA CallsAsked ==
    ASSUME CallsSound, UNCHANGED entry, NEW t \in Tabs, NEW what, NEW arg, Ask(t, what, arg),
           what = "resolve" => arg.gate \in Entries /\ arg.status \in Decisions
    PROVE  CallsSound'
<1>1. Sound(entry, t, Append(calls[t], Call(what, arg)))  BY SoundAppend DEF CallsSound
<1>2. calls' = [calls EXCEPT ![t] = Append(calls[t], Call(what, arg))]  BY DEF Ask
<1>3. VerdictsStand(entry, entry')  BY DEF VerdictsStand
<1>4. QED  BY <1>1, <1>2, <1>3, CallsReplaced

\* A call that is handled.
LEMMA CallsReceived ==
    ASSUME CallsSound, UNCHANGED entry, NEW t \in Tabs, calls[t] # <<>>,
           \/ calls' = [calls EXCEPT ![t] = Tail(@)] \/ calls' = [calls EXCEPT ![t] = Tail(Leaving(t))]
           \/ \E ws : Rerender(t, ws)
    PROVE  CallsSound'
<1>1. Sound(entry, t, Tail(calls[t]))  BY SoundTail DEF CallsSound
<1>2. \A ws : Sound(entry, t, Silenced(Tail(calls[t]), Unheard(feed[t], ws)))  BY <1>1, SoundSilenced
<1>3. Sound(entry, t, Tail(Leaving(t)))  BY SoundSilenced, SoundTail DEF CallsSound, Leaving
<1>4. VerdictsStand(entry, entry')  BY DEF VerdictsStand
<1>5. PICK q : Sound(entry, t, q) /\ calls' = [calls EXCEPT ![t] = q]
  <2>1. CASE calls' = [calls EXCEPT ![t] = Tail(@)]  BY <1>1, <2>1
  <2>2. CASE calls' = [calls EXCEPT ![t] = Tail(Leaving(t))]  BY <1>3, <2>2
  <2>3. CASE \E ws : Rerender(t, ws)  BY <1>2, <2>3 DEF Rerender
  <2>4. QED  BY <2>1, <2>2, <2>3
<1>6. Sound(entry', t, q)  BY <1>5
<1>7. QED  BY <1>4, <1>5, <1>6, CallsReplaced

\* A call that is answered: a failure says nothing about the rows.
LEMMA CallsAnswered ==
    ASSUME CallsSound, VerdictsStand(entry, entry'), NEW t \in Tabs, calls[t] # <<>>, NEW answer,
           answer = Failed \/ Truthful(entry', t, [Head(calls[t]) EXCEPT !.answer = answer]),
           calls' = WithAnswer(t, answer)
    PROVE  CallsSound'
<1> DEFINE q == calls[t]
           d == [Head(q) EXCEPT !.answer = answer]
           p == [q EXCEPT ![1] = [q[1] EXCEPT !.answer = answer]]
<1>1. Sound(entry', t, q)  BY SoundLater DEF CallsSound
<1>2. Truthful(entry', t, d)
  <2>1. CASE answer = Failed
    <3> DEFINE c == Head(q)
    <3>1. c = [what |-> c.what, arg |-> c.arg, live |-> c.live, answer |-> c.answer]
      BY <1>1, SoundTail DEF Whole
    <3>2. d = [what |-> c.what, arg |-> c.arg, live |-> c.live, answer |-> answer]  BY <3>1
    <3>3. d.what = c.what /\ d.arg = c.arg /\ d.answer.kind = "failed"  BY <2>1, <3>2 DEF Failed
    <3>4. Truthful(entry', t, c)  BY <1>1, SoundTail
    <3> HIDE DEF c, d
    <3>5. QED  BY <3>3, <3>4 DEF Truthful
  <2>2. QED  BY <2>1
<1>3. Sound(entry', t, p)  BY <1>1, <1>2, SoundAnswered
<1>4. calls' = [calls EXCEPT ![t] = p]  BY DEF WithAnswer, CallsSound
<1> HIDE DEF p
<1>5. QED  BY <1>3, <1>4, CallsReplaced

\* The answer that the API gives to a call about something else, or to a
\* resolve when it agrees with the rows, keeps the calls sound.
LEMMA CallsReplied ==
    ASSUME CallsSound, VerdictsStand(entry, entry'), NEW t \in Tabs, NEW kind, NEW data,
           calls[t] # <<>>, Reply(t, kind, data),
           Head(calls[t]).what = "resolve" =>
               /\ kind = "ok" => entry'[Arg(t).gate] = [status |-> Arg(t).status, by |-> t]
               /\ kind = "already" => data = entry'[Arg(t).gate] /\ data.status \in Verdicts
    PROVE  CallsSound'
<1> DEFINE c == Head(calls[t])
           a == [kind |-> kind, data |-> data]
           d == [c EXCEPT !.answer = a]
<1>1. Whole(c) /\ Truthful(entry, t, c)  BY SoundTail DEF CallsSound
<1>2. c = [what |-> c.what, arg |-> c.arg, live |-> c.live, answer |-> c.answer]  BY <1>1 DEF Whole
<1>3. d = [what |-> c.what, arg |-> c.arg, live |-> c.live, answer |-> a]  BY <1>2
<1>4. d.what = c.what /\ d.arg = c.arg /\ d.answer.kind = kind /\ d.answer.data = data  BY <1>3
<1>5. Truthful(entry', t, d)
  <2>1. c.arg = Arg(t)  BY DEF Arg
  <2> HIDE DEF c, d
  <2>2. QED  BY <1>1, <1>4, <2>1 DEF Truthful, c
<1>6. calls' = WithAnswer(t, a) \/ calls' = WithAnswer(t, Failed)  BY DEF Reply
<1>7. QED  BY <1>5, <1>6, CallsAnswered

(***************************************************************************)
(* What the steps do to the calls, to what is shown and to what was told.  *)
(***************************************************************************)
\* Every step of the feeds keeps the calls sound: only a resolve that was made
\* is answered with ok, and only a verdict on the row with already.
LEMMA CallsStep == ASSUME RowsTyped, CallsSound, FeedsNext PROVE CallsSound'
<1>1. VerdictsStand(entry, entry')  BY RowsStep
<1>2. ASSUME NEW e \in Entries, Create(e) \/ \E o \in Outcomes : ResolveElsewhere(e, o)
      PROVE  CallsSound'
  <2>1. UNCHANGED calls  BY <1>2 DEF Create, ResolveElsewhere, callVars
  <2>2. QED  BY <1>1, <2>1, CallsKept
<1> SUFFICES ASSUME NEW t \in Tabs,
                    Poll(t) \/ FeedsClick(t) \/ FeedsServe(t) \/ FeedsReceive(t)
                    \/ (Unreached(t) /\ UNCHANGED feedVars)
             PROVE  CallsSound'
  BY <1>2 DEF FeedsNext
<1>3. CASE Poll(t)
  BY <1>3, CallsAsked DEF Poll, feedVars
<1>4. CASE LoadMore(t)
  BY <1>4, CallsAsked DEF LoadMore, Click
<1>5. ASSUME NEW e \in Entries, NEW d \in Decisions, Resolve(t, e, d)  PROVE  CallsSound'
  BY <1>5, CallsAsked DEF Resolve, Click
<1>6. ASSUME NEW ws \in Workspaces, Switch(t, ws)  PROVE  CallsSound'
  BY <1>6, CallsAsked DEF Switch, Click, feedVars
<1>7. ASSUME OpenList(t) \/ \E e \in Entries : OpenGate(t, e)  PROVE  CallsSound'
  <2>1. calls' = [calls EXCEPT ![t] = Leaving(t)] /\ UNCHANGED entry
    BY <1>7 DEF OpenList, OpenGate
  <2>2. Sound(entry', t, Leaving(t))  BY <2>1, SoundSilenced DEF CallsSound, Leaving
  <2>3. QED  BY <1>1, <2>1, <2>2, CallsReplaced
<1>8. CASE ServeList(t)
  BY <1>1, <1>8, CallsReplied DEF ServeList, AtServer
<1>9. CASE ServeResolve(t)
  <2>1. Arg(t).gate \in Entries
    BY <1>9, SoundTail DEF ServeResolve, AtServer, CallsSound, Truthful, Arg
  <2>2. entry'[Arg(t).gate] = [status |-> Arg(t).status, by |-> t]
    BY <1>9, <2>1 DEF ServeResolve, RowsTyped
  <2>3. QED  BY <1>1, <1>9, <2>2, CallsReplied DEF ServeResolve, AtServer
<1>10. CASE RefuseResolve(t)
  <2>1. Arg(t).gate \in Entries
    BY <1>10, SoundTail DEF RefuseResolve, AtServer, CallsSound, Truthful, Arg
  <2>2. calls[t] # <<>> /\ UNCHANGED entry  BY <1>10 DEF RefuseResolve, AtServer, feedVars
  <2>3. CASE Reply(t, "missing", <<>>)  BY <1>1, <2>2, <2>3, CallsReplied
  <2>4. CASE /\ Requested(Arg(t).gate) /\ ~Resolvable(Arg(t).gate)
             /\ Reply(t, "already", entry[Arg(t).gate])
    <3>1. entry[Arg(t).gate].status \in Verdicts
      BY <2>1, <2>4 DEF Requested, Resolvable, RowsTyped, RowStates
    <3>2. QED  BY <1>1, <2>2, <2>4, <3>1, CallsReplied
  <2>5. QED  BY <1>10, <2>3, <2>4 DEF RefuseResolve
<1>11. CASE ServeSwitch(t)
  BY <1>1, <1>11, CallsReplied DEF ServeSwitch, AtServer
<1>12. CASE FeedsReceive(t)
  <2>1. calls[t] # <<>> /\ UNCHANGED entry
    BY <1>12 DEF FeedsReceive, ReceivePoll, ReceiveMore, ReceiveResolved, GateResolved,
       GateAlreadyResolved, GateNotResolved, ReceiveSwitch, Answered
  <2>2. \/ calls' = [calls EXCEPT ![t] = Tail(@)] \/ calls' = [calls EXCEPT ![t] = Tail(Leaving(t))]
        \/ \E ws : Rerender(t, ws)
    BY <1>12 DEF FeedsReceive, ReceivePoll, ReceiveMore, ReceiveResolved, GateResolved,
       GateAlreadyResolved, GateNotResolved, ReceiveSwitch, Received
  <2>3. QED  BY <2>1, <2>2, CallsReceived
<1>13. CASE Unreached(t) /\ UNCHANGED feedVars
  BY <1>1, <1>13, CallsAnswered DEF Unreached
<1>14. QED  BY <1>3, <1>4, <1>5, <1>6, <1>7, <1>8, <1>9, <1>10, <1>11, <1>12, <1>13 DEF FeedsClick, FeedsServe

\* A list, the page of a gate and an error page are all states of a tab.
LEMMA RenderedShape ==
    ASSUME NEW ws, NEW active, NEW page, NEW e
    PROVE  /\ ListOf(ws, active, page).at = "list" /\ "at" \in DOMAIN ListOf(ws, active, page)
           /\ "at" \in DOMAIN GateOf(ws, active, e)
           /\ "at" \in DOMAIN NotFound(ws, active)
           /\ GateOf(ws, active, e).at = "gate" =>
                 /\ e \in Entries /\ Requested(e)
                 /\ GateOf(ws, active, e).gate = e /\ GateOf(ws, active, e).status = entry[e].status
BY DEF ListOf, GateOf, NotFound, NoRows

\* A refresh re-renders the page of a gate, and leaves a list a list.
LEMMA RefreshedShape ==
    ASSUME NEW state, "at" \in DOMAIN state, NEW ws
    PROVE  /\ "at" \in DOMAIN Refreshed(state, ws)
           /\ Refreshed(state, ws).at = "gate" =>
                 \E e \in Entries :
                     Requested(e) /\ Refreshed(state, ws).gate = e
                     /\ Refreshed(state, ws).status = entry[e].status
<1>1. CASE state.at = "gate"
  BY <1>1, RenderedShape DEF Refreshed
<1>2. CASE state.at # "gate"
  <2> DEFINE kept == [state EXCEPT !.ws = ws, !.active = ws, !.fresh = @ /\ ws = state.ws]
             list == ListOf(ws, ws, Page(ws, NoEntry))
  <2>1. "at" \in DOMAIN kept /\ kept.at = state.at  OBVIOUS
  <2>2. "at" \in DOMAIN list /\ list.at = "list"  BY RenderedShape
  <2>3. Refreshed(state, ws) \in {kept, list}  BY <1>2 DEF Refreshed
  <2> HIDE DEF kept, list
  <2>4. QED  BY <1>2, <2>1, <2>2, <2>3
<1>3. QED  BY <1>1, <1>2

\* Every step leaves something on the screen of every tab.
LEMMA FeedStep == ASSUME FeedShaped, FeedsNext PROVE FeedShaped'
<1>1. ASSUME UNCHANGED feed  PROVE  FeedShaped'
  BY <1>1 DEF FeedShaped
<1>2. ASSUME NEW t \in Tabs, NEW state, "at" \in DOMAIN state, feed' = [feed EXCEPT ![t] = state]
      PROVE  FeedShaped'
  BY <1>2 DEF FeedShaped
<1> SUFFICES ASSUME NEW t \in Tabs,
                    FeedsClick(t) \/ FeedsServe(t) \/ FeedsReceive(t)
             PROVE  FeedShaped'
  BY <1>1 DEF FeedsNext, Create, ResolveElsewhere, Poll, feedVars
<1>3. CASE LoadMore(t) \/ \E e \in Entries, d \in Decisions : Resolve(t, e, d)
  BY <1>3 DEF LoadMore, Resolve, FeedShaped
<1>4. ASSUME NEW active, ShowList(t, active)  PROVE  FeedShaped'
  BY <1>2, <1>4, RenderedShape DEF ShowList
<1>5. ASSUME NEW e \in Entries, OpenGate(t, e)  PROVE  FeedShaped'
  BY <1>2, <1>5, RenderedShape DEF OpenGate, ShowGate
<1>6. CASE \/ FeedsServe(t) \/ \E ws \in Workspaces : Switch(t, ws)
  BY <1>1, <1>6 DEF FeedsServe, ServeList, ServeResolve, RefuseResolve, ServeSwitch, Switch, feedVars
<1>7. CASE ReceivePoll(t) \/ ReceiveMore(t) \/ ReceiveResolved(t) \/ GateNotResolved(t)
  BY <1>7 DEF ReceivePoll, ReceiveMore, ReceiveResolved, GateNotResolved, FeedShaped
<1>8. CASE GateResolved(t) \/ GateAlreadyResolved(t) \/ ReceiveSwitch(t)
  <2>1. \A ws : "at" \in DOMAIN Refreshed(feed[t], ws)  BY RefreshedShape DEF FeedShaped
  <2>2. ASSUME NEW ws, Rerender(t, ws)  PROVE  FeedShaped'
    BY <1>2, <2>1, <2>2 DEF Rerender
  <2>3. CASE GateAlreadyResolved(t)
    BY <2>2, <2>3 DEF GateAlreadyResolved
  <2>4. CASE ReceiveSwitch(t)
    <3>1. CASE feed' = [feed EXCEPT ![t] = NotFound(@.ws, @.active)]
      BY <1>2, <3>1, RenderedShape
    <3>2. QED  BY <2>2, <2>4, <3>1 DEF ReceiveSwitch
  <2>5. CASE GateResolved(t)
    BY <1>4, <2>2, <2>5 DEF GateResolved
  <2>6. QED  BY <1>8, <2>3, <2>4, <2>5
<1>9. QED  BY <1>3, <1>4, <1>5, <1>6, <1>7, <1>8 DEF FeedsClick, FeedsReceive, OpenList

\* The tellings stay true when no verdict changes and the new ones are true.
LEMMA ToldMore ==
    ASSUME ToldTyped, OneVerdict, VerdictsStand(entry, entry'), NEW t \in Tabs, NEW new \in SUBSET Tellings,
           \A v \in new : entry'[v.gate] = [status |-> v.status, by |-> v.by], Told(t, new)
    PROVE  ToldTyped' /\ OneVerdict'
<1>1. told' = [u \in Tabs |-> IF u = t THEN told[u] \union new ELSE told[u]]  BY DEF Told, ToldTyped
<1>2. \A u \in Tabs : told[u] \subseteq Tellings  BY DEF ToldTyped
<1>3. ToldTyped'  BY <1>1, <1>2 DEF ToldTyped
<1>4. ASSUME NEW u \in Tabs, NEW v \in told[u]
      PROVE  entry'[v.gate] = [status |-> v.status, by |-> v.by]
  <2>1. v.gate \in Entries /\ v.status \in Verdicts  BY <1>2 DEF Tellings
  <2>2. entry[v.gate] = [status |-> v.status, by |-> v.by]  BY DEF OneVerdict
  <2>3. QED  BY <2>1, <2>2 DEF VerdictsStand
<1>5. OneVerdict'  BY <1>1, <1>4 DEF OneVerdict
<1>6. QED  BY <1>3, <1>5

\* The same for a step that tells nothing.
LEMMA ToldKept ==
    ASSUME ToldTyped, OneVerdict, VerdictsStand(entry, entry'), UNCHANGED told
    PROVE  ToldTyped' /\ OneVerdict'
<1>1. ASSUME NEW u \in Tabs, NEW v \in told[u]
      PROVE  entry'[v.gate] = [status |-> v.status, by |-> v.by]
  <2>1. v.gate \in Entries /\ v.status \in Verdicts  BY DEF Tellings, ToldTyped
  <2>2. entry[v.gate] = [status |-> v.status, by |-> v.by]  BY DEF OneVerdict
  <2>3. QED  BY <2>1, <2>2 DEF VerdictsStand
<1>2. QED  BY <1>1 DEF ToldTyped, OneVerdict

\* A page of a gate tells the verdict on the row, if there is one.
LEMMA VerdictShown ==
    ASSUME RowsTyped, NEW state,
           state.at = "gate" =>
               \E e \in Entries : Requested(e) /\ state.gate = e /\ state.status = entry[e].status
    PROVE  /\ VerdictOn(state) \in SUBSET Tellings
           /\ \A v \in VerdictOn(state) : entry[v.gate] = [status |-> v.status, by |-> v.by]
<1>1. CASE state.at = "gate" /\ state.status # "pending"
  <2>1. PICK e \in Entries : Requested(e) /\ state.gate = e /\ state.status = entry[e].status  BY <1>1
  <2>2. entry[e] \in RowStates /\ entry[e].status \in Verdicts  BY <1>1, <2>1 DEF RowsTyped, RowStates, Requested
  <2>3. VerdictOn(state) = {[gate |-> e, status |-> entry[e].status, by |-> entry[e].by]}
    BY <1>1, <2>1 DEF VerdictOn
  <2>4. entry[e] = [status |-> entry[e].status, by |-> entry[e].by] /\ entry[e].by \in Resolvers
    BY <2>2 DEF RowStates
  <2>5. QED  BY <2>2, <2>3, <2>4 DEF Tellings
<1>2. CASE ~(state.at = "gate" /\ state.status # "pending")
  BY <1>2 DEF VerdictOn
<1>3. QED  BY <1>1, <1>2

\* What a tab makes of an answer that settles its resolve is what the row says.
LEMMA AnswerUnderstood ==
    ASSUME RowsTyped, CallsSound, NEW t \in Tabs, Answered(t, {"resolve"}), Settled(t)
    PROVE  /\ Understood(t) \in SUBSET Tellings
           /\ \A v \in Understood(t) : entry[v.gate] = [status |-> v.status, by |-> v.by]
<1> DEFINE g == Arg(t).gate
<1>1. /\ g \in Entries /\ Arg(t).status \in Decisions
      /\ Answer(t).kind = "ok" => entry[g] = [status |-> Arg(t).status, by |-> t]
      /\ Answer(t).kind = "already" => Answer(t).data = entry[g] /\ entry[g].status \in Verdicts
  BY SoundTail DEF Answered, CallsSound, Truthful, Arg, Answer
<1>2. CASE Answer(t).kind = "ok"
  <2>1. Understood(t) = {[gate |-> g, status |-> Arg(t).status, by |-> t]}  BY <1>2 DEF Understood
  <2> HIDE DEF g
  <2>2. QED  BY <1>1, <1>2, <2>1 DEF Tellings, Decisions, Verdicts, Resolvers
<1>3. CASE Answer(t).kind = "already"
  <2>1. Understood(t) = {[gate |-> g, status |-> entry[g].status, by |-> entry[g].by]}
    BY <1>1, <1>3 DEF Understood
  <2> HIDE DEF g
  <2>2. entry[g] = [status |-> entry[g].status, by |-> entry[g].by] /\ entry[g].by \in Resolvers
    BY <1>1 DEF RowsTyped, RowStates
  <2>3. QED  BY <1>1, <1>3, <2>1, <2>2 DEF Tellings
<1>4. QED  BY <1>2, <1>3 DEF Settled

\* Every step of the feeds keeps what the tabs were told true.
LEMMA ToldStep == ASSUME FeedInv, FeedsNext PROVE ToldTyped' /\ OneVerdict'
<1> USE DEF FeedInv
<1>1. VerdictsStand(entry, entry')  BY RowsStep
<1>2. ASSUME UNCHANGED told  PROVE  ToldTyped' /\ OneVerdict'
  BY <1>1, <1>2, ToldKept
<1>3. ASSUME NEW t \in Tabs, NEW state, Told(t, VerdictOn(state)), UNCHANGED entry,
             state.at = "gate" =>
                 \E e \in Entries : Requested(e) /\ state.gate = e /\ state.status = entry[e].status
      PROVE  ToldTyped' /\ OneVerdict'
  BY <1>1, <1>3, ToldMore, VerdictShown
<1> SUFFICES ASSUME NEW t \in Tabs,
                    FeedsClick(t) \/ FeedsServe(t) \/ FeedsReceive(t)
             PROVE  ToldTyped' /\ OneVerdict'
  BY <1>2 DEF FeedsNext, Create, ResolveElsewhere, Poll, feedVars
<1>4. CASE \/ FeedsServe(t) \/ LoadMore(t) \/ OpenList(t)
           \/ \E e \in Entries, d \in Decisions : Resolve(t, e, d)
           \/ \E ws \in Workspaces : Switch(t, ws)
  BY <1>2, <1>4 DEF FeedsServe, ServeList, ServeResolve, RefuseResolve, ServeSwitch, LoadMore, OpenList,
     Resolve, Switch, feedVars
<1>5. ASSUME NEW e \in Entries, OpenGate(t, e)  PROVE  ToldTyped' /\ OneVerdict'
  <2>1. UNCHANGED entry /\ ShowGate(t, feed[t].active, e)  BY <1>5 DEF OpenGate
  <2>2. QED  BY <1>2, <1>3, <2>1, RenderedShape DEF ShowGate
<1>6. CASE ReceivePoll(t) \/ ReceiveMore(t) \/ GateNotResolved(t) \/ ReceiveSwitch(t)
  BY <1>2, <1>6 DEF ReceivePoll, ReceiveMore, GateNotResolved, ReceiveSwitch
<1>7. CASE ReceiveResolved(t)
  <2>1. UNCHANGED entry /\ Answered(t, {"resolve"})  BY <1>7 DEF ReceiveResolved
  <2>2. CASE Live(t) /\ Settled(t)
    <3>1. Told(t, Understood(t))  BY <1>7, <2>2 DEF ReceiveResolved
    <3>2. QED  BY <1>1, <2>1, <2>2, <3>1, AnswerUnderstood, ToldMore
  <2>3. CASE ~(Live(t) /\ Settled(t))
    <3>1. Told(t, {})  BY <1>7, <2>3 DEF ReceiveResolved
    <3>2. QED  BY <1>1, <3>1, ToldMore
  <2>4. QED  BY <2>2, <2>3
<1>8. CASE GateResolved(t)
  <2>1. UNCHANGED entry /\ Answered(t, {"resolve"}) /\ Settled(t) /\ (UNCHANGED told \/ Told(t, Understood(t)))
    BY <1>8 DEF GateResolved, Settled
  <2>2. QED  BY <1>1, <1>2, <2>1, AnswerUnderstood, ToldMore
<1>9. CASE GateAlreadyResolved(t)
  <2>1. UNCHANGED entry /\ Told(t, VerdictOn(Refreshed(feed[t], cookie)))  BY <1>9 DEF GateAlreadyResolved
  <2>2. "at" \in DOMAIN feed[t]  BY DEF FeedShaped
  <2>3. QED  BY <1>3, <2>1, <2>2, RefreshedShape
<1>10. QED  BY <1>4, <1>5, <1>6, <1>7, <1>8, <1>9 DEF FeedsClick, FeedsReceive

(***************************************************************************)
(* The forms: the calls that they make, and what the queues keep.          *)
(***************************************************************************)
\* What a form asks for, the answers it may get, and its calls.
RenamingArgs == {r \in [name : Names, old : Names] : r.name # r.old}
Asks ==
    [what : {"status"}, arg : [to : Settable]] \union [what : {"switch"}, arg : [to : Spaces]]
    \union [what : {"delete", "install", "reset", "space"}, arg : {<<>>}]
    \union [what : {"add", "rotate", "drop", "inline", "provider"}, arg : [name : Names]]
    \union [what : {"rename", "unname"}, arg : RenamingArgs]
Answers   == [kind : Kinds, data : {<<>>}]
FormCalls ==
    {c \in [what : {ask.what : ask \in Asks}, arg : {ask.arg : ask \in Asks}, live : {TRUE}, answer : Answers] :
         [what |-> c.what, arg |-> c.arg] \in Asks}

Renaming == {"rename", "unname"}

\* The second call of a rename is alone in its queue, and the first one is the
\* last of its queue; the edit dialog is the only one that is open meanwhile.
RenameLast(t) ==
    /\ calls[t] # <<>> => t \in tabs
    /\ \A i \in 1..Len(calls[t]) :
         /\ i > 1 => calls[t][i].answer = Waiting
         /\ calls[t][i].what \in Renaming =>
              scene = "vault" /\ i = Len(calls[t]) /\ form[t].dialog = Nothing
         /\ calls[t][i].what = "unname" => i = 1

\* A confirmation that is open in the vault is about a credential.
DropsCredential(t) == scene = "vault" => form[t].dialog \in Names \union {Nothing}

\* A field that the tab was told it wrote is what the tab shows, unless a
\* rename is still to refresh the page.
NoneStale(t) ==
    \A f \in Fields : writer[f] = t /\ f \in acked[t] =>
        shown[t][f] = store[f] \/ (calls[t] # <<>> /\ Head(calls[t]).what = "unname")

\* With one tab, the new name of a rename that was stored is there.
NewNameStored(t) ==
    scene = "vault" /\ Cardinality(tabs) = 1 /\ calls[t] # <<>> =>
        \/ Head(calls[t]).what \notin Renaming
        \/ Head(calls[t]).what = "rename" /\ Answer(t).kind # "ok"
        \/ Arg(t).name \in store.creds

FormsQueued ==
    /\ calls \in [Tabs -> Seq(FormCalls)] /\ IsFiniteSet(tabs)
    /\ \A t \in Tabs : RenameLast(t) /\ DropsCredential(t) /\ NoneStale(t) /\ NewNameStored(t)

FormsInv == FormsTypeOK /\ (scene \in Forms => FormsQueued)

\* A call of a form is made of what it asks for and its answer.
LEMMA FormCallMade ==
    ASSUME NEW ask \in Asks, NEW answer \in Answers
    PROVE  [what |-> ask.what, arg |-> ask.arg, live |-> TRUE, answer |-> answer] \in FormCalls
<1> DEFINE c == [what |-> ask.what, arg |-> ask.arg, live |-> TRUE, answer |-> answer]
<1>1. ask.what \in {a.what : a \in Asks} /\ ask.arg \in {a.arg : a \in Asks}  OBVIOUS
<1>2. [what |-> ask.what, arg |-> ask.arg] \in Asks  BY DEF Asks
<1>3. c.what = ask.what /\ c.arg = ask.arg  OBVIOUS
<1>4. c \in [what : {a.what : a \in Asks}, arg : {a.arg : a \in Asks}, live : {TRUE}, answer : Answers]
  BY <1>1
<1>5. QED  BY <1>2, <1>3, <1>4 DEF FormCalls

\* What a call of a form is about depends on its kind.
LEMMA FormCallParts ==
    ASSUME NEW c \in FormCalls
    PROVE  /\ [what |-> c.what, arg |-> c.arg] \in Asks /\ c.live = TRUE /\ c.answer \in Answers
           /\ c = [what |-> c.what, arg |-> c.arg, live |-> TRUE, answer |-> c.answer]
           /\ c.what = "status" => c.arg.to \in Settable
           /\ c.what \in {"add", "rotate", "drop", "inline", "provider"} => c.arg.name \in Names
           /\ c.what \in Renaming => c.arg.name \in Names /\ c.arg.old \in Names /\ c.arg.name # c.arg.old
           /\ c.what = "switch" => c.arg.to \in Spaces
<1> DEFINE ask == [what |-> c.what, arg |-> c.arg]
<1>1. ask \in Asks /\ ask.what = c.what /\ ask.arg = c.arg  BY DEF FormCalls
<1>2. c.live = TRUE /\ c.answer \in Answers
      /\ c = [what |-> c.what, arg |-> c.arg, live |-> TRUE, answer |-> c.answer]
  BY DEF FormCalls
<1> HIDE DEF ask
<1>3. /\ ask.what = "status" => ask.arg.to \in Settable
      /\ ask.what \in {"add", "rotate", "drop", "inline", "provider"} => ask.arg.name \in Names
      /\ ask.what \in Renaming =>
           ask.arg.name \in Names /\ ask.arg.old \in Names /\ ask.arg.name # ask.arg.old
      /\ ask.what = "switch" => ask.arg.to \in Spaces
  BY <1>1 DEF Asks, Renaming, RenamingArgs
<1>4. [what |-> c.what, arg |-> c.arg] \in Asks  BY <1>1 DEF ask
<1>5. QED  BY <1>1, <1>2, <1>3, <1>4

\* Answering a call changes its answer only.
LEMMA FormCallAnswered ==
    ASSUME NEW c \in FormCalls, NEW answer \in Answers
    PROVE  /\ [c EXCEPT !.answer = answer] \in FormCalls
           /\ [c EXCEPT !.answer = answer].what = c.what /\ [c EXCEPT !.answer = answer].arg = c.arg
           /\ [c EXCEPT !.answer = answer].answer = answer
<1> DEFINE d == [what |-> c.what, arg |-> c.arg, live |-> TRUE, answer |-> answer]
<1>1. c = [what |-> c.what, arg |-> c.arg, live |-> TRUE, answer |-> c.answer]  BY FormCallParts
<1>2. [c EXCEPT !.answer = answer] = d
  <2>1. PICK l : l = TRUE  OBVIOUS
  <2>2. c = [what |-> c.what, arg |-> c.arg, live |-> l, answer |-> c.answer]  BY <1>1, <2>1
  <2>3. [c EXCEPT !.answer = answer] = [what |-> c.what, arg |-> c.arg, live |-> l, answer |-> answer]
    BY <2>2
  <2>4. QED  BY <2>1, <2>3
<1>3. d \in FormCalls
  <2>1. PICK ask : ask = [what |-> c.what, arg |-> c.arg]  OBVIOUS
  <2>2. ask \in Asks /\ ask.what = c.what /\ ask.arg = c.arg  BY <2>1, FormCallParts
  <2>3. [what |-> ask.what, arg |-> ask.arg, live |-> TRUE, answer |-> answer] \in FormCalls
    BY <2>2, FormCallMade
  <2>4. QED  BY <2>2, <2>3
<1>4. QED  BY <1>2, <1>3

\* A new call waits.
LEMMA FormCallAsked ==
    ASSUME NEW what, NEW arg, [what |-> what, arg |-> arg] \in Asks
    PROVE  /\ Call(what, arg) \in FormCalls /\ Call(what, arg).what = what
           /\ Call(what, arg).arg = arg /\ Call(what, arg).answer = Waiting
<1>1. Waiting \in Answers  BY DEF Waiting, Answers, Kinds
<1>2. PICK ask : ask = [what |-> what, arg |-> arg]  OBVIOUS
<1>3. [what |-> ask.what, arg |-> ask.arg, live |-> TRUE, answer |-> Waiting] \in FormCalls
  BY <1>1, <1>2, FormCallMade
<1>4. QED  BY <1>2, <1>3 DEF Call

\* The call at the head of a queue is answered.
LEMMA QueueAnswered ==
    ASSUME NEW S, NEW q \in Seq(S), q # <<>>, NEW d \in S, d.what = Head(q).what, d.arg = Head(q).arg,
           NEW p, p = [q EXCEPT ![1] = d]
    PROVE  /\ p \in Seq(S) /\ p # <<>> /\ Len(p) = Len(q) /\ Head(p) = d
           /\ \A i \in 1..Len(q) : /\ p[i].what = q[i].what /\ p[i].arg = q[i].arg
                                   /\ i > 1 => p[i] = q[i]
<1>1. Len(q) \in Nat \ {0} /\ Head(q) = q[1]  OBVIOUS
<1>2. p \in Seq(S) /\ Len(p) = Len(q) /\ p[1] = d /\ \A i \in 1..Len(q) : i > 1 => p[i] = q[i]
  BY <1>1
<1>3. p # <<>> /\ Head(p) = d  BY <1>1, <1>2
<1>4. \A i \in 1..Len(q) : p[i].what = q[i].what /\ p[i].arg = q[i].arg  BY <1>1, <1>2
<1>5. QED  BY <1>2, <1>3, <1>4

NoneRenaming(t) == \A i \in 1..Len(calls[t]) : calls[t][i].what \notin Renaming

\* While the vault's dialogs are free, or a confirmation is open, no rename is
\* under way; nor is one in another scene.
LEMMA NotRenaming ==
    ASSUME FormsQueued, NEW t \in Tabs, scene = "vault" => ~Editing(t) \/ ~Closed(t)
    PROVE  NoneRenaming(t)
<1>1. calls[t] \in Seq(FormCalls) /\ RenameLast(t)  BY DEF FormsQueued
<1>2. SUFFICES ASSUME NEW i \in 1..Len(calls[t]), calls[t][i].what \in Renaming
               PROVE  FALSE
  BY DEF NoneRenaming
<1>3. scene = "vault" /\ Closed(t)  BY <1>1, <1>2 DEF RenameLast, Closed
<1>4. i \in DOMAIN calls[t] /\ calls[t][i] \in FormCalls  BY <1>1
<1>5. calls[t][i].live  BY <1>4, FormCallParts
<1>6. Editing(t)  BY <1>2, <1>4, <1>5 DEF Editing, Asked, Renaming
<1>7. QED  BY <1>3, <1>6

\* A dialog is opened or closed.
LEMMA FormOpens ==
    ASSUME FormsTypeOK, FormsQueued, NEW t \in Tabs, NEW dialog, Opens(t, dialog),
           dialog \in Settable \union {"delete", Nothing} \union Names,
           scene = "vault" => dialog \in Names \union {Nothing},
           dialog = Nothing \/ NoneRenaming(t)
    PROVE  FormsTypeOK' /\ FormsQueued'
<1>1. UNCHANGED <<scene, tabs, calls, store, shown, writer, acked>>
      /\ form' = [form EXCEPT ![t].dialog = dialog]
  BY DEF Opens, callVars
<1>2. form \in [Tabs -> FormStates]  BY DEF FormsTypeOK
<1>3. form' \in [Tabs -> FormStates] /\ form'[t].dialog = dialog
      /\ \A u \in Tabs : u # t => form'[u] = form[u]
  BY <1>1, <1>2 DEF FormStates
<1>4. FormsTypeOK'  BY <1>1, <1>3 DEF FormsTypeOK
<1>5. ASSUME NEW u \in Tabs
      PROVE  (RenameLast(u) /\ DropsCredential(u) /\ NoneStale(u) /\ NewNameStored(u))'
  <2>1. RenameLast(u) /\ DropsCredential(u) /\ NoneStale(u) /\ NewNameStored(u)  BY DEF FormsQueued
  <2>2. RenameLast(u)'  BY <1>1, <1>3, <2>1 DEF RenameLast, NoneRenaming
  <2>3. DropsCredential(u)'  BY <1>1, <1>3, <2>1 DEF DropsCredential
  <2>4. NoneStale(u)'  BY <1>1, <2>1 DEF NoneStale
  <2>5. NewNameStored(u)'  BY <1>1, <2>1 DEF NewNameStored, Arg, Answer
  <2>6. QED  BY <2>2, <2>3, <2>4, <2>5
<1>6. QED  BY <1>1, <1>4, <1>5 DEF FormsQueued

\* A call is asked for: it goes to the end of the queue.
LEMMA FormAsks ==
    ASSUME FormsTypeOK, FormsQueued, NEW t \in Tabs, NEW what, NEW arg, Sends(t, what, arg),
           [what |-> what, arg |-> arg] \in Asks, NoneRenaming(t), what # "unname",
           what = "rename" => scene = "vault" /\ Closed(t)
    PROVE  FormsTypeOK' /\ FormsQueued'
<1> DEFINE q == calls[t]
<1>1. /\ UNCHANGED <<scene, tabs, store, shown, form, writer, acked>> /\ t \in tabs
      /\ calls' = [calls EXCEPT ![t] = Append(q, Call(what, arg))]
  BY DEF Sends, Click, Clicked, Ask, formVars
<1>2. PICK c : c = Call(what, arg)  OBVIOUS
<1>3. c \in FormCalls /\ c.what = what /\ c.answer = Waiting  BY <1>2, FormCallAsked
<1>4. calls \in [Tabs -> Seq(FormCalls)] /\ q \in Seq(FormCalls)  BY DEF FormsQueued
<1>5. calls' = [calls EXCEPT ![t] = Append(q, c)]  BY <1>1, <1>2
<1>6. PICK p : p = Append(q, c)  OBVIOUS
<1>7. /\ p \in Seq(FormCalls) /\ Len(p) = Len(q) + 1 /\ p # <<>> /\ p[Len(q) + 1] = c
      /\ \A i \in 1..Len(q) : p[i] = q[i]
      /\ Len(q) \in Nat /\ Head(p) = p[1] /\ q # <<>> => Len(q) > 0 /\ Head(q) = q[1]
  BY <1>3, <1>4, <1>6
<1>8. calls' \in [Tabs -> Seq(FormCalls)] /\ calls'[t] = p /\ \A u \in Tabs : u # t => calls'[u] = calls[u]
  BY <1>4, <1>5, <1>6, <1>7
<1>9. FormsTypeOK'  BY <1>1 DEF FormsTypeOK
<1>10. ASSUME NEW u \in Tabs
       PROVE  (RenameLast(u) /\ DropsCredential(u) /\ NoneStale(u) /\ NewNameStored(u))'
  <2>1. RenameLast(u) /\ DropsCredential(u) /\ NoneStale(u) /\ NewNameStored(u)  BY DEF FormsQueued
  <2>2. RenameLast(u)'
    <3>1. CASE u # t  BY <1>1, <1>8, <2>1, <3>1 DEF RenameLast
    <3>2. CASE u = t
      <4>1. ASSUME NEW i \in 1..Len(p)
            PROVE  /\ i > 1 => p[i].answer = Waiting
                   /\ p[i].what \in Renaming =>
                        scene = "vault" /\ i = Len(p) /\ form[t].dialog = Nothing
                   /\ p[i].what = "unname" => i = 1
        <5>1. CASE i \in 1..Len(q)
          BY <1>7, <2>1, <3>2, <5>1 DEF RenameLast, NoneRenaming, Renaming
        <5>2. CASE i = Len(q) + 1
          BY <1>3, <1>7, <5>2 DEF Renaming, Closed
        <5>3. QED  BY <1>7, <5>1, <5>2
      <4>2. QED  BY <1>1, <1>8, <3>2, <4>1 DEF RenameLast
    <3>3. QED  BY <3>1, <3>2
  <2>3. DropsCredential(u)'  BY <1>1, <2>1 DEF DropsCredential
  <2>4. NoneStale(u)'
    <3>1. CASE u # t  BY <1>1, <1>8, <2>1, <3>1 DEF NoneStale
    <3>2. CASE u = t
      <4>1. ~(q # <<>> /\ Head(q).what = "unname")
        BY <1>7 DEF NoneRenaming, Renaming
      <4>2. QED  BY <1>1, <2>1, <3>2, <4>1 DEF NoneStale
    <3>3. QED  BY <3>1, <3>2
  <2>5. NewNameStored(u)'
    <3>1. CASE u # t  BY <1>1, <1>8, <2>1, <3>1 DEF NewNameStored, Arg, Answer
    <3>2. CASE u = t /\ q # <<>>
      <4>1. Head(p) = Head(q)  BY <1>7, <3>2
      <4>2. QED  BY <1>1, <1>8, <2>1, <3>2, <4>1 DEF NewNameStored, Arg, Answer
    <3>3. CASE u = t /\ q = <<>>
      <4>1. Head(p) = c
        <5>1. Len(q) = 0  BY <3>3
        <5>2. QED  BY <1>7, <5>1
      <4>2. c.what # "unname" /\ c.answer.kind # "ok"  BY <1>3 DEF Waiting
      <4>3. Head(calls'[t]) = c  BY <1>8, <4>1
      <4>4. QED  BY <3>3, <4>2, <4>3 DEF NewNameStored, Renaming, Answer
    <3>4. QED  BY <3>1, <3>2, <3>3
  <2>6. QED  BY <2>2, <2>3, <2>4, <2>5
<1>11. QED
  <2>1. IsFiniteSet(tabs)'  BY <1>1 DEF FormsQueued
  <2>2. QED  BY <1>8, <1>9, <1>10, <2>1 DEF FormsQueued

\* A click opens a dialog, selects a credential or asks for a call.
LEMMA FormsClickStep ==
    ASSUME FormsTypeOK, FormsQueued, NEW t \in Tabs, FormsClick(t)
    PROVE  FormsTypeOK' /\ FormsQueued'
<1>1. form[t] \in FormStates /\ shown[t] \in Stores /\ DropsCredential(t)  BY DEF FormsTypeOK, FormsQueued
<1>2. ASSUME NEW status \in Settable, PickStatus(t, status)  PROVE  FormsTypeOK' /\ FormsQueued'
  <2>1. scene # "vault" /\ Opens(t, status)  BY <1>2 DEF PickStatus, Here
  <2>2. QED  BY <2>1, NotRenaming, FormOpens
<1>3. CASE PickDelete(t)
  <2>1. scene # "vault" /\ Opens(t, "delete")  BY <1>3 DEF PickDelete, Here
  <2>2. QED  BY <2>1, NotRenaming, FormOpens
<1>4. CASE Cancel(t) \/ CancelDrop(t)
  BY <1>4, FormOpens DEF Cancel, CancelDrop
<1>5. ASSUME NEW n \in Names, PickDrop(t, n)  PROVE  FormsTypeOK' /\ FormsQueued'
  <2>1. ~Editing(t) /\ Opens(t, n)  BY <1>5 DEF PickDrop, RowFree
  <2>2. QED  BY <2>1, NotRenaming, FormOpens
<1>6. CASE ConfirmStatus(t)
  <2>1. scene # "vault" /\ form[t].dialog \in Settable /\ Sends(t, "status", [to |-> form[t].dialog])
    BY <1>6 DEF ConfirmStatus, Here
  <2>2. [what |-> "status", arg |-> [to |-> form[t].dialog]] \in Asks  BY <2>1 DEF Asks
  <2>3. QED  BY <2>1, <2>2, NotRenaming, FormAsks
<1>7. ASSUME NEW what \in {"delete", "install", "reset", "space"}, Sends(t, what, <<>>),
             scene = "vault" => ~Editing(t)
      PROVE  FormsTypeOK' /\ FormsQueued'
  <2>1. [what |-> what, arg |-> <<>>] \in Asks  BY DEF Asks
  <2>2. QED  BY <1>7, <2>1, NotRenaming, FormAsks
<1>8. ASSUME NEW what \in {"add", "rotate", "drop", "inline", "provider"}, NEW n \in Names,
             Sends(t, what, [name |-> n]), ~Editing(t) \/ ~Closed(t)
      PROVE  FormsTypeOK' /\ FormsQueued'
  <2>1. [what |-> what, arg |-> [name |-> n]] \in Asks  BY DEF Asks
  <2>2. QED  BY <1>8, <2>1, NotRenaming, FormAsks
<1>9. CASE ConfirmDelete(t) \/ Install(t) \/ ResetProvider(t) \/ CreateSpace(t)
  BY <1>7, <1>9 DEF ConfirmDelete, Install, ResetProvider, FormFree, CreateSpace, Here
<1>10. ASSUME NEW n \in Names, Add(t, n) \/ Rotate(t, n) \/ AddInline(t, n)
       PROVE  FormsTypeOK' /\ FormsQueued'
  BY <1>8, <1>10 DEF Add, Rotate, AddInline, FormFree, RowFree
<1>11. ASSUME NEW n \in Names, Select(t, n)  PROVE  FormsTypeOK' /\ FormsQueued'
  <2>1. UNCHANGED <<scene, tabs, calls, store, shown, writer, acked>> /\ form' = [form EXCEPT ![t].ref = n]
    BY <1>11 DEF Select, callVars
  <2>2. form \in [Tabs -> FormStates]  BY DEF FormsTypeOK
  <2>3. form' \in [Tabs -> FormStates] /\ \A u \in Tabs : form'[u].dialog = form[u].dialog
    BY <2>1, <2>2 DEF FormStates
  <2>4. FormsTypeOK'  BY <2>1, <2>3 DEF FormsTypeOK
  <2>5. ASSUME NEW u \in Tabs
        PROVE  (RenameLast(u) /\ DropsCredential(u) /\ NoneStale(u) /\ NewNameStored(u))'
    <3>1. RenameLast(u) /\ DropsCredential(u) /\ NoneStale(u) /\ NewNameStored(u)  BY DEF FormsQueued
    <3>2. RenameLast(u)'  BY <2>1, <2>3, <3>1 DEF RenameLast
    <3>3. DropsCredential(u)'  BY <2>1, <2>3, <3>1 DEF DropsCredential
    <3>4. NoneStale(u)'  BY <2>1, <3>1 DEF NoneStale
    <3>5. NewNameStored(u)'  BY <2>1, <3>1 DEF NewNameStored, Arg, Answer
    <3>6. QED  BY <3>2, <3>3, <3>4, <3>5
  <2>6. QED  BY <2>1, <2>4, <2>5 DEF FormsQueued
<1>12. ASSUME NEW n \in Names, NEW m \in Names, Rename(t, n, m)  PROVE  FormsTypeOK' /\ FormsQueued'
  <2>1. /\ scene = "vault" /\ Closed(t) /\ ~Editing(t) /\ n # m
        /\ Sends(t, "rename", [name |-> m, old |-> n])
    BY <1>12 DEF Rename, RowFree, Here
  <2>2. [name |-> m, old |-> n] \in RenamingArgs  BY <2>1 DEF RenamingArgs
  <2>3. [what |-> "rename", arg |-> [name |-> m, old |-> n]] \in Asks  BY <2>2 DEF Asks
  <2>4. QED  BY <2>1, <2>3, NotRenaming, FormAsks
<1>13. CASE ConfirmDrop(t)
  <2>1. scene = "vault" /\ ~Closed(t) /\ Sends(t, "drop", [name |-> form[t].dialog])
    BY <1>13 DEF ConfirmDrop, Here
  <2>2. form[t].dialog \in Names  BY <1>1, <2>1 DEF DropsCredential, Closed
  <2>3. QED  BY <1>8, <2>1, <2>2
<1>14. CASE SaveProvider(t)
  <2>1. ~Editing(t) /\ form[t].ref # Nothing /\ Sends(t, "provider", [name |-> form[t].ref])
    BY <1>14 DEF SaveProvider, FormFree
  <2>2. form[t].ref \in Names  BY <1>1, <2>1 DEF FormStates
  <2>3. QED  BY <1>8, <2>1, <2>2
<1>15. ASSUME NEW w \in Spaces, SwitchSpace(t, w)  PROVE  FormsTypeOK' /\ FormsQueued'
  <2>1. scene # "vault" /\ Sends(t, "switch", [to |-> w])  BY <1>15 DEF SwitchSpace, Here
  <2>2. [what |-> "switch", arg |-> [to |-> w]] \in Asks  BY DEF Asks
  <2>3. QED  BY <2>1, <2>2, NotRenaming, FormAsks
<1>16. QED
  BY <1>2, <1>3, <1>4, <1>5, <1>6, <1>9, <1>10, <1>11, <1>12, <1>13, <1>14, <1>15 DEF FormsClick

\* The API answers the first call of a queue: the fields that a tab was told it
\* wrote are as they were, and a renamed credential has its new name.
LEMMA FormServed ==
    ASSUME FormsQueued, NEW t \in Tabs, calls[t] # <<>>, NEW answer \in Answers,
           calls' = WithAnswer(t, answer), UNCHANGED <<scene, tabs, shown, form>>,
           \A u \in Tabs, f \in Fields : writer'[f] = u /\ f \in acked'[u] =>
               writer[f] = u /\ f \in acked[u] /\ store'[f] = store[f],
           scene = "vault" /\ Cardinality(tabs) = 1 =>
               \/ Head(calls[t]).what \notin Renaming
               \/ Head(calls[t]).what = "rename" /\ answer.kind # "ok"
               \/ Arg(t).name \in store'.creds
    PROVE  FormsQueued'
<1> DEFINE q == calls[t]
<1>1. calls \in [Tabs -> Seq(FormCalls)] /\ q \in Seq(FormCalls) /\ IsFiniteSet(tabs)  BY DEF FormsQueued
<1>2. PICK d : d = [q[1] EXCEPT !.answer = answer]  OBVIOUS
<1>3. d \in FormCalls /\ d.what = Head(q).what /\ d.arg = Head(q).arg /\ d.answer = answer
  <2>1. q[1] \in FormCalls /\ Head(q) = q[1]  BY <1>1
  <2>2. QED  BY <1>2, <2>1, FormCallAnswered
<1>4. PICK p : p = [q EXCEPT ![1] = d]  OBVIOUS
<1>5. calls' = [calls EXCEPT ![t] = p]  BY <1>1, <1>2, <1>4 DEF WithAnswer
<1>6. /\ p \in Seq(FormCalls) /\ p # <<>> /\ Len(p) = Len(q) /\ Head(p) = d
      /\ \A i \in 1..Len(q) : p[i].what = q[i].what /\ (i > 1 => p[i] = q[i])
  BY <1>1, <1>3, <1>4, QueueAnswered
<1>7. calls' \in [Tabs -> Seq(FormCalls)] /\ calls'[t] = p /\ \A u \in Tabs : u # t => calls'[u] = calls[u]
  BY <1>1, <1>5, <1>6
<1>8. ASSUME NEW u \in Tabs
      PROVE  (RenameLast(u) /\ DropsCredential(u) /\ NoneStale(u) /\ NewNameStored(u))'
  <2>1. RenameLast(u) /\ DropsCredential(u) /\ NoneStale(u) /\ NewNameStored(u)  BY DEF FormsQueued
  <2>2. RenameLast(u)'
    <3>1. CASE u # t  BY <1>7, <2>1, <3>1 DEF RenameLast
    <3>2. CASE u = t  BY <1>3, <1>6, <1>7, <2>1, <3>2 DEF RenameLast
    <3>3. QED  BY <3>1, <3>2
  <2>3. DropsCredential(u)'  BY <2>1 DEF DropsCredential
  <2>4. NoneStale(u)'
    <3>1. calls'[u] # <<>> /\ Head(calls'[u]).what = "unname"
          <=> calls[u] # <<>> /\ Head(calls[u]).what = "unname"
      BY <1>3, <1>6, <1>7
    <3>2. QED  BY <2>1, <3>1 DEF NoneStale
  <2>5. NewNameStored(u)'
    <3>1. CASE u # t
      <4>1. SUFFICES ASSUME Cardinality(tabs) = 1, calls[u] # <<>>  PROVE  FALSE
        BY <1>7, <3>1 DEF NewNameStored
      <4>2. t \in tabs /\ u \in tabs  BY <4>1 DEF FormsQueued, RenameLast
      <4>3. PICK x : tabs = {x}  BY <1>1, <4>1, FS_Singleton
      <4>4. QED  BY <3>1, <4>2, <4>3
    <3>2. CASE u = t
      <4>1. Head(calls'[t]) = d  BY <1>6, <1>7
      <4>2. QED  BY <1>3, <3>2, <4>1 DEF NewNameStored, Arg, Answer
    <3>3. QED  BY <3>1, <3>2
  <2>6. QED  BY <2>2, <2>3, <2>4, <2>5
<1>9. QED
  <2>1. IsFiniteSet(tabs)'  BY <1>1
  <2>2. QED  BY <1>7, <1>8, <2>1 DEF FormsQueued

\* An answer of the API, or a failure in its place.
LEMMA FormReplies ==
    ASSUME NEW t, NEW kind \in Kinds, Reply(t, kind, <<>>)
    PROVE  UNCHANGED <<scene, tabs>>
           /\ \E answer \in Answers : calls' = WithAnswer(t, answer) /\ answer.kind \in {kind, "failed"}
<1>1. [kind |-> kind, data |-> <<>>] \in Answers /\ Failed \in Answers /\ Failed.kind = "failed"
  BY DEF Answers, Failed, Kinds
<1>2. QED  BY <1>1 DEF Reply

\* The API accepts a call: it writes one field, and the tab is not told yet.
LEMMA FormAccepted ==
    ASSUME FormsTypeOK, FormsQueued, NEW t \in Tabs, calls[t] # <<>>, NEW field, NEW value,
           Accepts(t, field, value),
           \/ field = "status" /\ value \in Stages
           \/ field = "creds" /\ value \in SUBSET Names
           \/ field = "provider" /\ value \in Names \union {Platform}
           \/ field = "cookie" /\ value \in Spaces,
           scene = "vault" /\ Cardinality(tabs) = 1 /\ Head(calls[t]).what \in Renaming =>
               field = "creds" /\ Arg(t).name \in value
    PROVE  FormsTypeOK' /\ FormsQueued'
<1>1. /\ store' = [store EXCEPT ![field] = value] /\ writer' = [writer EXCEPT ![field] = t]
      /\ acked' = [acked EXCEPT ![t] = @ \ {field}] /\ UNCHANGED <<shown, form>> /\ Reply(t, "ok", <<>>)
  BY DEF Accepts
<1>2. field \in Fields  BY DEF Fields
<1>3. /\ store \in Stores /\ shown \in [Tabs -> Stores] /\ form \in [Tabs -> FormStates]
      /\ writer \in [Fields -> Tabs \union {SomebodyElse}] /\ acked \in [Tabs -> SUBSET Fields]
      /\ FirstSpace \in store.spaces
  BY DEF FormsTypeOK
<1>4. /\ store' \in Stores /\ store'.spaces = store.spaces /\ store'[field] = value
      /\ \A f \in Fields : f # field => store'[f] = store[f]
  BY <1>1, <1>3 DEF Stores, Fields
<1>5. writer' \in [Fields -> Tabs \union {SomebodyElse}] /\ acked' \in [Tabs -> SUBSET Fields]
  BY <1>1, <1>2, <1>3
<1>6. FormsTypeOK'  BY <1>1, <1>3, <1>4, <1>5 DEF FormsTypeOK
<1>7. ASSUME NEW u \in Tabs, NEW f \in Fields, writer'[f] = u, f \in acked'[u]
      PROVE  writer[f] = u /\ f \in acked[u] /\ store'[f] = store[f]
  <2>1. f # field  BY <1>1, <1>2, <1>3, <1>7
  <2>2. QED  BY <1>1, <1>2, <1>3, <1>4, <1>7, <2>1
<1>8. scene = "vault" /\ Cardinality(tabs) = 1 /\ Head(calls[t]).what \in Renaming =>
        Arg(t).name \in store'.creds
  BY <1>4
<1>9. PICK answer \in Answers : calls' = WithAnswer(t, answer)  BY <1>1, FormReplies DEF Kinds
<1>10. UNCHANGED <<scene, tabs>>  BY <1>1, FormReplies DEF Kinds
<1>11. FormsQueued'  BY <1>1, <1>7, <1>8, <1>9, <1>10, FormServed
<1>12. QED  BY <1>6, <1>11

\* The API refuses a call, or the call fails on its way.
LEMMA FormRefused ==
    ASSUME FormsTypeOK, FormsQueued, NEW t \in Tabs, calls[t] # <<>>, UNCHANGED formVars,
           UNCHANGED <<scene, tabs>>, NEW answer \in Answers, calls' = WithAnswer(t, answer),
           Head(calls[t]).what \in Renaming => answer.kind # "ok"
    PROVE  FormsTypeOK' /\ FormsQueued'
<1>1. UNCHANGED <<store, shown, form, writer, acked>>  BY DEF formVars
<1>2. FormsTypeOK'  BY <1>1 DEF FormsTypeOK
<1>3. scene = "vault" /\ Cardinality(tabs) = 1 =>
         \/ Head(calls[t]).what \notin Renaming
         \/ Head(calls[t]).what = "rename" /\ answer.kind # "ok"
         \/ Arg(t).name \in store'.creds
  BY <1>1 DEF FormsQueued, NewNameStored, Renaming
<1>4. FormsQueued'  BY <1>1, <1>3, FormServed
<1>5. QED  BY <1>2, <1>4

\* The API answers a call.
LEMMA FormsServeStep ==
    ASSUME FormsTypeOK, FormsQueued, NEW t \in Tabs, FormsServe(t)
    PROVE  FormsTypeOK' /\ FormsQueued'
<1> USE DEF Renaming
<1>1. store \in Stores /\ store.status \in Stages  BY DEF FormsTypeOK, Stores
<1>2. ASSUME NEW whats, AtServer(t, whats)
      PROVE  /\ calls[t] # <<>> /\ Head(calls[t]).what \in whats
             /\ Head(calls[t]).what = "status" => Arg(t).to \in Settable
             /\ Head(calls[t]).what \in {"add", "rotate", "drop", "inline", "provider"} => Arg(t).name \in Names
             /\ Head(calls[t]).what \in Renaming => Arg(t).name \in Names /\ Arg(t).name # Arg(t).old
             /\ Head(calls[t]).what = "switch" => Arg(t).to \in Spaces
  <2>1. calls[t] \in Seq(FormCalls) /\ calls[t] # <<>> /\ Head(calls[t]).what \in whats
    BY <1>2 DEF FormsQueued, AtServer
  <2>2. PICK c : c = Head(calls[t])  OBVIOUS
  <2>3. c \in FormCalls  BY <2>1, <2>2
  <2>4. QED  BY <2>1, <2>2, <2>3, FormCallParts DEF Arg
<1>3. ASSUME NEW kind \in Kinds, Refuses(t, kind), calls[t] # <<>>, Head(calls[t]).what \notin Renaming
      PROVE  FormsTypeOK' /\ FormsQueued'
  <2>1. UNCHANGED formVars /\ Reply(t, kind, <<>>)  BY <1>3 DEF Refuses
  <2>2. PICK answer \in Answers : calls' = WithAnswer(t, answer)  BY <2>1, FormReplies
  <2>3. UNCHANGED <<scene, tabs>>  BY <2>1, FormReplies
  <2>4. QED  BY <1>3, <2>1, <2>2, <2>3, FormRefused
<1>4. CASE ServeStatus(t)
  <2>1. AtServer(t, {"status"})  BY <1>4 DEF ServeStatus
  <2>2. Arg(t).to \in Settable  BY <1>2, <2>1
  <2>3. CASE Accepts(t, "status", Arg(t).to)
    BY <1>2, <2>1, <2>2, <2>3, FormAccepted DEF Settable, Stages
  <2>4. ASSUME NEW kind \in Kinds, Refuses(t, kind)  PROVE  FormsTypeOK' /\ FormsQueued'
    BY <1>2, <1>3, <2>1, <2>4
  <2>5. QED  BY <1>4, <2>3, <2>4 DEF ServeStatus, Kinds
<1>5. CASE ServeDelete(t) \/ ServeInstall(t)
  <2>1. AtServer(t, {"delete", "install"})  BY <1>5 DEF ServeDelete, ServeInstall, AtServer
  <2>2. ASSUME NEW status \in {"active", "gone"}, Accepts(t, "status", status)
        PROVE  FormsTypeOK' /\ FormsQueued'
    BY <1>2, <2>1, <2>2, FormAccepted DEF Stages
  <2>3. ASSUME NEW kind \in Kinds, Refuses(t, kind)  PROVE  FormsTypeOK' /\ FormsQueued'
    BY <1>2, <1>3, <2>1, <2>3
  <2>4. QED  BY <1>5, <2>2, <2>3 DEF ServeDelete, ServeInstall, Kinds
<1>6. CASE ServeCredential(t)
  <2>1. store.creds \in SUBSET Names  BY <1>1 DEF Stores
  <2>2. CASE AtServer(t, {"add", "rotate", "rename", "inline"})
             /\ Accepts(t, "creds", store.creds \union {Arg(t).name})
    <3>1. Arg(t).name \in Names  BY <1>2, <2>2
    <3>2. QED  BY <1>2, <2>1, <2>2, <3>1, FormAccepted
  <2>3. CASE AtServer(t, {"drop"}) /\ Accepts(t, "creds", store.creds \ {Arg(t).name})
    BY <1>2, <2>1, <2>3, FormAccepted
  <2>4. CASE AtServer(t, {"unname"}) /\ Accepts(t, "creds", store.creds \ {Arg(t).old})
    <3>1. Head(calls[t]).what = "unname" /\ calls[t] # <<>> /\ Arg(t).name # Arg(t).old  BY <1>2, <2>4
    <3>2. NewNameStored(t)  BY DEF FormsQueued
    <3>3. scene = "vault" /\ Cardinality(tabs) = 1 => Arg(t).name \in store.creds \ {Arg(t).old}
      BY <3>1, <3>2 DEF NewNameStored
    <3>4. QED  BY <2>1, <2>4, <3>1, <3>3, FormAccepted
  <2>5. QED  BY <1>6, <2>2, <2>3, <2>4 DEF ServeCredential
<1>7. CASE ServeProvider(t)
  <2>1. CASE AtServer(t, {"reset"}) /\ Accepts(t, "provider", Platform)
    BY <1>2, <2>1, FormAccepted
  <2>2. CASE AtServer(t, {"provider"}) /\ Accepts(t, "provider", Arg(t).name)
    <3>1. Arg(t).name \in Names  BY <1>2, <2>2
    <3>2. QED  BY <1>2, <2>2, <3>1, FormAccepted
  <2>3. CASE AtServer(t, {"provider"}) /\ Refuses(t, "missing")
    BY <1>2, <1>3, <2>3 DEF Kinds
  <2>4. QED  BY <1>7, <2>1, <2>2, <2>3 DEF ServeProvider
<1>8. CASE RefuseSpace(t)
  BY <1>2, <1>3, <1>8 DEF RefuseSpace, Kinds
<1>9. CASE ServeSwitchSpace(t)
  <2>1. AtServer(t, {"switch"}) /\ Accepts(t, "cookie", Arg(t).to)  BY <1>9 DEF ServeSwitchSpace
  <2>2. Arg(t).to \in Spaces  BY <1>2, <2>1
  <2>3. QED  BY <1>2, <2>1, <2>2, FormAccepted
<1>10. ASSUME NEW w \in Spaces, ServeSpace(t, w)  PROVE  FormsTypeOK' /\ FormsQueued'
  <2>1. calls[t] # <<>> /\ Head(calls[t]).what = "space"
    BY <1>2, <1>10 DEF ServeSpace
  <2>2. PICK answer \in Answers : calls' = WithAnswer(t, answer)
    <3>1. [kind |-> "ok", data |-> <<>>] \in Answers /\ Failed \in Answers
      BY DEF Answers, Failed, Kinds
    <3>2. QED  BY <1>10, <3>1 DEF ServeSpace
  <2>3. /\ UNCHANGED <<scene, tabs, shown, form>>
        /\ acked' = [acked EXCEPT ![t] = @ \ {"spaces", "cookie"}]
        /\ \/ /\ store' = [store EXCEPT !.spaces = @ \union {w}, !.cookie = w]
              /\ writer' = [writer EXCEPT !["spaces"] = t, !["cookie"] = t]
           \/ /\ store' = [store EXCEPT !.spaces = @ \union {w}]
              /\ writer' = [writer EXCEPT !["spaces"] = t]
    BY <1>10 DEF ServeSpace
  <2>4. /\ shown \in [Tabs -> Stores] /\ form \in [Tabs -> FormStates] /\ FirstSpace \in store.spaces
        /\ writer \in [Fields -> Tabs \union {SomebodyElse}] /\ acked \in [Tabs -> SUBSET Fields]
    BY DEF FormsTypeOK
  <2>5. /\ store' \in Stores /\ FirstSpace \in store'.spaces
        /\ \A f \in Fields \ {"spaces", "cookie"} : store'[f] = store[f]
        /\ store'.cookie = store.cookie \/ writer' = [writer EXCEPT !["spaces"] = t, !["cookie"] = t]
    <3> DEFINE more == store.spaces \union {w}
    <3>1. more \in SUBSET Spaces /\ FirstSpace \in more  BY <1>1, <2>4 DEF Stores
    <3>2. CASE /\ store' = [store EXCEPT !.spaces = more, !.cookie = w]
               /\ writer' = [writer EXCEPT !["spaces"] = t, !["cookie"] = t]
      <4> HIDE DEF more
      <4>1. QED  BY <1>1, <3>1, <3>2 DEF Stores, Fields
    <3>3. CASE store' = [store EXCEPT !.spaces = more]
      <4> HIDE DEF more
      <4>1. QED  BY <1>1, <3>1, <3>3 DEF Stores, Fields
    <3>4. QED  BY <2>3, <3>2, <3>3
  <2>6. /\ writer' \in [Fields -> Tabs \union {SomebodyElse}] /\ acked' \in [Tabs -> SUBSET Fields]
        /\ \A f \in Fields \ {"spaces", "cookie"} : writer'[f] = writer[f]
    BY <2>3, <2>4 DEF Fields
  <2>7. FormsTypeOK'  BY <2>3, <2>4, <2>5, <2>6 DEF FormsTypeOK
  <2>8. ASSUME NEW u \in Tabs, NEW f \in Fields, writer'[f] = u, f \in acked'[u]
        PROVE  writer[f] = u /\ f \in acked[u] /\ store'[f] = store[f]
    <3>1. CASE f \in {"spaces", "cookie"}
      <4>1. u # t /\ f \in acked[u]  BY <2>3, <2>4, <2>8, <3>1
      <4>2. writer'["spaces"] = t  BY <2>3, <2>4 DEF Fields
      <4>3. f = "cookie" /\ writer' # [writer EXCEPT !["spaces"] = t, !["cookie"] = t]
        BY <2>4, <2>8, <3>1, <4>1, <4>2 DEF Fields
      <4>4. writer'["cookie"] = writer["cookie"]  BY <2>3, <2>4, <4>3 DEF Fields
      <4>5. store'.cookie = store.cookie  BY <2>5, <4>3
      <4>6. QED  BY <2>8, <4>1, <4>3, <4>4, <4>5
    <3>2. CASE f \notin {"spaces", "cookie"}
      BY <2>3, <2>4, <2>5, <2>6, <2>8, <3>2
    <3>3. QED  BY <3>1, <3>2
  <2>9. FormsQueued'  BY <2>1, <2>2, <2>3, <2>8, FormServed
  <2>10. QED  BY <2>7, <2>9
<1>11. QED  BY <1>4, <1>5, <1>6, <1>7, <1>8, <1>9, <1>10 DEF FormsServe

\* A call that did not reach its handler fails.
LEMMA FormsUnreached ==
    ASSUME FormsTypeOK, FormsQueued, NEW t \in Tabs, Unreached(t), UNCHANGED formVars
    PROVE  FormsTypeOK' /\ FormsQueued'
<1>1. Failed \in Answers /\ Failed.kind # "ok"  BY DEF Failed, Answers, Kinds
<1>2. calls[t] # <<>> /\ calls' = WithAnswer(t, Failed) /\ UNCHANGED <<scene, tabs>>  BY DEF Unreached
<1>3. QED  BY <1>1, <1>2, FormRefused

\* The gate writes the status of an agent on its own.
LEMMA FormsPauseStep ==
    ASSUME FormsTypeOK, FormsQueued, PauseAgent PROVE FormsTypeOK' /\ FormsQueued'
<1>1. /\ UNCHANGED <<scene, tabs, calls, shown, form, acked>> /\ scene # "vault"
      /\ store' = [store EXCEPT !.status = "paused"] /\ writer' = [writer EXCEPT !["status"] = SomebodyElse]
  BY DEF PauseAgent, callVars
<1>2. store \in Stores /\ writer \in [Fields -> Tabs \union {SomebodyElse}] /\ FirstSpace \in store.spaces
  BY DEF FormsTypeOK
<1>3. store' \in Stores /\ FirstSpace \in store'.spaces /\ \A f \in Fields \ {"status"} : store'[f] = store[f]
  BY <1>1, <1>2 DEF Stores, Stages, Fields
<1>4. /\ writer' \in [Fields -> Tabs \union {SomebodyElse}] /\ writer'["status"] \notin Tabs
      /\ \A f \in Fields \ {"status"} : writer'[f] = writer[f]
  BY <1>1, <1>2, FormsAssumption DEF Fields
<1>5. FormsTypeOK'  BY <1>1, <1>3, <1>4 DEF FormsTypeOK
<1>6. ASSUME NEW u \in Tabs
      PROVE  (RenameLast(u) /\ DropsCredential(u) /\ NoneStale(u) /\ NewNameStored(u))'
  <2>1. RenameLast(u) /\ DropsCredential(u) /\ NoneStale(u)  BY DEF FormsQueued
  <2>2. RenameLast(u)'  BY <1>1, <2>1 DEF RenameLast
  <2>3. DropsCredential(u)'  BY <1>1, <2>1 DEF DropsCredential
  <2>4. NoneStale(u)'
    <3>1. ASSUME NEW f \in Fields, writer'[f] = u  PROVE  writer[f] = u /\ store'[f] = store[f]
      BY <1>3, <1>4, <3>1
    <3>2. QED  BY <1>1, <2>1, <3>1 DEF NoneStale
  <2>5. NewNameStored(u)'  BY <1>1 DEF NewNameStored
  <2>6. QED  BY <2>2, <2>3, <2>4, <2>5
<1>7. QED
  <2>1. calls' \in [Tabs -> Seq(FormCalls)] /\ IsFiniteSet(tabs')  BY <1>1 DEF FormsQueued
  <2>2. QED  BY <1>5, <1>6, <2>1 DEF FormsQueued

\* A call is handled and nothing follows it: the tab then shows whatever it was
\* told it wrote.
LEMMA FormReceived ==
    ASSUME FormsQueued, NEW t \in Tabs, calls[t] # <<>>, Received(t), UNCHANGED <<store, writer>>,
           \A u \in Tabs : u # t => shown'[u] = shown[u] /\ form'[u] = form[u] /\ acked'[u] = acked[u],
           form'[t].dialog \in {form[t].dialog, Nothing},
           \A f \in Fields : writer[f] = t /\ f \in acked'[t] => shown'[t][f] = store[f]
    PROVE  FormsQueued'
<1> DEFINE q == calls[t]
<1>1. calls \in [Tabs -> Seq(FormCalls)] /\ q \in Seq(FormCalls) /\ IsFiniteSet(tabs)  BY DEF FormsQueued
<1>2. UNCHANGED <<scene, tabs>> /\ calls' = [calls EXCEPT ![t] = Tail(q)]  BY DEF Received
<1>3. PICK p : p = Tail(q)  OBVIOUS
<1>4. /\ p \in Seq(FormCalls) /\ Len(q) \in Nat \ {0} /\ Len(p) = Len(q) - 1
      /\ \A i \in 1..Len(p) : p[i] = q[i + 1] /\ i + 1 \in 1..Len(q) /\ i + 1 > 1
      /\ p # <<>> => Head(p) = q[2] /\ 2 \in 1..Len(q)
  BY <1>1, <1>3
<1>5. calls' \in [Tabs -> Seq(FormCalls)] /\ calls'[t] = p /\ \A u \in Tabs : u # t => calls'[u] = calls[u]
  BY <1>1, <1>2, <1>3, <1>4
<1>6. ASSUME NEW u \in Tabs
      PROVE  (RenameLast(u) /\ DropsCredential(u) /\ NoneStale(u) /\ NewNameStored(u))'
  <2>1. RenameLast(u) /\ DropsCredential(u) /\ NoneStale(u) /\ NewNameStored(u)  BY DEF FormsQueued
  <2>2. CASE u # t
    <3>1. RenameLast(u)'  BY <1>2, <1>5, <2>1, <2>2 DEF RenameLast
    <3>2. DropsCredential(u)'  BY <1>2, <2>1, <2>2 DEF DropsCredential
    <3>3. NoneStale(u)'  BY <1>5, <2>1, <2>2 DEF NoneStale
    <3>4. NewNameStored(u)'  BY <1>2, <1>5, <2>1, <2>2 DEF NewNameStored, Arg, Answer
    <3>5. QED  BY <3>1, <3>2, <3>3, <3>4
  <2>3. CASE u = t
    <3>1. ASSUME NEW i \in 1..Len(p)
          PROVE  /\ p[i].answer = Waiting /\ p[i].what # "unname"
                 /\ p[i].what \in Renaming => scene = "vault" /\ i = Len(p) /\ form[t].dialog = Nothing
      <4>1. PICK j : j = i + 1  OBVIOUS
      <4>2. p[i] = q[j] /\ j \in 1..Len(q) /\ j > 1 /\ j # 1 /\ (j = Len(q) => i = Len(p))
        BY <1>4, <4>1
      <4>3. QED  BY <2>1, <2>3, <4>2 DEF RenameLast
    <3>2. RenameLast(u)'  BY <1>2, <1>4, <1>5, <2>1, <2>3, <3>1 DEF RenameLast
    <3>3. DropsCredential(u)'  BY <1>2, <2>1, <2>3 DEF DropsCredential
    <3>4. NoneStale(u)'  BY <2>3 DEF NoneStale
    <3>5. p # <<>> => Head(p).answer = Waiting /\ Head(p).what # "unname"
      <4>1. p # <<>> => Len(p) \in Nat \ {0} /\ Head(p) = p[1]  BY <1>4
      <4>2. QED  BY <3>1, <4>1
    <3>6. NewNameStored(u)'
      <4>1. Waiting.kind # "ok"  BY DEF Waiting
      <4>2. QED  BY <1>5, <2>3, <3>5, <4>1 DEF NewNameStored, Renaming, Answer
    <3>7. QED  BY <3>2, <3>3, <3>4, <3>6
  <2>4. QED  BY <2>2, <2>3
<1>7. QED
  <2>1. IsFiniteSet(tabs')  BY <1>1, <1>2
  <2>2. QED  BY <1>5, <1>6, <2>1 DEF FormsQueued

\* A rename that was stored is followed by the deletion of the old name.
LEMMA FormRenamed ==
    ASSUME FormsQueued, NEW t \in Tabs, calls[t] # <<>>, Head(calls[t]).what = "rename", Ok(t),
           ReceivedThen(t, Call("unname", Arg(t))), UNCHANGED <<store, writer, shown, form>>,
           \A u \in Tabs : u # t => acked'[u] = acked[u]
    PROVE  FormsQueued'
<1> DEFINE q == calls[t]
<1>1. calls \in [Tabs -> Seq(FormCalls)] /\ q \in Seq(FormCalls) /\ IsFiniteSet(tabs)  BY DEF FormsQueued
<1>2. RenameLast(t) /\ DropsCredential(t) /\ NewNameStored(t)  BY DEF FormsQueued
<1>3. PICK c, d : c = Head(q) /\ d = Call("unname", c.arg)  OBVIOUS
<1>4. c \in FormCalls /\ c.what = "rename"  BY <1>1, <1>3
<1>5. d \in FormCalls /\ d.what = "unname" /\ d.arg = c.arg
  <2>1. c.arg \in RenamingArgs
    <3>1. [what |-> c.what, arg |-> c.arg] \in Asks  BY <1>4, FormCallParts
    <3>2. QED  BY <1>4, <3>1 DEF Asks
  <2>2. [what |-> "unname", arg |-> c.arg] \in Asks  BY <2>1 DEF Asks
  <2>3. QED  BY <1>3, <2>2, FormCallAsked
<1>6. Len(q) = 1 /\ scene = "vault" /\ form[t].dialog = Nothing /\ t \in tabs
  <2>1. Len(q) \in Nat \ {0} /\ q[1] = c /\ 1 \in 1..Len(q)  BY <1>1, <1>3
  <2>2. QED  BY <1>2, <1>4, <2>1 DEF RenameLast, Renaming
<1>7. UNCHANGED <<scene, tabs>> /\ calls' = [calls EXCEPT ![t] = Append(Tail(q), d)]
  BY <1>3 DEF ReceivedThen, Arg
<1>8. PICK p : p = Append(Tail(q), d)  OBVIOUS
<1>9. p \in Seq(FormCalls) /\ Len(p) = 1 /\ p # <<>> /\ p[1] = d /\ Head(p) = d
  <2>1. PICK r : r = Tail(q)  OBVIOUS
  <2>2. r \in Seq(FormCalls) /\ Len(r) = 0  BY <1>1, <1>6, <2>1
  <2>3. p = Append(r, d)  BY <1>8, <2>1
  <2>4. QED  BY <1>5, <2>2, <2>3
<1>10. calls' \in [Tabs -> Seq(FormCalls)] /\ calls'[t] = p /\ \A u \in Tabs : u # t => calls'[u] = calls[u]
  BY <1>1, <1>7, <1>8, <1>9
<1>11. ASSUME NEW u \in Tabs
       PROVE  (RenameLast(u) /\ DropsCredential(u) /\ NoneStale(u) /\ NewNameStored(u))'
  <2>1. RenameLast(u) /\ DropsCredential(u) /\ NoneStale(u) /\ NewNameStored(u)  BY DEF FormsQueued
  <2>2. CASE u # t
    <3>1. RenameLast(u)'  BY <1>7, <1>10, <2>1, <2>2 DEF RenameLast
    <3>2. DropsCredential(u)'  BY <1>7, <2>1, <2>2 DEF DropsCredential
    <3>3. NoneStale(u)'  BY <1>10, <2>1, <2>2 DEF NoneStale
    <3>4. NewNameStored(u)'  BY <1>7, <1>10, <2>1, <2>2 DEF NewNameStored, Arg, Answer
    <3>5. QED  BY <3>1, <3>2, <3>3, <3>4
  <2>3. CASE u = t
    <3>1. RenameLast(u)'  BY <1>6, <1>7, <1>9, <1>10, <2>3 DEF RenameLast
    <3>2. DropsCredential(u)'  BY <1>7, <2>1, <2>3 DEF DropsCredential
    <3>3. NoneStale(u)'  BY <1>5, <1>9, <1>10, <2>3 DEF NoneStale
    <3>4. NewNameStored(u)'
      <4>1. scene = "vault" /\ Cardinality(tabs) = 1 => c.arg.name \in store.creds
        BY <1>2, <1>3, <1>4 DEF NewNameStored, Renaming, Ok, Arg, Answer
      <4>2. Head(calls'[t]).arg = c.arg  BY <1>5, <1>9, <1>10
      <4>3. QED  BY <1>7, <2>3, <4>1, <4>2 DEF NewNameStored, Arg
    <3>5. QED  BY <3>1, <3>2, <3>3, <3>4
  <2>4. QED  BY <2>2, <2>3
<1>12. QED
  <2>1. IsFiniteSet(tabs')  BY <1>1, <1>7
  <2>2. QED  BY <1>10, <1>11, <2>1 DEF FormsQueued

\* A tab handles an answer.
LEMMA FormsReceiveStep ==
    ASSUME FormsTypeOK, FormsQueued, NEW t \in Tabs, FormsReceive(t)
    PROVE  FormsTypeOK' /\ FormsQueued'
<1> DEFINE c == Head(calls[t])
<1>1. /\ store \in Stores /\ shown \in [Tabs -> Stores] /\ form \in [Tabs -> FormStates]
      /\ writer \in [Fields -> Tabs \union {SomebodyElse}] /\ acked \in [Tabs -> SUBSET Fields]
      /\ FirstSpace \in store.spaces
  BY DEF FormsTypeOK
<1>2. RenameLast(t) /\ NoneStale(t) /\ NewNameStored(t) /\ calls[t] \in Seq(FormCalls)  BY DEF FormsQueued
<1>3. /\ UNCHANGED <<store, writer>> /\ Acknowledged(t) /\ calls[t] # <<>>
      /\ c.what \in Refreshing \union Renaming \union {"delete", "install"}
  BY DEF FormsReceive, ReceiveForm, ReceiveRename, ReceiveUnname, ReceiveMove, Answered, Renaming
<1>4. /\ FieldOf(c.what) \subseteq Fields
      /\ acked' = [acked EXCEPT ![t] = IF Ok(t) THEN acked[t] \union FieldOf(c.what) ELSE acked[t]]
  <2>1. FieldOf(c.what) \subseteq Fields  BY <1>3 DEF FieldOf, Fields, Refreshing, Renaming
  <2>2. QED  BY <1>3, <2>1 DEF Acknowledged
<1>5. /\ acked' \in [Tabs -> SUBSET Fields] /\ \A u \in Tabs : u # t => acked'[u] = acked[u]
      /\ ~Ok(t) => acked'[t] = acked[t]
  BY <1>1, <1>4
<1>6. c \in FormCalls /\ (c.what = "inline" => c.arg.name \in Names)
  <2>1. PICK d : d = c  OBVIOUS
  <2>2. c \in FormCalls  BY <1>2, <1>3
  <2>3. QED  BY <2>1, <2>2, FormCallParts
<1>7. AtAfter(t) \in {"left", "page"}  BY DEF AtAfter
<1>8. ASSUME Refresh(t)
      PROVE  /\ shown' \in [Tabs -> Stores] /\ shown'[t] = store
             /\ \A u \in Tabs : u # t => shown'[u] = shown[u]
  BY <1>1, <1>8 DEF Refresh
<1>9. ASSUME shown' \in [Tabs -> Stores], form' \in [Tabs -> FormStates]  PROVE  FormsTypeOK'
  BY <1>1, <1>3, <1>5, <1>9 DEF FormsTypeOK
<1>10. ASSUME Received(t), NEW at \in {"page", "left"}, NEW dialog \in {form[t].dialog, Nothing},
              NEW ref \in Names \union {Nothing},
              form' = [form EXCEPT ![t] = [@ EXCEPT !.at = at, !.dialog = dialog, !.ref = ref]], Refresh(t)
       PROVE  FormsTypeOK' /\ FormsQueued'
  <2>1. /\ form' \in [Tabs -> FormStates] /\ form'[t].dialog = dialog
        /\ \A u \in Tabs : u # t => form'[u] = form[u]
    BY <1>1, <1>10 DEF FormStates
  <2>2. FormsTypeOK'  BY <1>8, <1>9, <1>10, <2>1
  <2>3. FormsQueued'
    BY <1>3, <1>5, <1>8, <1>10, <2>1, FormReceived
  <2>4. QED  BY <2>2, <2>3
<1>11. ASSUME Received(t), UNCHANGED <<shown, form>>, ~Ok(t), c.what # "unname"
       PROVE  FormsTypeOK' /\ FormsQueued'
  <2>1. FormsTypeOK'  BY <1>1, <1>9, <1>11
  <2>2. \A f \in Fields : writer[f] = t /\ f \in acked'[t] => shown'[t][f] = store[f]
    BY <1>2, <1>5, <1>11 DEF NoneStale
  <2>3. FormsQueued'  BY <1>3, <1>5, <1>11, <2>2, FormReceived
  <2>4. QED  BY <2>1, <2>3
<1>12. CASE ReceiveForm(t)
  <2>1. Received(t) /\ c.what # "unname"  BY <1>12 DEF ReceiveForm, Answered, Refreshing
  <2>2. CASE Refreshes(t)
    <3>1. Refresh(t) /\ form' = [form EXCEPT ![t] = AfterAnswer(t)]  BY <1>12, <2>2 DEF ReceiveForm
    <3>2. PICK dialog, ref : /\ dialog = IF c.what \in {"status", "drop"} THEN Nothing ELSE form[t].dialog
                             /\ ref = IF c.what = "inline" THEN Arg(t).name ELSE form[t].ref
      OBVIOUS
    <3>3. ref \in Names \union {Nothing}  BY <1>1, <1>6, <3>2 DEF Arg, FormStates
    <3>4. AfterAnswer(t) = [form[t] EXCEPT !.at = AtAfter(t), !.dialog = dialog, !.ref = ref]
      BY <3>2 DEF AfterAnswer
    <3>5. form' = [form EXCEPT ![t] = [@ EXCEPT !.at = AtAfter(t), !.dialog = dialog, !.ref = ref]]
      BY <3>1, <3>4
    <3>6. QED  BY <1>7, <1>10, <2>1, <3>1, <3>2, <3>3, <3>5
  <2>3. CASE ~Refreshes(t)
    BY <1>11, <1>12, <2>1, <2>3 DEF ReceiveForm, Refreshes
  <2>4. QED  BY <2>2, <2>3
<1>13. CASE ReceiveUnname(t)
  <2>1. Received(t) /\ Refresh(t) /\ UNCHANGED form  BY <1>13 DEF ReceiveUnname
  <2>2. FormsTypeOK'  BY <1>1, <1>8, <1>9, <2>1
  <2>3. FormsQueued'  BY <1>3, <1>5, <1>8, <2>1, FormReceived
  <2>4. QED  BY <2>2, <2>3
<1>14. CASE ReceiveMove(t)
  <2>1. Received(t) /\ c.what # "unname"  BY <1>14 DEF ReceiveMove, Answered
  <2>2. CASE Ok(t)
    <3>1. PICK at : at = IF c.what = "delete" THEN "left" ELSE "page"  OBVIOUS
    <3>2. Refresh(t) /\ form' = [form EXCEPT ![t].at = at]  BY <1>14, <2>2, <3>1 DEF ReceiveMove
    <3>3. form[t].ref \in Names \union {Nothing} /\ form[t] \in FormStates  BY <1>1 DEF FormStates
    <3>4. /\ form' \in [Tabs -> FormStates] /\ form'[t].dialog = form[t].dialog
          /\ \A u \in Tabs : u # t => form'[u] = form[u]
      BY <1>1, <3>1, <3>2 DEF FormStates
    <3>5. FormsTypeOK'  BY <1>8, <1>9, <3>2, <3>4
    <3>6. FormsQueued'  BY <1>3, <1>5, <1>8, <2>1, <3>2, <3>4, FormReceived
    <3>7. QED  BY <3>5, <3>6
  <2>3. CASE ~Ok(t)
    BY <1>11, <1>14, <2>1, <2>3 DEF ReceiveMove
  <2>4. QED  BY <2>2, <2>3
<1>15. CASE ReceiveRename(t)
  <2>1. c.what = "rename" /\ UNCHANGED <<shown, form>>  BY <1>15 DEF ReceiveRename, Answered
  <2>2. CASE ~Ok(t)
    <3>1. Received(t)  BY <1>15, <2>2 DEF ReceiveRename, DropsOld
    <3>2. QED  BY <1>11, <2>1, <2>2, <3>1
  <2>3. CASE Ok(t)
    <3>1. ReceivedThen(t, Call("unname", Arg(t)))  BY <1>15, <2>1, <2>3 DEF ReceiveRename, DropsOld
    <3>2. FormsTypeOK'  BY <1>1, <1>9, <2>1
    <3>3. FormsQueued'  BY <1>3, <1>5, <2>1, <2>3, <3>1, FormRenamed
    <3>4. QED  BY <3>2, <3>3
  <2>4. QED  BY <2>2, <2>3
<1>16. QED  BY <1>12, <1>13, <1>14, <1>15 DEF FormsReceive

(***************************************************************************)
(* Sorted lists.                                                           *)
(***************************************************************************)
\* A finite set with a strict order can be listed in that order: an element
\* stands at the place that counts those which do not come after it.
LEMMA SomeListIsSorted ==
    ASSUME NEW S, IsFiniteSet(S), NEW R \in SUBSET (S \X S),
           \A x \in S : <<x, x>> \notin R,
           \A x, y \in S : x = y \/ <<x, y>> \in R \/ <<y, x>> \in R,
           \A x, y, z \in S : <<x, y>> \in R /\ <<y, z>> \in R => <<x, z>> \in R
    PROVE  \E s \in [1..Cardinality(S) -> S] : \A i, j \in 1..Cardinality(S) : i < j => <<s[i], s[j]>> \in R
<1> DEFINE upTo(x) == {y \in S : y = x \/ <<y, x>> \in R}
           place   == [x \in S |-> Cardinality(upTo(x))]
           n       == Cardinality(S)
<1>1. n \in Nat /\ IsFiniteSet(1..n) /\ Cardinality(1..n) = n
  <2>1. n \in Nat  BY FS_CardinalityType
  <2> HIDE DEF n
  <2>2. QED  BY <2>1, FS_Interval
<1>2. ASSUME NEW x \in S
      PROVE  IsFiniteSet(upTo(x)) /\ Cardinality(upTo(x)) \in 1..n /\ Cardinality(upTo(x)) \in Nat
  <2>1. upTo(x) \in SUBSET S /\ x \in upTo(x)  OBVIOUS
  <2> HIDE DEF upTo
  <2>2. IsFiniteSet(upTo(x)) /\ Cardinality(upTo(x)) <= n /\ Cardinality(upTo(x)) \in Nat
    BY <2>1, FS_Subset, FS_CardinalityType
  <2>3. Cardinality(upTo(x)) # 0  BY <2>1, <2>2, FS_EmptySet
  <2> HIDE DEF n
  <2>4. QED  BY <1>1, <2>2, <2>3
<1>3. ASSUME NEW x \in S, NEW y \in S, <<x, y>> \in R
      PROVE  Cardinality(upTo(x)) < Cardinality(upTo(y))
  <2>1. upTo(x) \in SUBSET upTo(y) /\ y \in upTo(y) /\ y \notin upTo(x)  BY <1>3
  <2> HIDE DEF upTo, n
  <2>2. IsFiniteSet(upTo(y)) /\ Cardinality(upTo(y)) \in Nat /\ Cardinality(upTo(x)) \in Nat  BY <1>2
  <2>3. QED  BY <2>1, <2>2, FS_Subset
<1>4. place \in [S -> 1..n] /\ \A x \in S : place[x] = Cardinality(upTo(x))  BY <1>2
<1> HIDE DEF upTo, place, n
<1>5. ASSUME NEW x \in S, NEW y \in S, <<x, y>> \in R  PROVE  place[x] < place[y]
  BY <1>3, <1>4, <1>5
<1>6. ASSUME NEW x \in S, NEW y \in S, x # y  PROVE  place[x] # place[y]
  <2>1. place[x] \in Int /\ place[y] \in Int  BY <1>1, <1>4
  <2>2. place[x] < place[y] \/ place[y] < place[x]  BY <1>5, <1>6
  <2>3. QED  BY <2>1, <2>2
<1>7. place \in Injection(S, 1..n)  BY <1>4, <1>6 DEF Injection, IsInjective
<1>8. place \in Surjection(S, 1..n)  BY <1>1, <1>7, FS_Injection DEF n
<1>9. \A k \in 1..n : \E x \in S : place[x] = k  BY <1>8 DEF Surjection
<1> DEFINE s == [k \in 1..n |-> CHOOSE x \in S : place[x] = k]
<1>10. s \in [1..n -> S] /\ \A k \in 1..n : s[k] \in S /\ place[s[k]] = k  BY <1>9
<1> HIDE DEF s
<1>11. ASSUME NEW i \in 1..n, NEW j \in 1..n, i < j  PROVE  <<s[i], s[j]>> \in R
  <2>1. place[s[i]] = i /\ place[s[j]] = j /\ s[i] \in S /\ s[j] \in S  BY <1>10
  <2>2. ~(place[s[j]] < place[s[i]]) /\ s[i] # s[j]  BY <1>1, <1>11, <2>1
  <2>3. QED  BY <1>5, <2>1, <2>2
<1>12. QED  BY <1>10, <1>11 DEF n

\* So the list of ids that is chosen is one that is sorted.
LEMMA OrderedIsSorted ==
    ASSUME NEW ids \in SUBSET Int, IsFiniteSet(ids), NEW oldest \in BOOLEAN, NEW s, s = Ordered(ids, oldest)
    PROVE  /\ s \in [1..Cardinality(ids) -> ids] /\ Cardinality(ids) \in Nat
           /\ \A i, j \in 1..Cardinality(ids) : i < j => IF oldest THEN s[i] < s[j] ELSE s[i] > s[j]
<1>1. Cardinality(ids) \in Nat  BY FS_CardinalityType
<1>2. CASE oldest
  <2>1. \E r \in [1..Cardinality(ids) -> ids] :
            \A i, j \in 1..Cardinality(ids) : i < j => <<r[i], r[j]>> \in {p \in ids \X ids : p[1] < p[2]}
    <3>1. PICK R : R = {p \in ids \X ids : p[1] < p[2]}  OBVIOUS
    <3>2. \A x, y \in ids : <<x, y>> \in R <=> x < y  BY <3>1
    <3>3. /\ R \in SUBSET (ids \X ids) /\ \A x \in ids : <<x, x>> \notin R
          /\ \A x, y \in ids : x = y \/ <<x, y>> \in R \/ <<y, x>> \in R
          /\ \A x, y, z \in ids : <<x, y>> \in R /\ <<y, z>> \in R => <<x, z>> \in R
      BY <3>1, <3>2
    <3>4. QED  BY <3>1, <3>3, SomeListIsSorted
  <2>2. \E r \in [1..Cardinality(ids) -> ids] : \A i, j \in 1..Cardinality(ids) : i < j => r[i] < r[j]
    BY <2>1
  <2>3. QED  BY <1>1, <1>2, <2>2 DEF Ordered
<1>3. CASE ~oldest
  <2>1. \E r \in [1..Cardinality(ids) -> ids] :
            \A i, j \in 1..Cardinality(ids) : i < j => <<r[i], r[j]>> \in {p \in ids \X ids : p[1] > p[2]}
    <3>1. PICK R : R = {p \in ids \X ids : p[1] > p[2]}  OBVIOUS
    <3>2. \A x, y \in ids : <<x, y>> \in R <=> x > y  BY <3>1
    <3>3. /\ R \in SUBSET (ids \X ids) /\ \A x \in ids : <<x, x>> \notin R
          /\ \A x, y \in ids : x = y \/ <<x, y>> \in R \/ <<y, x>> \in R
          /\ \A x, y, z \in ids : <<x, y>> \in R /\ <<y, z>> \in R => <<x, z>> \in R
      BY <3>1, <3>2
    <3>4. QED  BY <3>1, <3>3, SomeListIsSorted
  <2>2. \E r \in [1..Cardinality(ids) -> ids] : \A i, j \in 1..Cardinality(ids) : i < j => r[i] > r[j]
    BY <2>1
  <2>3. QED  BY <1>1, <1>3, <2>2 DEF Ordered
<1>4. QED  BY <1>2, <1>3

(***************************************************************************)
(* The tables: what their calls are about, and what a tab's state and its  *)
(* queue keep of the rows.                                                 *)
(***************************************************************************)
ItemStates == [status : Statuses \union {"unborn", "deleted"}, name : Tabs \union {Nobody}]
TableRows == [id : Items, status : Statuses]
Pages     == [rows : Seq(TableRows), total : 0..MaxItems, page : Nat \ {0}]
Unmet     == [kind : Kinds \ {"ok"}, data : {<<>>}]
LoadCalls == [what : {"load"}, arg : [page : Nat \ {0}, retried : BOOLEAN, quiet : BOOLEAN], live : {TRUE},
              answer : Unmet \union [kind : {"ok"}, data : Pages]]
MintCalls == [what : {"mint"}, arg : {<<>>}, live : {TRUE},
              answer : Unmet \union [kind : {"ok"}, data : [id : Items]]]
EventCalls == [what : {"events"}, arg : [runner : Items], live : {TRUE},
               answer : Unmet \union [kind : {"ok"}, data : {<<>>}]]
ActCalls  == [what : {"act"}, arg : [target : [id : Items, action : Actions], page : Nat \ {0}], live : {TRUE},
              answer : Unmet \union [kind : {"ok"}, data : {<<>>}]]
TableCalls == LoadCalls \union MintCalls \union EventCalls \union ActCalls

\* An item that is revoked stays revoked, or is deleted.
Ended(i) == item[i].status \in {"revoked", "deleted"}
Has(rows, i, status) == \E n \in DOMAIN rows : rows[n].id = i /\ rows[n].status = status

\* The rows of one item agree, and what they show as revoked has ended.
RowsFine(rows) ==
    /\ \A m, n \in DOMAIN rows : rows[m].id = rows[n].id => rows[m].status = rows[n].status
    /\ \A n \in DOMAIN rows : rows[n].status = "revoked" => Ended(rows[n].id)

\* What a confirmation may be about.
Confirmable == IF scene = "keys" THEN {"revoke", "delete"} ELSE Actions \ {"delete"}

\* A confirmation is about an item; the panel is about its runner, and no secret
\* is lost.
StateFine(s) ==
    /\ RowsFine(s.rows)
    /\ s.target = NoTarget \/ (s.target.id \in Items /\ s.target.action \in Confirmable)
    /\ {s.data, s.error} \subseteq {NoItem, s.runner}
    /\ s.heard \subseteq s.seen \union {s.created}

\* Only the first call is answered, and one call at most mints.
QueueFine(q) ==
    \A i \in 1..Len(q) :
        /\ i > 1 => q[i].answer.kind = "waiting"
        /\ q[i].what = "act" => q[i].arg.target.action \in Confirmable
        /\ q[i].what = "mint" => \A j \in 1..Len(q) : q[j].what = "mint" => i = j

\* What the answer c brings is no older than what the rows show: no row comes back
\* from revoked, and a runner is changed only if it does not show as revoked.
AnswerFine(rows, c) ==
    c.answer.kind = "ok" =>
        /\ c.what = "load" =>
             /\ RowsFine(c.answer.data.rows)
             /\ \A n \in DOMAIN c.answer.data.rows :
                    Has(rows, c.answer.data.rows[n].id, "revoked") => c.answer.data.rows[n].status = "revoked"
        /\ c.what = "act" /\ scene = "runners" =>
             IF c.arg.target.action = "revoke" THEN Ended(c.arg.target.id)
             ELSE ~Has(rows, c.arg.target.id, "revoked")

\* A secret is on its way only while none is on the screen.
Fits(s, q) ==
    /\ \A i \in 1..Len(q) : q[i].what = "mint" => s.created = NoItem
    /\ q # <<>> => AnswerFine(s.rows, Head(q))

\* What the calls of a table are about; nothing deletes a runner.
TablesQueued ==
    /\ calls \in [Tabs -> Seq(TableCalls)]
    /\ \A t \in Tabs : QueueFine(calls[t]) /\ Fits(table[t], calls[t])
    /\ scene = "runners" => \A i \in Items : item[i].status # "deleted"

TablesFine == TablesTypeOK /\ \A t \in Tabs : StateFine(table[t])
TablesInv  == TablesFine /\ (scene \in Tables => TablesQueued)

\* What a step leaves of the rows: what has ended has, and no runner is deleted.
ItemsGoOn ==
    /\ item' \in [Items -> ItemStates]
    /\ \A i \in Items : Ended(i) => Ended(i)'
    /\ scene' = "runners" => \A i \in Items : item'[i].status # "deleted"

\* A call for a table that waits.
LEMMA TableCallAsked ==
    ASSUME NEW what, NEW arg,
           \/ what = "load" /\ arg \in [page : Nat \ {0}, retried : BOOLEAN, quiet : BOOLEAN]
           \/ what = "mint" /\ arg = <<>>
           \/ what = "events" /\ arg \in [runner : Items]
           \/ what = "act" /\ arg \in [target : [id : Items, action : Actions], page : Nat \ {0}]
    PROVE  /\ Call(what, arg) \in TableCalls /\ Call(what, arg).what = what /\ Call(what, arg).arg = arg
           /\ Call(what, arg).answer.kind = "waiting"
BY DEF Call, Waiting, TableCalls, LoadCalls, MintCalls, EventCalls, ActCalls, Unmet, Kinds

\* What a call for a table is about depends on its kind, and so does its answer.
LEMMA TableCallParts ==
    ASSUME NEW c \in TableCalls
    PROVE  /\ c = [what |-> c.what, arg |-> c.arg, live |-> TRUE, answer |-> c.answer]
           /\ c.answer.kind \in Kinds
           /\ c.what = "load" => /\ c.arg.page \in Nat \ {0}
                                 /\ c.answer.kind = "ok" => c.answer.data \in Pages
           /\ c.what = "mint" /\ c.answer.kind = "ok" => c.answer.data.id \in Items
           /\ c.what = "events" => c.arg.runner \in Items
           /\ c.what = "act" => /\ c.arg.target \in [id : Items, action : Actions]
                                /\ c.arg.page \in Nat \ {0}
BY DEF TableCalls, LoadCalls, MintCalls, EventCalls, ActCalls, Unmet, Kinds

\* What a call of a kind may be answered.
Answering(what, answer) ==
    \/ answer \in Unmet
    \/ /\ answer = [kind |-> "ok", data |-> answer.data]
       /\ what = "load" => answer.data \in Pages
       /\ what = "mint" => answer.data \in [id : Items]
       /\ what \in {"events", "act"} => answer.data = <<>>

\* A call that is answered with what its kind allows.
LEMMA TableCallAnswered ==
    ASSUME NEW c \in TableCalls, NEW answer, Answering(c.what, answer)
    PROVE  /\ [c EXCEPT !.answer = answer] \in TableCalls /\ [c EXCEPT !.answer = answer].what = c.what
           /\ [c EXCEPT !.answer = answer].arg = c.arg /\ [c EXCEPT !.answer = answer].answer = answer
<1>1. PICK l : l = TRUE  OBVIOUS
<1>2. c = [what |-> c.what, arg |-> c.arg, live |-> l, answer |-> c.answer]  BY <1>1, TableCallParts
<1>3. PICK d : d = [what |-> c.what, arg |-> c.arg, live |-> l, answer |-> answer]  OBVIOUS
<1>4. [c EXCEPT !.answer = answer] = d  BY <1>2, <1>3
<1>5. d \in TableCalls
  <2>1. CASE c.what = "load"
    <3>1. c.arg \in [page : Nat \ {0}, retried : BOOLEAN, quiet : BOOLEAN]
      BY <2>1 DEF TableCalls, LoadCalls, MintCalls, EventCalls, ActCalls
    <3>2. answer \in Unmet \union [kind : {"ok"}, data : Pages]  BY <2>1 DEF Answering
    <3>3. d \in LoadCalls  BY <1>1, <1>3, <2>1, <3>1, <3>2 DEF LoadCalls
    <3>4. QED  BY <3>3 DEF TableCalls
  <2>2. CASE c.what = "mint"
    <3>1. c.arg = <<>>  BY <2>2 DEF TableCalls, LoadCalls, MintCalls, EventCalls, ActCalls
    <3>2. answer \in Unmet \union [kind : {"ok"}, data : [id : Items]]  BY <2>2 DEF Answering
    <3>3. d \in MintCalls  BY <1>1, <1>3, <2>2, <3>1, <3>2 DEF MintCalls
    <3>4. QED  BY <3>3 DEF TableCalls
  <2>3. CASE c.what = "events"
    <3>1. c.arg \in [runner : Items]  BY <2>3 DEF TableCalls, LoadCalls, MintCalls, EventCalls, ActCalls
    <3>2. answer \in Unmet \union [kind : {"ok"}, data : {<<>>}]  BY <2>3 DEF Answering
    <3>3. d \in EventCalls  BY <1>1, <1>3, <2>3, <3>1, <3>2 DEF EventCalls
    <3>4. QED  BY <3>3 DEF TableCalls
  <2>4. CASE c.what = "act"
    <3>1. c.arg \in [target : [id : Items, action : Actions], page : Nat \ {0}]
      BY <2>4 DEF TableCalls, LoadCalls, MintCalls, EventCalls, ActCalls
    <3>2. answer \in Unmet \union [kind : {"ok"}, data : {<<>>}]  BY <2>4 DEF Answering
    <3>3. d \in ActCalls  BY <1>1, <1>3, <2>4, <3>1, <3>2 DEF ActCalls
    <3>4. QED  BY <3>3 DEF TableCalls
  <2>5. QED
    <3>1. c.what \in {"load", "mint", "events", "act"}
      BY DEF TableCalls, LoadCalls, MintCalls, EventCalls, ActCalls
    <3>2. QED  BY <2>1, <2>2, <2>3, <2>4, <3>1
<1>6. QED  BY <1>3, <1>4, <1>5

\* The rows keep their sense while items go on.
LEMMA RowsGoOn ==
    ASSUME ItemsGoOn, NEW rows \in Seq(TableRows), RowsFine(rows)
    PROVE  RowsFine(rows)'
<1>1. \A n \in DOMAIN rows : rows[n] \in TableRows  OBVIOUS
<1>2. \A n \in DOMAIN rows : rows[n].id \in Items  BY <1>1 DEF TableRows
<1>3. QED  BY <1>2 DEF RowsFine, ItemsGoOn

\* So does the answer that a tab is about to handle.
LEMMA AnswerGoesOn ==
    ASSUME ItemsGoOn, UNCHANGED scene, NEW rows, NEW c \in TableCalls, AnswerFine(rows, c)
    PROVE  AnswerFine(rows, c)'
<1>1. SUFFICES ASSUME c.answer.kind = "ok"  PROVE  AnswerFine(rows, c)'
  BY DEF AnswerFine
<1>2. ASSUME c.what = "load"
      PROVE  /\ RowsFine(c.answer.data.rows)'
             /\ \A n \in DOMAIN c.answer.data.rows :
                    Has(rows, c.answer.data.rows[n].id, "revoked") => c.answer.data.rows[n].status = "revoked"
  <2>1. c.answer.data \in Pages  BY <1>1, <1>2, TableCallParts
  <2>2. c.answer.data.rows \in Seq(TableRows)  BY <2>1 DEF Pages
  <2>3. QED  BY <1>1, <1>2, <2>2, RowsGoOn DEF AnswerFine
<1>3. ASSUME c.what = "act", scene = "runners"
      PROVE  IF c.arg.target.action = "revoke" THEN Ended(c.arg.target.id)'
             ELSE ~Has(rows, c.arg.target.id, "revoked")
  <2>1. c.arg.target.id \in Items  BY <1>3, TableCallParts
  <2>2. QED  BY <1>1, <1>3, <2>1 DEF AnswerFine, ItemsGoOn
<1>4. QED  BY <1>2, <1>3 DEF AnswerFine, Has

\* What a tab keeps while another one acts.
LEMMA TabGoesOn ==
    ASSUME ItemsGoOn, UNCHANGED scene, NEW s \in TableStates, StateFine(s)
    PROVE  StateFine(s)'
<1>1. s.rows \in Seq(TableRows)  BY DEF TableStates, TableRows
<1>2. QED  BY <1>1, RowsGoOn DEF StateFine, Confirmable

\* So does an answer on its way to a tab.
LEMMA FitsGoesOn ==
    ASSUME ItemsGoOn, UNCHANGED scene, NEW s, NEW q \in Seq(TableCalls), Fits(s, q)
    PROVE  Fits(s, q)'
<1>1. SUFFICES ASSUME q # <<>>  PROVE  AnswerFine(s.rows, Head(q))'
  BY DEF Fits
<1>2. PICK c : c = Head(q)  OBVIOUS
<1>3. c \in TableCalls /\ AnswerFine(s.rows, c)  BY <1>1, <1>2 DEF Fits
<1>4. QED  BY <1>2, <1>3, AnswerGoesOn

\* One tab acts: what it shows and asks then is fine, and the others keep theirs.
LEMMA TabActs ==
    ASSUME TablesFine, TablesQueued, ItemsGoOn, UNCHANGED <<scene, drift>>, NEW t \in Tabs,
           NEW s \in TableStates, NEW p \in Seq(TableCalls),
           table' = [table EXCEPT ![t] = s], calls' = [calls EXCEPT ![t] = p],
           StateFine(s)', QueueFine(p), Fits(s, p)'
    PROVE  TablesFine' /\ TablesQueued'
<1>1. table \in [Tabs -> TableStates] /\ calls \in [Tabs -> Seq(TableCalls)] /\ drift \in BOOLEAN
  BY DEF TablesFine, TablesTypeOK, ItemStates, TablesQueued
<1>2. /\ table' \in [Tabs -> TableStates] /\ table'[t] = s /\ \A u \in Tabs : u # t => table'[u] = table[u]
      /\ calls' \in [Tabs -> Seq(TableCalls)] /\ calls'[t] = p /\ \A u \in Tabs : u # t => calls'[u] = calls[u]
  BY <1>1
<1>3. TablesTypeOK'  BY <1>1, <1>2 DEF TablesTypeOK, ItemStates, ItemsGoOn
<1>4. ASSUME NEW u \in Tabs  PROVE  StateFine(table[u])' /\ QueueFine(calls[u])' /\ Fits(table[u], calls[u])'
  <2>1. CASE u = t
    <3>1. QueueFine(p)'  BY DEF QueueFine, Confirmable
    <3>2. QED  BY <1>2, <2>1, <3>1
  <2>2. CASE u # t
    <3>1. PICK r, q : r = table[u] /\ q = calls[u]  OBVIOUS
    <3>2. /\ r \in TableStates /\ q \in Seq(TableCalls) /\ StateFine(r) /\ QueueFine(q) /\ Fits(r, q)
          /\ table'[u] = r /\ calls'[u] = q
      BY <1>1, <1>2, <2>2, <3>1 DEF TablesFine, TablesQueued
    <3>3. StateFine(r)' /\ Fits(r, q)' /\ QueueFine(q)'  BY <3>2, TabGoesOn, FitsGoesOn DEF QueueFine, Confirmable
    <3>4. QED  BY <3>2, <3>3
  <2>3. QED  BY <2>1, <2>2
<1>5. QED  BY <1>2, <1>3, <1>4 DEF TablesFine, TablesQueued, ItemsGoOn

\* Nothing in a queue mints.
MintsNothing(q) == \A i \in 1..Len(q) : q[i].what # "mint"

\* What a queue may be given.
MayAsk(q, c) ==
    /\ c.answer.kind = "waiting"
    /\ c.what = "act" => c.arg.target.action \in Confirmable
    /\ c.what = "mint" => MintsNothing(q)

\* A call that waits is put at the end of a queue.
LEMMA QueueAppended ==
    ASSUME NEW q \in Seq(TableCalls), QueueFine(q), NEW c \in TableCalls, MayAsk(q, c), NEW p, p = Append(q, c)
    PROVE  /\ p \in Seq(TableCalls) /\ p # <<>> /\ QueueFine(p)
           /\ q = <<>> => Head(p) = c
           /\ q # <<>> => Head(p) = Head(q)
           /\ c.what # "mint" /\ MintsNothing(q) => MintsNothing(p)
<1>1. /\ p \in Seq(TableCalls) /\ Len(p) = Len(q) + 1 /\ Len(q) \in Nat /\ p[Len(p)] = c
      /\ \A i \in 1..Len(q) : p[i] = q[i]
  OBVIOUS
<1>2. \A i \in 1..Len(p) : i # Len(p) => i \in 1..Len(q)  BY <1>1
<1>3. ASSUME NEW i \in 1..Len(p)
      PROVE  /\ i > 1 => p[i].answer.kind = "waiting"
             /\ p[i].what = "act" => p[i].arg.target.action \in Confirmable
             /\ p[i].what = "mint" => \A j \in 1..Len(p) : p[j].what = "mint" => i = j
  <2>1. CASE i = Len(p)
    <3>1. p[i] = c  BY <1>1, <2>1
    <3>2. \A j \in 1..Len(p) : p[j].what = "mint" /\ c.what = "mint" => j = i
      BY <1>1, <1>2, <2>1 DEF MayAsk, MintsNothing
    <3>3. QED  BY <3>1, <3>2 DEF MayAsk, MintsNothing
  <2>2. CASE i # Len(p)
    <3>1. i \in 1..Len(q) /\ p[i] = q[i]  BY <1>1, <1>2, <2>2
    <3>2. ASSUME q[i].what = "mint", NEW j \in 1..Len(p), p[j].what = "mint"  PROVE  i = j
      <4>1. j # Len(p)  BY <1>1, <3>1, <3>2 DEF MayAsk, MintsNothing
      <4>2. j \in 1..Len(q) /\ p[j] = q[j]  BY <1>1, <1>2, <4>1
      <4>3. QED  BY <3>1, <3>2, <4>2 DEF QueueFine
    <3>3. QED  BY <3>1, <3>2 DEF QueueFine
  <2>3. QED  BY <2>1, <2>2
<1>4. (q = <<>> => Head(p) = c) /\ (q # <<>> => Head(p) = Head(q))
  <2>1. CASE q = <<>>  BY <2>1
  <2>2. CASE q # <<>>
    <3>1. Len(q) > 0 /\ Head(p) = p[1] /\ Head(q) = q[1]  BY <1>1, <2>2
    <3>2. QED  BY <1>1, <2>2, <3>1
  <2>3. QED  BY <2>1, <2>2
<1>5. c.what # "mint" /\ MintsNothing(q) => MintsNothing(p)  BY <1>1, <1>2 DEF MintsNothing
<1>6. QED  BY <1>1, <1>3, <1>4, <1>5 DEF QueueFine

\* The call at the head of a queue is handled: no other one is answered yet, nor
\* mints if that one did.
LEMMA QueueTail ==
    ASSUME NEW q \in Seq(TableCalls), q # <<>>, QueueFine(q), NEW p, p = Tail(q)
    PROVE  /\ p \in Seq(TableCalls) /\ QueueFine(p)
           /\ p # <<>> => Head(p).answer.kind = "waiting"
           /\ MintsNothing(q) \/ Head(q).what = "mint" => MintsNothing(p)
<1>1. /\ p \in Seq(TableCalls) /\ Len(q) \in Nat \ {0} /\ Len(p) = Len(q) - 1 /\ Head(q) = q[1]
      /\ \A i \in 1..Len(p) : p[i] = q[i + 1] /\ i + 1 \in 1..Len(q) /\ i + 1 > 1
      /\ p # <<>> => Head(p) = q[2] /\ 2 \in 1..Len(q)
  OBVIOUS
<1>2. p # <<>> => Head(p).answer.kind = "waiting"  BY <1>1 DEF QueueFine
<1>3. Head(q).what = "mint" => MintsNothing(p)
  <2>1. ASSUME Head(q).what = "mint", NEW i \in 1..Len(p), p[i].what = "mint"  PROVE  FALSE
    <3>1. 1 \in 1..Len(q) /\ i + 1 \in 1..Len(q) /\ q[1].what = "mint" /\ q[i + 1].what = "mint"
      BY <1>1, <2>1
    <3>2. 1 = i + 1  BY <3>1 DEF QueueFine
    <3>3. QED  BY <1>1, <3>2
  <2>2. QED  BY <2>1 DEF MintsNothing
<1>4. ASSUME NEW i \in 1..Len(p)
      PROVE  /\ p[i].answer.kind = "waiting"
             /\ p[i].what = "act" => p[i].arg.target.action \in Confirmable
             /\ p[i].what = "mint" => \A j \in 1..Len(p) : p[j].what = "mint" => i = j
  <2>1. PICK k \in 1..Len(q) : k = i + 1 /\ k > 1 /\ p[i] = q[k]  BY <1>1
  <2>2. ASSUME p[i].what = "mint", NEW j \in 1..Len(p), p[j].what = "mint"  PROVE  i = j
    <3>1. PICK l \in 1..Len(q) : l = j + 1 /\ p[j] = q[l]  BY <1>1
    <3>2. k = l  BY <2>1, <2>2, <3>1 DEF QueueFine
    <3>3. QED  BY <2>1, <3>1, <3>2
  <2>3. QED  BY <2>1, <2>2 DEF QueueFine
<1>5. QueueFine(p)  BY <1>4 DEF QueueFine
<1>6. MintsNothing(q) => MintsNothing(p)  BY <1>1 DEF MintsNothing
<1>7. QED  BY <1>1, <1>2, <1>3, <1>5, <1>6

\* A click changes what a tab shows, but not its rows, and may ask for something.
LEMMA TabClicks ==
    ASSUME TablesFine, TablesQueued, NEW t \in Tabs, NEW s \in TableStates,
           UNCHANGED <<scene, item, drift>>, table' = [table EXCEPT ![t] = s],
           StateFine(s), s.rows = table[t].rows, s.created \in {table[t].created, NoItem},
           \/ UNCHANGED calls
           \/ \E c \in TableCalls :
                /\ calls' = [calls EXCEPT ![t] = Append(@, c)]
                /\ MayAsk(calls[t], c) /\ (c.what = "mint" => s.created = NoItem)
    PROVE  TablesFine' /\ TablesQueued'
<1>1. ItemsGoOn  BY DEF ItemsGoOn, Ended, TablesFine, TablesTypeOK, ItemStates, TablesQueued
<1>2. PICK q : q = calls[t]  OBVIOUS
<1>3. calls \in [Tabs -> Seq(TableCalls)] /\ q \in Seq(TableCalls) /\ QueueFine(q) /\ Fits(table[t], q)
  BY <1>2 DEF TablesQueued
<1>4. Fits(s, q)  BY <1>3 DEF Fits
<1>5. StateFine(s)'  BY <1>1, TabGoesOn
<1>6. CASE UNCHANGED calls
  <2>1. calls' = [calls EXCEPT ![t] = q]  BY <1>2, <1>3, <1>6
  <2>2. Fits(s, q)'  BY <1>1, <1>3, <1>4, FitsGoesOn
  <2>3. QED  BY <1>1, <1>3, <1>5, <2>1, <2>2, TabActs
<1>7. ASSUME NEW c \in TableCalls, calls' = [calls EXCEPT ![t] = Append(@, c)],
             MayAsk(calls[t], c), c.what = "mint" => s.created = NoItem
      PROVE  TablesFine' /\ TablesQueued'
  <2>1. PICK p : p = Append(q, c)  OBVIOUS
  <2>2. calls' = [calls EXCEPT ![t] = p]  BY <1>2, <1>3, <1>7, <2>1
  <2>3. /\ p \in Seq(TableCalls) /\ p # <<>> /\ QueueFine(p)
        /\ (q = <<>> => Head(p) = c) /\ (q # <<>> => Head(p) = Head(q))
        /\ c.what # "mint" /\ MintsNothing(q) => MintsNothing(p)
    <3>1. MayAsk(q, c)  BY <1>2, <1>7
    <3>2. q \in Seq(TableCalls) /\ QueueFine(q) /\ c \in TableCalls  BY <1>3
    <3>3. p \in Seq(TableCalls) /\ p # <<>> /\ QueueFine(p)  BY <2>1, <3>1, <3>2, QueueAppended
    <3>4. (q = <<>> => Head(p) = c) /\ (q # <<>> => Head(p) = Head(q))  BY <2>1, <3>1, <3>2, QueueAppended
    <3>5. c.what # "mint" /\ MintsNothing(q) => MintsNothing(p)
      BY <2>1, <3>1, <3>2, QueueAppended
    <3>6. QED  BY <3>3, <3>4, <3>5
  <2>4. AnswerFine(s.rows, Head(p))
    <3>1. CASE q = <<>>  BY <1>7, <2>3, <3>1 DEF AnswerFine, MayAsk
    <3>2. CASE q # <<>>  BY <1>4, <2>3, <3>2 DEF Fits
    <3>3. QED  BY <3>1, <3>2
  <2>5. \A i \in 1..Len(p) : p[i].what = "mint" => s.created = NoItem  BY <1>4, <1>7, <2>3 DEF Fits, MintsNothing
  <2>6. Fits(s, p)'  BY <1>1, <2>3, <2>4, <2>5, FitsGoesOn DEF Fits
  <2>7. QED  BY <1>1, <1>5, <2>2, <2>3, <2>6, TabActs
<1>8. QED  BY <1>6, <1>7

\* What a call of a table may be about.
Asking(what, arg) ==
    \/ what = "load" /\ arg \in [page : Nat \ {0}, retried : BOOLEAN, quiet : BOOLEAN]
    \/ what = "mint" /\ arg = <<>>
    \/ what = "events" /\ arg \in [runner : Items]
    \/ what = "act" /\ arg \in [target : [id : Items, action : Actions], page : Nat \ {0}]

\* A tab asks for something that its queue may be given.
LEMMA TabAsks ==
    ASSUME TablesFine, TablesQueued, NEW t \in Tabs, NEW s \in TableStates,
           UNCHANGED <<scene, item, drift>>, table' = [table EXCEPT ![t] = s],
           StateFine(s), s.rows = table[t].rows, s.created \in {table[t].created, NoItem},
           NEW what, NEW arg, Asking(what, arg), Ask(t, what, arg),
           what = "act" => arg.target.action \in Confirmable,
           what = "mint" => s.created = NoItem /\ MintsNothing(calls[t])
    PROVE  TablesFine' /\ TablesQueued'
<1>1. PICK c : c = Call(what, arg)  OBVIOUS
<1>2. c \in TableCalls /\ c.what = what /\ c.arg = arg /\ c.answer.kind = "waiting"
  BY <1>1, TableCallAsked DEF Asking
<1>3. calls' = [calls EXCEPT ![t] = Append(@, c)]  BY <1>1 DEF Ask
<1>4. MayAsk(calls[t], c) /\ (c.what = "mint" => s.created = NoItem)  BY <1>2 DEF MayAsk, MintsNothing
<1>5. QED  BY <1>2, <1>3, <1>4, TabClicks

\* A click on a table or on one of its dialogs.
LEMMA TablesClickStep ==
    ASSUME TablesFine, TablesQueued, scene \in Tables, NEW t \in Tabs, TablesClick(t)
    PROVE  TablesFine' /\ TablesQueued'
<1>1. PICK r : r = table[t]  OBVIOUS
<1>2. table \in [Tabs -> TableStates] /\ r \in TableStates /\ StateFine(r) /\ calls \in [Tabs -> Seq(TableCalls)]
  BY <1>1 DEF TablesFine, TablesTypeOK, ItemStates, TablesQueued
<1>3. /\ r.rows \in Seq(TableRows) /\ r.page \in Nat \ {0} /\ r.target \in [id : 0..MaxItems, action : Actions]
      /\ r.created \in 0..MaxItems /\ r.runner \in 0..MaxItems
  BY <1>2 DEF TableStates, TableRows
<1>4. ASSUME NEW n \in DOMAIN r.rows  PROVE  r.rows[n].id \in Items /\ r.rows[n].status \in Statuses
  <2>1. r.rows[n] \in TableRows  BY <1>3
  <2>2. QED  BY <2>1 DEF TableRows
<1>5. ASSUME NEW s \in TableStates, StateFine(s), s.rows = r.rows, s.created = r.created,
             UNCHANGED <<callVars, item, drift>>, table' = [table EXCEPT ![t] = s]
      PROVE  TablesFine' /\ TablesQueued'
  BY <1>1, <1>5, TabClicks DEF callVars
<1>6. ASSUME NEW what, NEW arg, Click(t, what, arg), Asking(what, arg), UNCHANGED tableVars,
             what = "act" => arg.target.action \in Confirmable,
             what = "mint" => r.created = NoItem /\ MintsNothing(calls[t])
      PROVE  TablesFine' /\ TablesQueued'
  <2>1. UNCHANGED <<scene, item, drift>> /\ table' = [table EXCEPT ![t] = r] /\ Ask(t, what, arg)
    BY <1>1, <1>2, <1>6 DEF Click, Clicked, tableVars
  <2>2. QED  BY <1>1, <1>2, <1>6, <2>1, TabAsks
<1>7. CASE Dismiss(t)
  <2>1. PICK s : s = [r EXCEPT !.target = NoTarget]  OBVIOUS
  <2>2. s \in TableStates /\ StateFine(s) /\ s.rows = r.rows /\ s.created = r.created
    <3>1. s.rows = r.rows /\ s.created = r.created /\ s.heard = r.heard /\ s.seen = r.seen
          /\ s.target = NoTarget /\ s.data = r.data /\ s.error = r.error /\ s.runner = r.runner
      BY <1>2, <2>1 DEF TableStates
    <3>2. NoTarget \in [id : 0..MaxItems, action : Actions]
      BY TablesAssumption DEF NoTarget, NoItem, Actions
    <3>3. s \in TableStates  BY <1>2, <2>1, <3>2 DEF TableStates
    <3>4. StateFine(s)  BY <1>2, <3>1 DEF StateFine
    <3>5. QED  BY <3>1, <3>3, <3>4
  <2>3. table' = [table EXCEPT ![t] = s]  BY <1>1, <1>2, <1>7, <2>1 DEF Dismiss
  <2>4. QED  BY <1>5, <1>7, <2>2, <2>3 DEF Dismiss
<1>8. CASE OpenMint(t)
  <2>1. PICK s : s = [r EXCEPT !.open = TRUE]  OBVIOUS
  <2>2. s \in TableStates /\ StateFine(s) /\ s.rows = r.rows /\ s.created = r.created
    <3>1. s.rows = r.rows /\ s.created = r.created /\ s.heard = r.heard /\ s.seen = r.seen
          /\ s.target = r.target /\ s.data = r.data /\ s.error = r.error /\ s.runner = r.runner
      BY <1>2, <2>1 DEF TableStates
    <3>2. s \in TableStates  BY <1>2, <2>1 DEF TableStates
    <3>3. StateFine(s)  BY <1>2, <3>1 DEF StateFine
    <3>4. QED  BY <3>1, <3>2, <3>3
  <2>3. table' = [table EXCEPT ![t] = s]  BY <1>1, <1>2, <1>8, <2>1 DEF OpenMint
  <2>4. QED  BY <1>5, <1>8, <2>2, <2>3 DEF OpenMint
<1>9. CASE CloseActivity(t)
  <2>1. PICK s : s = [r EXCEPT !.runner = NoItem, !.data = NoItem, !.error = NoItem]  OBVIOUS
  <2>2. s \in TableStates /\ StateFine(s) /\ s.rows = r.rows /\ s.created = r.created
    <3>1. s.rows = r.rows /\ s.created = r.created /\ s.heard = r.heard /\ s.seen = r.seen
          /\ s.target = r.target /\ s.data = NoItem /\ s.error = NoItem
      BY <1>2, <2>1 DEF TableStates
    <3>2. NoItem \in 0..MaxItems  BY TablesAssumption DEF NoItem
    <3>3. s \in TableStates  BY <1>2, <2>1, <3>2 DEF TableStates
    <3>4. StateFine(s)  BY <1>2, <3>1 DEF StateFine
    <3>5. QED  BY <3>1, <3>3, <3>4
  <2>3. table' = [table EXCEPT ![t] = s]  BY <1>1, <1>2, <1>9, <2>1 DEF CloseActivity
  <2>4. QED  BY <1>5, <1>9, <2>2, <2>3 DEF CloseActivity
<1>10. ASSUME NEW n \in 1..TableSize, NEW action \in Actions, PickAction(t, n, action)
       PROVE  TablesFine' /\ TablesQueued'
  <2>1. n \in DOMAIN r.rows /\ action \in ActionsFor(r.rows[n].status)  BY <1>1, <1>10 DEF PickAction
  <2>2. PICK g : g = [id |-> r.rows[n].id, action |-> action]  OBVIOUS
  <2>3. g \in [id : Items, action : Actions] /\ g.action \in Confirmable
    BY <1>4, <2>1, <2>2 DEF ActionsFor, Confirmable, Actions
  <2>4. PICK s : s = [r EXCEPT !.target = g]  OBVIOUS
  <2>5. s \in TableStates /\ StateFine(s) /\ s.rows = r.rows /\ s.created = r.created
    <3>1. s.rows = r.rows /\ s.created = r.created /\ s.heard = r.heard /\ s.seen = r.seen
          /\ s.target = g /\ s.data = r.data /\ s.error = r.error /\ s.runner = r.runner
      BY <1>2, <2>4 DEF TableStates
    <3>2. g \in [id : 0..MaxItems, action : Actions] /\ g.id \in Items  BY <2>3 DEF Items
    <3>3. s \in TableStates  BY <1>2, <2>4, <3>2 DEF TableStates
    <3>4. StateFine(s)  BY <1>2, <2>3, <3>1, <3>2 DEF StateFine
    <3>5. QED  BY <3>1, <3>3, <3>4
  <2>6. table' = [table EXCEPT ![t] = s]  BY <1>1, <1>2, <1>10, <2>2, <2>4 DEF PickAction
  <2>7. QED  BY <1>5, <1>10, <2>5, <2>6 DEF PickAction
<1>11. CASE Confirm(t)
  <2>1. PICK arg : arg = [target |-> r.target, page |-> r.page]  OBVIOUS
  <2>2. r.target # NoTarget /\ Click(t, "act", arg) /\ UNCHANGED tableVars  BY <1>1, <1>11, <2>1 DEF Confirm
  <2>3. r.target.id \in Items /\ r.target.action \in Confirmable
    BY <1>2, <2>2 DEF StateFine
  <2>4. Asking("act", arg) /\ arg.target.action \in Confirmable
    BY <1>3, <2>1, <2>3 DEF Asking
  <2>5. QED  BY <1>6, <2>2, <2>4
<1>12. CASE Mint(t)
  <2>1. CanMint(t) /\ Click(t, "mint", <<>>) /\ UNCHANGED tableVars /\ Asking("mint", <<>>)
    BY <1>12 DEF Mint, Asking
  <2>2. r.created = NoItem  BY <1>1, <2>1 DEF CanMint
  <2>3. ASSUME NEW i \in 1..Len(calls[t]), calls[t][i].what = "mint"  PROVE  FALSE
    <3>1. i \in DOMAIN calls[t] /\ calls[t][i] \in TableCalls  BY <1>2
    <3>2. calls[t][i].live  BY <3>1, TableCallParts
    <3>3. QED  BY <2>1, <2>3, <3>1, <3>2 DEF CanMint, Asked
  <2>4. QED  BY <1>6, <2>1, <2>2, <2>3 DEF MintsNothing
<1>13. CASE PageActivity(t)
  <2>1. PICK arg : arg = [runner |-> r.runner]  OBVIOUS
  <2>2. r.runner # NoItem /\ Click(t, "events", arg) /\ UNCHANGED tableVars
    BY <1>1, <1>13, <2>1 DEF PageActivity
  <2>3. Asking("events", arg)  BY <1>3, <2>1, <2>2 DEF Asking, NoItem, Items
  <2>4. QED  BY <1>6, <2>2, <2>3
<1>14. ASSUME NEW page \in 1..MaxItems, GoTo(t, page)  PROVE  TablesFine' /\ TablesQueued'
  <2>1. PICK arg : arg = Load(page, FALSE, FALSE)  OBVIOUS
  <2>2. Click(t, "load", arg) /\ UNCHANGED tableVars  BY <1>14, <2>1 DEF GoTo
  <2>3. Asking("load", arg)  BY <2>1 DEF Asking, Load
  <2>4. QED  BY <1>6, <2>2, <2>3
<1>15. ASSUME NEW n \in 1..TableSize, OpenActivity(t, n)  PROVE  TablesFine' /\ TablesQueued'
  <2>1. n \in DOMAIN r.rows  BY <1>1, <1>15 DEF OpenActivity
  <2>2. PICK i \in Items : i = r.rows[n].id  BY <1>4, <2>1
  <2>3. PICK s : s = [r EXCEPT !.runner = i, !.data = NoItem, !.error = NoItem]  OBVIOUS
  <2>4. s \in TableStates /\ StateFine(s) /\ s.rows = r.rows /\ s.created = r.created
    <3>1. s.rows = r.rows /\ s.created = r.created /\ s.heard = r.heard /\ s.seen = r.seen
          /\ s.target = r.target /\ s.data = NoItem /\ s.error = NoItem
      BY <1>2, <2>3 DEF TableStates
    <3>2. NoItem \in 0..MaxItems /\ i \in 0..MaxItems  BY TablesAssumption DEF NoItem, Items
    <3>3. s \in TableStates  BY <1>2, <2>3, <3>2 DEF TableStates
    <3>4. StateFine(s)  BY <1>2, <3>1 DEF StateFine
    <3>5. QED  BY <3>1, <3>3, <3>4
  <2>5. table' = [table EXCEPT ![t] = s]  BY <1>1, <1>2, <1>15, <2>2, <2>3 DEF OpenActivity
  <2>6. PICK arg : arg = [runner |-> i]  OBVIOUS
  <2>7. Asking("events", arg) /\ Ask(t, "events", arg) /\ UNCHANGED <<scene, item, drift>>
    BY <1>1, <1>15, <2>2, <2>6 DEF Asking, OpenActivity, Click, Clicked
  <2>8. QED  BY <1>1, <2>4, <2>5, <2>7, TabAsks
<1>16. CASE CloseMint(t)
  <2>1. PICK s : s = [r EXCEPT !.open = FALSE, !.created = NoItem, !.seen = @ \union ({r.created} \ {NoItem})]
    OBVIOUS
  <2>2. s \in TableStates /\ StateFine(s) /\ s.rows = r.rows /\ s.created = NoItem
    <3>1. r.seen \in SUBSET Items /\ r.heard \in SUBSET Items /\ r.heard \subseteq r.seen \union {r.created}
      BY <1>2 DEF TableStates, StateFine
    <3>2. PICK seen : seen = r.seen \union ({r.created} \ {NoItem})  OBVIOUS
    <3>3. seen \in SUBSET Items /\ r.heard \subseteq seen
      BY <1>3, <3>1, <3>2 DEF Items, NoItem
    <3>4. s = [r EXCEPT !.open = FALSE, !.created = NoItem, !.seen = seen]  BY <2>1, <3>2
    <3>5. /\ s.rows = r.rows /\ s.created = NoItem /\ s.heard = r.heard /\ s.seen = seen
          /\ s.target = r.target /\ s.data = r.data /\ s.error = r.error /\ s.runner = r.runner
      BY <1>2, <3>4 DEF TableStates
    <3>6. NoItem \in 0..MaxItems  BY TablesAssumption DEF NoItem
    <3>7. s \in TableStates  BY <1>2, <3>3, <3>4, <3>6 DEF TableStates
    <3>8. StateFine(s)  BY <1>2, <3>3, <3>5 DEF StateFine
    <3>9. QED  BY <3>5, <3>7, <3>8
  <2>3. table' = [table EXCEPT ![t] = s]  BY <1>1, <1>2, <1>16, <2>1 DEF CloseMint
  <2>4. UNCHANGED <<scene, item, drift>>  BY <1>16 DEF CloseMint
  <2>5. CASE UNCHANGED calls  BY <1>1, <2>2, <2>3, <2>4, <2>5, TabClicks
  <2>6. ASSUME Ask(t, "load", Load(1, FALSE, FALSE))  PROVE  TablesFine' /\ TablesQueued'
    <3>1. PICK arg : arg = Load(1, FALSE, FALSE)  OBVIOUS
    <3>2. Asking("load", arg) /\ Ask(t, "load", arg)  BY <2>6, <3>1 DEF Asking, Load
    <3>3. QED  BY <1>1, <2>2, <2>3, <2>4, <3>2, TabAsks
  <2>7. QED  BY <1>16, <2>5, <2>6 DEF CloseMint
<1>17. QED
  BY <1>7, <1>8, <1>9, <1>10, <1>11, <1>12, <1>13, <1>14, <1>15, <1>16 DEF TablesClick

\* The rows that the API lists: as many as there are items, each as it is.
LEMMA RowsShape ==
    ASSUME item \in [Items -> ItemStates]
    PROVE  /\ Rows \in Seq(TableRows) /\ Len(Rows) \in 0..MaxItems
           /\ \A n \in 1..Len(Rows) : Rows[n].status = item[Rows[n].id].status
<1>1. item \in [Items -> ItemStates]
  OBVIOUS
<1>2. IsFiniteSet(Items) /\ Cardinality(Items) = MaxItems  BY TablesAssumption, FS_Interval DEF Items
<1>3. PICK live : live = Existing  OBVIOUS
<1>4. live \in SUBSET Items /\ \A i \in live : item[i].status \in Statuses  BY <1>1, <1>3 DEF Existing, ItemStates
<1>5. live \in SUBSET Int  BY <1>4, TablesAssumption DEF Items
<1>6. PICK ids : ids = Ordered(live, FALSE)  OBVIOUS
<1>7. PICK k : k = Cardinality(live)  OBVIOUS
<1>8. IsFiniteSet(live) /\ k \in Nat /\ k <= MaxItems  BY <1>2, <1>4, <1>7, FS_Subset, FS_CardinalityType
<1>9. ids \in [1..k -> live]  BY <1>5, <1>6, <1>7, <1>8, OrderedIsSorted
<1>10. PICK rows : rows = [n \in 1..k |-> [id |-> ids[n], status |-> item[ids[n]].status]]  OBVIOUS
<1>11. Rows = rows  BY <1>3, <1>6, <1>9, <1>10 DEF Rows
<1>12. ASSUME NEW n \in 1..k
       PROVE  rows[n] \in TableRows /\ rows[n].id = ids[n] /\ rows[n].status = item[ids[n]].status
  BY <1>4, <1>9, <1>10 DEF TableRows
<1>13. rows \in Seq(TableRows) /\ Len(rows) = k
  <2>1. rows \in [1..k -> TableRows]  BY <1>10, <1>12
  <2>2. QED  BY <1>8, <2>1
<1>14. \A n \in 1..k : rows[n].status = item[rows[n].id].status  BY <1>12
<1>15. QED  BY <1>8, <1>11, <1>13, <1>14, TablesAssumption

\* A page of them.
LEMMA TablePageShape ==
    ASSUME item \in [Items -> ItemStates], NEW page \in Nat \ {0}
    PROVE  /\ TablePage(page) \in Pages
           /\ \A n \in DOMAIN TablePage(page).rows :
                TablePage(page).rows[n].status = item[TablePage(page).rows[n].id].status
<1>1. PICK rows : rows = Rows  OBVIOUS
<1>2. /\ rows \in Seq(TableRows) /\ Len(rows) \in 0..MaxItems /\ Len(rows) \in Nat
      /\ \A n \in 1..Len(rows) : rows[n].status = item[rows[n].id].status
  BY <1>1, RowsShape, TablesAssumption
<1>3. PICK lo, hi, end : lo = (page - 1) * TableSize + 1 /\ hi = page * TableSize /\ end = Min({hi, Len(rows)})
  OBVIOUS
<1>4. lo \in Int /\ lo >= 1 /\ hi \in Int
  <2>1. page - 1 \in Nat /\ TableSize \in Nat /\ page \in Nat  BY TablesAssumption
  <2>2. (page - 1) * TableSize \in Nat /\ page * TableSize \in Nat  BY <2>1
  <2>3. QED  BY <1>3, <2>2
<1>5. end \in {hi, Len(rows)} /\ end <= Len(rows)
  <2>1. \E x \in {hi, Len(rows)} : \A y \in {hi, Len(rows)} : x =< y  BY <1>2, <1>4
  <2>2. QED  BY <1>3, <2>1 DEF Min
<1>6. end \in Int /\ lo..end \subseteq 1..Len(rows)  BY <1>2, <1>4, <1>5
<1>7. PICK sub : sub = SubSeq(rows, lo, end)  OBVIOUS
<1>8. \A i \in lo..end : rows[i] \in TableRows  BY <1>2, <1>6
<1>9. /\ sub \in Seq(TableRows) /\ Len(sub) = (IF lo <= end THEN end - lo + 1 ELSE 0)
      /\ \A i \in 1..(end - lo + 1) : sub[i] = rows[lo + i - 1]
  BY <1>4, <1>6, <1>7, <1>8, SubSeqProperties
<1>10. ASSUME NEW n \in DOMAIN sub  PROVE  sub[n].status = item[sub[n].id].status
  <2>1. DOMAIN sub = 1..Len(sub) /\ n \in 1..(end - lo + 1) /\ n \in Int  BY <1>4, <1>6, <1>9
  <2>2. sub[n] = rows[lo + n - 1] /\ lo + n - 1 \in lo..end  BY <1>4, <1>6, <1>9, <2>1
  <2>3. QED  BY <1>2, <1>6, <2>2
<1>11. TablePage(page) = [rows |-> sub, total |-> Len(rows), page |-> page]
  BY <1>1, <1>3, <1>7 DEF TablePage
<1>12. QED  BY <1>2, <1>9, <1>10, <1>11 DEF Pages

\* The call that a tab waits for is answered; the items may have changed.
LEMMA TabAnswered ==
    ASSUME TablesFine, TablesQueued, ItemsGoOn, UNCHANGED <<scene, table, drift>>,
           NEW t \in Tabs, calls[t] # <<>>, NEW answer, Answering(Head(calls[t]).what, answer),
           calls' = WithAnswer(t, answer),
           \A d \in TableCalls : d.what = Head(calls[t]).what /\ d.arg = Arg(t) /\ d.answer = answer =>
               AnswerFine(table[t].rows, d)'
    PROVE  TablesFine' /\ TablesQueued'
<1>1. PICK q, s : q = calls[t] /\ s = table[t]  OBVIOUS
<1>2. /\ calls \in [Tabs -> Seq(TableCalls)] /\ q \in Seq(TableCalls) /\ q # <<>> /\ QueueFine(q) /\ Fits(s, q)
      /\ table \in [Tabs -> TableStates] /\ s \in TableStates /\ StateFine(s)
  BY <1>1 DEF TablesQueued, TablesFine, TablesTypeOK, ItemStates
<1>3. Head(q) = q[1] /\ q[1] \in TableCalls /\ Len(q) \in Nat \ {0}  BY <1>2
<1>4. PICK d : d = [q[1] EXCEPT !.answer = answer]  OBVIOUS
<1>5. d \in TableCalls /\ d.what = Head(q).what /\ d.arg = Head(q).arg /\ d.answer = answer
  <2>1. PICK c : c = Head(q)  OBVIOUS
  <2>2. c \in TableCalls /\ Answering(c.what, answer) /\ d = [c EXCEPT !.answer = answer]
    BY <1>1, <1>3, <1>4, <2>1
  <2>3. QED  BY <2>1, <2>2, TableCallAnswered
<1>6. PICK p : p = [q EXCEPT ![1] = d]  OBVIOUS
<1>7. calls' = [calls EXCEPT ![t] = p]  BY <1>1, <1>2, <1>4, <1>6 DEF WithAnswer
<1>8. /\ p \in Seq(TableCalls) /\ p # <<>> /\ Len(p) = Len(q) /\ Head(p) = d
      /\ \A i \in 1..Len(q) : p[i].what = q[i].what /\ p[i].arg = q[i].arg /\ (i > 1 => p[i] = q[i])
  BY <1>2, <1>5, <1>6, QueueAnswered
<1>9. QueueFine(p)
  <2>1. ASSUME NEW i \in 1..Len(q)
        PROVE  /\ i > 1 => p[i].answer.kind = "waiting"
               /\ p[i].what = "act" => p[i].arg.target.action \in Confirmable
    BY <1>2, <1>8 DEF QueueFine
  <2>2. ASSUME NEW i \in 1..Len(q), p[i].what = "mint", NEW j \in 1..Len(q), p[j].what = "mint"  PROVE  i = j
    <3>1. q[i].what = "mint" /\ q[j].what = "mint"  BY <1>8, <2>2
    <3>2. QED  BY <1>2, <3>1 DEF QueueFine
  <2>3. QED  BY <1>8, <2>1, <2>2 DEF QueueFine
<1>10. AnswerFine(s.rows, d)'
  <2>1. AnswerFine(table[t].rows, d)'  BY <1>1, <1>5 DEF Arg
  <2>2. table'[t] = s  BY <1>1
  <2>3. QED  BY <2>1, <2>2 DEF AnswerFine
<1>11. Fits(s, p)'
  <2>1. \A i \in 1..Len(p) : p[i].what = "mint" => s.created = NoItem  BY <1>2, <1>8 DEF Fits
  <2>2. QED  BY <1>8, <1>10, <2>1 DEF Fits
<1>12. StateFine(s)'  BY <1>2, TabGoesOn
<1>13. table' = [table EXCEPT ![t] = s]  BY <1>1, <1>2
<1>14. QED  BY <1>2, <1>7, <1>8, <1>9, <1>11, <1>12, <1>13, TabActs

\* The API answers with a kind and data, or the call fails.
LEMMA TabReplied ==
    ASSUME TablesFine, TablesQueued, ItemsGoOn, UNCHANGED <<table, drift>>, NEW t \in Tabs, calls[t] # <<>>,
           NEW kind \in Kinds, NEW data, Reply(t, kind, data),
           kind # "ok" => data = <<>>,
           kind = "ok" => /\ Answering(Head(calls[t]).what, [kind |-> "ok", data |-> data])
                          /\ \A d \in TableCalls :
                                d.what = Head(calls[t]).what /\ d.arg = Arg(t) /\ d.answer.data = data =>
                                    AnswerFine(table[t].rows, d)'
    PROVE  TablesFine' /\ TablesQueued'
<1>1. UNCHANGED scene  BY DEF Reply
<1>2. ASSUME NEW answer \in Unmet, calls' = WithAnswer(t, answer)  PROVE  TablesFine' /\ TablesQueued'
  <2>1. answer.kind # "ok"  BY <1>2 DEF Unmet
  <2>2. \A d \in TableCalls : d.answer = answer => AnswerFine(table[t].rows, d)'  BY <2>1 DEF AnswerFine
  <2>3. Answering(Head(calls[t]).what, answer)  BY DEF Answering
  <2>4. QED  BY <1>1, <1>2, <2>2, <2>3, TabAnswered
<1>3. Failed \in Unmet  BY DEF Failed, Unmet, Kinds
<1>4. CASE calls' = WithAnswer(t, Failed)  BY <1>2, <1>3, <1>4
<1>5. CASE calls' = WithAnswer(t, [kind |-> kind, data |-> data])
  <2>1. PICK answer : answer = [kind |-> kind, data |-> data]  OBVIOUS
  <2>2. calls' = WithAnswer(t, answer) /\ answer.data = data  BY <1>5, <2>1
  <2>3. CASE kind # "ok"
    <3>1. answer \in Unmet  BY <2>1, <2>3 DEF Unmet
    <3>2. QED  BY <1>2, <2>2, <3>1
  <2>4. CASE kind = "ok"
    <3>1. Answering(Head(calls[t]).what, answer)  BY <2>1, <2>4
    <3>2. QED  BY <1>1, <2>2, <2>4, <3>1, TabAnswered
  <2>5. QED  BY <2>3, <2>4
<1>6. QED  BY <1>4, <1>5 DEF Reply

\* The fleet's sweep ends no row.
LEMMA TablesSweepStep ==
    ASSUME TablesFine, TablesQueued, NEW i \in Items, Sweep(i)
    PROVE  TablesFine' /\ TablesQueued'
<1>1. UNCHANGED <<scene, calls, table, drift>> /\ item' = [item EXCEPT ![i].status = "drained"]
  BY DEF Sweep, callVars
<1>2. item \in [Items -> ItemStates]
  BY DEF TablesFine, TablesTypeOK, ItemStates
<1>3. /\ item' \in [Items -> ItemStates]
      /\ item'[i].status = "drained" /\ \A j \in Items : j # i => item'[j] = item[j]
  BY <1>1, <1>2 DEF Statuses, ItemStates
<1>4. ItemsGoOn  BY <1>1, <1>3 DEF Sweep, ItemsGoOn, Ended, TablesQueued
<1>5. TablesTypeOK'  BY <1>1, <1>3 DEF TablesFine, TablesTypeOK, ItemStates
<1>6. ASSUME NEW u \in Tabs  PROVE  StateFine(table[u])' /\ QueueFine(calls[u])' /\ Fits(table[u], calls[u])'
  <2>1. PICK r, q : r = table[u] /\ q = calls[u]  OBVIOUS
  <2>2. /\ r \in TableStates /\ q \in Seq(TableCalls) /\ StateFine(r) /\ QueueFine(q) /\ Fits(r, q)
        /\ table'[u] = r /\ calls'[u] = q
    BY <1>1, <2>1 DEF TablesFine, TablesTypeOK, ItemStates, TablesQueued
  <2>3. StateFine(r)' /\ Fits(r, q)' /\ QueueFine(q)'
    BY <1>1, <1>4, <2>2, TabGoesOn, FitsGoesOn DEF QueueFine, Confirmable
  <2>4. QED  BY <2>2, <2>3
<1>7. QED  BY <1>1, <1>4, <1>5, <1>6 DEF TablesFine, TablesQueued, ItemsGoOn

\* The API answers: a page as the rows are, an action that the row allows, or a
\* refusal.
LEMMA TablesServeStep ==
    ASSUME TablesFine, TablesQueued, scene \in Tables, NEW t \in Tabs, TablesServe(t)
    PROVE  TablesFine' /\ TablesQueued'
<1>1. PICK q, r : q = calls[t] /\ r = table[t]  OBVIOUS
<1>2. /\ calls \in [Tabs -> Seq(TableCalls)] /\ q \in Seq(TableCalls) /\ QueueFine(q)
      /\ r \in TableStates /\ StateFine(r) /\ TablesTypeOK
      /\ item \in [Items -> ItemStates]
  BY <1>1 DEF TablesFine, TablesTypeOK, ItemStates, TablesQueued
<1>3. ASSUME NEW whats, AtServer(t, whats)
      PROVE  /\ calls[t] # <<>> /\ Head(calls[t]).what \in whats
             /\ Head(calls[t]).what = "load" => Arg(t).page \in Nat \ {0}
             /\ Head(calls[t]).what = "act" => /\ Arg(t).target \in [id : Items, action : Actions]
                                               /\ Arg(t).target.action \in Confirmable
  <2>1. q # <<>> /\ Head(q).what \in whats /\ Head(q) = q[1] /\ 1 \in 1..Len(q)
    BY <1>1, <1>2, <1>3 DEF AtServer
  <2>2. PICK c : c = Head(q)  OBVIOUS
  <2>3. c \in TableCalls  BY <1>2, <2>1, <2>2
  <2>4. c.what = "load" => c.arg.page \in Nat \ {0}  BY <2>3, TableCallParts
  <2>5. c.what = "act" => c.arg.target \in [id : Items, action : Actions]  BY <2>3, TableCallParts
  <2>6. c.what = "act" => c.arg.target.action \in Confirmable  BY <1>2, <2>1, <2>2 DEF QueueFine
  <2>7. QED  BY <1>1, <2>1, <2>2, <2>4, <2>5, <2>6 DEF Arg
<1>4. ASSUME UNCHANGED <<scene, item>>  PROVE  ItemsGoOn
  BY <1>2, <1>4 DEF ItemsGoOn, Ended, TablesQueued
<1>5. ASSUME NEW kind \in Kinds, kind # "ok", Reply(t, kind, <<>>), UNCHANGED tableVars, calls[t] # <<>>
      PROVE  TablesFine' /\ TablesQueued'
  <2>1. ItemsGoOn /\ UNCHANGED <<table, drift>>  BY <1>4, <1>5 DEF Reply, tableVars
  <2>2. QED  BY <1>5, <2>1, TabReplied
<1>6. CASE ServeLoad(t)
  <2>1. AtServer(t, {"load"}) /\ UNCHANGED tableVars  BY <1>6 DEF ServeLoad
  <2>2. calls[t] # <<>> /\ Head(calls[t]).what = "load" /\ Arg(t).page \in Nat \ {0}  BY <1>3, <2>1
  <2>3. CASE Reply(t, "invalid", <<>>)  BY <1>5, <2>1, <2>2, <2>3 DEF Kinds
  <2>4. CASE Reply(t, "ok", TablePage(Arg(t).page))
    <3>1. PICK page : page = TablePage(Arg(t).page)  OBVIOUS
    <3>2. page \in Pages /\ \A n \in DOMAIN page.rows : page.rows[n].status = item[page.rows[n].id].status
      BY <1>2, <2>2, <3>1, TablePageShape
    <3>3. page.rows \in Seq(TableRows)  BY <3>2 DEF Pages
    <3>4. \A n \in DOMAIN page.rows : page.rows[n] \in TableRows  BY <3>3
    <3>5. \A n \in DOMAIN page.rows : page.rows[n].id \in Items /\ page.rows[n].status \in Statuses
      BY <3>4 DEF TableRows
    <3>6. RowsFine(page.rows)  BY <3>2, <3>5 DEF RowsFine, Ended
    <3>7. ASSUME NEW n \in DOMAIN page.rows, Has(r.rows, page.rows[n].id, "revoked")
          PROVE  page.rows[n].status = "revoked"
      <4>1. Ended(page.rows[n].id)  BY <1>2, <3>7 DEF StateFine, RowsFine, Has
      <4>2. QED  BY <3>2, <3>5, <4>1 DEF Ended, Statuses
    <3>8. UNCHANGED <<scene, item, table, drift>>  BY <2>1, <2>4 DEF Reply, tableVars
    <3>9. RowsFine(page.rows)'  BY <3>6, <3>8 DEF RowsFine, Ended
    <3>10. ASSUME NEW d \in TableCalls, d.what = "load", d.answer.data = page  PROVE  AnswerFine(table[t].rows, d)'
      BY <1>1, <3>7, <3>8, <3>9, <3>10 DEF AnswerFine
    <3>11. Answering(Head(calls[t]).what, [kind |-> "ok", data |-> page])  BY <2>2, <3>2 DEF Answering
    <3>12. ItemsGoOn  BY <1>4, <3>8
    <3>13. Reply(t, "ok", page)  BY <2>4, <3>1
    <3>14. QED  BY <2>2, <3>8, <3>10, <3>11, <3>12, <3>13, TabReplied DEF Kinds
  <2>5. QED  BY <1>6, <2>3, <2>4 DEF ServeLoad
<1>7. CASE ServeEvents(t)
  <2>1. AtServer(t, {"events"}) /\ UNCHANGED tableVars /\ Reply(t, "ok", <<>>)  BY <1>7 DEF ServeEvents
  <2>2. calls[t] # <<>> /\ Head(calls[t]).what = "events"  BY <1>3, <2>1
  <2>3. ItemsGoOn /\ UNCHANGED <<table, drift>>  BY <1>4, <2>1 DEF Reply, tableVars
  <2>4. Answering(Head(calls[t]).what, [kind |-> "ok", data |-> <<>>])  BY <2>2 DEF Answering
  <2>5. \A d \in TableCalls : d.what = "events" => AnswerFine(table[t].rows, d)'  BY DEF AnswerFine
  <2>6. QED  BY <2>1, <2>2, <2>3, <2>4, <2>5, TabReplied DEF Kinds
<1>8. CASE RefuseMint(t)
  <2>1. AtServer(t, {"mint"}) /\ UNCHANGED tableVars /\ Reply(t, "conflict", <<>>)  BY <1>8 DEF RefuseMint
  <2>2. QED  BY <1>3, <1>5, <2>1 DEF Kinds
<1>9. ASSUME NEW i \in Items, ServeMint(t, i)  PROVE  TablesFine' /\ TablesQueued'
  <2>1. /\ AtServer(t, {"mint"}) /\ Reply(t, "ok", [id |-> i]) /\ UNCHANGED <<table, drift>>
        /\ item[i].status = "unborn" /\ item' = [item EXCEPT ![i] = [status |-> "active", name |-> t]]
    BY <1>9 DEF ServeMint
  <2>2. calls[t] # <<>> /\ Head(calls[t]).what = "mint" /\ UNCHANGED scene  BY <1>3, <2>1 DEF Reply
  <2>3. /\ item' \in [Items -> ItemStates]
        /\ item'[i].status = "active" /\ \A j \in Items : j # i => item'[j] = item[j]
    <3>1. [status |-> "active", name |-> t] \in ItemStates
      BY DEF Statuses, ItemStates
    <3>2. QED  BY <1>2, <2>1, <3>1
  <2>4. ItemsGoOn  BY <2>1, <2>2, <2>3 DEF ItemsGoOn, Ended, TablesQueued
  <2>5. Answering(Head(calls[t]).what, [kind |-> "ok", data |-> [id |-> i]])  BY <2>2 DEF Answering
  <2>6. \A d \in TableCalls : d.what = "mint" => AnswerFine(table[t].rows, d)'  BY DEF AnswerFine
  <2>7. QED  BY <2>1, <2>2, <2>4, <2>5, <2>6, TabReplied DEF Kinds
<1>10. CASE ServeAct(t)
  <2>1. AtServer(t, {"act"}) /\ UNCHANGED <<table, drift>>  BY <1>10 DEF ServeAct
  <2>2. PICK i, action : i = Arg(t).target.id /\ action = Arg(t).target.action  OBVIOUS
  <2>3. calls[t] # <<>> /\ Head(calls[t]).what = "act" /\ i \in Items /\ action \in Actions /\ action \in Confirmable
    BY <1>3, <2>1, <2>2
  <2>4. CASE Allowed(action, item[i].status)
    <3>1. item' = [item EXCEPT ![i].status = After(action)] /\ Reply(t, "ok", <<>>) /\ UNCHANGED scene
      BY <1>10, <2>2, <2>4 DEF ServeAct, Reply
    <3>2. After(action) \in Statuses \union {"deleted"} /\ (action # "delete" => After(action) # "deleted")
          /\ (action = "revoke" => After(action) = "revoked") /\ (action = "delete" => After(action) = "deleted")
      BY <2>3 DEF After, Actions, Statuses
    <3>3. /\ item' \in [Items -> ItemStates]
          /\ item'[i].status = After(action) /\ \A j \in Items : j # i => item'[j] = item[j]
      BY <1>2, <2>3, <3>1, <3>2 DEF ItemStates
    <3>4. Ended(i) => After(action) \in {"revoked", "deleted"}
      BY <2>3, <2>4, <3>2 DEF Ended, Allowed, Confirmable, Tables, TablesQueued
    <3>5. scene = "runners" => After(action) # "deleted"  BY <2>3, <3>2 DEF Confirmable
    <3>6. ItemsGoOn  BY <2>3, <3>1, <3>3, <3>4, <3>5 DEF ItemsGoOn, Ended, TablesQueued
    <3>7. ASSUME scene = "runners", action # "revoke"  PROVE  ~Has(r.rows, i, "revoked")
      <4>1. item[i].status \notin {"revoked", "deleted"}
        BY <2>3, <2>4, <3>7 DEF Allowed, TablesQueued
      <4>2. QED  BY <1>2, <4>1 DEF StateFine, RowsFine, Has, Ended
    <3>8. action = "revoke" => Ended(i)'  BY <3>2, <3>3 DEF Ended
    <3>9. ASSUME NEW d \in TableCalls, d.what = "act", d.arg = Arg(t)  PROVE  AnswerFine(table[t].rows, d)'
      <4>1. d.arg.target.id = i /\ d.arg.target.action = action /\ table'[t] = r  BY <1>1, <2>1, <2>2, <3>9
      <4>2. QED  BY <3>1, <3>7, <3>8, <3>9, <4>1 DEF AnswerFine
    <3>10. Answering(Head(calls[t]).what, [kind |-> "ok", data |-> <<>>])  BY <2>3 DEF Answering
    <3>11. QED  BY <2>1, <2>3, <3>1, <3>6, <3>9, <3>10, TabReplied DEF Kinds
  <2>5. CASE ~Allowed(action, item[i].status)
    <3>1. UNCHANGED item /\ Reply(t, "terminal", <<>>)  BY <1>10, <2>2, <2>5 DEF ServeAct
    <3>2. QED  BY <1>5, <2>1, <2>3, <3>1 DEF Kinds, tableVars
  <2>6. QED  BY <2>4, <2>5
<1>11. QED  BY <1>6, <1>7, <1>8, <1>9, <1>10 DEF TablesServe

\* The call that a tab waits for is handled: the tab shows what came, and may ask
\* for a page.
LEMMA TabReceived ==
    ASSUME TablesFine, TablesQueued, NEW t \in Tabs, calls[t] # <<>>, UNCHANGED <<scene, item, drift>>,
           NEW s \in TableStates, table' = [table EXCEPT ![t] = s], StateFine(s),
           s.created = table[t].created \/ Head(calls[t]).what = "mint",
           \/ calls' = [calls EXCEPT ![t] = Tail(@)]
           \/ \E c \in LoadCalls : c.answer.kind = "waiting" /\ calls' = [calls EXCEPT ![t] = Append(Tail(@), c)]
    PROVE  TablesFine' /\ TablesQueued'
<1>1. ItemsGoOn  BY DEF ItemsGoOn, Ended, TablesFine, TablesTypeOK, ItemStates, TablesQueued
<1>2. PICK q, p : q = calls[t] /\ p = Tail(q)  OBVIOUS
<1>3. calls \in [Tabs -> Seq(TableCalls)] /\ q \in Seq(TableCalls) /\ QueueFine(q) /\ Fits(table[t], q) /\ q # <<>>
  BY <1>2 DEF TablesQueued
<1>4. /\ p \in Seq(TableCalls) /\ QueueFine(p) /\ (p # <<>> => Head(p).answer.kind = "waiting")
      /\ MintsNothing(q) \/ Head(q).what = "mint" => MintsNothing(p)
  <2>1. p \in Seq(TableCalls) /\ QueueFine(p) /\ (p # <<>> => Head(p).answer.kind = "waiting")
    BY <1>2, <1>3, QueueTail
  <2>2. MintsNothing(q) \/ Head(q).what = "mint" => MintsNothing(p)  BY <1>2, <1>3, QueueTail
  <2>3. QED  BY <2>1, <2>2
<1>5. \A i \in 1..Len(p) : p[i].what = "mint" => s.created = NoItem  BY <1>2, <1>3, <1>4 DEF Fits, MintsNothing
<1>6. StateFine(s)'  BY <1>1, TabGoesOn
<1>7. CASE calls' = [calls EXCEPT ![t] = Tail(@)]
  <2>1. calls' = [calls EXCEPT ![t] = p]  BY <1>2, <1>3, <1>7
  <2>2. Fits(s, p)'  BY <1>4, <1>5 DEF Fits, AnswerFine
  <2>3. QED  BY <1>1, <1>4, <1>6, <2>1, <2>2, TabActs
<1>8. ASSUME NEW c \in LoadCalls, c.answer.kind = "waiting", calls' = [calls EXCEPT ![t] = Append(Tail(@), c)]
      PROVE  TablesFine' /\ TablesQueued'
  <2>1. PICK r : r = Append(p, c)  OBVIOUS
  <2>2. calls' = [calls EXCEPT ![t] = r]  BY <1>2, <1>3, <1>8, <2>1
  <2>3. c \in TableCalls /\ c.what = "load"  BY DEF TableCalls, LoadCalls
  <2>4. MayAsk(p, c)  BY <1>8, <2>3 DEF MayAsk, MintsNothing
  <2>5. r \in Seq(TableCalls) /\ r # <<>> /\ QueueFine(r)  BY <1>4, <2>1, <2>3, <2>4, QueueAppended
  <2>6. (p = <<>> => Head(r) = c) /\ (p # <<>> => Head(r) = Head(p))
    BY <1>4, <2>1, <2>3, <2>4, QueueAppended
  <2>7. c.what # "mint" /\ MintsNothing(p) => MintsNothing(r)
    BY <1>4, <2>1, <2>3, <2>4, QueueAppended
  <2>8. Head(r).answer.kind = "waiting"  BY <1>4, <1>8, <2>6
  <2>9. \A i \in 1..Len(r) : r[i].what = "mint" => s.created = NoItem  BY <1>5, <2>3, <2>7 DEF MintsNothing
  <2>10. Fits(s, r)'  BY <2>8, <2>9 DEF Fits, AnswerFine
  <2>11. QED  BY <1>1, <1>6, <2>2, <2>5, <2>10, TabActs
<1>9. QED  BY <1>7, <1>8

\* A row that an action changed.
LEMMA UpdatedShape ==
    ASSUME NEW rows \in Seq(TableRows), RowsFine(rows), NEW target \in [id : Items, action : Actions],
           target.action # "delete",
           IF target.action = "revoke" THEN Ended(target.id) ELSE ~Has(rows, target.id, "revoked")
    PROVE  /\ Updated(rows, target) \in Seq(TableRows) /\ RowsFine(Updated(rows, target))
           /\ DOMAIN Updated(rows, target) = DOMAIN rows
           /\ \A n \in DOMAIN rows : Updated(rows, target)[n] =
                IF rows[n].id = target.id THEN [id |-> target.id, status |-> After(target.action)] ELSE rows[n]
<1>1. DOMAIN rows = 1..Len(rows) /\ Len(rows) \in Nat /\ \A n \in DOMAIN rows : rows[n] \in TableRows
  OBVIOUS
<1>2. After(target.action) \in Statuses /\ (After(target.action) = "revoked" => target.action = "revoke")
  BY DEF After, Actions, Statuses
<1>3. PICK status : status = After(target.action)  OBVIOUS
<1>4. PICK new : new = Updated(rows, target)  OBVIOUS
<1>5. ASSUME NEW n \in DOMAIN rows
      PROVE  [rows[n] EXCEPT !.status = status] = [id |-> rows[n].id, status |-> status]
  BY <1>1 DEF TableRows
<1>6. new = [n \in DOMAIN rows |-> IF rows[n].id = target.id THEN [rows[n] EXCEPT !.status = status] ELSE rows[n]]
  BY <1>3, <1>4 DEF Updated
<1>7. ASSUME NEW n \in DOMAIN rows
      PROVE  /\ new[n] = IF rows[n].id = target.id THEN [id |-> target.id, status |-> status] ELSE rows[n]
             /\ new[n] \in TableRows /\ new[n].id = rows[n].id
             /\ rows[n].id = target.id => new[n].status = status
             /\ rows[n].id # target.id => new[n].status = rows[n].status
  BY <1>1, <1>2, <1>3, <1>5, <1>6 DEF TableRows
<1>8. DOMAIN new = DOMAIN rows /\ new \in Seq(TableRows)
  <2>1. new \in [1..Len(rows) -> TableRows]  BY <1>1, <1>6, <1>7
  <2>2. QED  BY <1>1, <2>1
<1>9. RowsFine(new)
  <2>1. \A m, n \in DOMAIN new : new[m].id = new[n].id => new[m].status = new[n].status
    BY <1>7, <1>8 DEF RowsFine
  <2>2. ASSUME NEW n \in DOMAIN new, new[n].status = "revoked"  PROVE  Ended(new[n].id)
    <3>1. CASE rows[n].id = target.id  BY <1>2, <1>3, <1>7, <1>8, <2>2, <3>1
    <3>2. CASE rows[n].id # target.id  BY <1>7, <1>8, <2>2, <3>2 DEF RowsFine
    <3>3. QED  BY <3>1, <3>2
  <2>3. QED  BY <2>1, <2>2 DEF RowsFine
<1>10. QED  BY <1>3, <1>4, <1>7, <1>8, <1>9

\* No row comes back from revoked.
NoReturn(old, new) ==
    \A m \in DOMAIN old, n \in DOMAIN new :
        old[m].id = new[n].id /\ old[m].status = "revoked" => new[n].status = "revoked"

\* A tab handles an answer.
LEMMA TablesReceiveStep ==
    ASSUME TablesFine, TablesQueued, scene \in Tables, NEW t \in Tabs, TablesReceive(t)
    PROVE  /\ TablesFine' /\ TablesQueued'
           /\ NoReturn(table[t].rows, table'[t].rows) /\ \A u \in Tabs : u # t => table'[u] = table[u]
<1>1. PICK q, r : q = calls[t] /\ r = table[t]  OBVIOUS
<1>2. /\ calls \in [Tabs -> Seq(TableCalls)] /\ q \in Seq(TableCalls) /\ QueueFine(q) /\ Fits(r, q)
      /\ table \in [Tabs -> TableStates] /\ r \in TableStates /\ StateFine(r)
  BY <1>1 DEF TablesFine, TablesTypeOK, ItemStates, TablesQueued
<1>3. RowsFine(r.rows) /\ r.rows \in Seq(TableRows)  BY <1>2 DEF StateFine, TableStates, TableRows
<1>4. NoReturn(r.rows, r.rows)  BY <1>3 DEF NoReturn, RowsFine
<1>5. NoItem \in 0..MaxItems /\ Items \subseteq 0..MaxItems /\ NoItem \notin Items
  BY TablesAssumption DEF NoItem, Items
<1>6. PICK c : c = Head(q)  OBVIOUS
<1>7. ASSUME NEW whats, Answered(t, whats)
      PROVE  /\ q # <<>> /\ calls[t] # <<>> /\ c.what \in whats /\ c \in TableCalls /\ AnswerFine(r.rows, c)
             /\ Head(calls[t]) = c /\ Answer(t) = c.answer /\ Arg(t) = c.arg
             /\ c.what = "act" => c.arg.target.action \in Confirmable
  <2>1. q # <<>> /\ c.what \in whats /\ c = q[1] /\ 1 \in 1..Len(q) /\ Head(calls[t]) = c
    BY <1>1, <1>2, <1>6, <1>7 DEF Answered
  <2>2. AnswerFine(r.rows, c)  BY <1>2, <1>6, <2>1 DEF Fits
  <2>3. c.what = "act" => c.arg.target.action \in Confirmable  BY <1>2, <2>1 DEF QueueFine
  <2>4. QED  BY <1>1, <1>2, <2>1, <2>2, <2>3 DEF Answer, Arg
<1>8. ASSUME NEW page \in Nat \ {0}, NEW retried \in BOOLEAN, NEW quiet \in BOOLEAN
      PROVE  /\ Call("load", Load(page, retried, quiet)) \in LoadCalls
             /\ Call("load", Load(page, retried, quiet)).answer.kind = "waiting"
  BY DEF Call, Load, Waiting, LoadCalls, Unmet, Kinds
<1>9. ASSUME NEW s \in TableStates, StateFine(s), NoReturn(r.rows, s.rows), calls[t] # <<>>,
             s.created = r.created \/ Head(calls[t]).what = "mint",
             table' = [table EXCEPT ![t] = s], UNCHANGED <<item, drift>>,
             Received(t) \/ \E page \in Nat \ {0}, retried \in BOOLEAN, quiet \in BOOLEAN :
                                ReceivedThen(t, Call("load", Load(page, retried, quiet)))
      PROVE  /\ TablesFine' /\ TablesQueued'
             /\ NoReturn(table[t].rows, table'[t].rows) /\ \A u \in Tabs : u # t => table'[u] = table[u]
  <2>1. UNCHANGED scene  BY <1>9 DEF Received, ReceivedThen
  <2>2. \/ calls' = [calls EXCEPT ![t] = Tail(@)]
        \/ \E d \in LoadCalls : d.answer.kind = "waiting" /\ calls' = [calls EXCEPT ![t] = Append(Tail(@), d)]
    <3>1. CASE Received(t)  BY <3>1 DEF Received
    <3>2. ASSUME NEW page \in Nat \ {0}, NEW retried \in BOOLEAN, NEW quiet \in BOOLEAN,
                 ReceivedThen(t, Call("load", Load(page, retried, quiet)))
          PROVE  \E d \in LoadCalls : /\ d.answer.kind = "waiting"
                                      /\ calls' = [calls EXCEPT ![t] = Append(Tail(@), d)]
      BY <1>8, <3>2 DEF ReceivedThen
    <3>3. QED  BY <1>9, <3>1, <3>2
  <2>3. TablesFine' /\ TablesQueued'
    BY <1>1, <1>9, <2>1, <2>2, TabReceived
  <2>4. table'[t] = s /\ \A u \in Tabs : u # t => table'[u] = table[u]  BY <1>2, <1>9
  <2>5. QED  BY <1>1, <1>9, <2>3, <2>4
<1>10. ASSUME table' = table, calls[t] # <<>>, UNCHANGED <<item, drift>>,
             Received(t) \/ \E page \in Nat \ {0}, retried \in BOOLEAN, quiet \in BOOLEAN :
                                ReceivedThen(t, Call("load", Load(page, retried, quiet)))
      PROVE  /\ TablesFine' /\ TablesQueued'
             /\ NoReturn(table[t].rows, table'[t].rows) /\ \A u \in Tabs : u # t => table'[u] = table[u]
  <2>1. table' = [table EXCEPT ![t] = r]  BY <1>1, <1>2, <1>10
  <2>2. QED  BY <1>2, <1>4, <1>9, <1>10, <2>1
<1>11. CASE ReceiveLoad(t)
  <2>1. Answered(t, {"load"}) /\ UNCHANGED <<item, drift>>  BY <1>11 DEF ReceiveLoad
  <2>2. Received(t) \/ \E page \in Nat \ {0}, retried \in BOOLEAN, quiet \in BOOLEAN :
                           ReceivedThen(t, Call("load", Load(page, retried, quiet)))
    <3>1. ASSUME ReceivedThen(t, Call("load", Load(1, TRUE, FALSE)))
          PROVE  \E page \in Nat \ {0}, retried \in BOOLEAN, quiet \in BOOLEAN :
                    ReceivedThen(t, Call("load", Load(page, retried, quiet)))
      <4>1. 1 \in Nat \ {0} /\ TRUE \in BOOLEAN /\ FALSE \in BOOLEAN  OBVIOUS
      <4>2. QED  BY <3>1, <4>1, Zenon
    <3>2. Received(t) \/ ReceivedThen(t, Call("load", Load(1, TRUE, FALSE)))
      BY <1>11 DEF ReceiveLoad, FirstPage
    <3>3. QED  BY <3>1, <3>2
  <2>3. CASE c.answer.kind # "ok"
    <3>1. table' = table  BY <1>7, <1>11, <2>1, <2>3 DEF ReceiveLoad
    <3>2. QED  BY <1>7, <1>10, <2>1, <2>2, <3>1
  <2>4. CASE c.answer.kind = "ok"
    <3>1. c \in TableCalls /\ c.what = "load" /\ AnswerFine(r.rows, c) /\ Answer(t) = c.answer /\ calls[t] # <<>>
      BY <1>7, <2>1
    <3>2. PICK page : page = c.answer.data  OBVIOUS
    <3>3. page \in Pages  BY <2>4, <3>1, <3>2, TableCallParts
    <3>4. PICK s : s = [r EXCEPT !.rows = page.rows, !.page = page.page, !.total = page.total]  OBVIOUS
    <3>5. /\ s.rows = page.rows /\ s.created = r.created /\ s.heard = r.heard /\ s.seen = r.seen
          /\ s.target = r.target /\ s.data = r.data /\ s.error = r.error /\ s.runner = r.runner
      BY <1>2, <3>4 DEF TableStates
    <3>6. page.rows \in Seq([id : Items, status : Statuses]) /\ page.page \in Nat \ {0} /\ page.total \in 0..MaxItems
      BY <3>3 DEF Pages, TableRows
    <3>7. s \in TableStates  BY <1>2, <3>4, <3>6 DEF TableStates
    <3>8. /\ RowsFine(page.rows)
          /\ \A n \in DOMAIN page.rows :
                Has(r.rows, page.rows[n].id, "revoked") => page.rows[n].status = "revoked"
      BY <2>4, <3>1, <3>2 DEF AnswerFine
    <3>9. StateFine(s)  BY <1>2, <3>5, <3>8 DEF StateFine
    <3>10. NoReturn(r.rows, s.rows)  BY <3>5, <3>8 DEF NoReturn, Has
    <3>11. table' = [table EXCEPT ![t] = s]
      <4>1. Answer(t).kind = "ok"  BY <2>4, <3>1
      <4>2. table' = [table EXCEPT ![t].rows = page.rows, ![t].page = page.page, ![t].total = page.total]
        BY <1>11, <3>1, <3>2, <4>1 DEF ReceiveLoad
      <4>3. QED  BY <1>1, <1>2, <3>4, <4>2
    <3>12. QED  BY <1>9, <2>1, <2>2, <3>1, <3>5, <3>7, <3>9, <3>10, <3>11
  <2>5. QED  BY <2>3, <2>4
<1>12. CASE RunnerActed(t)
  <2>1. Answered(t, {"act"}) /\ UNCHANGED <<item, drift>> /\ scene = "runners" /\ Received(t)
    BY <1>12 DEF RunnerActed
  <2>2. CASE c.answer.kind # "ok"
    <3>1. table' = table  BY <1>7, <1>12, <2>1, <2>2 DEF RunnerActed
    <3>2. QED  BY <1>7, <1>10, <2>1, <3>1
  <2>3. CASE c.answer.kind = "ok"
    <3>1. /\ c \in TableCalls /\ c.what = "act" /\ AnswerFine(r.rows, c) /\ Answer(t) = c.answer
          /\ Arg(t) = c.arg /\ calls[t] # <<>> /\ c.arg.target.action \in Confirmable
      BY <1>7, <2>1
    <3>2. PICK target : target = c.arg.target  OBVIOUS
    <3>3. target \in [id : Items, action : Actions]  BY <3>1, <3>2, TableCallParts
    <3>4. target.action # "delete"  BY <2>1, <3>1, <3>2 DEF Confirmable
    <3>5. IF target.action = "revoke" THEN Ended(target.id) ELSE ~Has(r.rows, target.id, "revoked")
      BY <2>1, <2>3, <3>1, <3>2 DEF AnswerFine
    <3>6. PICK new : new = Updated(r.rows, target)  OBVIOUS
    <3>7. new \in Seq(TableRows) /\ RowsFine(new)  BY <1>3, <3>3, <3>4, <3>5, <3>6, UpdatedShape
    <3>8. /\ DOMAIN new = DOMAIN r.rows
          /\ \A n \in DOMAIN r.rows : new[n] =
                IF r.rows[n].id = target.id THEN [id |-> target.id, status |-> After(target.action)] ELSE r.rows[n]
      BY <1>3, <3>3, <3>4, <3>5, <3>6, UpdatedShape
    <3>9. NoReturn(r.rows, new)
      <4>1. SUFFICES ASSUME NEW m \in DOMAIN r.rows, NEW n \in DOMAIN r.rows,
                            r.rows[m].id = new[n].id, r.rows[m].status = "revoked"
                     PROVE  new[n].status = "revoked"
        BY <3>8 DEF NoReturn
      <4>2. CASE r.rows[n].id = target.id
        <5>1. new[n] = [id |-> target.id, status |-> After(target.action)]  BY <3>8, <4>2
        <5>2. Has(r.rows, target.id, "revoked")  BY <4>1, <5>1 DEF Has
        <5>3. target.action = "revoke"  BY <3>5, <5>2
        <5>4. QED  BY <5>1, <5>3 DEF After
      <4>3. CASE r.rows[n].id # target.id  BY <1>3, <3>8, <4>1, <4>3 DEF RowsFine
      <4>4. QED  BY <4>2, <4>3
    <3>10. PICK s : s = [r EXCEPT !.rows = new, !.target = NoTarget]  OBVIOUS
    <3>11. /\ s.rows = new /\ s.created = r.created /\ s.heard = r.heard /\ s.seen = r.seen
           /\ s.target = NoTarget /\ s.data = r.data /\ s.error = r.error /\ s.runner = r.runner
      BY <1>2, <3>10 DEF TableStates
    <3>12. new \in Seq([id : Items, status : Statuses]) /\ NoTarget \in [id : 0..MaxItems, action : Actions]
      BY <1>5, <3>7 DEF TableRows, NoTarget, Actions
    <3>13. s \in TableStates  BY <1>2, <3>10, <3>12 DEF TableStates
    <3>14. StateFine(s)  BY <1>2, <3>7, <3>11 DEF StateFine
    <3>15. table' = [table EXCEPT ![t] = s]
      <4>1. table' = [table EXCEPT ![t].rows = Updated(@, target), ![t].target = NoTarget]
        BY <1>12, <2>3, <3>1, <3>2 DEF RunnerActed
      <4>2. QED  BY <1>1, <1>2, <3>6, <3>10, <4>1
    <3>16. NoReturn(r.rows, s.rows)  BY <3>9, <3>11
    <3>17. QED  BY <1>9, <2>1, <3>1, <3>11, <3>13, <3>14, <3>15, <3>16
  <2>4. QED  BY <2>2, <2>3
<1>13. CASE KeyActed(t)
  <2>1. Answered(t, {"act"}) /\ UNCHANGED <<item, drift>> /\ ReceivedThen(t, QuietLoad(Arg(t).page))
    BY <1>13 DEF KeyActed
  <2>2. c \in TableCalls /\ c.what = "act" /\ Answer(t) = c.answer /\ Arg(t) = c.arg /\ calls[t] # <<>>
    BY <1>7, <2>1
  <2>3. Arg(t).page \in Nat \ {0}  BY <2>2, TableCallParts
  <2>4. \E page \in Nat \ {0}, retried \in BOOLEAN, quiet \in BOOLEAN :
            ReceivedThen(t, Call("load", Load(page, retried, quiet)))
    BY <2>1, <2>3 DEF QuietLoad
  <2>5. CASE table' = table  BY <1>10, <2>1, <2>2, <2>4, <2>5
  <2>6. CASE table' = [table EXCEPT ![t].target = NoTarget]
    <3>1. PICK s : s = [r EXCEPT !.target = NoTarget]  OBVIOUS
    <3>2. /\ s.rows = r.rows /\ s.created = r.created /\ s.heard = r.heard /\ s.seen = r.seen
          /\ s.target = NoTarget /\ s.data = r.data /\ s.error = r.error /\ s.runner = r.runner
      BY <1>2, <3>1 DEF TableStates
    <3>3. NoTarget \in [id : 0..MaxItems, action : Actions]  BY <1>5 DEF NoTarget, Actions
    <3>4. s \in TableStates  BY <1>2, <3>1, <3>3 DEF TableStates
    <3>5. StateFine(s)  BY <1>2, <3>2 DEF StateFine
    <3>6. table' = [table EXCEPT ![t] = s]  BY <1>1, <1>2, <2>6, <3>1
    <3>7. QED  BY <1>4, <1>9, <2>1, <2>2, <2>4, <3>2, <3>4, <3>5, <3>6
  <2>7. QED  BY <1>13, <2>5, <2>6 DEF KeyActed
<1>14. CASE ReceiveMint(t)
  <2>1. Answered(t, {"mint"}) /\ UNCHANGED <<item, drift>> /\ Received(t)  BY <1>14 DEF ReceiveMint
  <2>2. c \in TableCalls /\ c.what = "mint" /\ Answer(t) = c.answer /\ calls[t] # <<>> /\ Head(calls[t]) = c
    BY <1>7, <2>1
  <2>3. CASE c.answer.kind # "ok"
    <3>1. table' = table  BY <1>14, <2>2, <2>3 DEF ReceiveMint
    <3>2. QED  BY <1>10, <2>1, <2>2, <3>1
  <2>4. CASE c.answer.kind = "ok"
    <3>1. PICK i : i = c.answer.data.id  OBVIOUS
    <3>2. i \in Items  BY <2>2, <2>4, <3>1, TableCallParts
    <3>3. r.created = NoItem
      <4>1. q # <<>> /\ c = q[1] /\ 1 \in 1..Len(q)  BY <1>1, <1>2, <1>6, <2>2
      <4>2. QED  BY <1>2, <2>2, <4>1 DEF Fits
    <3>4. PICK heard : heard = r.heard \union {i}  OBVIOUS
    <3>5. heard \in SUBSET Items /\ heard \subseteq r.seen \union {i}
      <4>1. r.heard \in SUBSET Items  BY <1>2 DEF TableStates
      <4>2. r.heard \subseteq r.seen \union {r.created}  BY <1>2 DEF StateFine
      <4>3. QED  BY <1>5, <3>2, <3>3, <3>4, <4>1, <4>2
    <3>6. PICK s : s = [r EXCEPT !.created = i, !.heard = heard]  OBVIOUS
    <3>7. /\ s.rows = r.rows /\ s.created = i /\ s.heard = heard /\ s.seen = r.seen
          /\ s.target = r.target /\ s.data = r.data /\ s.error = r.error /\ s.runner = r.runner
      BY <1>2, <3>6 DEF TableStates
    <3>8. i \in 0..MaxItems  BY <1>5, <3>2
    <3>9. s \in TableStates  BY <1>2, <3>5, <3>6, <3>8 DEF TableStates
    <3>10. StateFine(s)  BY <1>2, <3>5, <3>7 DEF StateFine
    <3>11. table' = [table EXCEPT ![t] = s]
      <4>1. table' = [table EXCEPT ![t].created = i, ![t].heard = @ \union {i}]
        BY <1>14, <2>2, <2>4, <3>1 DEF ReceiveMint
      <4>2. QED  BY <1>1, <1>2, <3>4, <3>6, <4>1
    <3>12. QED  BY <1>4, <1>9, <2>1, <2>2, <3>7, <3>9, <3>10, <3>11
  <2>5. QED  BY <2>3, <2>4
<1>15. CASE ReceiveEvents(t)
  <2>1. Answered(t, {"events"}) /\ UNCHANGED <<item, drift>> /\ Received(t)  BY <1>15 DEF ReceiveEvents
  <2>2. c \in TableCalls /\ c.what = "events" /\ Answer(t) = c.answer /\ Arg(t) = c.arg /\ calls[t] # <<>>
    BY <1>7, <2>1
  <2>3. PICK i : i = c.arg.runner  OBVIOUS
  <2>4. i \in Items /\ i \in 0..MaxItems  BY <1>5, <2>2, <2>3, TableCallParts
  <2>5. CASE table' = table  BY <1>10, <2>1, <2>2, <2>5
  <2>6. ASSUME r.runner = i, NEW s, s = [r EXCEPT !.error = i] \/ s = [r EXCEPT !.data = i, !.error = NoItem],
               table' = [table EXCEPT ![t] = s]
        PROVE  /\ TablesFine' /\ TablesQueued'
               /\ NoReturn(table[t].rows, table'[t].rows) /\ \A u \in Tabs : u # t => table'[u] = table[u]
    <3>1. /\ s.rows = r.rows /\ s.created = r.created /\ s.heard = r.heard /\ s.seen = r.seen
          /\ s.target = r.target /\ s.runner = i
          /\ s.data \in {r.data, i} /\ s.error \in {i, NoItem}
      BY <1>2, <2>6 DEF TableStates
    <3>2. s \in TableStates
      <4>1. CASE s = [r EXCEPT !.error = i]  BY <1>2, <2>4, <4>1 DEF TableStates
      <4>2. CASE s = [r EXCEPT !.data = i, !.error = NoItem]  BY <1>2, <1>5, <2>4, <4>2 DEF TableStates
      <4>3. QED  BY <2>6, <4>1, <4>2
    <3>3. StateFine(s)  BY <1>2, <2>6, <3>1 DEF StateFine
    <3>4. QED  BY <1>4, <1>9, <2>1, <2>2, <2>6, <3>1, <3>2, <3>3
  <2>7. CASE IsForPanel(t) /\ table' = [table EXCEPT ![t].error = Arg(t).runner]
    <3>1. PICK s : s = [r EXCEPT !.error = i]  OBVIOUS
    <3>2. r.runner = i /\ table' = [table EXCEPT ![t] = s]
      BY <1>1, <1>2, <2>2, <2>3, <2>7, <3>1 DEF IsForPanel
    <3>3. QED  BY <2>6, <3>1, <3>2
  <2>8. CASE IsForPanel(t) /\ table' = [table EXCEPT ![t].data = Arg(t).runner, ![t].error = NoItem]
    <3>1. PICK s : s = [r EXCEPT !.data = i, !.error = NoItem]  OBVIOUS
    <3>2. r.runner = i /\ table' = [table EXCEPT ![t] = s]
      BY <1>1, <1>2, <2>2, <2>3, <2>8, <3>1 DEF IsForPanel
    <3>3. QED  BY <2>6, <3>1, <3>2
  <2>9. QED  BY <1>15, <2>5, <2>7, <2>8 DEF ReceiveEvents
<1>16. QED  BY <1>11, <1>12, <1>13, <1>14, <1>15 DEF TablesReceive

\* A step of a tab that handles no answer leaves the rows of every table.
LEMMA RowsStay ==
    ASSUME table \in [Tabs -> TableStates], NEW t \in Tabs,
           TablesClick(t) \/ TablesServe(t) \/ (Unreached(t) /\ UNCHANGED tableVars)
    PROVE  \A u \in Tabs : table'[u].rows = table[u].rows
<1> SUFFICES ASSUME NEW u \in Tabs  PROVE  table'[u].rows = table[u].rows
  OBVIOUS
<1>1. table[t] \in TableStates /\ table[u] \in TableStates  OBVIOUS
<1>2. ASSUME table' = table  PROVE  table'[u].rows = table[u].rows  BY <1>2
<1>3. CASE TablesServe(t)
  BY <1>2, <1>3 DEF TablesServe, ServeLoad, ServeEvents, ServeAct, RefuseMint, ServeMint, tableVars
<1>4. CASE UNCHANGED tableVars  BY <1>2, <1>4 DEF tableVars
<1>5. CASE Dismiss(t) \/ OpenMint(t) \/ CloseActivity(t)
  <2>1. CASE Dismiss(t)  BY <1>1, <2>1 DEF Dismiss, TableStates
  <2>2. CASE OpenMint(t)  BY <1>1, <2>2 DEF OpenMint, TableStates
  <2>3. CASE CloseActivity(t)  BY <1>1, <2>3 DEF CloseActivity, TableStates
  <2>4. QED  BY <1>5, <2>1, <2>2, <2>3
<1>6. CASE Confirm(t) \/ Mint(t) \/ PageActivity(t) \/ \E page \in 1..MaxItems : GoTo(t, page)
  BY <1>2, <1>6 DEF Confirm, Mint, PageActivity, GoTo, tableVars
<1>7. CASE CloseMint(t)  BY <1>1, <1>7 DEF CloseMint, TableStates
<1>8. ASSUME NEW n \in 1..TableSize, OpenActivity(t, n)  PROVE  table'[u].rows = table[u].rows
  BY <1>1, <1>8 DEF OpenActivity, TableStates
<1>9. ASSUME NEW n \in 1..TableSize, NEW action \in Actions, PickAction(t, n, action)
      PROVE  table'[u].rows = table[u].rows
  BY <1>1, <1>9 DEF PickAction, TableStates
<1>10. CASE TablesClick(t)
  BY <1>5, <1>6, <1>7, <1>8, <1>9, <1>10 DEF TablesClick
<1>11. QED  BY <1>3, <1>4, <1>10

\* A step of the tables keeps what they rely on, and brings no row back.
LEMMA TablesStep ==
    ASSUME TablesFine, TablesQueued, scene \in Tables, TablesNext
    PROVE  TablesFine' /\ TablesQueued' /\ \A u \in Tabs : NoReturn(table[u].rows, table'[u].rows)
<1>1. table \in [Tabs -> TableStates] /\ calls \in [Tabs -> Seq(TableCalls)]
  BY DEF TablesFine, TablesTypeOK, TablesQueued
<1>2. \A u \in Tabs : NoReturn(table[u].rows, table[u].rows)
  BY DEF TablesFine, StateFine, RowsFine, NoReturn
<1>3. ASSUME NEW i \in Items, Sweep(i)
      PROVE  TablesFine' /\ TablesQueued' /\ \A u \in Tabs : NoReturn(table[u].rows, table'[u].rows)
  BY <1>2, <1>3, TablesSweepStep DEF Sweep
<1>4. ASSUME NEW t \in Tabs, TablesClick(t) \/ TablesServe(t) \/ (Unreached(t) /\ UNCHANGED tableVars)
      PROVE  TablesFine' /\ TablesQueued' /\ \A u \in Tabs : NoReturn(table[u].rows, table'[u].rows)
  <2>1. ASSUME NEW u \in Tabs  PROVE  NoReturn(table[u].rows, table'[u].rows)
    <3>1. table'[u].rows = table[u].rows  BY <1>1, <1>4, RowsStay
    <3>2. QED  BY <1>2, <3>1
  <2>2. CASE Unreached(t) /\ UNCHANGED tableVars
    <3>1. /\ calls[t] # <<>> /\ calls' = WithAnswer(t, Failed) /\ UNCHANGED <<scene, item, table, drift>>
      BY <2>2 DEF Unreached, tableVars
    <3>2. PICK answer : answer = Failed  OBVIOUS
    <3>3. answer \in Unmet /\ answer.kind # "ok" /\ calls' = WithAnswer(t, answer)
      BY <3>1, <3>2 DEF Failed, Unmet, Kinds
    <3>4. ItemsGoOn  BY <3>1 DEF ItemsGoOn, Ended, TablesFine, TablesTypeOK, ItemStates, TablesQueued
    <3>5. Answering(Head(calls[t]).what, answer)  BY <3>3 DEF Answering
    <3>6. \A d \in TableCalls : d.answer = answer => AnswerFine(table[t].rows, d)'  BY <3>3 DEF AnswerFine
    <3>7. TablesFine' /\ TablesQueued'  BY <3>1, <3>3, <3>4, <3>5, <3>6, TabAnswered
    <3>8. QED  BY <2>1, <3>7
  <2>3. QED  BY <1>4, <2>1, <2>2, TablesClickStep, TablesServeStep
<1>5. ASSUME NEW t \in Tabs, TablesReceive(t)
      PROVE  TablesFine' /\ TablesQueued' /\ \A u \in Tabs : NoReturn(table[u].rows, table'[u].rows)
  BY <1>2, <1>5, TablesReceiveStep
<1>6. QED  BY <1>3, <1>4, <1>5 DEF TablesNext

(***************************************************************************)
(* The calls of every scene: a tab has few of them under way, and only the *)
(* first has an answer.                                                    *)
(***************************************************************************)
Brief(q) ==
    /\ Queue(q) /\ Len(q) <= MaxCalls
    /\ \A i \in DOMAIN q : Whole(q[i]) /\ q[i].answer.kind \in (IF i = 1 THEN Kinds ELSE {"waiting"})

CallsBrief ==
    /\ calls = [t \in Tabs |-> calls[t]] /\ \A t \in Tabs : Brief(calls[t])
    /\ clicks \in Nat /\ faults \in Nat

\* What is brief has the type that the model gives to the calls.
LEMMA BriefIsTyped == ASSUME CallsBrief PROVE CallsTypeOK
<1>1. ASSUME NEW t \in Tabs
      PROVE  /\ Len(calls[t]) <= MaxCalls
             /\ \A i \in 1..MaxCalls : i \in DOMAIN calls[t] =>
                    calls[t][i].answer.kind \in (IF i = 1 THEN Kinds ELSE {"waiting"})
  BY DEF CallsBrief, Brief
<1>2. QED  BY <1>1 DEF CallsTypeOK, CallsBrief

\* A queue is brief when it is no longer than a brief one and each of its calls
\* is whole and answered only in the first place.
LEMMA BriefPointwise ==
    ASSUME NEW n \in Nat, n <= MaxCalls, NEW p, p = [i \in 1..n |-> p[i]],
           \A i \in 1..n : Whole(p[i]) /\ p[i].answer.kind \in (IF i = 1 THEN Kinds ELSE {"waiting"})
    PROVE  Brief(p)
<1>1. p \in Seq(Range(p)) /\ Len(p) = n /\ DOMAIN p = 1..n
  <2>1. DOMAIN p = 1..n  OBVIOUS
  <2>2. p \in [1..n -> Range(p)]  BY <2>1 DEF Range
  <2>3. QED  BY <2>1, <2>2
<1>2. QED  BY <1>1 DEF Brief, Queue

\* What a brief queue is, place by place.
LEMMA BriefParts ==
    ASSUME NEW q, Brief(q)
    PROVE  /\ Len(q) \in Nat /\ Len(q) <= MaxCalls /\ DOMAIN q = 1..Len(q) /\ q = [i \in 1..Len(q) |-> q[i]]
           /\ \A i \in 1..Len(q) :
                /\ q[i] = [what |-> q[i].what, arg |-> q[i].arg, live |-> q[i].live, answer |-> q[i].answer]
                /\ q[i].answer.kind \in (IF i = 1 THEN Kinds ELSE {"waiting"})
<1>1. q \in Seq(Range(q))  BY DEF Brief, Queue
<1>2. Len(q) \in Nat /\ DOMAIN q = 1..Len(q) /\ q = [i \in 1..Len(q) |-> q[i]]  BY <1>1
<1>3. QED  BY <1>2 DEF Brief, Whole

\* A new call waits.
LEMMA BriefAppend ==
    ASSUME NEW q, Brief(q), Len(q) < MaxCalls, NEW what, NEW arg
    PROVE  Brief(Append(q, Call(what, arg)))
<1>1. PICK c : c = Call(what, arg)  OBVIOUS
<1>2. Whole(c) /\ c.answer.kind = "waiting"  BY <1>1 DEF Call, Whole, Waiting
<1>3. PICK n : n = Len(q)  OBVIOUS
<1>4. n \in Nat /\ n < MaxCalls /\ DOMAIN q = 1..n  BY <1>3, BriefParts
<1>5. PICK p : p = Append(q, c)  OBVIOUS
<1>6. p = [i \in 1..(n + 1) |-> p[i]] /\ p[n + 1] = c /\ \A i \in 1..n : p[i] = q[i]
  <2>1. PICK S : S = Range(q) \union {c}  OBVIOUS
  <2>2. q \in Seq(S) /\ c \in S
    <3>1. q \in Seq(Range(q))  BY DEF Brief, Queue
    <3>2. QED  BY <2>1, <3>1
  <2>3. p \in Seq(S) /\ Len(p) = n + 1 /\ p[n + 1] = c /\ \A i \in 1..n : p[i] = q[i]
    BY <1>3, <1>5, <2>2, AppendProperties
  <2>4. QED  BY <2>3
<1>7. ASSUME NEW i \in 1..(n + 1)
      PROVE  Whole(p[i]) /\ p[i].answer.kind \in (IF i = 1 THEN Kinds ELSE {"waiting"})
  <2>1. CASE i \in 1..n
    BY <1>4, <1>6, <2>1 DEF Brief
  <2>2. CASE i = n + 1
    BY <1>2, <1>6, <2>2 DEF Kinds
  <2>3. QED  BY <1>4, <2>1, <2>2
<1>8. n + 1 \in Nat /\ n + 1 <= MaxCalls  BY <1>4, CallsAssumption
<1>9. QED  BY <1>1, <1>5, <1>6, <1>7, <1>8, BriefPointwise

\* Once the first call is handled the next one is the first; it waits.
LEMMA BriefTail ==
    ASSUME NEW q, Brief(q), q # <<>>
    PROVE  Brief(Tail(q)) /\ Len(Tail(q)) < MaxCalls
<1>1. PICK n, p : n = Len(q) /\ p = Tail(q)  OBVIOUS
<1>2. n \in Nat \ {0} /\ n <= MaxCalls /\ DOMAIN q = 1..n /\ q \in Seq(Range(q))
  BY <1>1, BriefParts DEF Brief, Queue
<1>3. p = [i \in 1..(n - 1) |-> p[i]] /\ Len(p) = n - 1 /\ \A i \in 1..(n - 1) : p[i] = q[i + 1]
  <2>1. PICK S : S = Range(q)  OBVIOUS
  <2>2. p \in Seq(S) /\ Len(p) = n - 1 /\ \A i \in 1..Len(p) : p[i] = q[i + 1]
    BY <1>1, <1>2, <2>1, HeadTailProperties
  <2>3. QED  BY <2>2
<1>4. ASSUME NEW i \in 1..(n - 1)
      PROVE  Whole(p[i]) /\ p[i].answer.kind \in (IF i = 1 THEN Kinds ELSE {"waiting"})
  <2>1. i + 1 \in DOMAIN q /\ i + 1 # 1 /\ p[i] = q[i + 1]  BY <1>2, <1>3
  <2>2. QED  BY <2>1 DEF Brief, Kinds
<1>5. n - 1 \in Nat /\ n - 1 < MaxCalls /\ n - 1 <= MaxCalls  BY <1>2, CallsAssumption
<1>6. QED  BY <1>1, <1>3, <1>4, <1>5, BriefPointwise

\* A component that goes away shortens nothing and answers nothing.
LEMMA BriefSilenced ==
    ASSUME NEW q, Brief(q), NEW whats
    PROVE  Brief(Silenced(q, whats)) /\ Len(Silenced(q, whats)) = Len(q)
<1>1. PICK n, p : n = Len(q) /\ p = Silenced(q, whats)  OBVIOUS
<1>2. n \in Nat /\ n <= MaxCalls /\ DOMAIN q = 1..n  BY <1>1, BriefParts
<1>3. p = [i \in 1..n |-> p[i]] /\ \A i \in 1..n : p[i] = [q[i] EXCEPT !.live = @ /\ q[i].what \notin whats]
  BY <1>1, <1>2 DEF Silenced
<1>4. ASSUME NEW i \in 1..n
      PROVE  Whole(p[i]) /\ p[i].answer.kind \in (IF i = 1 THEN Kinds ELSE {"waiting"})
  <2>1. PICK c, heard : c = q[i] /\ heard = (c.live /\ c.what \notin whats)  OBVIOUS
  <2>2. p[i] = [c EXCEPT !.live = heard]  BY <1>3, <2>1
  <2>3. Whole(c) /\ c.answer.kind \in (IF i = 1 THEN Kinds ELSE {"waiting"})  BY <1>2, <2>1 DEF Brief
  <2>4. p[i] = [what |-> c.what, arg |-> c.arg, live |-> heard, answer |-> c.answer]  BY <2>2, <2>3 DEF Whole
  <2>5. Whole(p[i]) /\ p[i].answer = c.answer  BY <2>4 DEF Whole
  <2>6. QED  BY <2>3, <2>5
<1>5. Len(p) = n
  <2>1. DOMAIN p = 1..n  BY <1>3
  <2>2. QED  BY <1>2, <2>1
<1>6. QED  BY <1>1, <1>2, <1>3, <1>4, <1>5, BriefPointwise

\* The first call is answered.
LEMMA BriefAnswered ==
    ASSUME NEW q, Brief(q), q # <<>>, NEW answer, answer.kind \in Kinds
    PROVE  Brief([q EXCEPT ![1] = [q[1] EXCEPT !.answer = answer]])
<1>1. PICK n, c, d : n = Len(q) /\ c = q[1] /\ d = [c EXCEPT !.answer = answer]  OBVIOUS
<1>2. n \in Nat \ {0} /\ n <= MaxCalls /\ DOMAIN q = 1..n
  <2>1. q \in Seq(Range(q))  BY DEF Brief, Queue
  <2>2. QED  BY <1>1, <2>1, BriefParts
<1>3. PICK p : p = [q EXCEPT ![1] = d]  OBVIOUS
<1>4. p = [i \in 1..n |-> p[i]] /\ p[1] = d /\ \A i \in 1..n : i # 1 => p[i] = q[i]  
  <2>1. DOMAIN p = 1..n /\ p = [i \in DOMAIN p |-> p[i]]  BY <1>2, <1>3
  <2>2. 1 \in DOMAIN q /\ \A i \in DOMAIN q : p[i] = IF i = 1 THEN d ELSE q[i]  BY <1>2, <1>3
  <2>3. QED  BY <1>2, <2>1, <2>2
<1>5. Whole(c)  BY <1>1, <1>2 DEF Brief
<1>6. d = [what |-> c.what, arg |-> c.arg, live |-> c.live, answer |-> answer]  BY <1>1, <1>5 DEF Whole
<1>7. Whole(d) /\ d.answer = answer  BY <1>6 DEF Whole
<1>8. ASSUME NEW i \in 1..n
      PROVE  Whole(p[i]) /\ p[i].answer.kind \in (IF i = 1 THEN Kinds ELSE {"waiting"})
  <2>1. CASE i = 1
    BY <1>4, <1>7, <2>1
  <2>2. CASE i # 1
    <3>1. p[i] = q[i] /\ i \in DOMAIN q  BY <1>2, <1>4, <2>2
    <3>2. QED  BY <2>2, <3>1 DEF Brief
  <2>3. QED  BY <2>1, <2>2
<1>9. Brief(p)  BY <1>2, <1>4, <1>8, BriefPointwise
<1>10. QED  BY <1>1, <1>3, <1>9

\* How a step may move the calls of tab t.
CallMoves(t) ==
    \/ \E what, arg : Ask(t, what, arg)
    \/ \E whats : calls' = [calls EXCEPT ![t] = Silenced(@, whats)]
    \/ /\ calls[t] # <<>>
       /\ \/ \E answer : answer.kind \in Kinds /\ calls' = WithAnswer(t, answer)
          \/ calls' = [calls EXCEPT ![t] = Tail(@)]
          \/ \E what, arg : calls' = [calls EXCEPT ![t] = Append(Tail(@), Call(what, arg))]
          \/ \E whats : calls' = [calls EXCEPT ![t] = Silenced(Tail(@), whats)]
          \/ \E whats : calls' = [calls EXCEPT ![t] = Tail(Silenced(@, whats))]
CallsMove ==
    /\ UNCHANGED clicks \/ Clicked
    /\ UNCHANGED faults \/ Faulty
    /\ UNCHANGED calls \/ \E t \in Tabs : CallMoves(t)

\* However the calls move, they stay brief.
LEMMA CallsStayBrief == ASSUME CallsBrief, CallsMove PROVE CallsBrief'
<1>1. clicks' \in Nat /\ faults' \in Nat
  BY DEF CallsBrief, CallsMove, Clicked, Faulty
<1>2. ASSUME NEW t \in Tabs, NEW q, Brief(q), calls' = [calls EXCEPT ![t] = q]  PROVE  CallsBrief'
  <2>1. calls' = [u \in Tabs |-> IF u = t THEN q ELSE calls[u]]  BY <1>2 DEF CallsBrief
  <2>2. QED  BY <1>1, <1>2, <2>1 DEF CallsBrief
<1>3. CASE UNCHANGED calls
  BY <1>1, <1>3 DEF CallsBrief
<1> SUFFICES ASSUME NEW t \in Tabs, CallMoves(t)  PROVE  CallsBrief'
  BY <1>3 DEF CallsMove
<1>4. Brief(calls[t])  BY DEF CallsBrief
<1>5. ASSUME NEW what, NEW arg, Ask(t, what, arg)  PROVE  CallsBrief'
  <2>1. Brief(Append(calls[t], Call(what, arg)))  BY <1>4, <1>5, BriefAppend DEF Ask
  <2>2. calls' = [calls EXCEPT ![t] = Append(calls[t], Call(what, arg))]  BY <1>5 DEF Ask
  <2>3. QED  BY <1>2, <2>1, <2>2
<1>6. ASSUME NEW whats, calls' = [calls EXCEPT ![t] = Silenced(@, whats)]  PROVE  CallsBrief'
  <2>1. Brief(Silenced(calls[t], whats))  BY <1>4, BriefSilenced
  <2>2. QED  BY <1>2, <1>6, <2>1
<1>7. ASSUME calls[t] # <<>>, NEW answer, answer.kind \in Kinds, calls' = WithAnswer(t, answer)  PROVE  CallsBrief'
  <2>1. PICK q, p : q = calls[t] /\ p = [q EXCEPT ![1] = [q[1] EXCEPT !.answer = answer]]  OBVIOUS
  <2>2. Brief(p)  BY <1>4, <1>7, <2>1, BriefAnswered
  <2>3. calls' = [calls EXCEPT ![t] = p]  BY <1>7, <2>1 DEF WithAnswer, CallsBrief
  <2>4. QED  BY <1>2, <2>2, <2>3
<1>8. ASSUME calls[t] # <<>>  PROVE  Brief(Tail(calls[t])) /\ Len(Tail(calls[t])) < MaxCalls
  BY <1>4, <1>8, BriefTail
<1>9. ASSUME calls[t] # <<>>, calls' = [calls EXCEPT ![t] = Tail(@)]  PROVE  CallsBrief'
  BY <1>2, <1>8, <1>9
<1>10. ASSUME calls[t] # <<>>, NEW what, NEW arg, calls' = [calls EXCEPT ![t] = Append(Tail(@), Call(what, arg))]
       PROVE  CallsBrief'
  <2>1. Brief(Append(Tail(calls[t]), Call(what, arg)))  BY <1>8, <1>10, BriefAppend
  <2>2. QED  BY <1>2, <1>10, <2>1
<1>11. ASSUME calls[t] # <<>>, NEW whats, calls' = [calls EXCEPT ![t] = Silenced(Tail(@), whats)]  PROVE  CallsBrief'
  <2>1. Brief(Silenced(Tail(calls[t]), whats))  BY <1>8, <1>11, BriefSilenced
  <2>2. QED  BY <1>2, <1>11, <2>1
<1>12. ASSUME calls[t] # <<>>, NEW whats, calls' = [calls EXCEPT ![t] = Tail(Silenced(@, whats))]  PROVE  CallsBrief'
  <2>1. Brief(Silenced(calls[t], whats)) /\ Len(Silenced(calls[t], whats)) = Len(calls[t])  BY <1>4, BriefSilenced
  <2>2. Len(calls[t]) # 0
    <3>1. PICK q : q = calls[t]  OBVIOUS
    <3>2. q \in Seq(Range(q))  BY <1>4, <3>1 DEF Brief, Queue
    <3>3. QED  BY <1>12, <3>1, <3>2
  <2>3. Silenced(calls[t], whats) # <<>>  BY <2>1, <2>2
  <2>4. Brief(Tail(Silenced(calls[t], whats)))  BY <2>1, <2>3, BriefTail
  <2>5. QED  BY <1>2, <1>12, <2>4
<1>13. QED  BY <1>5, <1>6, <1>7, <1>9, <1>10, <1>11, <1>12 DEF CallMoves

\* A reply, and a call that does not land, move the calls.
LEMMA RepliesMove ==
    ASSUME NEW t \in Tabs, calls[t] # <<>>, NEW kind \in Kinds, NEW data, Reply(t, kind, data)
    PROVE  CallsMove
<1>1. PICK answer : answer.kind \in Kinds /\ calls' = WithAnswer(t, answer)
  <2>1. Failed.kind \in Kinds /\ [kind |-> kind, data |-> data].kind \in Kinds  BY DEF Failed, Kinds
  <2>2. QED  BY <2>1 DEF Reply
<1>2. QED  BY <1>1 DEF CallsMove, CallMoves, Reply, Clicked, Faulty

\* So does what reaches no handler.
LEMMA UnreachedMoves == ASSUME NEW t \in Tabs, Unreached(t) PROVE CallsMove
<1>1. Failed.kind \in Kinds  BY DEF Failed, Kinds
<1>2. QED  BY <1>1 DEF Unreached, CallsMove, CallMoves, Faulty

\* And a click, and an answer that is handled.
LEMMA ClicksMove ==
    ASSUME NEW t \in Tabs, NEW what, NEW arg, Click(t, what, arg) PROVE CallsMove
BY DEF Click, CallsMove, CallMoves, Clicked

\* An answer that is handled makes way for the next call.
LEMMA AnswersMove ==
    ASSUME NEW t \in Tabs, calls[t] # <<>>,
           \/ Received(t) \/ \E what, arg : ReceivedThen(t, Call(what, arg))
    PROVE  CallsMove
BY DEF Received, ReceivedThen, CallsMove, CallMoves

\* The steps of the feeds move the calls so.
LEMMA FeedsMoveCalls == FeedsNext => CallsMove
<1>1. ASSUME UNCHANGED callVars  PROVE  CallsMove  BY <1>1 DEF callVars, CallsMove
<1>2. ASSUME NEW t \in Tabs, Poll(t)  PROVE  CallsMove
  BY <1>2 DEF Poll, CallsMove, CallMoves
<1>3. ASSUME NEW t \in Tabs, FeedsClick(t)  PROVE  CallsMove
  <2>1. CASE OpenList(t) \/ \E e \in Entries : OpenGate(t, e)
    <3>1. calls' = [calls EXCEPT ![t] = Silenced(@, {"poll", "more", "resolve"})]
      BY <2>1 DEF OpenList, OpenGate, Leaving
    <3>2. (UNCHANGED clicks \/ Clicked) /\ (UNCHANGED faults \/ Faulty)
      BY <2>1 DEF OpenList, OpenGate, ShowList, ShowGate
    <3>3. QED  BY <3>1, <3>2 DEF CallsMove, CallMoves
  <2>2. CASE ~(OpenList(t) \/ \E e \in Entries : OpenGate(t, e))
    BY <1>3, <2>2, ClicksMove DEF FeedsClick, LoadMore, Resolve, Switch
  <2>3. QED  BY <2>1, <2>2
<1>4. ASSUME NEW t \in Tabs, FeedsServe(t)  PROVE  CallsMove
  <2>1. calls[t] # <<>> /\ \E kind, data : kind \in Kinds /\ Reply(t, kind, data)
    BY <1>4 DEF FeedsServe, ServeList, ServeResolve, RefuseResolve, ServeSwitch, AtServer, Kinds
  <2>2. QED  BY <2>1, RepliesMove
<1>5. ASSUME NEW t \in Tabs, FeedsReceive(t)  PROVE  CallsMove
  <2>1. calls[t] # <<>>
    BY <1>5 DEF FeedsReceive, ReceivePoll, ReceiveMore, ReceiveResolved, GateResolved, GateAlreadyResolved,
       GateNotResolved, ReceiveSwitch, Answered
  <2>2. CASE Received(t)
    BY <2>1, <2>2, AnswersMove
  <2>3. ASSUME NEW ws, Rerender(t, ws)  PROVE  CallMoves(t)
    BY <2>1, <2>3 DEF Rerender, CallMoves
  <2>4. ASSUME calls' = [calls EXCEPT ![t] = Tail(Leaving(t))]  PROVE  CallMoves(t)
    <3>1. calls' = [calls EXCEPT ![t] = Tail(Silenced(@, {"poll", "more", "resolve"}))]  BY <2>4 DEF Leaving
    <3>2. QED  BY <2>1, <3>1 DEF CallMoves
  <2>5. CASE GateResolved(t) \/ GateAlreadyResolved(t) \/ ReceiveSwitch(t)
    <3>1. CallMoves(t)
      BY <2>3, <2>4, <2>5 DEF GateResolved, GateAlreadyResolved, ReceiveSwitch
    <3>2. UNCHANGED clicks /\ (UNCHANGED faults \/ Faulty)
      BY <2>5 DEF GateResolved, GateAlreadyResolved, ReceiveSwitch, ShowList
    <3>3. QED  BY <3>1, <3>2 DEF CallsMove
  <2>6. CASE ~(GateResolved(t) \/ GateAlreadyResolved(t) \/ ReceiveSwitch(t))
    BY <1>5, <2>2, <2>6 DEF FeedsReceive, ReceivePoll, ReceiveMore, ReceiveResolved, GateNotResolved
  <2>7. QED  BY <2>5, <2>6
<1>6. QED
  BY <1>1, <1>2, <1>3, <1>4, <1>5, UnreachedMoves DEF FeedsNext, Create, ResolveElsewhere

\* So do the steps of the tables.
LEMMA TablesMoveCalls == TablesNext => CallsMove
<1>1. ASSUME UNCHANGED callVars  PROVE  CallsMove  BY <1>1 DEF callVars, CallsMove
<1>2. ASSUME NEW t \in Tabs, TablesClick(t)  PROVE  CallsMove
  <2>1. CASE CloseMint(t)
    <3>1. UNCHANGED <<clicks, faults>> /\ (UNCHANGED calls \/ \E what, arg : Ask(t, what, arg))
      BY <2>1 DEF CloseMint
    <3>2. QED  BY <3>1 DEF CallsMove, CallMoves
  <2>2. CASE ~CloseMint(t)
    BY <1>1, <1>2, <2>2, ClicksMove
       DEF TablesClick, Dismiss, Confirm, OpenMint, Mint, PageActivity, CloseActivity, GoTo, OpenActivity, PickAction
  <2>3. QED  BY <2>1, <2>2
<1>3. ASSUME NEW t \in Tabs, TablesServe(t)  PROVE  CallsMove
  <2>1. calls[t] # <<>>
    BY <1>3 DEF TablesServe, ServeLoad, ServeEvents, ServeAct, RefuseMint, ServeMint, AtServer
  <2>2. PICK kind, data : kind \in {"ok", "invalid", "terminal", "conflict"} /\ Reply(t, kind, data)
    <3>1. CASE ServeAct(t)
      BY <3>1 DEF ServeAct
    <3>2. CASE ServeLoad(t)
      BY <3>2 DEF ServeLoad
    <3>3. CASE ServeEvents(t)
      BY <3>3 DEF ServeEvents
    <3>4. CASE RefuseMint(t)
      BY <3>4 DEF RefuseMint
    <3>5. ASSUME NEW i \in Items, ServeMint(t, i)
          PROVE  \E kind, data : kind \in {"ok", "invalid", "terminal", "conflict"} /\ Reply(t, kind, data)
      <4>1. PICK data : data = [id |-> i]  OBVIOUS
      <4>2. Reply(t, "ok", data)  BY <3>5, <4>1 DEF ServeMint
      <4>3. QED  BY <4>2
    <3>6. QED  BY <1>3, <3>1, <3>2, <3>3, <3>4, <3>5 DEF TablesServe
  <2>3. kind \in Kinds  BY <2>2 DEF Kinds
  <2>4. QED  BY <2>1, <2>2, <2>3, RepliesMove
<1>4. ASSUME NEW t \in Tabs, TablesReceive(t)  PROVE  CallsMove
  <2>1. calls[t] # <<>> /\ (Received(t) \/ \E what, arg : ReceivedThen(t, Call(what, arg)))
    BY <1>4 DEF TablesReceive, ReceiveLoad, RunnerActed, KeyActed, ReceiveMint, ReceiveEvents, Answered, FirstPage,
       QuietLoad
  <2>2. QED  BY <2>1, AnswersMove
<1>5. QED  BY <1>1, <1>2, <1>3, <1>4, UnreachedMoves DEF TablesNext, Sweep

\* And those of the forms.
LEMMA FormsMoveCalls == FormsNext => CallsMove
<1>1. ASSUME UNCHANGED callVars  PROVE  CallsMove  BY <1>1 DEF callVars, CallsMove
<1>2. ASSUME NEW t \in Tabs, FormsClick(t)  PROVE  CallsMove
  BY <1>1, <1>2, ClicksMove
     DEF FormsClick, PickStatus, PickDelete, Cancel, ConfirmStatus, ConfirmDelete, Install, Add, Rotate, PickDrop,
     AddInline, Select, Rename, ConfirmDrop, CancelDrop, SaveProvider, ResetProvider, CreateSpace, SwitchSpace,
     Opens, Sends
<1>3. ASSUME NEW t \in Tabs, FormsServe(t)  PROVE  CallsMove
  <2>1. CASE \E w \in Spaces : ServeSpace(t, w)
    <3>1. PICK answer : answer.kind \in Kinds /\ calls' = WithAnswer(t, answer)
      <4>1. Failed.kind \in Kinds /\ [kind |-> "ok", data |-> <<>>].kind \in Kinds  BY DEF Failed, Kinds
      <4>2. QED  BY <2>1, <4>1 DEF ServeSpace
    <3>2. calls[t] # <<>> /\ UNCHANGED clicks /\ (UNCHANGED faults \/ Faulty)  BY <2>1 DEF ServeSpace, AtServer
    <3>3. QED  BY <3>1, <3>2 DEF CallsMove, CallMoves
  <2>2. CASE ~\E w \in Spaces : ServeSpace(t, w)
    <3>1. calls[t] # <<>> /\ \E kind, data : kind \in Kinds /\ Reply(t, kind, data)
      BY <1>3, <2>2 DEF FormsServe, ServeStatus, ServeDelete, ServeInstall, ServeCredential, ServeProvider, RefuseSpace,
         ServeSwitchSpace, Accepts, Refuses, AtServer, Kinds
    <3>2. QED  BY <3>1, RepliesMove
  <2>3. QED  BY <2>1, <2>2
<1>4. ASSUME NEW t \in Tabs, FormsReceive(t)  PROVE  CallsMove
  <2>1. calls[t] # <<>> /\ (Received(t) \/ \E what, arg : ReceivedThen(t, Call(what, arg)))
    BY <1>4 DEF FormsReceive, ReceiveForm, ReceiveRename, ReceiveUnname, ReceiveMove, Answered
  <2>2. QED  BY <2>1, AnswersMove
<1>5. QED  BY <1>1, <1>2, <1>3, <1>4, UnreachedMoves DEF FormsNext, PauseAgent

\* The calls are brief in every state of the dashboard.
LEMMA CallsBriefStart == Init => CallsBrief
<1> SUFFICES ASSUME NEW cast \in Casts, CallsInit(cast)  PROVE  CallsBrief
  BY DEF Init
<1>1. Brief(<<>>)
  <2>1. <<>> = [i \in 1..0 |-> <<>>[i]] /\ 0 \in Nat /\ 0 <= MaxCalls /\ 1..0 = {}  BY CallsAssumption
  <2>2. QED  BY <2>1, BriefPointwise
<1>2. QED  BY <1>1, CallsAssumption DEF CallsInit, CallsBrief

\* And every step keeps them so.
LEMMA CallsBriefStep == CallsBrief /\ [Next]_vars => CallsBrief'
<1>1. UNCHANGED vars => CallsMove  BY DEF vars, callVars, CallsMove
<1>2. [Next]_vars => CallsMove
  BY <1>1, FeedsMoveCalls, TablesMoveCalls, FormsMoveCalls DEF Next, Feed, Table, Form
<1>3. QED  BY <1>2, CallsStayBrief

(***************************************************************************)
(* The lists of the feeds: what a page of the API holds, what a tab shows  *)
(* and what its queue keeps of both.                                       *)
(***************************************************************************)
Descends(items) == \A i, j \in DOMAIN items : i < j => items[i] > items[j]
Ascends(items)  == \A i, j \in DOMAIN items : i < j => items[i] < items[j]
NoneOf(heard, items) == \A v \in heard : v.gate \notin Range(items)

\* A page that was read for ws past the cursor.
PageFine(page, ws, cursor) ==
    /\ page.items \in Seq(Entries) /\ page.cursor \in 0..MaxEntries
    /\ IF OldestFirst THEN Ascends(page.items) ELSE Descends(page.items)
    /\ \A n \in DOMAIN page.items : Home[page.items[n]] = ws /\ Past(cursor, page.items[n])
    /\ page.cursor # NoEntry => \A n \in DOMAIN page.items : OldestFirst \/ page.items[n] >= page.cursor
    /\ page.cursor # NoEntry => page.cursor \in Range(page.items)

\* What the tab shows: no gate that it was told of; gates of the workspace only,
\* when the page was read for it; rows in the order of the API, down to the cursor.
ShownFine(s, heard) ==
    /\ s.at = "gate" => scene = "approvals"
    /\ scene = "approvals" /\ s.at = "list" => NoneOf(heard, s.items)
    /\ scene = "approvals" /\ s.at = "list" /\ s.fresh /\ ~s.paged => \A n \in DOMAIN s.items : Home[s.items[n]] = s.ws
    /\ scene # "approvals" =>
         Descends(s.items) /\ (s.cursor # NoEntry => \A n \in DOMAIN s.items : s.items[n] >= s.cursor)

\* What a call asks, of a tab that shows s.
CallFits(s, c) ==
    /\ c.what = "poll" => /\ scene = "approvals" /\ c.arg \in [ws : Workspaces, cursor : {NoEntry}]
                          /\ c.live => s.at = "list" /\ c.arg.ws = s.ws
    /\ c.what = "more" => /\ c.arg \in [ws : Workspaces, cursor : Entries]
                          /\ c.live /\ scene # "approvals" => \A n \in DOMAIN s.items : s.items[n] >= c.arg.cursor
    /\ c.what = "resolve" => scene = "approvals"
    /\ c.what = "switch" => c.arg.ws \in Workspaces

\* A page that was answered, and what it holds for a tab that was told heard.
AnswerFits(heard, c) ==
    c.what \in {"poll", "more"} /\ c.answer.kind = "ok" =>
        /\ PageFine(c.answer.data, c.arg.ws, c.arg.cursor)
        /\ c.live /\ scene = "approvals" => NoneOf(heard, c.answer.data.items)

LiveMore(c) == c.what = "more" /\ c.live
QueueFits(s, q) ==
    /\ \A i \in DOMAIN q : CallFits(s, q[i])
    /\ \A i, j \in DOMAIN q : LiveMore(q[i]) /\ LiveMore(q[j]) => i = j
AnswersFit(heard, q) == \A i \in DOMAIN q : AnswerFits(heard, q[i])

TabFine(s, heard, q) == ShownFine(s, heard) /\ QueueFits(s, q) /\ AnswersFit(heard, q)

FeedsTyped == cookie \in Workspaces /\ feed \in [Tabs -> FeedStates]
FeedsFine  == \A t \in Tabs : TabFine(feed[t], told[t], calls[t])

\* The rows that the API lists: those that are pending in the workspace past the
\* cursor, in its order.
LEMMA ListedShape ==
    ASSUME RowsTyped, NEW ws, NEW cursor \in 0..MaxEntries
    PROVE  /\ Listed(ws, cursor) \in Seq(Entries)
           /\ IF OldestFirst THEN Ascends(Listed(ws, cursor)) ELSE Descends(Listed(ws, cursor))
           /\ \A n \in DOMAIN Listed(ws, cursor) :
                /\ Home[Listed(ws, cursor)[n]] = ws /\ Past(cursor, Listed(ws, cursor)[n])
                /\ entry[Listed(ws, cursor)[n]].status = "pending"
<1>1. PICK ids : ids = {e \in Entries : entry[e].status = "pending" /\ Home[e] = ws /\ Past(cursor, e)}  OBVIOUS
<1>2. PICK oldest \in BOOLEAN : oldest = OldestFirst  BY DEF OldestFirst
<1>3. PICK s, k : s = Ordered(ids, oldest) /\ k = Cardinality(ids)  OBVIOUS
<1>4. Listed(ws, cursor) = s  BY <1>1, <1>2, <1>3 DEF Listed
<1>5. ids \in SUBSET Int /\ ids \subseteq Entries /\ IsFiniteSet(ids)
  <2>1. IsFiniteSet(Entries) /\ Entries \subseteq Int  BY FeedsAssumption, FS_Interval DEF Entries
  <2>2. ids \subseteq Entries  BY <1>1
  <2>3. QED  BY <2>1, <2>2, FS_Subset
<1>6. /\ s \in [1..k -> ids] /\ k \in Nat
      /\ \A i, j \in 1..k : i < j => IF oldest THEN s[i] < s[j] ELSE s[i] > s[j]
  BY <1>3, <1>5, OrderedIsSorted
<1>7. s \in Seq(Entries) /\ DOMAIN s = 1..k
  <2>1. s \in [1..k -> Entries]  BY <1>5, <1>6
  <2>2. QED  BY <1>6, <2>1
<1>8. \A n \in DOMAIN s : s[n] \in ids  BY <1>6
<1>9. IF OldestFirst THEN Ascends(s) ELSE Descends(s)  BY <1>2, <1>6, <1>7 DEF Ascends, Descends
<1>10. QED  BY <1>1, <1>4, <1>7, <1>8, <1>9

\* A page of them, and its cursor.
LEMMA PageShape ==
    ASSUME RowsTyped, NEW ws, NEW cursor \in 0..MaxEntries, NEW page, page = Page(ws, cursor)
    PROVE  /\ PageFine(page, ws, cursor)
           /\ \A n \in DOMAIN page.items : entry[page.items[n]].status = "pending"
<1>1. PICK rows : rows = Listed(ws, cursor)  OBVIOUS
<1>2. /\ rows \in Seq(Entries) /\ DOMAIN rows = 1..Len(rows) /\ Len(rows) \in Nat
      /\ IF OldestFirst THEN Ascends(rows) ELSE Descends(rows)
      /\ \A n \in DOMAIN rows : Home[rows[n]] = ws /\ Past(cursor, rows[n]) /\ entry[rows[n]].status = "pending"
  BY <1>1, ListedShape
<1>3. PICK end : end = Min({PageSize, Len(rows)})  OBVIOUS
<1>4. end <= Len(rows) /\ end \in Nat /\ \A i \in 1..end : i \in DOMAIN rows /\ rows[i] \in Entries
  <2>1. PageSize \in Nat  BY FeedsAssumption
  <2>2. \E x \in {PageSize, Len(rows)} : \A y \in {PageSize, Len(rows)} : x =< y  BY <1>2, <2>1
  <2>3. end \in {PageSize, Len(rows)} /\ end <= Len(rows)  BY <1>3, <2>2 DEF Min
  <2>4. end \in Nat  BY <1>2, <2>1, <2>3
  <2>5. \A i \in DOMAIN rows : rows[i] \in Entries  BY <1>2
  <2>6. ASSUME NEW i \in 1..end  PROVE  i \in DOMAIN rows
    <3>1. PICK k : k = Len(rows)  OBVIOUS
    <3>2. k \in Nat /\ end <= k /\ DOMAIN rows = 1..k  BY <1>2, <2>3, <3>1
    <3>3. i \in 1..k  BY <2>4, <3>2
    <3>4. QED  BY <3>2, <3>3
  <2>7. QED  BY <2>3, <2>4, <2>5, <2>6
<1>5. PICK items : items = SubSeq(rows, 1, end)  OBVIOUS
<1>6. items \in Seq(Entries) /\ DOMAIN items = 1..end /\ Len(items) = end /\ \A i \in 1..end : items[i] = rows[i]
  <2>1. PICK S : S = Entries  OBVIOUS
  <2>2. items \in Seq(S) /\ Len(items) = end /\ \A i \in 1..end : items[i] = rows[i]
    <3>1. rows \in Seq(S) /\ 1 \in Int /\ end \in Int /\ \A i \in 1..end : rows[i] \in S  BY <1>2, <1>4, <2>1
    <3>2. /\ items \in Seq(S) /\ Len(items) = (IF 1 <= end THEN end - 1 + 1 ELSE 0)
          /\ \A i \in 1..(end - 1 + 1) : items[i] = rows[1 + i - 1]
      BY <1>5, <3>1, SubSeqProperties
    <3>3. Len(items) = end /\ end - 1 + 1 = end  BY <1>4, <3>2
    <3>4. \A i \in 1..end : 1 + i - 1 = i  OBVIOUS
    <3>5. QED  BY <3>2, <3>3, <3>4
  <2>3. QED  BY <2>1, <2>2
<1>7. PICK last : last = (IF Len(items) = PageSize THEN Last(items) ELSE NoEntry)  OBVIOUS
<1>8. page.items = items /\ page.cursor = last
  BY <1>1, <1>3, <1>5, <1>7 DEF Page
<1>9. \A i \in 1..end : i \in DOMAIN rows /\ items[i] = rows[i] /\ items[i] \in Entries  BY <1>4, <1>6
<1>10. IF OldestFirst THEN Ascends(items) ELSE Descends(items)
  BY <1>2, <1>6, <1>9 DEF Ascends, Descends
<1>11. /\ last \in 0..MaxEntries
       /\ last # NoEntry => last \in Range(items) /\ \A n \in DOMAIN items : OldestFirst \/ items[n] >= last
  <2>1. CASE Len(items) # PageSize
    BY <1>7, <2>1, FeedsAssumption DEF NoEntry
  <2>2. CASE Len(items) = PageSize
    <3>1. end \in Nat \ {0} /\ last = items[end] /\ end \in DOMAIN items
      BY <1>4, <1>6, <1>7, <2>2, FeedsAssumption DEF Last
    <3>2. last \in Range(items) /\ last \in Entries  BY <1>6, <1>9, <3>1 DEF Range
    <3>3. ASSUME NEW n \in DOMAIN items, ~OldestFirst  PROVE  items[n] >= last
      <4>1. n \in Int /\ n <= end /\ items[n] \in Int /\ last \in Int  BY <1>4, <1>6, <1>9, <3>1 DEF Entries
      <4>2. n < end => items[n] > items[end]  BY <1>10, <3>1, <3>3 DEF Descends
      <4>3. QED  BY <3>1, <4>1, <4>2
    <3>4. QED  BY <3>2, <3>3, FeedsAssumption DEF Entries
  <2>3. QED  BY <2>1, <2>2
<1>12. PageFine(page, ws, cursor)
  BY <1>2, <1>6, <1>8, <1>9, <1>10, <1>11 DEF PageFine
<1>13. QED  BY <1>2, <1>6, <1>8, <1>9, <1>12

\* A list that is mounted shows its page as it came.
LEMMA ListShown ==
    ASSUME NEW ws \in Workspaces, NEW active \in Workspaces, NEW page, PageFine(page, ws, NoEntry),
           NEW heard, NoneOf(heard, page.items), NEW s, s = ListOf(ws, active, page)
    PROVE  s \in FeedStates /\ ShownFine(s, heard)
<1>1. s = [at |-> "list", ws |-> ws, active |-> active, items |-> page.items, cursor |-> page.cursor,
           paged |-> FALSE, fresh |-> TRUE, error |-> FALSE, gate |-> NoEntry, status |-> "unborn"]
  BY DEF ListOf
<1>2. /\ s.at = "list" /\ s.ws = ws /\ s.active = active /\ s.items = page.items /\ s.cursor = page.cursor
  BY <1>1
<1>3. page.items \in Seq(Entries) /\ page.cursor \in 0..MaxEntries /\ NoEntry \in 0..MaxEntries
  BY FeedsAssumption DEF PageFine, NoEntry
<1>4. s \in FeedStates
  BY <1>1, <1>3 DEF FeedStates
<1>5. ShownFine(s, heard)
  BY <1>2 DEF ShownFine, PageFine, OldestFirst
<1>6. QED  BY <1>4, <1>5

\* An empty page is fine.
LEMMA NoRowsFine ==
    ASSUME NEW ws, NEW heard
    PROVE  PageFine(NoRows, ws, NoEntry) /\ NoneOf(heard, NoRows.items)
<1>1. NoRows.items = <<>> /\ NoRows.cursor = NoEntry  BY DEF NoRows
<1>2. <<>> \in Seq(Entries) /\ DOMAIN <<>> = {} /\ NoEntry \in 0..MaxEntries  BY FeedsAssumption DEF NoEntry
<1>3. QED  BY <1>1, <1>2 DEF PageFine, NoneOf, Ascends, Descends, Range

\* A gate that a tab was told of is on no page of the API.
LEMMA ToldIsNotListed ==
    ASSUME NEW heard, \A v \in heard : entry[v.gate].status \in Verdicts,
           NEW items, \A n \in DOMAIN items : entry[items[n]].status = "pending"
    PROVE  NoneOf(heard, items)
BY DEF NoneOf, Range, Verdicts

\* The page of a gate, and the page that is not found.
LEMMA GateShown ==
    ASSUME RowsTyped, NEW ws \in Workspaces, NEW active \in Workspaces, NEW e, NEW heard,
           NEW s, s = GateOf(ws, active, e), scene = "approvals" \/ e = NoEntry
    PROVE  s \in FeedStates /\ ShownFine(s, heard) /\ s.at # "list"
<1>1. PICK blank : blank = ListOf(ws, active, NoRows)  OBVIOUS
<1>2. blank = [at |-> "list", ws |-> ws, active |-> active, items |-> <<>>, cursor |-> NoEntry,
           paged |-> FALSE, fresh |-> TRUE, error |-> FALSE, gate |-> NoEntry, status |-> "unborn"]
  BY <1>1 DEF ListOf, NoRows
<1>3. <<>> \in Seq(Entries) /\ DOMAIN <<>> = {} /\ NoEntry \in 0..MaxEntries /\ NoEntry \notin Entries
  BY FeedsAssumption DEF NoEntry, Entries
<1>4. CASE e \in Entries /\ Home[e] = ws /\ Requested(e)
  <2>1. s = [blank EXCEPT !.at = "gate", !.gate = e, !.status = entry[e].status]
    BY <1>1, <1>4 DEF GateOf
  <2>2. s = [at |-> "gate", ws |-> ws, active |-> active, items |-> <<>>, cursor |-> NoEntry,
             paged |-> FALSE, fresh |-> TRUE, error |-> FALSE, gate |-> e, status |-> entry[e].status]
    BY <1>2, <2>1
  <2>3. entry[e].status \in Verdicts \union {"pending"} /\ e \in 0..MaxEntries
    BY <1>4 DEF RowsTyped, RowStates, Requested, Entries
  <2>4. s \in FeedStates  BY <1>3, <2>2, <2>3 DEF FeedStates
  <2>5. scene = "approvals" /\ s.at = "gate"  BY <1>3, <1>4, <2>2
  <2>6. QED  BY <2>4, <2>5 DEF ShownFine
<1>5. CASE ~(e \in Entries /\ Home[e] = ws /\ Requested(e))
  <2>1. s = [blank EXCEPT !.at = "nothing"]
    BY <1>1, <1>5 DEF GateOf
  <2>2. s = [at |-> "nothing", ws |-> ws, active |-> active, items |-> <<>>, cursor |-> NoEntry,
             paged |-> FALSE, fresh |-> TRUE, error |-> FALSE, gate |-> NoEntry, status |-> "unborn"]
    BY <1>2, <2>1
  <2>3. s \in FeedStates  BY <1>3, <2>2 DEF FeedStates
  <2>4. s.at = "nothing" /\ s.items = <<>>  BY <2>2
  <2>5. QED  BY <1>3, <2>3, <2>4 DEF ShownFine, Descends
<1>6. QED  BY <1>4, <1>5

\* Showing or hiding an error changes nothing else.
LEMMA ErrorShown ==
    ASSUME NEW s \in FeedStates, NEW heard, ShownFine(s, heard), NEW r,
           r = [s EXCEPT !.error = FALSE] \/ r = [s EXCEPT !.error = TRUE]
    PROVE  /\ r \in FeedStates /\ ShownFine(r, heard)
           /\ r.at = s.at /\ r.ws = s.ws /\ r.items = s.items
<1>1. r \in FeedStates  BY DEF FeedStates
<1>2. /\ r.at = s.at /\ r.ws = s.ws /\ r.items = s.items /\ r.fresh = s.fresh /\ r.paged = s.paged
      /\ r.cursor = s.cursor
  BY DEF FeedStates
<1>3. QED  BY <1>1, <1>2 DEF ShownFine

(***************************************************************************)
(* What the steps do to a queue.                                           *)
(***************************************************************************)
\* A new call fits when it asks for what the tab shows; no two ask for more.
LEMMA FitsAppended ==
    ASSUME NEW s, NEW heard, NEW q, Brief(q), QueueFits(s, q), AnswersFit(heard, q), NEW what, NEW arg,
           CallFits(s, Call(what, arg)), what = "more" => \A i \in DOMAIN q : ~LiveMore(q[i])
    PROVE  QueueFits(s, Append(q, Call(what, arg))) /\ AnswersFit(heard, Append(q, Call(what, arg)))
<1>1. PICK n, c, p : n = Len(q) /\ c = Call(what, arg) /\ p = Append(q, c)  OBVIOUS
<1>2. n \in Nat /\ DOMAIN q = 1..n /\ DOMAIN p = 1..(n + 1) /\ p[n + 1] = c /\ \A i \in 1..n : p[i] = q[i]
  <2>1. PICK S : S = Range(q) \union {c}  OBVIOUS
  <2>2. q \in Seq(S) /\ c \in S
    <3>1. q \in Seq(Range(q))  BY DEF Brief, Queue
    <3>2. QED  BY <2>1, <3>1
  <2>3. p \in Seq(S) /\ Len(p) = n + 1 /\ p[n + 1] = c /\ \A i \in 1..n : p[i] = q[i]
    BY <1>1, <2>2, AppendProperties
  <2>4. QED  BY <1>1, <2>2, <2>3
<1>3. c.what = what /\ c.answer.kind = "waiting"  BY <1>1 DEF Call, Waiting
<1>4. ASSUME NEW i \in 1..(n + 1)  PROVE  CallFits(s, p[i]) /\ AnswerFits(heard, p[i])
  <2>1. CASE i \in 1..n
    BY <1>2, <2>1 DEF QueueFits, AnswersFit
  <2>2. CASE i = n + 1
    BY <1>1, <1>2, <1>3, <2>2 DEF AnswerFits
  <2>3. QED  BY <1>2, <2>1, <2>2
<1>5. ASSUME NEW i \in 1..(n + 1), NEW j \in 1..(n + 1), LiveMore(p[i]), LiveMore(p[j])  PROVE  i = j
  <2>1. \A k \in 1..(n + 1) : k \in 1..n \/ k = n + 1  BY <1>2
  <2>2. LiveMore(p[n + 1]) => \A k \in 1..n : ~LiveMore(p[k])  BY <1>2, <1>3 DEF LiveMore
  <2>3. \A k, l \in 1..n : LiveMore(p[k]) /\ LiveMore(p[l]) => k = l  BY <1>2 DEF QueueFits
  <2>4. QED  BY <1>5, <2>1, <2>2, <2>3
<1>6. QED  BY <1>1, <1>2, <1>4, <1>5 DEF QueueFits, AnswersFit

\* The rest of a queue fits, whatever the tab was told meanwhile: it waits.  The
\* first call fits, and if it asked for more no other does.
LEMMA FitsTail ==
    ASSUME NEW s, NEW q, Brief(q), QueueFits(s, q), q # <<>>
    PROVE  /\ QueueFits(s, Tail(q)) /\ CallFits(s, Head(q))
           /\ \A heard : AnswersFit(heard, Tail(q))
           /\ \A heard : AnswersFit(heard, q) => AnswerFits(heard, Head(q))
           /\ LiveMore(Head(q)) => \A i \in DOMAIN Tail(q) : ~LiveMore(Tail(q)[i])
<1>1. PICK n, p : n = Len(q) /\ p = Tail(q)  OBVIOUS
<1>2. /\ n \in Nat \ {0} /\ DOMAIN q = 1..n /\ DOMAIN p = 1..(n - 1)
      /\ \A i \in 1..(n - 1) : p[i] = q[i + 1] /\ i + 1 \in DOMAIN q /\ i + 1 # 1
  <2>1. PICK S : S = Range(q)  OBVIOUS
  <2>2. q \in Seq(S)  BY <2>1 DEF Brief, Queue
  <2>3. p \in Seq(S) /\ Len(p) = n - 1 /\ \A i \in 1..Len(p) : p[i] = q[i + 1]
    BY <1>1, <2>2, HeadTailProperties
  <2>4. n \in Nat \ {0} /\ DOMAIN q = 1..n  BY <1>1, <2>2
  <2>5. DOMAIN p = 1..(n - 1)  BY <2>3, <2>4
  <2>6. \A i \in 1..(n - 1) : i + 1 \in 1..n /\ i + 1 # 1  BY <2>4
  <2>7. QED  BY <2>3, <2>4, <2>5, <2>6
<1>3. Head(q) = q[1] /\ 1 \in DOMAIN q
  <2>1. q \in Seq(Range(q))  BY DEF Brief, Queue
  <2>2. QED  BY <1>2, <2>1
<1>4. CallFits(s, Head(q)) /\ \A heard : AnswersFit(heard, q) => AnswerFits(heard, Head(q))
  BY <1>3 DEF QueueFits, AnswersFit
<1>5. \A i \in DOMAIN p : CallFits(s, p[i])  BY <1>2 DEF QueueFits
<1>6. \A i, j \in DOMAIN p : LiveMore(p[i]) /\ LiveMore(p[j]) => i = j
  <2>1. ASSUME NEW i \in 1..(n - 1), NEW j \in 1..(n - 1), LiveMore(p[i]), LiveMore(p[j])  PROVE  i = j
    <3>1. i + 1 = j + 1  BY <1>2, <2>1 DEF QueueFits
    <3>2. QED  BY <3>1
  <2>2. QED  BY <1>2, <2>1
<1>7. \A i \in DOMAIN p : p[i].answer.kind = "waiting"  BY <1>2 DEF Brief
<1>8. LiveMore(Head(q)) => \A i \in DOMAIN p : ~LiveMore(p[i])
  BY <1>2, <1>3 DEF QueueFits
<1>9. QED  BY <1>1, <1>4, <1>5, <1>6, <1>7, <1>8 DEF QueueFits, AnswersFit, AnswerFits

\* A queue fits another state of the tab in which the polls and the calls for
\* more that are still heard mean the same.
LEMMA FitsSilenced ==
    ASSUME NEW s, NEW r, NEW q, Brief(q), QueueFits(s, q), NEW whats,
           "poll" \in whats \/ scene # "approvals" \/ s.at # "list" \/ (r.at = s.at /\ r.ws = s.ws),
           "more" \in whats \/ scene = "approvals" \/ r.items = s.items
    PROVE  QueueFits(r, Silenced(q, whats))
<1>1. PICK p : p = Silenced(q, whats)  OBVIOUS
<1>2. DOMAIN p = DOMAIN q  BY <1>1 DEF Silenced
<1>3. ASSUME NEW i \in DOMAIN q
      PROVE  p[i].what = q[i].what /\ p[i].arg = q[i].arg /\ p[i].answer = q[i].answer
             /\ (p[i].live <=> q[i].live /\ q[i].what \notin whats)
  <2>1. PICK c, heard : c = q[i] /\ heard = (c.live /\ c.what \notin whats)  OBVIOUS
  <2>2. p[i] = [c EXCEPT !.live = heard]  BY <1>1, <2>1 DEF Silenced
  <2>3. c = [what |-> c.what, arg |-> c.arg, live |-> c.live, answer |-> c.answer]  BY <2>1 DEF Brief, Whole
  <2>4. p[i] = [what |-> c.what, arg |-> c.arg, live |-> heard, answer |-> c.answer]  BY <2>2, <2>3
  <2>5. p[i].what = c.what /\ p[i].arg = c.arg /\ p[i].answer = c.answer /\ p[i].live = heard  BY <2>4
  <2>6. QED  BY <2>1, <2>5
<1>4. ASSUME NEW i \in DOMAIN q  PROVE  CallFits(r, p[i])
  <2>1. CallFits(s, q[i])  BY DEF QueueFits
  <2>2. QED  BY <1>3, <2>1 DEF CallFits
<1>5. \A i \in DOMAIN q : LiveMore(p[i]) => LiveMore(q[i])  BY <1>3 DEF LiveMore
<1>6. QED  BY <1>1, <1>2, <1>4, <1>5 DEF QueueFits

\* The same when nothing is silenced.
LEMMA FitsKept ==
    ASSUME NEW s, NEW r, NEW q, QueueFits(s, q),
           scene # "approvals" \/ s.at # "list" \/ (r.at = s.at /\ r.ws = s.ws),
           scene = "approvals" \/ r.items = s.items
    PROVE  QueueFits(r, q)
<1>1. ASSUME NEW i \in DOMAIN q  PROVE  CallFits(r, q[i])
  BY DEF QueueFits, CallFits
<1>2. QED  BY <1>1 DEF QueueFits

\* The answers fit another thing told when their pages are not heard of any more.
LEMMA AnswersSilenced ==
    ASSUME NEW heard, NEW more, NEW q, Brief(q), AnswersFit(heard, q), NEW whats,
           more = heard \/ {"poll", "more"} \subseteq whats \/ \A i \in DOMAIN q : q[i].answer.kind = "waiting"
    PROVE  AnswersFit(more, Silenced(q, whats))
<1>1. PICK p : p = Silenced(q, whats)  OBVIOUS
<1>2. DOMAIN p = DOMAIN q  BY <1>1 DEF Silenced
<1>3. ASSUME NEW i \in DOMAIN q  PROVE  AnswerFits(more, p[i])
  <2>1. PICK c, live : c = q[i] /\ live = (c.live /\ c.what \notin whats)  OBVIOUS
  <2>2. p[i] = [c EXCEPT !.live = live]  BY <1>1, <2>1 DEF Silenced
  <2>3. c = [what |-> c.what, arg |-> c.arg, live |-> c.live, answer |-> c.answer]  BY <2>1 DEF Brief, Whole
  <2>4. p[i] = [what |-> c.what, arg |-> c.arg, live |-> live, answer |-> c.answer]  BY <2>2, <2>3
  <2>5. p[i].what = c.what /\ p[i].arg = c.arg /\ p[i].answer = c.answer /\ p[i].live = live  BY <2>4
  <2>6. AnswerFits(heard, c)  BY <2>1 DEF AnswersFit
  <2>7. QED  BY <2>1, <2>5, <2>6 DEF AnswerFits
<1>4. QED  BY <1>1, <1>2, <1>3 DEF AnswersFit

\* An answer fits its call.
LEMMA FitsAnswered ==
    ASSUME NEW s, NEW heard, NEW q, Brief(q), q # <<>>, QueueFits(s, q), AnswersFit(heard, q), NEW answer,
           Head(q).what \in {"poll", "more"} /\ answer.kind = "ok" =>
               PageFine(answer.data, Head(q).arg.ws, Head(q).arg.cursor)
               /\ (scene = "approvals" => NoneOf(heard, answer.data.items)),
           NEW p, p = [q EXCEPT ![1] = [q[1] EXCEPT !.answer = answer]]
    PROVE  QueueFits(s, p) /\ AnswersFit(heard, p)
<1>1. PICK c, d : c = q[1] /\ d = [c EXCEPT !.answer = answer]  OBVIOUS
<1>2. 1 \in DOMAIN q /\ Head(q) = c
  <2>1. q \in Seq(Range(q))  BY DEF Brief, Queue
  <2>2. QED  BY <1>1, <2>1
<1>3. c = [what |-> c.what, arg |-> c.arg, live |-> c.live, answer |-> c.answer]  BY <1>1, <1>2 DEF Brief, Whole
<1>4. d = [what |-> c.what, arg |-> c.arg, live |-> c.live, answer |-> answer]  BY <1>1, <1>3
<1>5. d.what = c.what /\ d.arg = c.arg /\ d.live = c.live /\ d.answer = answer  BY <1>4
<1>6. DOMAIN p = DOMAIN q /\ \A i \in DOMAIN q : p[i] = IF i = 1 THEN d ELSE q[i]  BY <1>1, <1>2
<1>7. CallFits(s, c) /\ AnswerFits(heard, c)  BY <1>1, <1>2 DEF QueueFits, AnswersFit
<1>8. CallFits(s, d) /\ AnswerFits(heard, d)  BY <1>2, <1>5, <1>7 DEF CallFits, AnswerFits
<1>9. \A i \in DOMAIN q : LiveMore(p[i]) => LiveMore(q[i])
  BY <1>1, <1>5, <1>6 DEF LiveMore
<1>10. ASSUME NEW i \in DOMAIN q  PROVE  CallFits(s, p[i]) /\ AnswerFits(heard, p[i])
  BY <1>6, <1>8 DEF QueueFits, AnswersFit
<1>11. QED  BY <1>6, <1>9, <1>10 DEF QueueFits, AnswersFit

(***************************************************************************)
(* The steps of the feeds, tab by tab.                                     *)
(***************************************************************************)
\* What is fine stays fine while the scene is the same.
LEMMA FineLater ==
    ASSUME UNCHANGED scene, NEW s, NEW heard, NEW q, TabFine(s, heard, q)
    PROVE  TabFine(s, heard, q)'
<1>1. \A page, ws, cursor : PageFine(page, ws, cursor) => PageFine(page, ws, cursor)'
  BY DEF PageFine, OldestFirst, Past, Ascends, Descends
<1>2. ShownFine(s, heard)'
  BY DEF TabFine, ShownFine, NoneOf, Descends
<1>3. \A c : CallFits(s, c) => CallFits(s, c)'
  BY DEF CallFits
<1>4. \A c : AnswerFits(heard, c) => AnswerFits(heard, c)'
  BY <1>1 DEF AnswerFits, NoneOf
<1>5. QED
  BY <1>2, <1>3, <1>4 DEF TabFine, QueueFits, AnswersFit, LiveMore

\* A step that moves no tab.
LEMMA FeedsStand ==
    ASSUME FeedsTyped, FeedsFine, UNCHANGED <<scene, cookie, feed, told, calls>>
    PROVE  FeedsTyped' /\ FeedsFine'
<1>1. ASSUME NEW t \in Tabs  PROVE  TabFine(feed[t], told[t], calls[t])'
  <2>1. PICK s, heard, q : s = feed[t] /\ heard = told[t] /\ q = calls[t]  OBVIOUS
  <2>2. TabFine(s, heard, q)  BY <2>1 DEF FeedsFine
  <2>3. TabFine(s, heard, q)'  BY <2>2, FineLater
  <2>4. feed'[t] = s /\ told'[t] = heard /\ calls'[t] = q  BY <2>1
  <2>5. QED  BY <2>3, <2>4
<1>2. QED  BY <1>1 DEF FeedsTyped, FeedsFine

\* A step that moves the state of tab t to s, what it was told to heard and its
\* queue to q.
TabTo(t, s, heard, q) ==
    /\ UNCHANGED scene
    /\ feed' = [u \in Tabs |-> IF u = t THEN s ELSE feed[u]]
    /\ told' = [u \in Tabs |-> IF u = t THEN heard ELSE told[u]]
    /\ calls' = [u \in Tabs |-> IF u = t THEN q ELSE calls[u]]

\* Such a step keeps the feeds fine if the tab is fine after it.
LEMMA TabMoves ==
    ASSUME FeedsTyped, FeedsFine, cookie' \in Workspaces, NEW t \in Tabs, NEW s \in FeedStates, NEW heard, NEW q,
           TabTo(t, s, heard, q), ShownFine(s, heard), QueueFits(s, q), AnswersFit(heard, q)
    PROVE  FeedsTyped' /\ FeedsFine'
<1>1. feed' \in [Tabs -> FeedStates]  BY DEF TabTo, FeedsTyped
<1>2. UNCHANGED scene  BY DEF TabTo
<1>3. ASSUME NEW u \in Tabs  PROVE  TabFine(feed[u], told[u], calls[u])'
  <2>1. CASE u = t
    <3>1. TabFine(s, heard, q)'  BY <1>2, FineLater DEF TabFine
    <3>2. feed'[u] = s /\ told'[u] = heard /\ calls'[u] = q  BY <2>1 DEF TabTo
    <3>3. QED  BY <3>1, <3>2
  <2>2. CASE u # t
    <3>1. PICK r, told1, p : r = feed[u] /\ told1 = told[u] /\ p = calls[u]  OBVIOUS
    <3>2. TabFine(r, told1, p)  BY <3>1 DEF FeedsFine
    <3>3. TabFine(r, told1, p)'  BY <1>2, <3>2, FineLater
    <3>4. feed'[u] = r /\ told'[u] = told1 /\ calls'[u] = p  BY <2>2, <3>1 DEF TabTo
    <3>5. QED  BY <3>3, <3>4
  <2>3. QED  BY <2>1, <2>2
<1>4. QED  BY <1>1, <1>3 DEF FeedsTyped, FeedsFine

\* What the proofs of the steps start from.
FeedsReady ==
    /\ RowsTyped /\ ToldTyped /\ OneVerdict /\ CallsSound /\ CallsBrief
    /\ FeedsTyped /\ FeedsFine /\ scene \in Feeds

\* A tab that is ready.
LEMMA TabReady ==
    ASSUME FeedsReady, NEW t \in Tabs
    PROVE  /\ feed[t] \in FeedStates /\ feed[t].ws \in Workspaces /\ feed[t].active \in Workspaces
           /\ ShownFine(feed[t], told[t]) /\ QueueFits(feed[t], calls[t])
           /\ AnswersFit(told[t], calls[t]) /\ Brief(calls[t])
           /\ \A v \in told[t] : v.gate \in Entries /\ entry[v.gate].status \in Verdicts
<1>1. feed[t] \in FeedStates  BY DEF FeedsReady, FeedsTyped
<1>2. feed[t].ws \in Workspaces /\ feed[t].active \in Workspaces  BY <1>1 DEF FeedStates
<1>3. TabFine(feed[t], told[t], calls[t])  BY DEF FeedsReady, FeedsFine
<1>4. Brief(calls[t])  BY DEF FeedsReady, CallsBrief
<1>5. ASSUME NEW v \in told[t]  PROVE  v.gate \in Entries /\ entry[v.gate].status \in Verdicts
  <2>1. v \in Tellings  BY DEF FeedsReady, ToldTyped
  <2>2. v.gate \in Entries /\ v.status \in Verdicts  BY <2>1 DEF Tellings
  <2>3. entry[v.gate] = [status |-> v.status, by |-> v.by]  BY DEF FeedsReady, OneVerdict
  <2>4. QED  BY <2>2, <2>3
<1>6. QED  BY <1>1, <1>2, <1>3, <1>4, <1>5 DEF TabFine

\* How the functions of the tabs are updated.
LEMMA TabUpdates ==
    ASSUME FeedsReady, NEW t \in Tabs
    PROVE  /\ UNCHANGED feed => feed' = [u \in Tabs |-> IF u = t THEN feed[t] ELSE feed[u]]
           /\ UNCHANGED told => told' = [u \in Tabs |-> IF u = t THEN told[t] ELSE told[u]]
           /\ \A s : feed' = [feed EXCEPT ![t] = s] => feed' = [u \in Tabs |-> IF u = t THEN s ELSE feed[u]]
           /\ \A new : Told(t, new) => told' = [u \in Tabs |-> IF u = t THEN told[t] \union new ELSE told[u]]
           /\ \A q : calls' = [calls EXCEPT ![t] = q] => calls' = [u \in Tabs |-> IF u = t THEN q ELSE calls[u]]
<1>1. feed = [u \in Tabs |-> feed[u]]  BY DEF FeedsReady, FeedsTyped
<1>2. told = [u \in Tabs |-> told[u]]  BY DEF FeedsReady, ToldTyped
<1>3. calls = [u \in Tabs |-> calls[u]]  BY DEF FeedsReady, CallsBrief
<1>4. UNCHANGED feed => feed' = [u \in Tabs |-> IF u = t THEN feed[t] ELSE feed[u]]  BY <1>1
<1>5. UNCHANGED told => told' = [u \in Tabs |-> IF u = t THEN told[t] ELSE told[u]]  BY <1>2
<1>6. \A s : feed' = [feed EXCEPT ![t] = s] => feed' = [u \in Tabs |-> IF u = t THEN s ELSE feed[u]]  BY <1>1
<1>7. \A new : Told(t, new) => told' = [u \in Tabs |-> IF u = t THEN told[t] \union new ELSE told[u]]
  BY <1>2 DEF Told
<1>8. \A q : calls' = [calls EXCEPT ![t] = q] => calls' = [u \in Tabs |-> IF u = t THEN q ELSE calls[u]]  BY <1>3
<1>9. QED  BY <1>4, <1>5, <1>6, <1>7, <1>8

\* A tab asks: its poll, or a click.
LEMMA TabAsksFor ==
    ASSUME FeedsReady, NEW t \in Tabs, NEW s \in FeedStates, ShownFine(s, told[t]), QueueFits(s, calls[t]),
           NEW what, NEW arg, Ask(t, what, arg), CallFits(s, Call(what, arg)),
           what # "more" \/ ~Asked(t, {"more"}),
           feed' = [feed EXCEPT ![t] = s] \/ (UNCHANGED feed /\ s = feed[t]),
           UNCHANGED <<scene, cookie, told>>
    PROVE  FeedsTyped' /\ FeedsFine'
<1>1. PICK q, p, heard : q = calls[t] /\ p = Append(q, Call(what, arg)) /\ heard = told[t]  OBVIOUS
<1>2. Brief(q) /\ QueueFits(s, q) /\ AnswersFit(heard, q) /\ ShownFine(s, heard)  BY <1>1, TabReady
<1>3. what = "more" => \A i \in DOMAIN q : ~LiveMore(q[i])  BY <1>1 DEF Asked, LiveMore
<1>4. QueueFits(s, p) /\ AnswersFit(heard, p)  BY <1>1, <1>2, <1>3, FitsAppended
<1>5. calls' = [calls EXCEPT ![t] = p]  BY <1>1 DEF Ask
<1>6. TabTo(t, s, heard, p)  BY <1>1, <1>5, TabUpdates DEF TabTo
<1>7. cookie' \in Workspaces /\ FeedsTyped /\ FeedsFine  BY DEF FeedsReady, FeedsTyped
<1>8. QED  BY <1>2, <1>4, <1>6, <1>7, TabMoves

\* The tick of the inbox asks for the workspace that the inbox is in.
LEMMA PollFine == ASSUME FeedsReady, NEW t \in Tabs, Poll(t) PROVE FeedsTyped' /\ FeedsFine'
<1>1. PICK s, arg, c : s = feed[t] /\ arg = [ws |-> s.ws, cursor |-> NoEntry] /\ c = Call("poll", arg)  OBVIOUS
<1>2. s \in FeedStates /\ s.ws \in Workspaces /\ ShownFine(s, told[t]) /\ QueueFits(s, calls[t])
  BY <1>1, TabReady
<1>3. /\ scene = "approvals" /\ s.at = "list" /\ Ask(t, "poll", arg)
      /\ UNCHANGED <<scene, feed, cookie, told>>
  BY <1>1 DEF Poll, Ticks, FirstPageShown, feedVars
<1>4. c.what = "poll" /\ c.arg = arg  BY <1>1 DEF Call
<1>5. arg \in [ws : Workspaces, cursor : {NoEntry}] /\ arg.ws = s.ws  BY <1>1, <1>2
<1>6. CallFits(s, c)  BY <1>3, <1>4, <1>5 DEF CallFits
<1>7. PICK what : what = "poll" /\ what # "more"  OBVIOUS
<1>8. QED  BY <1>1, <1>2, <1>3, <1>6, <1>7, TabAsksFor

\* More is asked for once at a time, past the rows that are shown.
LEMMA LoadMoreFine == ASSUME FeedsReady, NEW t \in Tabs, LoadMore(t) PROVE FeedsTyped' /\ FeedsFine'
<1>1. PICK s, r, arg, c : /\ s = feed[t] /\ r = [s EXCEPT !.error = FALSE]
                          /\ arg = [ws |-> s.ws, cursor |-> s.cursor] /\ c = Call("more", arg)
  OBVIOUS
<1>2. s \in FeedStates /\ s.ws \in Workspaces /\ ShownFine(s, told[t]) /\ QueueFits(s, calls[t])
  BY <1>1, TabReady
<1>3. /\ s.cursor # NoEntry /\ ~Asked(t, {"more"}) /\ Ask(t, "more", arg) /\ feed' = [feed EXCEPT ![t].error = FALSE]
      /\ UNCHANGED <<scene, cookie, told>>
  BY <1>1 DEF LoadMore, CanLoadMore, Click, Clicked
<1>4. feed' = [feed EXCEPT ![t] = r]
  <2>1. feed = [u \in Tabs |-> feed[u]]  BY DEF FeedsReady, FeedsTyped
  <2>2. QED  BY <1>1, <1>3, <2>1
<1>5. r \in FeedStates /\ ShownFine(r, told[t]) /\ r.at = s.at /\ r.ws = s.ws /\ r.items = s.items
  BY <1>1, <1>2, ErrorShown
<1>6. QueueFits(r, calls[t])  BY <1>2, <1>5, FitsKept
<1>7. c.what = "more" /\ c.arg = arg  BY <1>1 DEF Call
<1>8. arg \in [ws : Workspaces, cursor : Entries] /\ arg.cursor = s.cursor
  <2>1. s.cursor \in 0..MaxEntries  BY <1>2 DEF FeedStates
  <2>2. s.cursor \in Entries  BY <1>3, <2>1, FeedsAssumption DEF NoEntry, Entries
  <2>3. QED  BY <1>1, <1>2, <2>2
<1>9. CallFits(r, c)  BY <1>2, <1>3, <1>5, <1>7, <1>8 DEF CallFits, ShownFine
<1>10. QED  BY <1>1, <1>3, <1>4, <1>5, <1>6, <1>9, TabAsksFor

\* A gate is resolved in the inbox or on its page.
LEMMA ResolveFine ==
    ASSUME FeedsReady, NEW t \in Tabs, NEW e \in Entries, NEW d \in Decisions, Resolve(t, e, d)
    PROVE  FeedsTyped' /\ FeedsFine'
<1>1. PICK s, r, arg, c : /\ s = feed[t] /\ r = [s EXCEPT !.error = FALSE]
                          /\ arg = [from |-> feed[t].at, ws |-> feed[t].ws, gate |-> e, status |-> d]
                          /\ c = Call("resolve", arg)
  OBVIOUS
<1>2. s \in FeedStates /\ ShownFine(s, told[t]) /\ QueueFits(s, calls[t])
  BY <1>1, TabReady
<1>3. /\ CanResolve(t, e) /\ Ask(t, "resolve", arg) /\ feed' = [feed EXCEPT ![t].error = FALSE]
      /\ UNCHANGED <<scene, cookie, told>>
  BY <1>1 DEF Resolve, Click, Clicked
<1>4. feed' = [feed EXCEPT ![t] = r]
  <2>1. feed = [u \in Tabs |-> feed[u]]  BY DEF FeedsReady, FeedsTyped
  <2>2. QED  BY <1>1, <1>3, <2>1
<1>5. r \in FeedStates /\ ShownFine(r, told[t]) /\ r.at = s.at /\ r.ws = s.ws /\ r.items = s.items
  BY <1>1, <1>2, ErrorShown
<1>6. QueueFits(r, calls[t])  BY <1>2, <1>5, FitsKept
<1>7. c.what = "resolve" /\ scene = "approvals"
  BY <1>1, <1>2, <1>3 DEF Call, CanResolve, ShownFine
<1>8. CallFits(r, c)  BY <1>7 DEF CallFits
<1>9. PICK what : what = "resolve" /\ what # "more"  OBVIOUS
<1>10. Ask(t, what, arg) /\ c = Call(what, arg) /\ UNCHANGED <<scene, cookie, told>>  BY <1>1, <1>3, <1>9
<1>11. QED  BY <1>4, <1>5, <1>6, <1>8, <1>9, <1>10, TabAsksFor

\* The switcher is used.
LEMMA SwitchFine ==
    ASSUME FeedsReady, NEW t \in Tabs, NEW ws \in Workspaces, Switch(t, ws)
    PROVE  FeedsTyped' /\ FeedsFine'
<1>1. PICK s, arg, c : s = feed[t] /\ arg = [ws |-> ws] /\ c = Call("switch", arg)  OBVIOUS
<1>2. s \in FeedStates /\ ShownFine(s, told[t]) /\ QueueFits(s, calls[t])  BY <1>1, TabReady
<1>3. Ask(t, "switch", arg) /\ UNCHANGED <<scene, feed, cookie, told>>
  BY <1>1 DEF Switch, Click, Clicked, feedVars
<1>4. c.what = "switch" /\ c.arg.ws = ws  BY <1>1 DEF Call
<1>5. CallFits(s, c)  BY <1>4 DEF CallFits
<1>6. QED  BY <1>1, <1>2, <1>3, <1>5, TabAsksFor

\* What the tab asked for fits any page that it goes to: it hears no more of it.
LEMMA LeavingFine ==
    ASSUME FeedsReady, NEW t \in Tabs, NEW s, NEW heard
    PROVE  QueueFits(s, Leaving(t)) /\ AnswersFit(heard, Leaving(t)) /\ Brief(Leaving(t))
<1>1. PICK whats : whats = {"poll", "more", "resolve"}  OBVIOUS
<1>2. Leaving(t) = Silenced(calls[t], whats)  BY <1>1 DEF Leaving
<1>3. Brief(calls[t]) /\ QueueFits(feed[t], calls[t]) /\ AnswersFit(told[t], calls[t])  BY TabReady
<1>4. Brief(Silenced(calls[t], whats))  BY <1>3, BriefSilenced
<1>5. QueueFits(s, Silenced(calls[t], whats))  BY <1>1, <1>3, FitsSilenced
<1>6. AnswersFit(heard, Silenced(calls[t], whats))  BY <1>1, <1>3, AnswersSilenced
<1>7. QED  BY <1>2, <1>4, <1>5, <1>6

\* A list that is read afresh shows nothing that the tab was told of, and the
\* workspace it is rendered for.
LEMMA ShowListFine ==
    ASSUME FeedsReady, NEW t \in Tabs, NEW active \in Workspaces, ShowList(t, active), NEW heard,
           \A v \in heard : entry[v.gate].status \in Verdicts
    PROVE  \E s \in FeedStates : feed' = [feed EXCEPT ![t] = s] /\ ShownFine(s, heard)
<1>1. cookie \in Workspaces /\ RowsTyped /\ NoEntry \in 0..MaxEntries
  BY FeedsAssumption DEF FeedsReady, FeedsTyped, NoEntry
<1>2. PICK page : /\ page = Page(cookie, NoEntry) \/ page = NoRows
                  /\ feed' = [feed EXCEPT ![t] = ListOf(cookie, active, page)]
  BY DEF ShowList
<1>3. PageFine(page, cookie, NoEntry) /\ NoneOf(heard, page.items)
  <2>1. CASE page = Page(cookie, NoEntry)
    BY <1>1, <2>1, PageShape, ToldIsNotListed
  <2>2. CASE page = NoRows
    BY <2>2, NoRowsFine
  <2>3. QED  BY <1>2, <2>1, <2>2
<1>4. QED  BY <1>1, <1>2, <1>3, ListShown

\* The operator goes back to the inbox.
LEMMA OpenListFine == ASSUME FeedsReady, NEW t \in Tabs, OpenList(t) PROVE FeedsTyped' /\ FeedsFine'
<1>1. /\ calls' = [calls EXCEPT ![t] = Leaving(t)] /\ ShowList(t, feed[t].active)
      /\ UNCHANGED <<scene, cookie, told>>
  BY DEF OpenList, Clicked
<1>2. PICK s \in FeedStates : feed' = [feed EXCEPT ![t] = s] /\ ShownFine(s, told[t])
  BY <1>1, TabReady, ShowListFine
<1>3. QueueFits(s, Leaving(t)) /\ AnswersFit(told[t], Leaving(t))  BY LeavingFine
<1>4. TabTo(t, s, told[t], Leaving(t))  BY <1>1, <1>2, TabUpdates DEF TabTo
<1>5. cookie' \in Workspaces /\ FeedsTyped /\ FeedsFine  BY <1>1 DEF FeedsReady, FeedsTyped
<1>6. QED  BY <1>2, <1>3, <1>4, <1>5, TabMoves

\* The operator opens the page of a gate, which may tell a verdict.
LEMMA OpenGateFine ==
    ASSUME FeedsReady, NEW t \in Tabs, NEW e \in Entries, OpenGate(t, e) PROVE FeedsTyped' /\ FeedsFine'
<1>1. /\ scene = "approvals" /\ calls' = [calls EXCEPT ![t] = Leaving(t)] /\ ShowGate(t, feed[t].active, e)
      /\ UNCHANGED <<scene, cookie>>
  BY DEF OpenGate, Clicked
<1>2. cookie \in Workspaces /\ RowsTyped /\ feed[t].active \in Workspaces  BY TabReady DEF FeedsReady, FeedsTyped
<1>3. PICK s, heard : /\ s = GateOf(cookie, feed[t].active, e) \/ s = GateOf(cookie, feed[t].active, NoEntry)
                      /\ feed' = [feed EXCEPT ![t] = s]
                      /\ told' = [u \in Tabs |-> IF u = t THEN heard ELSE told[u]]
  BY <1>1, TabUpdates DEF ShowGate, NotFound
<1>4. s \in FeedStates /\ ShownFine(s, heard)  BY <1>1, <1>2, <1>3, GateShown
<1>5. QueueFits(s, Leaving(t)) /\ AnswersFit(heard, Leaving(t))  BY LeavingFine
<1>6. TabTo(t, s, heard, Leaving(t))  BY <1>1, <1>3, TabUpdates DEF TabTo
<1>7. cookie' \in Workspaces /\ FeedsTyped /\ FeedsFine  BY <1>1 DEF FeedsReady, FeedsTyped
<1>8. QED  BY <1>4, <1>5, <1>6, <1>7, TabMoves

\* The call in front of the queue of a tab.
LEMMA FrontCall ==
    ASSUME FeedsReady, NEW t \in Tabs, calls[t] # <<>>
    PROVE  /\ CallFits(feed[t], Head(calls[t])) /\ AnswerFits(told[t], Head(calls[t]))
           /\ QueueFits(feed[t], Tail(calls[t])) /\ Brief(Tail(calls[t]))
           /\ \A heard : AnswersFit(heard, Tail(calls[t]))
           /\ LiveMore(Head(calls[t])) => \A i \in DOMAIN Tail(calls[t]) : ~LiveMore(Tail(calls[t])[i])
<1>1. PICK s, heard, q : s = feed[t] /\ heard = told[t] /\ q = calls[t]  OBVIOUS
<1>2. Brief(q) /\ q # <<>> /\ QueueFits(s, q) /\ AnswersFit(heard, q)  BY <1>1, TabReady
<1>3. Brief(Tail(q))  BY <1>2, BriefTail
<1>4. /\ QueueFits(s, Tail(q)) /\ CallFits(s, Head(q)) /\ AnswerFits(heard, Head(q))
      /\ \A more : AnswersFit(more, Tail(q))
      /\ LiveMore(Head(q)) => \A i \in DOMAIN Tail(q) : ~LiveMore(Tail(q)[i])
  BY <1>2, FitsTail
<1>5. QED  BY <1>1, <1>3, <1>4

\* The answer of the API fits the call if a page is what was asked for and no
\* gate on it was told of.
LEMMA TabAnswers ==
    ASSUME FeedsReady, NEW t \in Tabs, calls[t] # <<>>, NEW answer,
           Head(calls[t]).what \in {"poll", "more"} /\ answer.kind = "ok" =>
               PageFine(answer.data, Arg(t).ws, Arg(t).cursor) /\ NoneOf(told[t], answer.data.items),
           calls' = WithAnswer(t, answer), cookie' \in Workspaces, UNCHANGED <<scene, feed, told>>
    PROVE  FeedsTyped' /\ FeedsFine'
<1>1. PICK s, heard, q, p : /\ s = feed[t] /\ heard = told[t] /\ q = calls[t]
                            /\ p = [q EXCEPT ![1] = [q[1] EXCEPT !.answer = answer]]
  OBVIOUS
<1>2. Brief(q) /\ q # <<>> /\ QueueFits(s, q) /\ AnswersFit(heard, q) /\ ShownFine(s, heard) /\ s \in FeedStates
  BY <1>1, TabReady
<1>3. Head(q).what \in {"poll", "more"} /\ answer.kind = "ok" =>
          PageFine(answer.data, Head(q).arg.ws, Head(q).arg.cursor)
          /\ (scene = "approvals" => NoneOf(heard, answer.data.items))
  BY <1>1 DEF Arg
<1>4. QueueFits(s, p) /\ AnswersFit(heard, p)  BY <1>1, <1>2, <1>3, FitsAnswered
<1>5. calls' = [calls EXCEPT ![t] = p]  BY <1>1 DEF WithAnswer, FeedsReady, CallsBrief
<1>6. TabTo(t, s, heard, p)  BY <1>1, <1>5, TabUpdates DEF TabTo
<1>7. FeedsTyped /\ FeedsFine  BY DEF FeedsReady
<1>8. QED  BY <1>2, <1>4, <1>6, <1>7, TabMoves

\* A reply that holds no page, and a failure.
LEMMA TabFails ==
    ASSUME FeedsReady, NEW t \in Tabs, calls[t] # <<>>, calls' = WithAnswer(t, Failed),
           cookie' \in Workspaces, UNCHANGED <<scene, feed, told>>
    PROVE  FeedsTyped' /\ FeedsFine'
<1>1. PICK answer : answer = Failed /\ answer.kind = "failed" /\ answer.kind # "ok"  BY DEF Failed
<1>2. QED  BY <1>1, TabAnswers

\* A reply to what is not about a page.
LEMMA ReplyFine ==
    ASSUME FeedsReady, NEW t \in Tabs, calls[t] # <<>>, Head(calls[t]).what \notin {"poll", "more"},
           NEW kind, NEW data, Reply(t, kind, data), cookie' \in Workspaces, UNCHANGED <<feed, told>>
    PROVE  FeedsTyped' /\ FeedsFine'
<1>1. PICK answer : answer = [kind |-> kind, data |-> data]  OBVIOUS
<1>2. UNCHANGED scene /\ (calls' = WithAnswer(t, answer) \/ calls' = WithAnswer(t, Failed))  BY <1>1 DEF Reply
<1>3. CASE calls' = WithAnswer(t, answer)  BY <1>2, <1>3, TabAnswers
<1>4. CASE calls' = WithAnswer(t, Failed)  BY <1>2, <1>4, TabFails
<1>5. QED  BY <1>2, <1>3, <1>4

\* The API answers with the page that was asked for.
LEMMA ServeListFine == ASSUME FeedsReady, NEW t \in Tabs, ServeList(t) PROVE FeedsTyped' /\ FeedsFine'
<1>1. /\ calls[t] # <<>> /\ Head(calls[t]).what \in {"poll", "more"} /\ UNCHANGED <<scene, feed, cookie, told>>
      /\ Reply(t, "ok", Page(Arg(t).ws, Arg(t).cursor))
  BY DEF ServeList, AtServer, Reply, feedVars
<1>2. PICK ws, cursor, page, answer :
          /\ ws = Arg(t).ws /\ cursor = Arg(t).cursor /\ page = Page(ws, cursor)
          /\ answer = [kind |-> "ok", data |-> page]
  OBVIOUS
<1>3. cursor \in 0..MaxEntries
  <2>1. CallFits(feed[t], Head(calls[t]))  BY <1>1, FrontCall
  <2>2. Arg(t) \in [ws : Workspaces, cursor : {NoEntry}] \/ Arg(t) \in [ws : Workspaces, cursor : Entries]
    BY <1>1, <2>1 DEF CallFits, Arg
  <2>3. Arg(t).cursor \in {NoEntry} \union Entries  BY <2>2
  <2>4. QED  BY <1>2, <2>3, FeedsAssumption DEF NoEntry, Entries
<1>4. PageFine(page, ws, cursor) /\ NoneOf(told[t], page.items)
  <2>1. RowsTyped  BY DEF FeedsReady
  <2>2. PageFine(page, ws, cursor) /\ \A n \in DOMAIN page.items : entry[page.items[n]].status = "pending"
    BY <1>2, <1>3, <2>1, PageShape
  <2>3. \A v \in told[t] : entry[v.gate].status \in Verdicts  BY TabReady
  <2>4. QED  BY <2>2, <2>3, ToldIsNotListed
<1>5. answer.data = page  BY <1>2
<1>6. cookie' \in Workspaces  BY <1>1 DEF FeedsReady, FeedsTyped
<1>7. calls' = WithAnswer(t, answer) \/ calls' = WithAnswer(t, Failed)  BY <1>1, <1>2 DEF Reply
<1>8. CASE calls' = WithAnswer(t, answer)
  <2>1. PageFine(answer.data, Arg(t).ws, Arg(t).cursor) /\ NoneOf(told[t], answer.data.items)
    BY <1>2, <1>4, <1>5
  <2>2. QED  BY <1>1, <1>6, <1>8, <2>1, TabAnswers
<1>9. CASE calls' = WithAnswer(t, Failed)
  BY <1>1, <1>6, <1>9, TabFails
<1>10. QED  BY <1>7, <1>8, <1>9

\* The API resolves a gate or refuses to, or follows a switch.
LEMMA ServeOtherFine ==
    ASSUME FeedsReady, NEW t \in Tabs, ServeResolve(t) \/ RefuseResolve(t) \/ ServeSwitch(t)
    PROVE  FeedsTyped' /\ FeedsFine'
<1>1. CASE ServeResolve(t) \/ RefuseResolve(t)
  <2>1. PICK kind, data : Reply(t, kind, data)  BY <1>1 DEF ServeResolve, RefuseResolve
  <2>2. calls[t] # <<>> /\ Head(calls[t]).what \notin {"poll", "more"} /\ UNCHANGED <<feed, told, cookie>>
    BY <1>1 DEF ServeResolve, RefuseResolve, AtServer, feedVars
  <2>3. cookie' \in Workspaces  BY <2>2 DEF FeedsReady, FeedsTyped
  <2>4. QED  BY <2>1, <2>2, <2>3, ReplyFine
<1>2. CASE ServeSwitch(t)
  <2>1. PICK kind, data : Reply(t, kind, data)  BY <1>2 DEF ServeSwitch
  <2>2. calls[t] # <<>> /\ Head(calls[t]).what = "switch" /\ UNCHANGED <<feed, told>> /\ cookie' = Arg(t).ws
    BY <1>2 DEF ServeSwitch, AtServer
  <2>3. CallFits(feed[t], Head(calls[t]))  BY <2>2, FrontCall
  <2>4. cookie' \in Workspaces  BY <2>2, <2>3 DEF CallFits, Arg
  <2>5. Head(calls[t]).what \notin {"poll", "more"}  BY <2>2
  <2>6. QED  BY <2>1, <2>2, <2>4, <2>5, ReplyFine
<1>3. QED  BY <1>1, <1>2

\* A call that does not land.
LEMMA UnreachedFine ==
    ASSUME FeedsReady, NEW t \in Tabs, Unreached(t), UNCHANGED feedVars
    PROVE  FeedsTyped' /\ FeedsFine'
<1>1. calls[t] # <<>> /\ calls' = WithAnswer(t, Failed) /\ UNCHANGED <<scene, feed, told, cookie>>
  BY DEF Unreached, feedVars
<1>2. cookie' \in Workspaces  BY <1>1 DEF FeedsReady, FeedsTyped
<1>3. QED  BY <1>1, <1>2, TabFails

(***************************************************************************)
(* The answers.                                                            *)
(***************************************************************************)
\* An answer is handled: the rest of the queue must fit what the tab shows then.
LEMMA TabHears ==
    ASSUME FeedsReady, NEW t \in Tabs, calls[t] # <<>>, calls' = [calls EXCEPT ![t] = Tail(@)],
           UNCHANGED <<scene, cookie>>, NEW s \in FeedStates, NEW heard,
           feed' = [feed EXCEPT ![t] = s] \/ (UNCHANGED feed /\ s = feed[t]),
           told' = [u \in Tabs |-> IF u = t THEN heard ELSE told[u]] \/ (UNCHANGED told /\ heard = told[t]),
           ShownFine(s, heard), QueueFits(s, Tail(calls[t]))
    PROVE  FeedsTyped' /\ FeedsFine'
<1>1. PICK q, p : q = calls[t] /\ p = Tail(q)  OBVIOUS
<1>2. QueueFits(s, p) /\ AnswersFit(heard, p)  BY <1>1, FrontCall
<1>3. calls' = [calls EXCEPT ![t] = p]  BY <1>1
<1>4. TabTo(t, s, heard, p)  BY <1>3, TabUpdates DEF TabTo
<1>5. cookie' \in Workspaces /\ FeedsTyped /\ FeedsFine  BY DEF FeedsReady, FeedsTyped
<1>6. QED  BY <1>2, <1>4, <1>5, TabMoves

\* An answer that changes nothing on the screen, or shows that something failed.
LEMMA TabMarks ==
    ASSUME FeedsReady, NEW t \in Tabs, calls[t] # <<>>, calls' = [calls EXCEPT ![t] = Tail(@)],
           UNCHANGED <<scene, cookie, told>>, UNCHANGED feed \/ feed' = [feed EXCEPT ![t].error = TRUE]
    PROVE  FeedsTyped' /\ FeedsFine'
<1>1. PICK s, r, heard, p : /\ s = feed[t] /\ r = [s EXCEPT !.error = TRUE] /\ heard = told[t]
                            /\ p = Tail(calls[t])
  OBVIOUS
<1>2. s \in FeedStates /\ ShownFine(s, heard) /\ QueueFits(s, p)  BY <1>1, TabReady, FrontCall
<1>3. r \in FeedStates /\ ShownFine(r, heard) /\ r.at = s.at /\ r.ws = s.ws /\ r.items = s.items
  BY <1>1, <1>2, ErrorShown
<1>4. QueueFits(r, p)  BY <1>2, <1>3, FitsKept
<1>5. UNCHANGED feed \/ feed' = [feed EXCEPT ![t] = r]
  <2>1. feed = [u \in Tabs |-> feed[u]]  BY DEF FeedsReady, FeedsTyped
  <2>2. QED  BY <1>1, <2>1
<1>6. CASE UNCHANGED feed  BY <1>1, <1>2, <1>6, TabHears
<1>7. CASE feed' = [feed EXCEPT ![t] = r]  BY <1>1, <1>3, <1>4, <1>7, TabHears
<1>8. QED  BY <1>5, <1>6, <1>7

\* What waits fits the tab when its rows change, in the inbox and if no more was
\* asked for.
LEMMA FitsRows ==
    ASSUME NEW s, NEW r, NEW q, QueueFits(s, q), r.at = s.at, r.ws = s.ws,
           scene = "approvals" \/ \A i \in DOMAIN q : ~LiveMore(q[i])
    PROVE  QueueFits(r, q)
<1>1. ASSUME NEW i \in DOMAIN q  PROVE  CallFits(r, q[i])
  <2>1. CallFits(s, q[i])  BY DEF QueueFits
  <2>2. QED  BY <2>1 DEF CallFits, LiveMore
<1>2. QED  BY <1>1 DEF QueueFits

\* The page of a poll replaces the rows of the inbox.
LEMMA ReceivePollFine == ASSUME FeedsReady, NEW t \in Tabs, ReceivePoll(t) PROVE FeedsTyped' /\ FeedsFine'
<1>1. /\ calls[t] # <<>> /\ Head(calls[t]).what = "poll" /\ calls' = [calls EXCEPT ![t] = Tail(@)]
      /\ UNCHANGED <<scene, cookie, told>>
  BY DEF ReceivePoll, Answered, Received
<1>2. CASE Applies(t) /\ Answer(t).kind = "ok"
  <2>1. PICK s, c, page, p, heard : /\ s = feed[t] /\ c = Head(calls[t]) /\ page = Answer(t).data
                                    /\ p = Tail(calls[t]) /\ heard = told[t]
    OBVIOUS
  <2>2. PICK r : r = [s EXCEPT !.items = page.items, !.fresh = TRUE, !.cursor = page.cursor]  OBVIOUS
  <2>3. c.live /\ s.at = "list" /\ c.what = "poll" /\ c.answer.kind = "ok" /\ page = c.answer.data
    BY <1>1, <1>2, <2>1 DEF Applies, Live, Ticks, FirstPageShown, Answer
  <2>4. s \in FeedStates /\ QueueFits(s, p) /\ CallFits(s, c) /\ AnswerFits(heard, c)
    BY <1>1, <2>1, TabReady, FrontCall
  <2>5. scene = "approvals" /\ c.arg.ws = s.ws /\ c.arg \in [ws : Workspaces, cursor : {NoEntry}]
    BY <2>3, <2>4 DEF CallFits
  <2>6. PageFine(page, c.arg.ws, c.arg.cursor) /\ NoneOf(heard, page.items)
    BY <2>3, <2>4, <2>5 DEF AnswerFits
  <2>7. page.items \in Seq(Entries) /\ page.cursor \in 0..MaxEntries
        /\ \A n \in DOMAIN page.items : Home[page.items[n]] = s.ws
    BY <2>5, <2>6 DEF PageFine
  <2>8. r \in FeedStates /\ r.at = s.at /\ r.ws = s.ws /\ r.items = page.items
    BY <2>2, <2>4, <2>7 DEF FeedStates
  <2>9. ShownFine(r, heard)  BY <2>3, <2>5, <2>6, <2>7, <2>8 DEF ShownFine
  <2>10. QueueFits(r, p)  BY <2>4, <2>5, <2>8, FitsRows
  <2>11. feed' = [feed EXCEPT ![t] = r]
    <3>1. feed = [u \in Tabs |-> feed[u]]  BY DEF FeedsReady, FeedsTyped
    <3>2. feed' = [feed EXCEPT ![t].items = page.items, ![t].fresh = TRUE, ![t].cursor = page.cursor]
      BY <1>2, <2>1 DEF ReceivePoll
    <3>3. QED  BY <2>1, <2>2, <3>1, <3>2
  <2>12. QED  BY <1>1, <2>1, <2>8, <2>9, <2>10, <2>11, TabHears
<1>3. CASE ~(Applies(t) /\ Answer(t).kind = "ok")
  BY <1>1, <1>3, TabMarks DEF ReceivePoll
<1>4. QED  BY <1>2, <1>3

\* The rows of one and of two, which stay in the order of the API when all of two
\* is past one.
Joined(rows, one, two) ==
    /\ rows \in Seq(Entries)
    /\ \A n \in DOMAIN rows : (\E i \in DOMAIN one : rows[n] = one[i]) \/ \E i \in DOMAIN two : rows[n] = two[i]
    /\ (Descends(one) /\ Descends(two) /\ \A i \in DOMAIN one, j \in DOMAIN two : one[i] > two[j]) => Descends(rows)

\* What a list is after more was loaded.
LEMMA RowsJoined ==
    ASSUME NEW one \in Seq(Entries), NEW two \in Seq(Entries), NEW rows, rows = one \o two
    PROVE  Joined(rows, one, two)
<1>1. PICK k, m : k = Len(one) /\ m = Len(two)  OBVIOUS
<1>2. k \in Nat /\ m \in Nat /\ DOMAIN one = 1..k /\ DOMAIN two = 1..m  BY <1>1
<1>3. rows \in Seq(Entries) /\ Len(rows) = k + m
      /\ \A n \in 1..(k + m) : rows[n] = IF n <= k THEN one[n] ELSE two[n - k]
  <2>1. PICK S : S = Entries  OBVIOUS
  <2>2. one \in Seq(S) /\ two \in Seq(S)  BY <2>1
  <2>3. rows \in Seq(S) /\ Len(rows) = k + m /\ \A n \in 1..(k + m) : rows[n] = IF n <= k THEN one[n] ELSE two[n - k]
    BY <1>1, <2>2, ConcatProperties
  <2>4. QED  BY <2>1, <2>3
<1>4. DOMAIN rows = 1..(k + m)  BY <1>2, <1>3
<1>5. ASSUME NEW n \in 1..(k + m)
      PROVE  (n \in 1..k /\ rows[n] = one[n]) \/ (n > k /\ n - k \in 1..m /\ rows[n] = two[n - k])
  BY <1>2, <1>3
<1>6. ASSUME Descends(one), Descends(two), \A i \in DOMAIN one, j \in DOMAIN two : one[i] > two[j]
      PROVE  Descends(rows)
  <2> SUFFICES ASSUME NEW i \in 1..(k + m), NEW j \in 1..(k + m), i < j  PROVE  rows[i] > rows[j]
    BY <1>4 DEF Descends
  <2>1. CASE j \in 1..k
    <3>1. i \in 1..k /\ rows[i] = one[i] /\ rows[j] = one[j]  BY <1>2, <1>3, <2>1
    <3>2. QED  BY <1>2, <1>6, <3>1, <2>1 DEF Descends
  <2>2. CASE j > k /\ i \in 1..k
    <3>1. rows[i] = one[i] /\ j - k \in 1..m /\ rows[j] = two[j - k]  BY <1>2, <1>3, <2>2
    <3>2. QED  BY <1>2, <1>6, <2>2, <3>1
  <2>3. CASE i > k
    <3>1. i - k \in 1..m /\ j - k \in 1..m /\ i - k < j - k /\ rows[i] = two[i - k] /\ rows[j] = two[j - k]
      BY <1>2, <1>3, <2>3
    <3>2. QED  BY <1>2, <1>6, <3>1 DEF Descends
  <2>4. QED  BY <1>2, <2>1, <2>2, <2>3
<1>7. QED  BY <1>2, <1>3, <1>4, <1>5, <1>6 DEF Joined

\* More rows are shown below those that the tab shows.
LEMMA ReceiveMoreFine == ASSUME FeedsReady, NEW t \in Tabs, ReceiveMore(t) PROVE FeedsTyped' /\ FeedsFine'
<1>1. /\ calls[t] # <<>> /\ Head(calls[t]).what = "more" /\ calls' = [calls EXCEPT ![t] = Tail(@)]
      /\ UNCHANGED <<scene, cookie, told>>
  BY DEF ReceiveMore, Answered, Received
<1>2. CASE Live(t) /\ Answer(t).kind = "ok"
  <2>1. PICK s, c, page, p, heard : /\ s = feed[t] /\ c = Head(calls[t]) /\ page = Answer(t).data
                                    /\ p = Tail(calls[t]) /\ heard = told[t]
    OBVIOUS
  <2>2. PICK rows, r : rows = s.items \o page.items
                       /\ r = [s EXCEPT !.items = rows, !.paged = TRUE, !.cursor = page.cursor]
    OBVIOUS
  <2>3. c.live /\ c.what = "more" /\ c.answer.kind = "ok" /\ page = c.answer.data
    BY <1>1, <1>2, <2>1 DEF Live, Answer
  <2>4. /\ s \in FeedStates /\ ShownFine(s, heard) /\ QueueFits(s, p) /\ CallFits(s, c) /\ AnswerFits(heard, c)
        /\ \A i \in DOMAIN p : ~LiveMore(p[i])
    BY <1>1, <2>1, <2>3, TabReady, FrontCall DEF LiveMore
  <2>5. /\ c.arg \in [ws : Workspaces, cursor : Entries]
        /\ scene # "approvals" => \A n \in DOMAIN s.items : s.items[n] >= c.arg.cursor
    BY <2>3, <2>4 DEF CallFits
  <2>6. PageFine(page, c.arg.ws, c.arg.cursor) /\ (scene = "approvals" => NoneOf(heard, page.items))
    BY <2>3, <2>4 DEF AnswerFits
  <2>7. s.items \in Seq(Entries) /\ page.items \in Seq(Entries) /\ page.cursor \in 0..MaxEntries
    BY <2>4, <2>6 DEF FeedStates, PageFine
  <2>8. Joined(rows, s.items, page.items)
    <3>1. PICK one, two : one = s.items /\ two = page.items  OBVIOUS
    <3>2. one \in Seq(Entries) /\ two \in Seq(Entries) /\ rows = one \o two  BY <2>2, <2>7, <3>1
    <3>3. QED  BY <3>1, <3>2, RowsJoined
  <2>9. /\ r \in FeedStates /\ r.at = s.at /\ r.ws = s.ws /\ r.items = rows /\ r.paged = TRUE
        /\ r.cursor = page.cursor
    BY <2>2, <2>4, <2>7, <2>8 DEF FeedStates, Joined
  <2>10. ShownFine(r, heard)
    <3>1. CASE scene = "approvals"
      <4>1. NoneOf(heard, page.items)  BY <2>6, <3>1
      <4>2. s.at = "list" => NoneOf(heard, s.items)  BY <2>4, <3>1 DEF ShownFine
      <4>3. s.at = "list" => NoneOf(heard, rows)  BY <2>8, <4>1, <4>2 DEF NoneOf, Range, Joined
      <4>4. QED  BY <2>9, <3>1, <4>3 DEF ShownFine
    <3>2. CASE scene # "approvals"
      <4>1. \A n \in DOMAIN s.items : s.items[n] \in Nat /\ s.items[n] >= c.arg.cursor
        <5>1. \A n \in DOMAIN s.items : s.items[n] \in Entries  BY <2>7
        <5>2. QED  BY <2>5, <3>2, <5>1 DEF Entries
      <4>2. ASSUME NEW n \in DOMAIN page.items
            PROVE  page.items[n] \in Nat /\ c.arg.cursor \in Nat /\ page.items[n] < c.arg.cursor
        <5>1. page.items[n] \in Entries /\ c.arg.cursor \in Entries  BY <2>5, <2>7
        <5>2. c.arg.cursor # NoEntry /\ c.arg.cursor \in Nat /\ page.items[n] \in Nat
          BY <5>1 DEF Entries, NoEntry
        <5>3. Past(c.arg.cursor, page.items[n])  BY <2>6 DEF PageFine
        <5>4. QED  BY <3>2, <5>2, <5>3 DEF Past, OldestFirst
      <4>3. Descends(page.items) /\ (page.cursor # NoEntry =>
                /\ page.cursor \in Range(page.items)
                /\ \A n \in DOMAIN page.items : page.items[n] >= page.cursor)
        BY <2>6, <3>2 DEF PageFine, OldestFirst
      <4>4. Descends(s.items) /\ (s.at = "gate" => scene = "approvals")  BY <2>4, <3>2 DEF ShownFine
      <4>5. Descends(rows)  BY <2>8, <4>1, <4>2, <4>3, <4>4 DEF Joined
      <4>6. ASSUME page.cursor # NoEntry, NEW n \in DOMAIN rows  PROVE  rows[n] >= page.cursor
        <5>1. PICK j \in DOMAIN page.items : page.items[j] = page.cursor  BY <4>3, <4>6 DEF Range
        <5>2. page.cursor \in Nat /\ page.cursor < c.arg.cursor /\ c.arg.cursor \in Nat  BY <4>2, <5>1
        <5>3. CASE \E i \in DOMAIN s.items : rows[n] = s.items[i]
          BY <4>1, <5>2, <5>3
        <5>4. CASE \E i \in DOMAIN page.items : rows[n] = page.items[i]
          BY <4>3, <4>6, <5>4
        <5>5. QED  BY <2>8, <5>3, <5>4 DEF Joined
      <4>7. QED  BY <2>9, <3>2, <4>4, <4>5, <4>6 DEF ShownFine
    <3>3. QED  BY <3>1, <3>2
  <2>11. QueueFits(r, p)  BY <2>4, <2>9, FitsRows
  <2>12. feed' = [feed EXCEPT ![t] = r]
    <3>1. feed = [u \in Tabs |-> feed[u]]  BY DEF FeedsReady, FeedsTyped
    <3>2. feed' = [feed EXCEPT ![t].items = @ \o page.items, ![t].paged = TRUE, ![t].cursor = page.cursor]
      BY <1>2, <2>1 DEF ReceiveMore
    <3>3. QED  BY <2>1, <2>2, <3>1, <3>2
  <2>13. QED  BY <1>1, <2>1, <2>9, <2>10, <2>11, <2>12, TabHears
<1>3. CASE ~(Live(t) /\ Answer(t).kind = "ok")
  BY <1>1, <1>3, TabMarks DEF ReceiveMore
<1>4. QED  BY <1>2, <1>3

\* What a list keeps when it is filtered: rows of the places that stay.
LEMMA FilteredRows ==
    ASSUME NEW rows \in Seq(Entries), NEW places \in SUBSET DOMAIN rows, NEW kept, kept = Filtered(rows, places)
    PROVE  kept \in Seq(Entries) /\ \A n \in DOMAIN kept : \E i \in places : kept[n] = rows[i]
<1>1. places \in SUBSET Int /\ IsFiniteSet(places)
  <2>1. DOMAIN rows = 1..Len(rows) /\ Len(rows) \in Int  OBVIOUS
  <2>2. PICK k : k = Len(rows)  OBVIOUS
  <2>3. IsFiniteSet(1..k)  BY <2>1, <2>2, FS_Interval
  <2>4. places \subseteq 1..k  BY <2>1, <2>2
  <2>5. IsFiniteSet(places)  BY <2>3, <2>4, FS_Subset
  <2>6. QED  BY <2>1, <2>2, <2>4, <2>5
<1>2. PICK oldest \in BOOLEAN : oldest = TRUE  OBVIOUS
<1>3. PICK order, k : order = Ordered(places, oldest) /\ k = Cardinality(places)  OBVIOUS
<1>4. order \in [1..k -> places] /\ k \in Nat  BY <1>1, <1>3, OrderedIsSorted
<1>5. kept = [n \in 1..k |-> rows[order[n]]]  BY <1>2, <1>3 DEF Filtered
<1>6. \A n \in 1..k : order[n] \in places /\ kept[n] = rows[order[n]] /\ rows[order[n]] \in Entries
  BY <1>4, <1>5
<1>7. kept \in [1..k -> Entries] /\ DOMAIN kept = 1..k  BY <1>5, <1>6
<1>8. QED  BY <1>4, <1>6, <1>7

\* An inbox drops the gate that it was told of.
LEMMA ReceiveResolvedFine == ASSUME FeedsReady, NEW t \in Tabs, ReceiveResolved(t) PROVE FeedsTyped' /\ FeedsFine'
<1>1. /\ calls[t] # <<>> /\ Head(calls[t]).what = "resolve" /\ calls' = [calls EXCEPT ![t] = Tail(@)]
      /\ UNCHANGED <<scene, cookie>>
  BY DEF ReceiveResolved, Answered, Received
<1>2. CASE Live(t) /\ Settled(t)
  <2>1. PICK s, p, heard, e : /\ s = feed[t] /\ p = Tail(calls[t]) /\ heard = told[t] \union Understood(t)
                              /\ e = Arg(t).gate
    OBVIOUS
  <2>2. PICK error \in BOOLEAN : error = (Answer(t).kind = "already")  OBVIOUS
  <2>3. PICK rows, r : rows = Removed(t) /\ r = [s EXCEPT !.items = rows, !.error = error]  OBVIOUS
  <2>4. s \in FeedStates /\ ShownFine(s, told[t]) /\ QueueFits(s, p) /\ scene = "approvals"
    <3>1. CallFits(s, Head(calls[t]))  BY <1>1, <2>1, FrontCall
    <3>2. scene = "approvals"  BY <1>1, <3>1 DEF CallFits
    <3>3. QED  BY <1>1, <2>1, <3>2, TabReady, FrontCall
  <2>5. rows \in Seq(Entries) /\ \A n \in DOMAIN rows : \E i \in DOMAIN s.items : s.items[i] # e /\ rows[n] = s.items[i]
    <3>1. PICK old, places : old = s.items /\ places = {n \in DOMAIN old : old[n] # e}  OBVIOUS
    <3>2. old \in Seq(Entries) /\ places \in SUBSET DOMAIN old  BY <2>4, <3>1 DEF FeedStates
    <3>3. rows = Filtered(old, places)  BY <2>1, <2>3, <3>1 DEF Removed, OtherRows
    <3>4. rows \in Seq(Entries) /\ \A n \in DOMAIN rows : \E i \in places : rows[n] = old[i]
      BY <3>2, <3>3, FilteredRows
    <3>5. QED  BY <3>1, <3>4
  <2>6. /\ r \in FeedStates /\ r.at = s.at /\ r.ws = s.ws /\ r.items = rows /\ r.fresh = s.fresh /\ r.paged = s.paged
    BY <2>3, <2>4, <2>5 DEF FeedStates
  <2>7. \A v \in heard : v \in told[t] \/ v.gate = e
    BY <2>1 DEF Understood
  <2>8. ShownFine(r, heard)
    <3>1. s.at = "list" => NoneOf(told[t], s.items)  BY <2>4 DEF ShownFine
    <3>2. s.at = "list" => NoneOf(heard, rows)  BY <2>5, <2>7, <3>1 DEF NoneOf, Range
    <3>3. s.at = "list" /\ s.fresh /\ ~s.paged => \A n \in DOMAIN rows : Home[rows[n]] = s.ws
      BY <2>4, <2>5 DEF ShownFine
    <3>4. QED  BY <2>4, <2>6, <3>2, <3>3 DEF ShownFine
  <2>9. QueueFits(r, p)  BY <2>4, <2>6, FitsRows
  <2>10. feed' = [feed EXCEPT ![t] = r]
    <3>1. feed = [u \in Tabs |-> feed[u]]  BY DEF FeedsReady, FeedsTyped
    <3>2. feed' = [feed EXCEPT ![t].items = rows, ![t].error = error]
      BY <1>2, <2>2, <2>3 DEF ReceiveResolved
    <3>3. QED  BY <2>1, <2>3, <3>1, <3>2
  <2>11. told' = [u \in Tabs |-> IF u = t THEN heard ELSE told[u]]
    <3>1. Told(t, Understood(t))  BY <1>2 DEF ReceiveResolved
    <3>2. QED  BY <2>1, <3>1, TabUpdates
  <2>12. QED  BY <1>1, <2>1, <2>6, <2>8, <2>9, <2>10, <2>11, TabHears
<1>3. CASE ~(Live(t) /\ Settled(t))
  <2>1. Told(t, {})  BY <1>3 DEF ReceiveResolved
  <2>2. UNCHANGED told
    <3>1. told = [u \in Tabs |-> told[u]]  BY DEF FeedsReady, ToldTyped
    <3>2. told' = [u \in Tabs |-> IF u = t THEN told[t] \union {} ELSE told[u]]  BY <2>1, TabUpdates
    <3>3. \A u \in Tabs : (IF u = t THEN told[t] \union {} ELSE told[u]) = told[u]  OBVIOUS
    <3>4. QED  BY <3>1, <3>2, <3>3
  <2>3. UNCHANGED feed \/ feed' = [feed EXCEPT ![t].error = TRUE]  BY <1>3 DEF ReceiveResolved
  <2>4. QED  BY <1>1, <2>2, <2>3, TabMarks
<1>4. QED  BY <1>2, <1>3

\* The page of a gate says that the resolve failed.
LEMMA GateNotResolvedFine == ASSUME FeedsReady, NEW t \in Tabs, GateNotResolved(t) PROVE FeedsTyped' /\ FeedsFine'
<1>1. /\ calls[t] # <<>> /\ calls' = [calls EXCEPT ![t] = Tail(@)] /\ UNCHANGED <<scene, cookie, told>>
      /\ UNCHANGED feed \/ feed' = [feed EXCEPT ![t].error = TRUE]
  BY DEF GateNotResolved, Answered, Received
<1>2. QED  BY <1>1, TabMarks

\* A page that is rendered again, for the same workspace or another.
LEMMA RerenderFine ==
    ASSUME FeedsReady, NEW t \in Tabs, calls[t] # <<>>, NEW ws \in Workspaces, Rerender(t, ws),
           UNCHANGED <<scene, cookie>>, NEW heard, heard = told[t] \/ feed[t].at = "gate",
           told' = [u \in Tabs |-> IF u = t THEN heard ELSE told[u]]
    PROVE  FeedsTyped' /\ FeedsFine'
<1>1. PICK s, r, q, whats, p : /\ s = feed[t] /\ r = Refreshed(s, ws) /\ q = Tail(calls[t])
                               /\ whats = Unheard(s, ws) /\ p = Silenced(q, whats)
  OBVIOUS
<1>2. s \in FeedStates /\ ShownFine(s, told[t]) /\ QueueFits(s, q) /\ Brief(q) /\ AnswersFit(heard, q)
  BY <1>1, TabReady, FrontCall
<1>3. AnswersFit(heard, p)  BY <1>1, <1>2, AnswersSilenced
<1>4. feed' = [feed EXCEPT ![t] = r] /\ calls' = [calls EXCEPT ![t] = p]
  BY <1>1 DEF Rerender, FeedsReady, FeedsTyped, CallsBrief
<1>5. ASSUME s.at = "gate"
      PROVE  r \in FeedStates /\ ShownFine(r, heard) /\ QueueFits(r, p)
  <2>1. r = GateOf(ws, ws, s.gate)  BY <1>1, <1>5 DEF Refreshed
  <2>2. RowsTyped /\ scene = "approvals"  BY <1>2, <1>5 DEF FeedsReady, ShownFine
  <2>3. r \in FeedStates /\ ShownFine(r, heard)  BY <2>1, <2>2, GateShown
  <2>4. s.at # "list"  BY <1>5
  <2>5. QueueFits(r, p)  BY <1>1, <1>2, <2>2, <2>4, FitsSilenced
  <2>6. QED  BY <2>3, <2>5
<1>6. ASSUME s.at # "gate", Remounted(s, ws)
      PROVE  r \in FeedStates /\ ShownFine(r, heard) /\ QueueFits(r, p)
  <2>1. PICK page : page = Page(ws, NoEntry)  OBVIOUS
  <2>2. r = ListOf(ws, ws, page) /\ scene = "agents" /\ whats = {"more"}
    BY <1>1, <1>6, <2>1 DEF Refreshed, Remounted, Unheard
  <2>3. RowsTyped /\ NoEntry \in 0..MaxEntries  BY FeedsAssumption DEF FeedsReady, NoEntry
  <2>4. PageFine(page, ws, NoEntry) /\ \A n \in DOMAIN page.items : entry[page.items[n]].status = "pending"
    BY <2>1, <2>3, PageShape
  <2>5. heard = told[t]  BY <1>1, <1>6
  <2>6. NoneOf(heard, page.items)  BY <2>4, <2>5, TabReady, ToldIsNotListed
  <2>7. r \in FeedStates /\ ShownFine(r, heard)  BY <2>2, <2>4, <2>6, ListShown
  <2>8. QueueFits(r, p)
    <3>1. scene # "approvals" /\ "more" \in whats  BY <2>2
    <3>2. QED  BY <1>1, <1>2, <3>1, FitsSilenced
  <2>9. QED  BY <2>7, <2>8
<1>7. ASSUME s.at # "gate", ~Remounted(s, ws)
      PROVE  r \in FeedStates /\ ShownFine(r, heard) /\ QueueFits(r, p)
  <2>1. PICK fresh \in BOOLEAN : fresh = (s.fresh /\ ws = s.ws)  OBVIOUS
  <2>2. r = [s EXCEPT !.ws = ws, !.active = ws, !.fresh = fresh]
    BY <1>1, <1>7, <2>1 DEF Refreshed
  <2>3. /\ r \in FeedStates /\ r.at = s.at /\ r.ws = ws /\ r.items = s.items /\ r.paged = s.paged
        /\ r.cursor = s.cursor /\ r.fresh = fresh
    BY <1>2, <2>2 DEF FeedStates
  <2>4. heard = told[t]  BY <1>1, <1>7
  <2>5. r.fresh => s.fresh /\ r.ws = s.ws  BY <2>1, <2>3
  <2>6. ShownFine(r, heard)  BY <1>2, <2>3, <2>4, <2>5 DEF ShownFine
  <2>7. QueueFits(r, p)
    <3>1. "poll" \in whats \/ r.ws = s.ws  BY <1>1, <1>7, <2>3 DEF Unheard
    <3>2. QED  BY <1>1, <1>2, <2>3, <3>1, FitsSilenced
  <2>8. QED  BY <2>3, <2>6, <2>7
<1>8. TabTo(t, r, heard, p)  BY <1>4, TabUpdates DEF TabTo
<1>9. r \in FeedStates /\ ShownFine(r, heard) /\ QueueFits(r, p)  BY <1>5, <1>6, <1>7
<1>10. cookie' \in Workspaces /\ FeedsTyped /\ FeedsFine  BY DEF FeedsReady, FeedsTyped
<1>11. QED  BY <1>3, <1>8, <1>9, <1>10, TabMoves

\* The rest of a queue that the tab left fits any page.
LEMMA LeftFine ==
    ASSUME FeedsReady, NEW t \in Tabs, calls[t] # <<>>, NEW s, NEW heard
    PROVE  QueueFits(s, Tail(Leaving(t))) /\ AnswersFit(heard, Tail(Leaving(t)))
<1>1. PICK q, p : q = calls[t] /\ p = Leaving(t)  OBVIOUS
<1>2. QueueFits(s, p) /\ Brief(p) /\ Brief(q) /\ DOMAIN p = DOMAIN q
  BY <1>1, LeavingFine, TabReady DEF Leaving, Silenced
<1>3. p # <<>>
  <2>1. q \in Seq(Range(q))  BY <1>2 DEF Brief, Queue
  <2>2. 1 \in DOMAIN q  BY <1>1, <2>1
  <2>3. QED  BY <1>2, <2>2
<1>4. QED  BY <1>1, <1>2, <1>3, FitsTail

\* The page of a gate that was resolved goes back to the inbox.
LEMMA GateResolvedFine == ASSUME FeedsReady, NEW t \in Tabs, GateResolved(t) PROVE FeedsTyped' /\ FeedsFine'
<1>1. calls[t] # <<>> /\ UNCHANGED <<scene, cookie>> /\ cookie \in Workspaces
  BY DEF GateResolved, Answered, FeedsReady, FeedsTyped
<1>2. CASE feed[t].at = "list"
  <2>1. PICK ws, heard : ws = cookie /\ heard = told[t]  OBVIOUS
  <2>2. Rerender(t, ws) /\ UNCHANGED told  BY <1>2, <2>1 DEF GateResolved
  <2>3. told' = [u \in Tabs |-> IF u = t THEN heard ELSE told[u]]  BY <2>1, <2>2, TabUpdates
  <2>4. QED  BY <1>1, <2>1, <2>2, <2>3, RerenderFine
<1>3. CASE feed[t].at # "list"
  <2>1. PICK heard, p, active : heard = told[t] \union Understood(t) /\ p = Tail(Leaving(t)) /\ active = cookie
    OBVIOUS
  <2>2. calls' = [calls EXCEPT ![t] = p] /\ ShowList(t, active) /\ Told(t, Understood(t))
    BY <1>3, <2>1 DEF GateResolved
  <2>3. \A v \in heard : entry[v.gate].status \in Verdicts
    <3>1. Answered(t, {"resolve"}) /\ Settled(t)  BY DEF GateResolved, Settled
    <3>2. /\ Understood(t) \in SUBSET Tellings
          /\ \A v \in Understood(t) : entry[v.gate] = [status |-> v.status, by |-> v.by]
      BY <3>1, AnswerUnderstood DEF FeedsReady
    <3>3. ASSUME NEW v \in Understood(t)  PROVE  entry[v.gate].status \in Verdicts
      <4>1. v \in Tellings /\ entry[v.gate] = [status |-> v.status, by |-> v.by]  BY <3>2
      <4>2. v.status \in Verdicts  BY <4>1 DEF Tellings
      <4>3. QED  BY <4>1, <4>2
    <3>4. QED  BY <2>1, <3>3, TabReady
  <2>4. PICK s \in FeedStates : feed' = [feed EXCEPT ![t] = s] /\ ShownFine(s, heard)
    BY <1>1, <2>1, <2>2, <2>3, ShowListFine
  <2>5. QueueFits(s, p) /\ AnswersFit(heard, p)  BY <1>1, <2>1, LeftFine
  <2>6. told' = [u \in Tabs |-> IF u = t THEN heard ELSE told[u]]  BY <2>1, <2>2, TabUpdates
  <2>7. TabTo(t, s, heard, p)  BY <1>1, <2>2, <2>4, <2>6, TabUpdates DEF TabTo
  <2>8. FeedsTyped /\ FeedsFine  BY DEF FeedsReady
  <2>9. QED  BY <1>1, <2>4, <2>5, <2>7, <2>8, TabMoves
<1>4. QED  BY <1>2, <1>3

\* The page of a gate that another resolved is rendered again, and tells it.
LEMMA GateAlreadyResolvedFine ==
    ASSUME FeedsReady, NEW t \in Tabs, GateAlreadyResolved(t) PROVE FeedsTyped' /\ FeedsFine'
<1>1. PICK ws, new, heard : ws = cookie /\ new = VerdictOn(Refreshed(feed[t], cookie)) /\ heard = told[t] \union new
  OBVIOUS
<1>2. calls[t] # <<>> /\ UNCHANGED <<scene, cookie>> /\ Rerender(t, ws) /\ Told(t, new)
  BY <1>1 DEF GateAlreadyResolved, Answered
<1>3. heard = told[t] \/ feed[t].at = "gate"
  <2> SUFFICES ASSUME feed[t].at # "gate"  PROVE  new = {}
    BY <1>1
  <2>1. PICK s, r, page : s = feed[t] /\ r = Refreshed(s, ws) /\ page = Page(ws, NoEntry)  OBVIOUS
  <2>2. s \in FeedStates /\ s.at # "gate"  BY <2>1, TabReady
  <2>3. r.at # "gate"
    <3>1. CASE Remounted(s, ws)
      <4>1. r = ListOf(ws, ws, page)  BY <2>1, <2>2, <3>1 DEF Refreshed
      <4>2. QED  BY <4>1 DEF ListOf
    <3>2. CASE ~Remounted(s, ws)
      <4>1. PICK fresh : fresh = (s.fresh /\ ws = s.ws)  OBVIOUS
      <4>2. r = [s EXCEPT !.ws = ws, !.active = ws, !.fresh = fresh]  BY <2>1, <2>2, <3>2, <4>1 DEF Refreshed
      <4>3. QED  BY <2>2, <4>2 DEF FeedStates
    <3>3. QED  BY <3>1, <3>2
  <2>4. QED  BY <1>1, <2>1, <2>3 DEF VerdictOn
<1>4. told' = [u \in Tabs |-> IF u = t THEN heard ELSE told[u]]  BY <1>1, <1>2, TabUpdates
<1>5. ws \in Workspaces  BY <1>1 DEF FeedsReady, FeedsTyped
<1>6. QED  BY <1>2, <1>3, <1>4, <1>5, RerenderFine

\* The tab follows the switcher, or the error page replaces what it shows.
LEMMA ReceiveSwitchFine == ASSUME FeedsReady, NEW t \in Tabs, ReceiveSwitch(t) PROVE FeedsTyped' /\ FeedsFine'
<1>1. calls[t] # <<>> /\ Head(calls[t]).what = "switch" /\ UNCHANGED <<scene, cookie, told>>
  BY DEF ReceiveSwitch, Answered
<1>2. PICK ws, heard : ws = Arg(t).ws /\ heard = told[t]  OBVIOUS
<1>3. ws \in Workspaces
  <2>1. CallFits(feed[t], Head(calls[t]))  BY <1>1, FrontCall
  <2>2. QED  BY <1>1, <1>2, <2>1 DEF CallFits, Arg
<1>4. told' = [u \in Tabs |-> IF u = t THEN heard ELSE told[u]]  BY <1>1, <1>2, TabUpdates
<1>5. CASE Answer(t).kind = "ok"
  <2>1. Rerender(t, ws)  BY <1>2, <1>5 DEF ReceiveSwitch
  <2>2. QED  BY <1>1, <1>2, <1>3, <1>4, <2>1, RerenderFine
<1>6. CASE Answer(t).kind # "ok"
  <2>1. PICK s, home, active, p : /\ home = feed[t].ws /\ active = feed[t].active /\ p = Tail(Leaving(t))
                                  /\ s = GateOf(home, active, NoEntry)
    OBVIOUS
  <2>2. feed' = [feed EXCEPT ![t] = s] /\ calls' = [calls EXCEPT ![t] = p]
    BY <1>6, <2>1 DEF ReceiveSwitch, NotFound, FeedsReady, FeedsTyped
  <2>3. RowsTyped /\ home \in Workspaces /\ active \in Workspaces  BY <2>1, TabReady DEF FeedsReady
  <2>4. s \in FeedStates /\ ShownFine(s, heard)
    <3>1. PICK e : e = NoEntry  OBVIOUS
    <3>2. s = GateOf(home, active, e)  BY <2>1, <3>1
    <3>3. QED  BY <2>3, <3>1, <3>2, GateShown
  <2>5. QueueFits(s, p) /\ AnswersFit(heard, p)  BY <1>1, <2>1, LeftFine
  <2>6. TabTo(t, s, heard, p)  BY <1>1, <1>4, <2>2, TabUpdates DEF TabTo
  <2>7. cookie' \in Workspaces /\ FeedsTyped /\ FeedsFine  BY <1>1 DEF FeedsReady, FeedsTyped
  <2>8. QED  BY <2>4, <2>5, <2>6, <2>7, TabMoves
<1>7. QED  BY <1>5, <1>6

\* Every step of the feeds keeps them fine.
LEMMA FeedsFineStep == ASSUME FeedsReady, FeedsNext PROVE FeedsTyped' /\ FeedsFine'
<1>1. ASSUME NEW e \in Entries, Create(e) \/ \E o \in Outcomes : ResolveElsewhere(e, o)
      PROVE  FeedsTyped' /\ FeedsFine'
  <2>1. UNCHANGED <<scene, cookie, feed, told, calls>>  BY <1>1 DEF Create, ResolveElsewhere, callVars
  <2>2. QED  BY <2>1, FeedsStand DEF FeedsReady
<1>2. ASSUME NEW t \in Tabs, FeedsClick(t)  PROVE  FeedsTyped' /\ FeedsFine'
  BY <1>2, LoadMoreFine, OpenListFine, OpenGateFine, ResolveFine, SwitchFine DEF FeedsClick
<1>3. ASSUME NEW t \in Tabs, FeedsServe(t)  PROVE  FeedsTyped' /\ FeedsFine'
  BY <1>3, ServeListFine, ServeOtherFine DEF FeedsServe
<1>4. ASSUME NEW t \in Tabs, FeedsReceive(t)  PROVE  FeedsTyped' /\ FeedsFine'
  BY <1>4, ReceivePollFine, ReceiveMoreFine, ReceiveResolvedFine, GateResolvedFine, GateAlreadyResolvedFine,
     GateNotResolvedFine, ReceiveSwitchFine DEF FeedsReceive
<1>5. QED  BY <1>1, <1>2, <1>3, <1>4, PollFine, UnreachedFine DEF FeedsNext

(***************************************************************************)
(* The whole dashboard.                                                    *)
(***************************************************************************)
\* A behaviour stays in its scene: no step of a table leaves it.
LEMMA TablesStay == TablesNext => UNCHANGED scene
<1> SUFFICES ASSUME TablesNext  PROVE  UNCHANGED scene  OBVIOUS
<1>1. ASSUME NEW i \in Items, Sweep(i)  PROVE  UNCHANGED scene
  BY <1>1 DEF Sweep, callVars
<1>2. ASSUME NEW t \in Tabs, TablesClick(t)  PROVE  UNCHANGED scene
  BY <1>2 DEF TablesClick, Dismiss, Confirm, OpenMint, Mint, CloseMint, PageActivity, CloseActivity, GoTo,
     OpenActivity, PickAction, Click, Clicked, callVars
<1>3. ASSUME NEW t \in Tabs, TablesServe(t)  PROVE  UNCHANGED scene
  BY <1>3 DEF TablesServe, ServeLoad, ServeEvents, ServeAct, RefuseMint, ServeMint, Reply
<1>4. ASSUME NEW t \in Tabs, TablesReceive(t)  PROVE  UNCHANGED scene
  BY <1>4 DEF TablesReceive, ReceiveLoad, RunnerActed, KeyActed, ReceiveMint, ReceiveEvents, Received,
     ReceivedThen
<1>5. QED  BY <1>1, <1>2, <1>3, <1>4 DEF TablesNext, Unreached

\* Nor does a step of a form.
LEMMA FormsStay == FormsNext => UNCHANGED scene
<1> SUFFICES ASSUME FormsNext  PROVE  UNCHANGED scene  OBVIOUS
<1>1. ASSUME PauseAgent  PROVE  UNCHANGED scene
  BY <1>1 DEF PauseAgent, callVars
<1>2. ASSUME NEW t \in Tabs, FormsClick(t)  PROVE  UNCHANGED scene
  BY <1>2 DEF FormsClick, PickStatus, PickDelete, Cancel, ConfirmStatus, ConfirmDelete, Install, Add, Rotate,
     PickDrop, AddInline, Select, Rename, ConfirmDrop, CancelDrop, SaveProvider, ResetProvider, CreateSpace,
     SwitchSpace, Opens, Sends, Click, Clicked, callVars
<1>3. ASSUME NEW t \in Tabs, FormsServe(t)  PROVE  UNCHANGED scene
  BY <1>3 DEF FormsServe, ServeStatus, ServeDelete, ServeInstall, ServeCredential, ServeProvider, RefuseSpace,
     ServeSwitchSpace, ServeSpace, Accepts, Refuses, Reply
<1>4. ASSUME NEW t \in Tabs, FormsReceive(t)  PROVE  UNCHANGED scene
  BY <1>4 DEF FormsReceive, ReceiveForm, ReceiveRename, ReceiveUnname, ReceiveMove, Received, ReceivedThen
<1>5. QED  BY <1>1, <1>2, <1>3, <1>4 DEF FormsNext, Unreached

\* Nor does a step of a feed.
LEMMA FeedsStay == FeedsNext => UNCHANGED scene
<1> SUFFICES ASSUME FeedsNext  PROVE  UNCHANGED scene  OBVIOUS
<1>1. ASSUME NEW e \in Entries, Create(e) \/ \E o \in Outcomes : ResolveElsewhere(e, o)
      PROVE  UNCHANGED scene
  BY <1>1 DEF Create, ResolveElsewhere, callVars
<1>2. ASSUME NEW t \in Tabs, Poll(t) \/ FeedsClick(t)  PROVE  UNCHANGED scene
  BY <1>2 DEF Poll, FeedsClick, LoadMore, OpenList, OpenGate, Resolve, Switch, Click, Clicked
<1>3. ASSUME NEW t \in Tabs, FeedsServe(t)  PROVE  UNCHANGED scene
  BY <1>3 DEF FeedsServe, ServeList, ServeResolve, RefuseResolve, ServeSwitch, Reply
<1>4. ASSUME NEW t \in Tabs, FeedsReceive(t)  PROVE  UNCHANGED scene
  BY <1>4 DEF FeedsReceive, ReceivePoll, ReceiveMore, ReceiveResolved, GateResolved, GateAlreadyResolved,
     GateNotResolved, ReceiveSwitch, Rerender, Received, ReceivedThen
<1>5. QED  BY <1>1, <1>2, <1>3, <1>4 DEF FeedsNext, Unreached

\* Nothing is under way and nothing was told when the tabs are opened.
LEMMA ConsoleStart == Init => ConsoleInv
<1> SUFFICES ASSUME NEW cast \in Casts, CallsInit(cast), FeedsInit(cast)  PROVE  ConsoleInv
  BY DEF Init
<1>1. RowsTyped
  BY DEF FeedsInit, RowsTyped, RowStates, Open, Unborn, Never, Resolvers
<1>2. ToldTyped /\ OneVerdict  BY DEF FeedsInit, ToldTyped, OneVerdict
<1>3. FeedShaped  BY RenderedShape DEF FeedsInit, FeedShaped
<1>4. CallsSound
  <2>1. calls = [t \in Tabs |-> <<>>]  BY DEF CallsInit
  <2>2. QED  BY <2>1, SoundEmpty DEF CallsSound
<1>5. QED  BY <1>1, <1>2, <1>3, <1>4 DEF ConsoleInv

\* Every step of the dashboard keeps the invariant, and every verdict.
LEMMA ConsoleStep == ConsoleInv /\ [Next]_vars => ConsoleInv' /\ VerdictsStand(entry, entry')
<1> SUFFICES ASSUME ConsoleInv, [Next]_vars  PROVE  ConsoleInv' /\ VerdictsStand(entry, entry')
  OBVIOUS
<1>1. CASE Feed
  <2>1. FeedInv /\ FeedsNext  BY <1>1 DEF Feed, ConsoleInv, FeedInv
  <2>2. RowsTyped' /\ VerdictsStand(entry, entry')  BY <2>1, RowsStep DEF FeedInv
  <2>3. CallsSound' /\ FeedShaped' /\ ToldTyped' /\ OneVerdict'
    BY <2>1, CallsStep, FeedStep, ToldStep DEF FeedInv
  <2>4. QED  BY <2>2, <2>3 DEF ConsoleInv
<1>2. CASE Table \/ Form
  <2>1. UNCHANGED feedVars /\ UNCHANGED scene /\ scene \notin Feeds
    BY <1>2, TablesStay, FormsStay DEF Table, Form, Tables, Forms, Feeds
  <2>2. QED
    BY <2>1 DEF feedVars, ConsoleInv, RowsTyped, ToldTyped, FeedShaped, OneVerdict, VerdictsStand, Feeds
<1>3. CASE UNCHANGED vars
  <2>1. UNCHANGED <<scene, calls, entry, feed, told>>  BY <1>3 DEF vars, callVars, feedVars
  <2>2. QED
    BY <2>1 DEF ConsoleInv, RowsTyped, ToldTyped, FeedShaped, CallsSound, OneVerdict, VerdictsStand
<1>4. QED  BY <1>1, <1>2, <1>3 DEF Next

\* What the API and the tabs keep of an approval, in every reachable state.
THEOREM ConsoleKeepsInv == Spec => []ConsoleInv
<1>1. Init => ConsoleInv  BY ConsoleStart
<1>2. ConsoleInv /\ [Next]_vars => ConsoleInv'  BY ConsoleStep
<1>3. QED  BY <1>1, <1>2, PTL DEF Spec

\* A verdict that a tab was told is the one on the row, whoever else resolved
\* the gate while the answer was on its way, and however long it was.
THEOREM VerdictsAreTrue == Spec => []OneVerdict
<1>1. ConsoleInv => OneVerdict  BY DEF ConsoleInv
<1>2. QED  BY <1>1, ConsoleKeepsInv, PTL

\* The first resolver of a gate wins: no later click, channel or timeout
\* changes its verdict, nor who gave it.
THEOREM FirstResolverWins == Spec => [][VerdictsStand(entry, entry')]_vars
<1>1. ConsoleInv /\ [Next]_vars => [VerdictsStand(entry, entry')]_vars  BY ConsoleStep
<1>2. QED  BY <1>1, ConsoleKeepsInv, PTL DEF Spec

\* When the tabs are opened the forms have asked for nothing.
LEMMA FormsStart == Init => FormsInv
<1> SUFFICES ASSUME NEW cast \in Casts, CallsInit(cast), FormsInit(cast)  PROVE  FormsInv
  BY DEF Init
<1>1. cast.creds \subseteq Names /\ IsFiniteSet(cast.tabs) /\ FirstSpace \in Spaces  BY FormsAssumption
<1>2. tabs = cast.tabs /\ calls = [t \in Tabs |-> <<>>]  BY DEF CallsInit
<1>3. /\ store = [status |-> IF scene = "install" THEN "unborn" ELSE "active",
                  creds |-> cast.creds, provider |-> Platform, spaces |-> {FirstSpace}, cookie |-> FirstSpace]
      /\ shown = [t \in Tabs |-> store]
      /\ writer = [f \in Fields |-> SomebodyElse] /\ acked = [t \in Tabs |-> {}]
  BY DEF FormsInit
<1>4. store \in Stores /\ FirstSpace \in store.spaces  BY <1>1, <1>3 DEF Stores, Stages
<1>5. PICK ref : ref = IF cast.creds = {} THEN Nothing ELSE CHOOSE n \in cast.creds : TRUE  OBVIOUS
<1>6. ref \in Names \union {Nothing}  BY <1>1, <1>5
<1>7. form = [t \in Tabs |-> [at |-> IF scene = "install" THEN "install" ELSE "page", dialog |-> Nothing,
                              ref |-> ref]]
  BY <1>5 DEF FormsInit
<1>8. form \in [Tabs -> FormStates] /\ \A t \in Tabs : form[t].dialog = Nothing
  BY <1>6, <1>7 DEF FormStates
<1>9. FormsTypeOK  BY <1>3, <1>4, <1>8 DEF FormsTypeOK
<1>10. FormsQueued
  <2>1. calls \in [Tabs -> Seq(FormCalls)]  BY <1>2
  <2>2. ASSUME NEW t \in Tabs
        PROVE  RenameLast(t) /\ DropsCredential(t) /\ NoneStale(t) /\ NewNameStored(t)
    BY <1>2, <1>3, <1>8 DEF RenameLast, DropsCredential, NoneStale, NewNameStored
  <2>3. QED  BY <1>1, <1>2, <2>1, <2>2 DEF FormsQueued
<1>11. QED  BY <1>9, <1>10 DEF FormsInv

\* Every step of the dashboard keeps what the forms rely on.
LEMMA FormsStep == FormsInv /\ [Next]_vars => FormsInv'
<1> SUFFICES ASSUME FormsInv, [Next]_vars  PROVE  FormsInv'
  OBVIOUS
<1>1. CASE Form
  <2>1. scene \in Forms /\ FormsNext /\ FormsTypeOK /\ FormsQueued  BY <1>1 DEF Form, FormsInv
  <2>2. ASSUME NEW t \in Tabs, Unreached(t) /\ UNCHANGED formVars  PROVE  FormsTypeOK' /\ FormsQueued'
    BY <2>1, <2>2, FormsUnreached
  <2>3. FormsTypeOK' /\ FormsQueued'
    BY <2>1, <2>2, FormsClickStep, FormsServeStep, FormsReceiveStep, FormsPauseStep DEF FormsNext
  <2>4. QED  BY <2>3 DEF FormsInv
<1>2. CASE Feed \/ Table
  <2>1. UNCHANGED formVars /\ scene' \notin Forms
    BY <1>2, FeedsStay, TablesStay DEF Feed, Table, Feeds, Tables, Forms
  <2>2. QED  BY <2>1 DEF formVars, FormsInv, FormsTypeOK
<1>3. CASE UNCHANGED vars
  <2>1. UNCHANGED <<scene, tabs, calls, store, shown, form, writer, acked>>  BY <1>3 DEF vars, callVars, formVars
  <2>2. FormsTypeOK'  BY <2>1 DEF FormsInv, FormsTypeOK
  <2>3. FormsQueued => FormsQueued'
    BY <2>1 DEF FormsQueued, RenameLast, DropsCredential, NoneStale, NewNameStored, Arg, Answer
  <2>4. QED  BY <2>1, <2>2, <2>3 DEF FormsInv
<1>4. QED  BY <1>1, <1>2, <1>3 DEF Next

\* The page of a tab shows the writes that it was told of once nothing is under
\* way, no write of another tab is mistaken for its own, and a rename never
\* leaves the secret without a name: in every scene, for any number of tabs,
\* names, workspaces, clicks and faults.
THEOREM FormsTellTheTruth == Spec => []FormsInvariant
<1>1. Init => FormsInv  BY FormsStart
<1>2. FormsInv /\ [Next]_vars => FormsInv'  BY FormsStep
<1>3. FormsInv => FormsInvariant
  <2> SUFFICES ASSUME FormsInv  PROVE  FormsInvariant
    OBVIOUS
  <2>1. FormsTypeOK  BY DEF FormsInv
  <2>2. ToldIsShown  BY DEF FormsInv, FormsQueued, NoneStale, ToldIsShown
  <2>3. RenameKeepsOne
    BY DEF FormsInv, FormsQueued, NewNameStored, RenameKeepsOne, Renaming, Forms
  <2>4. QED  BY <2>1, <2>2, <2>3 DEF FormsInvariant
<1>4. QED  BY <1>1, <1>2, <1>3, PTL DEF Spec

\* The tables when the tabs are opened.
LEMMA TablesStart == Init => TablesInv
<1> SUFFICES ASSUME NEW cast \in Casts, CallsInit(cast), TablesInit(cast)  PROVE  TablesInv
  BY DEF Init
<1>1. drift \in BOOLEAN  BY TablesAssumption DEF TablesInit
<1>2. item = [i \in Items |-> [status |-> IF scene \in Tables /\ i <= cast.rows THEN "active" ELSE "unborn",
                               name |-> Nobody]]
  BY DEF TablesInit
<1>3. item \in [Items -> ItemStates] /\ \A i \in Items : item[i].status \in {"active", "unborn"}
  BY <1>2 DEF ItemStates, Statuses
<1>4. PICK page, len : page = TablePage(1) /\ len = Len(Rows)  OBVIOUS
<1>5. /\ page \in Pages /\ len \in 0..MaxItems
      /\ \A n \in DOMAIN page.rows : page.rows[n].status = item[page.rows[n].id].status
  BY <1>3, <1>4, TablePageShape, RowsShape
<1>6. PICK s : s = [rows |-> page.rows, total |-> len, page |-> 1, target |-> NoTarget, open |-> FALSE,
                    created |-> NoItem, runner |-> NoItem, data |-> NoItem, error |-> NoItem,
                    heard |-> {}, seen |-> {}]
  OBVIOUS
<1>7. table = [t \in Tabs |-> s]  BY <1>4, <1>6 DEF TablesInit
<1>8. page.rows \in Seq([id : Items, status : Statuses])  BY <1>5 DEF Pages, TableRows
<1>9. s \in TableStates
  <2>1. NoTarget \in [id : 0..MaxItems, action : Actions] /\ NoItem \in 0..MaxItems
    BY TablesAssumption DEF NoTarget, NoItem, Actions
  <2>2. QED  BY <1>5, <1>6, <1>8, <2>1 DEF TableStates
<1>10. RowsFine(page.rows)
  <2>1. PICK rows : rows = page.rows  OBVIOUS
  <2>2. \A n \in DOMAIN rows : rows[n].id \in Items
    <3>1. rows \in Seq(TableRows)  BY <1>5, <2>1 DEF Pages
    <3>2. \A n \in DOMAIN rows : rows[n] \in TableRows  BY <3>1
    <3>3. QED  BY <3>2 DEF TableRows
  <2>3. \A n \in DOMAIN rows : rows[n].status = item[rows[n].id].status /\ rows[n].status \in {"active", "unborn"}
    BY <1>3, <1>5, <2>1, <2>2
  <2>4. QED  BY <2>1, <2>3 DEF RowsFine
<1>11. StateFine(s)  BY <1>6, <1>10 DEF StateFine
<1>12. TablesFine  BY <1>1, <1>3, <1>7, <1>9, <1>11 DEF TablesFine, TablesTypeOK, ItemStates
<1>13. TablesQueued
  <2>1. calls = [t \in Tabs |-> <<>>]  BY DEF CallsInit
  <2>2. \A t \in Tabs : QueueFine(calls[t]) /\ Fits(table[t], calls[t])  BY <2>1 DEF QueueFine, Fits
  <2>3. QED  BY <1>3, <2>1, <2>2 DEF TablesQueued
<1>14. QED  BY <1>12, <1>13 DEF TablesInv

\* The rows of every tab move on in every step of the dashboard.
LEMMA TablesMove == TablesInv /\ [Next]_vars => TablesInv' /\ \A u \in Tabs : NoReturn(table[u].rows, table'[u].rows)
<1> SUFFICES ASSUME TablesInv, [Next]_vars
             PROVE  TablesInv' /\ \A u \in Tabs : NoReturn(table[u].rows, table'[u].rows)
  OBVIOUS
<1>1. CASE Table
  <2>1. scene \in Tables /\ TablesNext /\ TablesFine /\ TablesQueued  BY <1>1 DEF Table, TablesInv
  <2>2. QED  BY <2>1, TablesStep DEF TablesInv
<1>2. ASSUME UNCHANGED <<scene, item, table, drift>>
      PROVE  TablesFine' /\ \A u \in Tabs : NoReturn(table[u].rows, table'[u].rows)
  BY <1>2 DEF TablesInv, TablesFine, TablesTypeOK, StateFine, RowsFine, Ended, Confirmable, NoReturn
<1>3. CASE Feed \/ Form
  <2>1. UNCHANGED tableVars /\ UNCHANGED scene /\ scene' \notin Tables
    BY <1>3, FeedsStay, FormsStay DEF Feed, Form, Feeds, Tables, Forms
  <2>2. QED  BY <1>2, <2>1 DEF tableVars, TablesInv
<1>4. CASE UNCHANGED vars
  <2>1. UNCHANGED <<scene, calls, item, table, drift>>  BY <1>4 DEF vars, callVars, tableVars
  <2>2. ASSUME TablesQueued  PROVE  TablesQueued'
    <3>1. ItemsGoOn  BY <2>1, <2>2 DEF TablesInv, TablesFine, TablesTypeOK, ItemStates, ItemsGoOn, Ended, TablesQueued
    <3>2. ASSUME NEW u \in Tabs  PROVE  QueueFine(calls[u])' /\ Fits(table[u], calls[u])'
      <4>1. PICK r, q : r = table[u] /\ q = calls[u]  OBVIOUS
      <4>2. q \in Seq(TableCalls) /\ QueueFine(q) /\ Fits(r, q) /\ table'[u] = r /\ calls'[u] = q
        BY <2>1, <2>2, <4>1 DEF TablesQueued
      <4>3. Fits(r, q)' /\ QueueFine(q)'  BY <2>1, <3>1, <4>2, FitsGoesOn DEF QueueFine, Confirmable
      <4>4. QED  BY <4>2, <4>3
    <3>3. QED  BY <2>1, <2>2, <3>2 DEF TablesQueued
  <2>3. QED  BY <1>2, <2>1, <2>2 DEF TablesInv
<1>5. QED  BY <1>1, <1>3, <1>4 DEF Next

\* What the tables and their dialogs rely on, in every reachable state.
THEOREM TablesKeepInv == Spec => []TablesInv
<1>1. TablesInv /\ [Next]_vars => TablesInv'  BY TablesMove
<1>2. QED  BY <1>1, TablesStart, PTL DEF Spec

\* The panel shows what came for the runner that it names, and no secret that
\* reached the dialog is replaced before the operator closed it.
THEOREM DialogsKeepTheirRow == Spec => []TablesInvariant
<1>1. TablesInv => TablesInvariant
  BY DEF TablesInv, TablesFine, StateFine, TablesInvariant, PanelMatches, SecretNotDropped
<1>2. QED  BY <1>1, TablesKeepInv, PTL

\* A runner or key that a tab shows as revoked is never shown there in another
\* state, whatever page or answer was on its way.
THEOREM RevokedRowsStay == Spec => RevokedStaysRevoked
<1> DEFINE Final == \A t \in Tabs, i \in Items, s \in Statuses \ {"revoked"} :
                       Shows(t, i, "revoked") => ~Shows(t, i, s)'
<1>1. TablesInv /\ [Next]_vars => [Final]_<<callVars, tableVars>>
  <2> SUFFICES ASSUME TablesInv, [Next]_vars, NEW t \in Tabs, NEW i \in Items,
                      NEW s \in Statuses \ {"revoked"}, Shows(t, i, "revoked"), Shows(t, i, s)'
               PROVE  FALSE
    OBVIOUS
  <2>1. NoReturn(table[t].rows, table'[t].rows)  BY TablesMove
  <2>2. QED  BY <2>1 DEF Shows, NoReturn
<1>2. QED  BY <1>1, TablesKeepInv, PTL DEF Spec, RevokedStaysRevoked

\* What the feeds show and what is under way, in every scene.
FeedsInv == ConsoleInv /\ CallsBrief /\ FeedsTyped /\ (scene \in Feeds => FeedsFine)

\* The feeds when the tabs are opened.
LEMMA FeedsStart == Init => FeedsInv
<1> SUFFICES ASSUME Init  PROVE  FeedsInv
  OBVIOUS
<1>1. ConsoleInv /\ CallsBrief  BY ConsoleStart, CallsBriefStart
<1>2. PICK cast \in Casts : CallsInit(cast) /\ FeedsInit(cast)  BY DEF Init
<1>3. RowsTyped /\ cookie \in Workspaces /\ NoEntry \in 0..MaxEntries
  BY <1>1, <1>2, FeedsAssumption DEF ConsoleInv, FeedsInit, NoEntry
<1>4. PICK heard : heard = {}  OBVIOUS
<1>5. PICK e, page, list, blank : /\ e = NoEntry /\ page = Page(cookie, e) /\ list = ListOf(cookie, cookie, page)
                                  /\ blank = GateOf(cookie, cookie, e)
  OBVIOUS
<1>6. list \in FeedStates /\ ShownFine(list, heard)
  <2>1. PageFine(page, cookie, NoEntry) /\ NoneOf(heard, page.items)
    BY <1>3, <1>4, <1>5, PageShape DEF NoneOf
  <2>2. QED  BY <1>3, <1>5, <2>1, ListShown
<1>7. blank \in FeedStates /\ ShownFine(blank, heard)  BY <1>3, <1>5, GateShown
<1>8. feed = [t \in Tabs |-> IF t \in tabs /\ scene \in Feeds THEN list ELSE blank]
  BY <1>2, <1>5 DEF FeedsInit, NotFound
<1>9. FeedsTyped  BY <1>3, <1>6, <1>7, <1>8 DEF FeedsTyped
<1>10. ASSUME NEW t \in Tabs  PROVE  TabFine(feed[t], told[t], calls[t])
  <2>1. told[t] = heard /\ calls[t] = <<>> /\ (feed[t] = list \/ feed[t] = blank)
    BY <1>2, <1>4, <1>8 DEF FeedsInit, CallsInit
  <2>2. ShownFine(feed[t], told[t])  BY <1>6, <1>7, <2>1
  <2>3. QED  BY <2>1, <2>2 DEF TabFine, QueueFits, AnswersFit
<1>11. QED  BY <1>1, <1>9, <1>10 DEF FeedsInv, FeedsFine

\* And after every step of the dashboard.
LEMMA FeedsKeep == FeedsInv /\ [Next]_vars => FeedsInv'
<1> SUFFICES ASSUME FeedsInv, [Next]_vars  PROVE  FeedsInv'
  OBVIOUS
<1>1. ConsoleInv' /\ CallsBrief'  BY ConsoleStep, CallsBriefStep DEF FeedsInv
<1>2. CASE Feed
  <2>1. FeedsReady /\ FeedsNext  BY <1>2 DEF Feed, FeedsInv, FeedsReady, ConsoleInv
  <2>2. FeedsTyped' /\ FeedsFine'  BY <2>1, FeedsFineStep
  <2>3. QED  BY <1>1, <2>2 DEF FeedsInv
<1>3. CASE Table \/ Form
  <2>1. UNCHANGED feedVars /\ UNCHANGED scene /\ scene' \notin Feeds
    BY <1>3, TablesStay, FormsStay DEF Table, Form, Feeds, Tables, Forms
  <2>2. FeedsTyped'  BY <2>1 DEF feedVars, FeedsTyped, FeedsInv
  <2>3. QED  BY <1>1, <2>1, <2>2 DEF FeedsInv
<1>4. CASE UNCHANGED vars
  <2>1. UNCHANGED <<scene, cookie, feed, told, calls>>  BY <1>4 DEF vars, callVars, feedVars
  <2>2. FeedsTyped'  BY <2>1 DEF FeedsTyped, FeedsInv
  <2>3. scene' \in Feeds => FeedsFine'
    <3>1. ASSUME scene \in Feeds  PROVE  FeedsFine'  BY <2>1, <3>1, FeedsStand DEF FeedsInv
    <3>2. QED  BY <2>1, <3>1
  <2>4. QED  BY <1>1, <2>2, <2>3 DEF FeedsInv
<1>5. QED  BY <1>2, <1>3, <1>4 DEF Next

\* No gate that a tab was told of is back in its inbox, the inbox shows no gate
\* of another workspace, and no list shows a row twice: in every scene, for any
\* number of tabs, workspaces, rows, clicks and faults.
THEOREM FeedsAreTrue == Spec => []FeedsInvariant
<1>1. FeedsInv => FeedsInvariant
  <2> SUFFICES ASSUME FeedsInv  PROVE  FeedsInvariant
    OBVIOUS
  <2>1. CallsTypeOK  BY BriefIsTyped DEF FeedsInv
  <2>2. FeedsTypeOK
    BY DEF FeedsInv, ConsoleInv, FeedsTyped, FeedsTypeOK, RowsTyped, RowStates, ToldTyped, Tellings
  <2>3. \A t \in Tabs : scene \in Feeds => ShownFine(feed[t], told[t])  BY DEF FeedsInv, FeedsFine, TabFine
  <2>4. ResolvedStaysGone  BY <2>3 DEF ResolvedStaysGone, ShownFine, NoneOf, Feeds
  <2>5. PollsNeverCross
    <3> SUFFICES ASSUME scene = "approvals", NEW t \in Tabs, NEW s, s = feed[t], s.fresh, FirstPageShown(t),
                        NEW e \in Range(s.items)
                 PROVE  Home[e] = s.ws
      BY DEF PollsNeverCross
    <3>1. s.at = "list" /\ ~s.paged /\ ShownFine(s, told[t])  BY <2>3 DEF FirstPageShown, Feeds
    <3>2. \A n \in DOMAIN s.items : Home[s.items[n]] = s.ws  BY <3>1 DEF ShownFine
    <3>3. QED  BY <3>2 DEF Range
  <2>6. NoRowTwice
    <3> SUFFICES ASSUME scene \in {"agents", "events"}, NEW t \in Tabs, NEW items, items = feed[t].items,
                        NEW i \in DOMAIN items, NEW j \in DOMAIN items, items[i] = items[j]
                 PROVE  i = j
      BY DEF NoRowTwice
    <3>1. Descends(items)
      <4>1. scene \in Feeds /\ scene # "approvals"  BY DEF Feeds
      <4>2. QED  BY <2>3, <4>1 DEF ShownFine
    <3>2. items \in Seq(Entries)  BY DEF FeedsInv, FeedsTyped, FeedStates
    <3>3. i \in Nat /\ j \in Nat  BY <3>2
    <3>4. items[i] \in Entries /\ items[j] \in Entries  BY <3>2
    <3>5. items[i] \in Nat /\ items[j] \in Nat  BY <3>4 DEF Entries
    <3>6. QED  BY <3>1, <3>3, <3>5 DEF Descends
  <2>7. QED  BY <2>1, <2>2, <2>4, <2>5, <2>6 DEF FeedsInvariant
<1>2. FeedsInv /\ [Next]_vars => FeedsInv'  BY FeedsKeep
<1>3. QED  BY <1>1, <1>2, FeedsStart, PTL DEF Spec
=============================================================================
