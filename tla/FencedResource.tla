---------------------------- MODULE FencedResource ----------------------------
(***************************************************************************)
(* What the affinity slot of a zombie promises, without leases, deadlines  *)
(* or clocks: ownership is handed out under strictly increasing tokens,    *)
(* never while the current owner is still protected, and an outcome is     *)
(* accepted only from the newest token, at most once per token.            *)
(***************************************************************************)
EXTENDS Naturals

CONSTANT Resources

VARIABLES
    granted,    \* the newest token handed out per resource, 0 before the first
    protected,  \* the resources whose newest owner still keeps others out
    accepted    \* the tokens whose outcome was accepted, per resource

rvars == <<granted, protected, accepted>>

RInit ==
    /\ granted   = [x \in Resources |-> 0]
    /\ protected = {}
    /\ accepted  = [x \in Resources |-> {}]

\* A new owner gets the next token.
Grant(x) ==
    /\ x \notin protected
    /\ granted'   = [granted EXCEPT ![x] = @ + 1]
    /\ protected' = protected \union {x}
    /\ UNCHANGED accepted

\* The newest owner's outcome is accepted; an older token is refused.
Accept(x) ==
    /\ granted[x] \notin accepted[x]
    /\ granted[x] > 0
    /\ accepted' = [accepted EXCEPT ![x] = @ \union {granted[x]}]
    /\ UNCHANGED <<granted, protected>>

\* Protection comes and goes: a renewal restores it, an expiry, a release or
\* a sweep ends it, possibly for several resources at once.
Shift(on) ==
    /\ \A x \in on : granted[x] > 0
    /\ protected' = on
    /\ UNCHANGED <<granted, accepted>>

RNext ==
    \/ \E x \in Resources : Grant(x) \/ Accept(x)
    \/ \E on \in SUBSET Resources : Shift(on)

RSpec == RInit /\ [][RNext]_rvars
===============================================================================
