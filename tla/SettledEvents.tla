----------------------------- MODULE SettledEvents -----------------------------
(***************************************************************************)
(* EventDelivery with a history variable: for every event, the last token  *)
(* that had been handed out for its zombie when its outcome was written.   *)
(* Which requests came after the outcome is then a matter of numbers.  The *)
(* steps are those of EventDelivery, and the variable only watches them.   *)
(***************************************************************************)
EXTENDS EventDelivery

VARIABLE seal    \* 0 while the row of the event is not terminal

sealvars == <<vars, seal>>

SealTypeOK == seal \in [Events -> 0..MaxClaims]

SealedInit == DeliveryInit /\ seal = [e \in Events |-> 0]

\* What a step that writes outcomes does to the seals.
Seals == seal' = [e \in Events |->
                    IF Terminal(e)' /\ ~Terminal(e) THEN slot[Home[e]].seq ELSE seal[e]]

SealedNext == DeliveryNext /\ Seals

SealedSpec == SealedInit /\ [][SealedNext]_sealvars

-------------------------------------------------------------------------------
\* "a settled or gate_blocked entry ... must be re-acked, never re-leased"
\* (service_billing.zig:99-101): a request that was claimed after the outcome
\* of an event was written does not lease it from the stream, whichever
\* handler died between the outcome and the ack.  One that was claimed before
\* may have looked at the row while it was open, and does.
SettledNeverReleased ==
    [][\A e \in Events, t \in Tokens :
         IssuedUnder(e, t) /\ Terminal(e) /\ work[Home[e]][t].kind = "fresh"
            => t <= seal[e]]_sealvars
===============================================================================
