------------------------------ MODULE MCMetering ------------------------------
EXTENDS Metering

CONSTANTS z1, z2, r1, r2, e1, e2, x1, x2, id1, id2

\* One zombie and one tenant, or one of each per event.
MCTenant == [z \in Zombies |-> IF z = z1 THEN x1 ELSE x2]
MCHome == [e \in Events |-> IF e = e2 /\ z2 \in Zombies THEN z2 ELSE z1]

\* Every event has an entry id of its own.
MCDistinctIds == [e \in Events |-> IF e = e1 THEN id1 ELSE id2]
===============================================================================
