---------------------------- MODULE MCEventDelivery ----------------------------
EXTENDS SettledEvents, TLC

CONSTANTS z1, r1, r2, i1, i2

\* Every event is on the stream of the one zombie.
MCHome == [e \in Events |-> z1]

\* The daemons do not differ.
MCSymmetry == Permutations(Instances)
===============================================================================
