---------------------------- MODULE MCAffinitySlot ----------------------------
EXTENDS AffinitySlot, TLC

CONSTANTS r1, r2, z1, e1

MCSymmetry == Permutations(Runners)
===============================================================================
