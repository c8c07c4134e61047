----------------------------- MODULE MCRunnerFleet -----------------------------
EXTENDS RunnerFleet

CONSTANTS h, r1, r2, z1, s1, s2
===============================================================================
