---------------------------- MODULE MCRunnerWorker ----------------------------
EXTENDS RunnerWorker

CONSTANTS h, w1, w2, z1, e1

\* Both workers are threads of one daemon.
MCHost == [w \in Workers |-> h]
===============================================================================
