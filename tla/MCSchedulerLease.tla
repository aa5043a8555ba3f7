-------------------------- MODULE MCSchedulerLease --------------------------
EXTENDS SchedulerLease
CONSTANTS w1, w2
MCWorkers == {w1, w2}
=============================================================================
