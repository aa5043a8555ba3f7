----------------------------- MODULE MCJobQueue -----------------------------
(* Two workers; a poison entry, one of an unknown kind, and a good one last.*)
EXTENDS JobQueue
CONSTANTS w1, w2
MCWorkers == {w1, w2}
MCUnknown == {2}
MCPoison == {1}
=============================================================================
