---------------------------- MODULE AtLeastOnce ----------------------------
(***************************************************************************)
(* What workers/queue.py promises its callers, with no stream, no group    *)
(* and no consumer in sight: a job that was accepted may be performed any  *)
(* number of times, and the queue forgets it only after a handler has      *)
(* completed for it.  A kind nobody handles is forgotten unperformed.      *)
(* JobQueue implements this specification.                                 *)
(***************************************************************************)
EXTENDS Naturals

CONSTANTS Jobs,     \* the jobs that may be submitted
          Unknown   \* those of a kind with no handler

VARIABLES accepted, \* the jobs submitted so far
          runs,     \* runs[j]: how often a handler completed for j
          retired   \* the jobs the queue has forgotten

vars == <<accepted, runs, retired>>

Init == accepted = {} /\ runs = [j \in Jobs |-> 0] /\ retired = {}

Accept(j) ==
  /\ j \notin accepted
  /\ accepted' = accepted \union {j}
  /\ UNCHANGED <<runs, retired>>

Perform(j) ==
  /\ j \in accepted
  /\ runs' = [runs EXCEPT ![j] = @ + 1]
  /\ UNCHANGED <<accepted, retired>>

Retire(j) ==
  /\ j \in accepted
  /\ runs[j] > 0 \/ j \in Unknown
  /\ retired' = retired \union {j}
  /\ UNCHANGED <<accepted, runs>>

Next == \E j \in Jobs : Accept(j) \/ Perform(j) \/ Retire(j)

Spec == Init /\ [][Next]_vars
============================================================================
