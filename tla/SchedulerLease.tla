--------------------------- MODULE SchedulerLease ---------------------------
(***************************************************************************)
(* Who schedules: scheduled_jobs (workers/main.py) over the Redis lease of *)
(* workers/leadership.py.  Every worker process runs it; the one whose     *)
(* token is in the key enqueues the periodic jobs until it fails to renew. *)
(* Time passes in the loop's 2 second sleeps.  Between them a process is   *)
(* prompt or stalled (paused, or Redis slow to answer): a stalled one acts *)
(* later on what its last reply said.                                      *)
(***************************************************************************)
EXTENDS Naturals

CONSTANTS Workers,
          TTL,       \* the lease, in sleeps
          Every,     \* rounds from one reconcile job to the next
          MaxStalls, \* bound on the sleeps' worth of stalling
          MaxFaults, \* bound on process deaths and losses of the key
          NoOne

ASSUME LeaseAssumption ==
  /\ TTL \in Nat /\ TTL >= 2 /\ Every \in Nat \ {0}
  /\ MaxStalls \in Nat /\ MaxFaults \in Nat /\ NoOne \notin Workers \X Nat

VARIABLES key, ttl, \* Redis: the token in the key, and for how long
          wk,       \* the processes
          asked,    \* flips whenever a reconcile job is enqueued
          stalls, faults,
          lost      \* how often Redis forgot a key before its time
vars == <<key, ttl, wk, asked, stalls, faults, lost>>

Started(life) == [pc |-> "acquire", life |-> life, held |-> FALSE, elapsed |-> 0,
                  after |-> 0] \* jobs enqueued since its token left the key

Init ==
  /\ key = NoOne /\ ttl = 0
  /\ wk = [w \in Workers |-> Started(0)]
  /\ asked = FALSE /\ stalls = 0 /\ faults = 0 /\ lost = 0

At(w, pc) == wk[w].pc = pc
Token(w) == <<w, wk[w].life>> \* uuid4() per process
Owns(w) == key = Token(w)
Believes(w) == ~At(w, "down") /\ wk[w].held

-----------------------------------------------------------------------------
(* SET NX EX.                                                              *)
Acquire(w) ==
  /\ At(w, "acquire")
  /\ \/ /\ key = NoOne
        /\ key' = Token(w) /\ ttl' = TTL
        /\ wk' = [wk EXCEPT ![w].held = TRUE, ![w].pc = "startup",
                            ![w].elapsed = Every, ![w].after = 0]
     \/ /\ key # NoOne
        /\ wk' = [wk EXCEPT ![w].held = FALSE, ![w].pc = "backoff"]
        /\ UNCHANGED <<key, ttl>>
  /\ UNCHANGED <<asked, stalls, faults, lost>>

(* enqueue("reconcile", leader_startup_recovery), then the first sleep.    *)
Enqueued(w) == IF Owns(w) THEN wk[w].after ELSE wk[w].after + 1
Startup(w) ==
  /\ At(w, "startup")
  /\ asked' = ~asked
  /\ wk' = [wk EXCEPT ![w].pc = "sleep", ![w].after = Enqueued(w)]
  /\ UNCHANGED <<key, ttl, stalls, faults, lost>>

(* RENEW_SCRIPT; a refusal ends the stint, and its release() is a no-op.   *)
RenewUnextended(w) ==
  /\ At(w, "renew")
  /\ wk' = [wk EXCEPT ![w].held = Owns(w), ![w].pc = IF Owns(w) THEN "round" ELSE "acquire"]
  /\ UNCHANGED <<key, ttl, asked, stalls, faults, lost>>
RenewAnyones(w) ==
  /\ At(w, "renew")
  /\ ttl' = IF key # NoOne THEN TTL ELSE ttl
  /\ wk' = [wk EXCEPT ![w].held = key # NoOne,
                      ![w].pc = IF key # NoOne THEN "round" ELSE "acquire"]
  /\ UNCHANGED <<key, asked, stalls, faults, lost>>
Renew(w) ==
  /\ At(w, "renew")
  /\ ttl' = IF Owns(w) THEN TTL ELSE ttl
  /\ wk' = [wk EXCEPT ![w].held = Owns(w), ![w].pc = IF Owns(w) THEN "round" ELSE "acquire"]
  /\ UNCHANGED <<key, asked, stalls, faults, lost>>

(* The rest of a round: a reconcile job when its time has come (notify and *)
(* aggregate jobs go the same way), then the next sleep.                   *)
RoundForgetful(w) ==
  /\ At(w, "round")
  /\ wk' = [wk EXCEPT ![w].pc = "sleep", ![w].elapsed = 0, ![w].after = Enqueued(w)]
  /\ UNCHANGED <<key, ttl, asked, stalls, faults, lost>>
Round(w) ==
  /\ At(w, "round")
  /\ LET due == wk[w].elapsed + 1 >= Every IN
       /\ asked' = IF due THEN ~asked ELSE asked
       /\ wk' = [wk EXCEPT ![w].pc = "sleep", ![w].elapsed = IF due THEN 0 ELSE @ + 1,
                           ![w].after = Enqueued(w)]
  /\ UNCHANGED <<key, ttl, stalls, faults, lost>>

(* A Redis call raises: the finally releases the lease, if it is held, by  *)
(* RELEASE_SCRIPT; the task group and with it the process end.             *)
Down(w) == [Started(wk[w].life) EXCEPT !.pc = "down"]
AbortAnyones(w) ==
  /\ Believes(w) /\ faults < MaxFaults
  /\ key' = NoOne /\ ttl' = 0
  /\ wk' = [wk EXCEPT ![w] = Down(w)]
  /\ faults' = faults + 1
  /\ UNCHANGED <<asked, stalls, lost>>
Abort(w) ==
  /\ Believes(w) /\ faults < MaxFaults
  /\ key' = (IF Owns(w) THEN NoOne ELSE key) /\ ttl' = (IF Owns(w) THEN 0 ELSE ttl)
  /\ wk' = [wk EXCEPT ![w] = Down(w)]
  /\ faults' = faults + 1
  /\ UNCHANGED <<asked, stalls, lost>>
(* The process is killed.                                                  *)
Crash(w) ==
  /\ ~At(w, "down") /\ faults < MaxFaults
  /\ wk' = [wk EXCEPT ![w] = Down(w)]
  /\ faults' = faults + 1
  /\ UNCHANGED <<key, ttl, asked, stalls, lost>>
(* The service manager starts a new process, with a token of its own.      *)
Restart(w) ==
  /\ At(w, "down")
  /\ wk' = [wk EXCEPT ![w] = Started(wk[w].life + 1)]
  /\ UNCHANGED <<key, ttl, asked, stalls, faults, lost>>

(* Redis restarts without its keys.                                        *)
LoseKey ==
  /\ key # NoOne /\ faults < MaxFaults
  /\ key' = NoOne /\ ttl' = 0
  /\ faults' = faults + 1 /\ lost' = lost + 1
  /\ UNCHANGED <<wk, asked, stalls>>

(* Two seconds pass: sleepers wake, the key ages and expires.  Whoever was *)
(* not asleep has stalled that long.                                       *)
Asleep == {w \in Workers : wk[w].pc \in {"sleep", "backoff", "down"}}
Tick ==
  /\ \/ Workers = Asleep /\ UNCHANGED stalls
     \/ Workers # Asleep /\ stalls < MaxStalls /\ stalls' = stalls + 1
  /\ wk' = [w \in Workers |->
              [wk[w] EXCEPT !.pc = CASE @ = "sleep" -> "renew"
                                     [] @ = "backoff" -> "acquire"
                                     [] OTHER -> @]]
  /\ key' = (IF ttl <= 1 THEN NoOne ELSE key) /\ ttl' = (IF ttl = 0 THEN 0 ELSE ttl - 1)
  /\ UNCHANGED <<asked, faults, lost>>

Step(w) == Acquire(w) \/ Startup(w) \/ Renew(w) \/ Round(w) \/ Restart(w)
Next == Tick \/ LoseKey \/ \E w \in Workers : Step(w) \/ Abort(w) \/ Crash(w)

Spec == Init /\ [][Next]_vars
(* Time passes, a live process runs and a dead one is restarted.           *)
FairSpec == Spec /\ WF_vars(Tick) /\ \A w \in Workers : WF_vars(Step(w))

-----------------------------------------------------------------------------
TypeOK ==
  /\ key \in (Workers \X (0..MaxFaults)) \union {NoOne} /\ ttl \in 0..TTL
  /\ ttl = 0 <=> key = NoOne
  /\ \A w \in Workers :
       /\ wk[w].pc \in {"acquire", "startup", "backoff", "sleep", "renew", "round", "down"}
       /\ wk[w].life \in 0..MaxFaults /\ wk[w].elapsed \in 0..Every /\ wk[w].after \in Nat
       /\ wk[w].pc \in {"startup", "sleep", "renew", "round"} <=> wk[w].held
  /\ asked \in BOOLEAN /\ stalls \in 0..MaxStalls /\ faults \in 0..MaxFaults
  /\ lost \in 0..faults

(* As long as processes are prompt and Redis keeps its keys, whoever       *)
(* believes to be the scheduler is: there is only one, through crashes,    *)
(* restarts and hand-overs.                                                *)
SoleScheduler == stalls = 0 /\ lost = 0 => \A w \in Workers : Believes(w) => Owns(w)

(* A scheduler that lost the lease notices before it does more than finish *)
(* the round it was in.                                                    *)
DeposedStops == \A w \in Workers : wk[w].after <= 1

(* A lease that has not expired is taken from its owner only by itself or  *)
(* by the loss of the key: nobody releases or overwrites another's.        *)
LeaseRespected ==
  [][\A w \in Workers :
       Owns(w) /\ ttl > 1 /\ key' # key => wk'[w] # wk[w] \/ lost' # lost]_vars

(* Reconciliation is asked for again and again, whoever dies.              *)
ReconcileForever == []<><<asked' # asked>>_vars
=============================================================================
