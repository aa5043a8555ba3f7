------------------------------ MODULE JobQueue ------------------------------
(***************************************************************************)
(* workers/queue.py: the Redis Stream work queue.  Entries are numbered in *)
(* XADD order.  XREADGROUP hands an entry out once and puts it on the      *)
(* group's pending list; XACK takes it off; XAUTOCLAIM gives entries that  *)
(* have been pending for claim_idle_ms to whoever asks, their present      *)
(* holder included.  A worker keeps what a reply gave it in a local list   *)
(* and handles it entry by entry, so an entry may be claimed, run and      *)
(* acknowledged elsewhere while it still waits in, or runs from, an older  *)
(* list.  Redis itself (streams, groups, durability) is external.          *)
(***************************************************************************)
EXTENDS Naturals, FiniteSets

CONSTANTS Last,       \* entries are 1..Last (bound on XADD)
          Workers,    \* consumer processes
          Batch,      \* XAUTOCLAIM's count
          Unknown,    \* entries whose kind has no handler
          Poison,     \* entries whose handling always raises
          MaxCrashes  \* bound on process deaths

Jobs == 1..Last

ASSUME QueueAssumption ==
  /\ Last \in Nat /\ Batch \in Nat \ {0} /\ MaxCrashes \in Nat
  /\ Unknown \subseteq Jobs /\ Poison \subseteq Jobs /\ Unknown \cap Poison = {}
  /\ IsFiniteSet(Workers)

VARIABLES last,       \* the newest entry of the stream
          delivered,  \* the group's last-delivered id
          pending,    \* the group's pending entries list
          idle,       \* those pending for at least claim_idle_ms
          pc, cur,    \* per worker: where its loop is, the entry in hand
          batch,      \* per worker: the rest of the list being iterated
          runs,       \* runs[j]: how often j's handler completed
          crashes

vars == <<last, delivered, pending, idle, pc, cur, batch, runs, crashes>>
stream == <<last, delivered, pending, idle>>

Init ==
  /\ last = 0 /\ delivered = 0 /\ pending = {} /\ idle = {}
  /\ pc = [w \in Workers |-> "poll"]
  /\ cur = [w \in Workers |-> 0]
  /\ batch = [w \in Workers |-> {}]
  /\ runs = [j \in Jobs |-> 0]
  /\ crashes = 0

(* The pending list is scanned from 0-0: the oldest idle entries, at most  *)
(* Batch of them.                                                          *)
ClaimNothing == {{}}
ClaimReply ==
  {S \in SUBSET idle :
     /\ Cardinality(S) <= Batch
     /\ S # idle => Cardinality(S) = Batch
     /\ \A x \in S, y \in idle \ S : x < y}

Enqueue ==
  /\ last < Last
  /\ last' = last + 1
  /\ UNCHANGED <<delivered, pending, idle, pc, cur, batch, runs, crashes>>

BecomesIdle(j) ==
  /\ j \in pending \ idle
  /\ idle' = idle \union {j}
  /\ UNCHANGED <<last, delivered, pending, pc, cur, batch, runs, crashes>>

(* claimed = await self._claim_stale(): claiming resets the idle time.     *)
Claim(w) ==
  /\ pc[w] = "poll"
  /\ \E S \in ClaimReply :
       /\ batch' = [batch EXCEPT ![w] = S]
       /\ idle' = idle \ S
       /\ pc' = [pc EXCEPT ![w] = IF S = {} THEN "read" ELSE "next"]
  /\ UNCHANGED <<last, delivered, pending, cur, runs, crashes>>

(* ... or await xreadgroup(">", count=1): only when nothing was claimed.   *)
Read(w) ==
  /\ pc[w] = "read" /\ delivered < last
  /\ delivered' = delivered + 1
  /\ pending' = pending \union {delivered + 1}
  /\ batch' = [batch EXCEPT ![w] = {delivered + 1}]
  /\ pc' = [pc EXCEPT ![w] = "next"]
  /\ UNCHANGED <<last, idle, cur, runs, crashes>>

ReadTimeout(w) ==
  /\ pc[w] = "read" /\ delivered = last
  /\ pc' = [pc EXCEPT ![w] = "poll"]
  /\ UNCHANGED <<stream, cur, batch, runs, crashes>>

(* The for loops: the next entry of the local list, with no look at what   *)
(* became of it since the reply.  An unknown kind is logged and falls      *)
(* through to the acknowledgement.                                         *)
Start(w) ==
  /\ pc[w] = "next"
  /\ \E j \in batch[w] :
       /\ \A i \in batch[w] : j <= i
       /\ cur' = [cur EXCEPT ![w] = j]
       /\ batch' = [batch EXCEPT ![w] = @ \ {j}]
       /\ pc' = [pc EXCEPT ![w] = IF j \in Unknown THEN "ack" ELSE "run"]
  /\ UNCHANGED <<stream, runs, crashes>>

Proceed(w) == pc' = [pc EXCEPT ![w] = IF batch[w] = {} THEN "poll" ELSE "next"]

Finish(w) ==
  /\ pc[w] = "run" /\ cur[w] \notin Poison
  /\ runs' = [runs EXCEPT ![cur[w]] = @ + 1]
  /\ pc' = [pc EXCEPT ![w] = "ack"]
  /\ UNCHANGED <<stream, cur, batch, crashes>>

(* except Exception: log and return, leaving the entry pending.            *)
FailAcknowledged(w) ==
  /\ pc[w] = "run"
  /\ pending' = pending \ {cur[w]}
  /\ idle' = idle \ {cur[w]}
  /\ Proceed(w)
  /\ UNCHANGED <<last, delivered, cur, batch, runs, crashes>>
Fail(w) ==
  /\ pc[w] = "run"
  /\ Proceed(w)
  /\ UNCHANGED <<stream, cur, batch, runs, crashes>>

(* xack and xdel.  Whoever holds the entry by now, it leaves the list.     *)
AckLost(w) ==
  /\ pc[w] = "ack"
  /\ Proceed(w)
  /\ UNCHANGED <<stream, cur, batch, runs, crashes>>
Ack(w) ==
  /\ pc[w] = "ack"
  /\ pending' = pending \ {cur[w]}
  /\ idle' = idle \ {cur[w]}
  /\ Proceed(w)
  /\ UNCHANGED <<last, delivered, cur, batch, runs, crashes>>

(* Process death, or an exception outside _process's try (Redis down).     *)
Crash(w) ==
  /\ pc[w] # "down" /\ crashes < MaxCrashes
  /\ crashes' = crashes + 1
  /\ pc' = [pc EXCEPT ![w] = "down"]
  /\ batch' = [batch EXCEPT ![w] = {}]
  /\ UNCHANGED <<stream, cur, runs>>

Restart(w) ==
  /\ pc[w] = "down"
  /\ pc' = [pc EXCEPT ![w] = "poll"]
  /\ UNCHANGED <<stream, cur, batch, runs, crashes>>

Step(w) ==
  Claim(w) \/ Read(w) \/ ReadTimeout(w) \/ Start(w)
  \/ Finish(w) \/ Fail(w) \/ Ack(w) \/ Crash(w) \/ Restart(w)

Next == Enqueue \/ (\E j \in Jobs : BecomesIdle(j)) \/ (\E w \in Workers : Step(w))

Spec == Init /\ [][Next]_vars

(* The event loop keeps running a live worker, time passes, the service    *)
(* manager restarts a dead one, and a handler that is retried for ever     *)
(* completes in the end unless it is poison.                               *)
Fairness ==
  /\ \A j \in Jobs : WF_vars(BecomesIdle(j))
  /\ \A w \in Workers :
       /\ WF_vars(Claim(w)) /\ WF_vars(Read(w)) /\ WF_vars(ReadTimeout(w))
       /\ WF_vars(Start(w)) /\ WF_vars(Fail(w)) /\ WF_vars(Ack(w)) /\ WF_vars(Restart(w))
       /\ \A j \in Jobs : SF_vars(Finish(w) /\ cur[w] = j)

FairSpec == Spec /\ Fairness

-----------------------------------------------------------------------------
Retired == {j \in Jobs : j <= delivered /\ j \notin pending}

TypeOK ==
  /\ last \in 0..Last /\ delivered \in 0..last
  /\ pending \subseteq 1..delivered /\ idle \subseteq pending
  /\ pc \in [Workers -> {"poll", "read", "next", "run", "ack", "down"}]
  /\ cur \in [Workers -> 0..Last]
  /\ batch \in [Workers -> SUBSET (1..delivered)]
  /\ runs \in [Jobs -> Nat]
  /\ crashes \in 0..MaxCrashes

(* A job leaves the pending list only after a handler completed for it, on *)
(* whichever worker, crash and re-claim notwithstanding; only a kind with  *)
(* no handler is dropped.  (queue.py:65-72)                                *)
NoJobLost == \A j \in Retired : runs[j] > 0 \/ j \in Unknown

(* Redelivery multiplies a job's side effects, but not without bound: at   *)
(* most one completed handler per worker, and one more per process death.  *)
CopiesBounded == \A j \in Jobs : runs[j] <= Cardinality(Workers) + crashes

(* The queue implements the abstract promise.                              *)
Promise == INSTANCE AtLeastOnce WITH accepted <- 1..last, retired <- Retired
ImplementsAtLeastOnce == Promise!Spec

(* Every job that is not poison is handled and leaves the queue, even      *)
(* behind a poison job, provided workers keep finding moments in which no  *)
(* entry is stale: entries that are stale at every poll starve new ones.   *)
QuietPolls == []<>(\E w \in Workers : pc[w] = "read")
EveryJobServed == QuietPolls => \A j \in Jobs \ Poison : (j <= last) ~> (j \in Retired)
=============================================================================
