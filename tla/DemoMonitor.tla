----------------------------- MODULE DemoMonitor -----------------------------
(***************************************************************************)
(* The life of one MT5 DEMO position after its entry: the reconcile job    *)
(* (monitoring/service.py) closes it target by target through the manager  *)
(* (positions/manager.py) and the adapter (brokers/mt5.py), while the      *)
(* broker may close it on its own at any time (stop, final target, human). *)
(* A run holds the row's lock (FOR UPDATE SKIP LOCKED) and works on a copy *)
(* that it commits at the end: what it did at the broker before a crash or *)
(* a rollback stays done.  Written for a BUY; a SELL mirrors every price.  *)
(* The broker may fill only a part of a close, and its answer              *)
(* (DONE_PARTIAL) is then taken for that of a whole one.                   *)
(***************************************************************************)
EXTENDS Integers, FiniteSetsExt

CONSTANTS
  Targets,      \* 1..n, the virtual take-profits
  Alloc,        \* Alloc[i]: volume of target i (0: merged into a later one)
  Target,       \* Target[i]: its price
  Entry, Stop,  \* entry price and initial stop
  Prices,       \* the exit prices the market visits
  Monitors,     \* worker processes that may run a reconcile job
  MaxFaults,    \* bound on crashes and rollbacks
  BlindQueries, \* positions_get may fail and read as no position
  Free          \* the lock when nobody holds it

ASSUME MonitorAssumption ==
  /\ Targets \subseteq Nat \ {0} /\ Alloc \in [Targets -> Nat] /\ Target \in [Targets -> Int]
  /\ Entry \in Int /\ Stop \in Int /\ Prices \subseteq Int
  /\ MaxFaults \in Nat /\ BlindQueries \in BOOLEAN /\ Free \notin Monitors

CONSTANT Volume \* the volume that was opened
ASSUME VolumeAssumption == Volume \in Nat \ {0}
(* The plan hands out no more than was opened (TpAllocation, PlanWhole).   *)
ASSUME PlanAssumption ==
  IsFiniteSet(Targets) /\ MapThenSumSet(LAMBDA i : Alloc[i], Targets) <= Volume

VARIABLES row,    \* positions and position_targets: the committed state
          lock,   \* who has the row FOR UPDATE
          bvol, bstop, \* the broker: open volume (0: flat) and stop
          price,  \* the market's exit price
          fills,  \* fills[i]: closes the broker filled whole for target i
          run,    \* the reconcile runs
          faults

broker == <<bvol, bstop, fills>>
vars == <<row, lock, broker, price, run, faults>>

Opened == [status |-> "OPEN", remaining |-> Volume, stop |-> Stop,
           target |-> [i \in Targets |-> IF Alloc[i] = 0 THEN "MERGED" ELSE "WAITING"],
           logged |-> 0,   \* volume that TPn position events account for
           unfilled |-> 0] \* history: what accepted closes did not fill

NotRunning == [pc |-> "idle", m |-> Opened, px |-> Stop, orig |-> 0, to |-> Stop]

Init ==
  /\ row = Opened /\ lock = Free
  /\ bvol = Volume /\ bstop = Stop
  /\ price = Entry
  /\ fills = [i \in Targets |-> 0]
  /\ run = [r \in Monitors |-> NotRunning]
  /\ faults = 0

At(r, pc) == run[r].pc = pc
Become(r, x) == run' = [run EXCEPT ![r] = x]
Goto(r, pc) == Become(r, [run[r] EXCEPT !.pc = pc])
(* The run's copy becomes m, and it goes on at pc.                         *)
Copy(r, m, pc) == Become(r, [run[r] EXCEPT !.m = m, !.pc = pc])
Stopped(r) == Become(r, NotRunning) /\ lock' = Free

-----------------------------------------------------------------------------
(* SELECT ... FOR UPDATE SKIP LOCKED: a run that finds the row taken, or   *)
(* closed, has nothing to do.                                              *)
StartUnlocked(r) ==
  /\ At(r, "idle") /\ row.status = "OPEN"
  /\ lock' = r
  /\ Become(r, [NotRunning EXCEPT !.pc = "query", !.m = row])
  /\ UNCHANGED <<row, broker, price, faults>>
Start(r) ==
  /\ At(r, "idle") /\ row.status = "OPEN" /\ lock = Free
  /\ lock' = r
  /\ Become(r, [NotRunning EXCEPT !.pc = "query", !.m = row])
  /\ UNCHANGED <<row, broker, price, faults>>

(* get_open_positions, then health_check.                                  *)
SeesPosition(r) ==
  /\ At(r, "query") /\ bvol > 0
  /\ Goto(r, "price")
  /\ UNCHANGED <<row, lock, broker, price, faults>>

(* _reconcile_broker_closed.  An exit at the final target completes every  *)
(* target that was not filled or given up.                                 *)
SeesFlatAlways(r) ==
  /\ At(r, "query")
  /\ Copy(r, [run[r].m EXCEPT !.status = "CLOSED", !.remaining = 0], "commit")
  /\ UNCHANGED <<row, lock, broker, price, faults>>
SeesFlatNotRecorded(r) ==
  /\ At(r, "query") /\ bvol = 0
  /\ Goto(r, "price")
  /\ UNCHANGED <<row, lock, broker, price, faults>>
Closed(m, done) ==
  [m EXCEPT !.status = "CLOSED", !.remaining = 0,
            !.target = [i \in Targets |-> IF m.target[i] \in done THEN "EXECUTED" ELSE m.target[i]]]
SeesFlat(r) ==
  /\ At(r, "query") /\ (bvol = 0 \/ BlindQueries)
  /\ \E done \in {{}, {"WAITING", "MERGED"}} : Copy(r, Closed(run[r].m, done), "commit")
  /\ UNCHANGED <<row, lock, broker, price, faults>>

(* Its early returns: no fill, quote, target or stop tells the exit price, *)
(* or the connection went down since the query.  The row stays OPEN and    *)
(* the run goes on to monitor it.                                          *)
ClosureUnresolved(r) ==
  /\ At(r, "query") /\ (bvol = 0 \/ BlindQueries)
  /\ Goto(r, "price")
  /\ UNCHANGED <<row, lock, broker, price, faults>>

(* Not connected, unhealthy after the query, equity or price unavailable:  *)
(* positions are left as they are and the (empty) transaction commits.     *)
Unhealthy(r) ==
  /\ run[r].pc \in {"query", "price"}
  /\ Stopped(r)
  /\ UNCHANGED <<row, broker, price, faults>>

(* monitor() reads the exit price once for all targets.                    *)
ReadPrice(r) ==
  /\ At(r, "price")
  /\ Become(r, [run[r] EXCEPT !.px = price, !.pc = "monitor"])
  /\ UNCHANGED <<row, lock, broker, price, faults>>

DuePast(r) == {i \in Targets : run[r].m.target[i] = "WAITING" /\ run[r].px > Target[i]}
Due(r) == {i \in Targets : run[r].m.target[i] = "WAITING" /\ run[r].px >= Target[i]}
IsNext(r, i) == i \in Due(r) /\ \A k \in Due(r) : i <= k
Vol(r, i) == IF Alloc[i] < run[r].m.remaining THEN Alloc[i] ELSE run[r].m.remaining
All(r, i) == Vol(r, i) = run[r].m.remaining
(* close_position sends what the broker has open, partial_close the volume.*)
Quantity(r, i, open) == IF All(r, i) THEN open ELSE Vol(r, i)
Sendable(r, i) == bvol > 0 /\ (All(r, i) \/ Vol(r, i) < bvol)

Monitored(r) ==
  /\ At(r, "monitor") /\ Due(r) = {}
  /\ Goto(r, "commit")
  /\ UNCHANGED <<row, lock, broker, price, faults>>

(* A refused target is given up for good, and the loop ends.               *)
Failed(r, i) == Copy(r, [run[r].m EXCEPT !.target[i] = "FAILED"], "commit")

(* protect_after_target: entry after the first, the first after the second.*)
Desired(i) == IF i = 1 THEN Entry ELSE Target[1]
Protects(r, i) == i \in {1, 2} /\ 1 \in Targets /\ Desired(i) > run[r].m.stop
Protection(r, i) == IF Protects(r, i) THEN Desired(i) ELSE run[r].to
Onward(r, i, left) ==
  IF left = 0 THEN "commit" ELSE IF Protects(r, i) THEN "protect" ELSE "monitor"
AcceptedUnlogged(r, i, short) ==
  LET m == run[r].m
      left == m.remaining - Vol(r, i)
  IN Become(r, [run[r] EXCEPT !.to = Protection(r, i), !.pc = Onward(r, i, left),
                              !.m = [m EXCEPT !.remaining = left, !.unfilled = @ + short,
                                              !.target[i] = "EXECUTED"]])
Taken(m, i, vol, short) ==
  [m EXCEPT !.remaining = @ - vol, !.logged = @ + vol, !.unfilled = @ + short,
            !.target[i] = "EXECUTED", !.status = IF m.remaining = vol THEN "CLOSED" ELSE @]
(* An accepted close counts as whole, whatever short of it was not filled. *)
Accepted(r, i, short) ==
  Become(r, [run[r] EXCEPT !.to = Protection(r, i), !.pc = Onward(r, i, run[r].m.remaining - Vol(r, i)),
                           !.m = Taken(run[r].m, i, Vol(r, i), short)])
(* The broker fills p of the q that target i asks for.                     *)
Fills(i, p, q) ==
  bvol' = bvol - p /\ fills' = IF p = q THEN [fills EXCEPT ![i] = @ + 1] ELSE fills

CloseFilled(r) ==
  /\ At(r, "monitor")
  /\ \E i \in Targets :
       LET q == Quantity(r, i, bvol) IN
       /\ IsNext(r, i) /\ Sendable(r, i)
       /\ \E p \in 1..q : Fills(i, p, q) /\ Accepted(r, i, q - p)
  /\ UNCHANGED <<row, lock, bstop, price, faults>>
CloseRefused(r) ==
  /\ At(r, "monitor")
  /\ \E i \in Targets : IsNext(r, i) /\ Failed(r, i)
  /\ UNCHANGED <<row, lock, broker, price, faults>>

(* The reply is lost, the deal done or not; reconnect and compare volumes. *)
CloseLost(r) ==
  /\ At(r, "monitor")
  /\ \E i \in Targets :
       LET q == Quantity(r, i, bvol) IN
       /\ IsNext(r, i) /\ Sendable(r, i)
       /\ (\E p \in 1..q : Fills(i, p, q)) \/ UNCHANGED <<bvol, fills>>
       /\ Become(r, [run[r] EXCEPT !.orig = bvol, !.pc = "recheck"])
  /\ UNCHANGED <<row, lock, bstop, price, faults>>
RecheckDone(r) ==
  /\ At(r, "recheck")
  /\ \E i \in Targets :
       /\ IsNext(r, i)
       /\ bvol <= run[r].orig - Quantity(r, i, run[r].orig) \/ BlindQueries
       /\ Accepted(r, i, 0)
  /\ UNCHANGED <<row, lock, broker, price, faults>>
RecheckResend(r) ==
  /\ At(r, "recheck")
  /\ \E i \in Targets :
       LET q == Quantity(r, i, run[r].orig) IN
       /\ IsNext(r, i) /\ bvol > run[r].orig - q /\ q <= bvol
       /\ \E p \in 1..q :
            /\ Fills(i, p, q)
            /\ Accepted(r, i, q - p) \/ Failed(r, i) \* its reply may be lost as well
  /\ UNCHANGED <<row, lock, bstop, price, faults>>
RecheckRefused(r) ==
  /\ At(r, "recheck")
  /\ \E i \in Targets : IsNext(r, i) /\ Failed(r, i)
  /\ UNCHANGED <<row, lock, broker, price, faults>>

(* move_stop.  Whatever comes of it, the loop goes on.                     *)
StopMoved(r) ==
  /\ At(r, "protect") /\ bvol > 0
  /\ bstop' = run[r].to
  /\ Copy(r, [run[r].m EXCEPT !.stop = run[r].to], "monitor")
  /\ UNCHANGED <<row, lock, bvol, fills, price, faults>>
StopReplyLost(r) ==
  /\ At(r, "protect") /\ bvol > 0
  /\ bstop' = run[r].to
  /\ Goto(r, "monitor")
  /\ UNCHANGED <<row, lock, bvol, fills, price, faults>>
StopRefusedRecorded(r) ==
  /\ At(r, "protect")
  /\ Copy(r, [run[r].m EXCEPT !.stop = run[r].to], "monitor")
  /\ UNCHANGED <<row, lock, broker, price, faults>>
StopRefused(r) ==
  /\ At(r, "protect")
  /\ Goto(r, "monitor")
  /\ UNCHANGED <<row, lock, broker, price, faults>>

Commit(r) ==
  /\ At(r, "commit")
  /\ row' = run[r].m
  /\ Stopped(r)
  /\ UNCHANGED <<broker, price, faults>>

(* A crash, a failed statement, a deadlock on the daily statistics row.    *)
Rollback(r) ==
  /\ ~At(r, "idle") /\ faults < MaxFaults
  /\ faults' = faults + 1
  /\ Stopped(r)
  /\ UNCHANGED <<row, broker, price>>

BrokerCloses ==
  /\ bvol > 0
  /\ bvol' = 0
  /\ UNCHANGED <<row, lock, bstop, fills, price, run, faults>>
PriceMoves ==
  /\ price' \in Prices \ {price}
  /\ UNCHANGED <<row, lock, broker, run, faults>>

Query(r) == SeesPosition(r) \/ SeesFlat(r)
Work(r) ==
  \/ Start(r) \/ Monitored(r) \/ CloseFilled(r) \/ CloseRefused(r) \/ CloseLost(r)
  \/ RecheckDone(r) \/ RecheckResend(r) \/ RecheckRefused(r)
  \/ StopMoved(r) \/ StopReplyLost(r) \/ StopRefused(r) \/ Commit(r)

Next ==
  \/ \E r \in Monitors :
          Work(r) \/ Query(r) \/ ReadPrice(r)
          \/ ClosureUnresolved(r) \/ Unhealthy(r) \/ Rollback(r)
  \/ BrokerCloses \/ PriceMoves

Spec == Init /\ [][Next]_vars
(* The scheduler keeps enqueueing reconcile jobs, a run that has begun goes*)
(* on, and the broker's connection is not down at every single query.      *)
FairSpec ==
  /\ Spec
  /\ \A r \in Monitors : WF_vars(Work(r)) /\ SF_vars(Query(r)) /\ SF_vars(ReadPrice(r))

-----------------------------------------------------------------------------
Record == [status : {"OPEN", "CLOSED"}, remaining : 0..Volume, stop : Int,
           target : [Targets -> {"WAITING", "EXECUTED", "FAILED", "MERGED"}],
           logged : Nat, unfilled : Nat]
RunRecord ==
  [pc : {"idle", "query", "price", "monitor", "recheck", "protect", "commit"},
   m : Record, px : Int, orig : 0..Volume, to : Int]

TypeOK ==
  /\ row \in Record
  /\ lock \in Monitors \union {Free}
  /\ bvol \in 0..Volume /\ bstop \in Int /\ fills \in [Targets -> Nat]
  /\ price \in Prices \union {Entry}
  /\ run \in [Monitors -> RunRecord]
  /\ faults \in 0..MaxFaults
  /\ \A r \in Monitors : ~At(r, "idle") => lock = r

(* The database never believes that less is open than the broker holds,    *)
(* but for what closes that were answered DONE_PARTIAL left unfilled: a    *)
(* lost reply, a resent close, a closure at the broker or a rollback never *)
(* leaves volume open that no run looks after.                             *)
NeverUnderTracked == bvol <= row.remaining + row.unfilled

(* No target is sold whole more often than once, and once more per rolled  *)
(* back run: a close that may have been filled is not sent again.  One     *)
(* filled in part before its reply was lost is, on top of that part.       *)
FillsBounded == \A i \in Targets : fills[i] <= 1 + faults

(* While a position is open, its events and its unfilled targets both      *)
(* account for the volume its row still has.                               *)
OpenRowExplained ==
  row.status = "OPEN" =>
    /\ row.remaining + row.logged = Volume
    /\ \A i \in Targets : row.target[i] \in {"WAITING", "FAILED"} => Alloc[i] <= row.remaining

(* The stop the database shows is one the position really has at the       *)
(* broker, or a better one: through refused and lost stop moves, runs that *)
(* were rolled back after them, and targets in any order of prices.        *)
StopReallyThere == bstop >= row.stop

(* A closure at the broker is recorded in the end.                         *)
ClosureRecorded == (bvol = 0) ~> (row.status = "CLOSED")

(* A target the market stays beyond is dealt with in the end.              *)
TargetServed ==
  \A i \in Targets :
    <>[](price >= Target[i]) => <>(row.status = "CLOSED" \/ row.target[i] # "WAITING")

(* What its readers rely on: whoever commits the row, its volume only goes *)
(* down, its stop only gets tighter, and CLOSED means empty, for good.     *)
Life == INSTANCE PositionLife WITH status <- row.status, remaining <- row.remaining,
                                   stop <- row.stop
ImplementsLife == Life!Spec
=============================================================================
