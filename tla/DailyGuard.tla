----------------------------- MODULE DailyGuard -----------------------------
(***************************************************************************)
(* The risk state of one MT5 DEMO account over a trading day, shared by    *)
(* every worker: the row of daily statistics, the account's high-water     *)
(* equity, the open positions and the emergency stop.  A route job         *)
(* (workers/pipeline.py) reads it, persists a live snapshot under the      *)
(* row's lock, judges and orders; a reconcile job (monitoring/service.py)  *)
(* books what the broker closed and persists a snapshot as well.  Each job *)
(* is a transaction that reads at several moments, so what it judges by or *)
(* writes back may be older than what others committed meanwhile.          *)
(* The other gates (sizes, symbols, permissions) are one refusal; orders   *)
(* that a crash left without a row are the subject of SignalExecution.     *)
(***************************************************************************)
EXTENDS Integers, Sequences, FiniteSets, FiniteSetsExt

CONSTANTS
  Workers, Signals, None, Free, \* None: the job is a reconcile; Free: nobody's lock
  Final,         \* Final[s]: the profit the market takes the position of s to
  Start,         \* equity at the beginning of the day
  MaxLoss,       \* maximum_daily_loss_internal
  MaxStreak,     \* maximum_consecutive_losses
  MaxPositions,  \* the rule profile's maximum_positions
  Drawdown,      \* trailing drawdown less its safety buffer
  MaxFaults      \* bound on crashes and rollbacks

ASSUME DayAssumption ==
  /\ IsFiniteSet(Workers) /\ IsFiniteSet(Signals) /\ Final \in [Signals -> Int] /\ Start \in Int
  /\ MaxLoss \in Nat /\ MaxStreak \in Nat /\ MaxPositions \in Nat /\ Drawdown \in Nat
  /\ MaxFaults \in Nat /\ None \notin Signals /\ Free \notin Workers

VARIABLES pos, pl,  \* the broker: none, open or closed, and the profit so far
          book,     \* the committed rows: none, open or closed (with its profit)
          day,      \* account_daily_stats: realized, streak (consecutive_losses)
          filed,    \* whether the day has a row yet
  hw,       \* trading_accounts.high_water_equity
          lock,     \* who has the day's row FOR UPDATE
          todo,     \* signals to route
          enabled,  \* system_settings.global_safety
          run,      \* the jobs at work
          ledger,   \* history: the closures booked, in the order of their commits
          atStop, late, \* history: route jobs at work at the last stop, orders sent after it
          faults

broker == <<pos, pl>>
rows == <<book, day, filed, hw, todo, ledger>>
counts == <<atStop, late>>
vars == <<broker, rows, lock, enabled, run, counts, faults>>

In(stage, status) == {s \in Signals : stage[s] = status}
Profit(S) == MapThenSumSet(LAMBDA s : pl[s], S)
Equity == Start + Profit(Signals)
Booked == Profit(In(book, "closed"))
Best(a, b) == IF a > b THEN a ELSE b

Idle == [pc |-> "idle", s |-> None,
         hw |-> Start, eq |-> Start, float |-> 0, sum |-> 0, \* what the job has read
         known |-> {}, \* history: the trades that were booked when it began
         day |-> [realized |-> 0, streak |-> 0],   \* its copy of the day's row
         mine |-> {}, gone |-> {}, \* positions locked; of those, closed at the broker
         shut |-> {}, log |-> <<>>] \* trades it closed; of those, by a booking

Init ==
  /\ pos = [s \in Signals |-> "none"] /\ book = pos
  /\ pl = [s \in Signals |-> 0]
  /\ day = Idle.day /\ filed = FALSE /\ hw = Start /\ lock = Free
  /\ todo = Signals /\ enabled = TRUE
  /\ run = [w \in Workers |-> Idle]
  /\ ledger = <<>> /\ atStop = 0 /\ late = 0 /\ faults = 0

At(w, pc) == run[w].pc = pc
Routing(w) == run[w].s # None
Goto(w, x, pc) == run' = [run EXCEPT ![w] = [x EXCEPT !.pc = pc]]
Release(w) == run' = [run EXCEPT ![w] = Idle] /\ lock' = IF lock = w THEN Free ELSE lock
(* Taking the day's row FOR UPDATE: a second time it is there already.     *)
LockDay(w) == lock \in {Free, w} /\ lock' = w
DayOf(w) == IF lock = w THEN run[w].day ELSE day

-----------------------------------------------------------------------------
(* The account row and the safety flag are read once, at the beginning.    *)
Started == [Idle EXCEPT !.hw = hw, !.eq = hw, !.known = In(book, "closed")]
BeginAnyway(w) ==
  /\ At(w, "idle")
  /\ \E s \in todo :
       /\ \A v \in Workers : run[v].s # s
       /\ Goto(w, [Started EXCEPT !.s = s], "snapshot")
  /\ UNCHANGED <<broker, rows, lock, enabled, counts, faults>>
BeginRoute(w) ==
  /\ At(w, "idle") /\ enabled
  /\ \E s \in todo :
       /\ \A v \in Workers : run[v].s # s
       /\ Goto(w, [Started EXCEPT !.s = s], "snapshot")
  /\ UNCHANGED <<broker, rows, lock, enabled, counts, faults>>
Stopped(w) ==
  /\ At(w, "idle") /\ ~enabled
  /\ \E s \in todo :
       /\ \A v \in Workers : run[v].s # s
       /\ todo' = todo \ {s}
  /\ UNCHANGED <<broker, book, day, filed, hw, ledger, lock, enabled, run, counts, faults>>

(* FOR UPDATE SKIP LOCKED: the open rows no other reconcile job holds; then*)
(* the broker is asked what it still has.                                  *)
BeginReconcile(w) ==
  /\ At(w, "idle")
  /\ LET mine == {s \in In(book, "open") : \A v \in Workers : s \notin run[v].mine}
     IN  Goto(w, [Started EXCEPT !.mine = mine, !.gone = {s \in mine : pos[s] = "closed"}], "book")
  /\ UNCHANGED <<broker, rows, lock, enabled, counts, faults>>

(* _reconcile_broker_closed, position by position.  The day's row is there:*)
(* the position was committed with it.                                     *)
After(d, p) ==
  [realized |-> d.realized + p,
   streak |-> IF p > 0 THEN 0 ELSE IF p < 0 THEN d.streak + 1 ELSE d.streak]
Closing(w, s) ==
  [run[w] EXCEPT !.gone = @ \ {s}, !.shut = @ \union {s}, !.log = Append(@, pl[s])]
Book(w) ==
  /\ At(w, "book") /\ LockDay(w)
  /\ \E s \in run[w].gone :
       Goto(w, [Closing(w, s) EXCEPT !.day = After(DayOf(w), pl[s])], "book")
  /\ UNCHANGED <<broker, rows, enabled, counts, faults>>

(* monitor() sells the last target itself: the trade is closed, the day's  *)
(* row is left to the sum below, and the streak as it was.                 *)
Complete(w) ==
  /\ At(w, "book") /\ run[w].gone = {}
  /\ \E s \in run[w].mine \ run[w].shut :
       /\ pos[s] = "open" /\ pl[s] > 0
       /\ pos' = [pos EXCEPT ![s] = "closed"]
       /\ Goto(w, [run[w] EXCEPT !.shut = @ \union {s}], "book")
  /\ UNCHANGED <<pl, rows, lock, enabled, counts, faults>>

-----------------------------------------------------------------------------
(* capture_live_equity: account_info and the open positions.               *)
Snapshot(w) ==
  /\ At(w, "snapshot") \/ (At(w, "book") /\ run[w].gone = {})
  /\ Goto(w, [run[w] EXCEPT !.eq = Equity, !.float = Profit(In(pos, "open"))], "sum")
  /\ UNCHANGED <<broker, rows, lock, enabled, counts, faults>>
(* LiveEquityUnavailable: a signal is rejected, bookings are committed.    *)
SnapshotFails(w) ==
  /\ At(w, "snapshot") \/ (At(w, "book") /\ run[w].gone = {})
  /\ Goto(w, run[w], "commit")
  /\ UNCHANGED <<broker, rows, lock, enabled, counts, faults>>

(* persist_demo_live_equity: the sum over the closed trades, which is      *)
(* written once the row is locked.                                         *)
SumAsStored(w) ==
  /\ At(w, "sum")
  /\ Goto(w, [run[w] EXCEPT !.sum = DayOf(w).realized], "lock")
  /\ UNCHANGED <<broker, rows, lock, enabled, counts, faults>>
SumTrades(w) ==
  /\ At(w, "sum")
  /\ Goto(w, [run[w] EXCEPT !.sum = Profit(In(book, "closed") \union run[w].shut)], "lock")
  /\ UNCHANGED <<broker, rows, lock, enabled, counts, faults>>
(* The first jobs of a day find no row and insert one each: an INSERT waits*)
(* for another's, and fails with its transaction when that one commits.    *)
FindsNone(w) ==
  /\ At(w, "lock") /\ ~filed
  /\ Goto(w, run[w], "insert")
  /\ UNCHANGED <<broker, rows, lock, enabled, counts, faults>>
InsertLost(w) ==
  /\ At(w, "insert") /\ filed
  /\ Release(w)
  /\ UNCHANGED <<broker, rows, enabled, counts, faults>>
HasRow(w) == IF filed THEN At(w, "lock") ELSE At(w, "insert")
PersistUnlocked(w) ==
  /\ HasRow(w) /\ lock' = w
  /\ Goto(w, [run[w] EXCEPT !.day = [DayOf(w) EXCEPT !.realized = run[w].sum], !.sum = 0],
             IF Routing(w) THEN "judge" ELSE "commit")
  /\ UNCHANGED <<broker, rows, enabled, counts, faults>>
Persist(w) ==
  /\ HasRow(w) /\ LockDay(w)
  /\ Goto(w, [run[w] EXCEPT !.day = [DayOf(w) EXCEPT !.realized = run[w].sum], !.sum = 0],
             IF Routing(w) THEN "judge" ELSE "commit")
  /\ UNCHANGED <<broker, rows, enabled, counts, faults>>

(* evaluate_daily_guard, calculate_drawdown and evaluate_rules: the job's  *)
(* copy of the day, the equity of its snapshot, and the committed rows.    *)
DailyLocked(w) ==
  \/ run[w].day.realized + run[w].float <= -MaxLoss
  \/ run[w].day.streak >= MaxStreak
DrawdownBreached(w) == run[w].eq <= Best(run[w].hw, run[w].eq) - Drawdown
PositionsFull == Cardinality(In(book, "open")) >= MaxPositions
Blocked(w) == DailyLocked(w) \/ DrawdownBreached(w) \/ PositionsFull
Judge(w) ==
  /\ At(w, "judge") /\ ~Blocked(w)
  /\ Goto(w, run[w], "order")
  /\ UNCHANGED <<broker, rows, lock, enabled, counts, faults>>
(* Blocked, another gate closed, or the broker refuses the order.          *)
Reject(w) ==
  /\ run[w].pc \in {"judge", "order"}
  /\ Goto(w, run[w], "commit")
  /\ UNCHANGED <<broker, rows, lock, enabled, counts, faults>>
Order(w) ==
  /\ At(w, "order")
  /\ pos' = [pos EXCEPT ![run[w].s] = "open"]
  /\ late' = IF enabled THEN late ELSE late + 1
  /\ Goto(w, run[w], "ordered")
  /\ UNCHANGED <<pl, rows, lock, enabled, atStop, faults>>

(* Only the columns the job changed are written: hw if the snapshot was    *)
(* above what the job had read.                                            *)
Commit(w) ==
  /\ run[w].pc \in {"ordered", "commit"}
  /\ day' = DayOf(w) /\ filed' = (filed \/ lock = w)
  /\ hw' = IF run[w].eq > run[w].hw THEN run[w].eq ELSE hw
  /\ book' = [s \in Signals |->
       IF s \in run[w].shut THEN "closed"
       ELSE IF At(w, "ordered") /\ s = run[w].s THEN "open" ELSE book[s]]
  /\ ledger' = ledger \o run[w].log
  /\ todo' = todo \ {run[w].s}
  /\ Release(w)
  /\ UNCHANGED <<broker, enabled, counts, faults>>

Rollback(w) ==
  /\ run[w].pc \notin {"idle", "ordered"} /\ faults < MaxFaults
  /\ faults' = faults + 1
  /\ Release(w)
  /\ UNCHANGED <<broker, rows, enabled, counts>>

(* The market, the broker, and the operator (api/system.py).               *)
Moves(s) ==
  /\ pos[s] = "open" /\ pl[s] = 0
  /\ pl' = [pl EXCEPT ![s] = Final[s]]
  /\ UNCHANGED <<pos, rows, lock, enabled, run, counts, faults>>
BrokerCloses(s) ==
  /\ pos[s] = "open" /\ pl[s] = Final[s]
  /\ pos' = [pos EXCEPT ![s] = "closed"]
  /\ UNCHANGED <<pl, rows, lock, enabled, run, counts, faults>>
EmergencyStop ==
  /\ enabled /\ enabled' = FALSE
  /\ atStop' = Cardinality({w \in Workers : Routing(w)})
  /\ UNCHANGED <<broker, rows, lock, run, late, faults>>
Resume ==
  /\ ~enabled /\ enabled' = TRUE
  /\ atStop' = 0 /\ late' = 0
  /\ UNCHANGED <<broker, rows, lock, run, faults>>

Work(w) ==
  \/ BeginRoute(w) \/ Stopped(w) \/ BeginReconcile(w) \/ Book(w) \/ SumTrades(w)
  \/ FindsNone(w) \/ InsertLost(w) \/ Persist(w) \/ Judge(w) \/ Reject(w) \/ Order(w) \/ Commit(w)

Next ==
  \/ \E w \in Workers : Work(w) \/ Snapshot(w) \/ Complete(w)
                          \/ SnapshotFails(w) \/ Rollback(w)
  \/ \E s \in Signals : Moves(s) \/ BrokerCloses(s)
  \/ EmergencyStop \/ Resume

Spec == Init /\ [][Next]_vars
(* A job that has begun goes on, reconcile jobs keep coming, and now and   *)
(* then the broker answers one of them.                                    *)
FairSpec ==
  /\ Spec
  /\ \A w \in Workers : WF_vars(Work(w))
  /\ SF_vars(\E w \in Workers : Snapshot(w))

-----------------------------------------------------------------------------
DayRecord == [realized : Int, streak : Nat]
RunRecord ==
  [pc : {"idle", "book", "snapshot", "sum", "lock", "insert", "judge", "order",
         "ordered", "commit"},
   s : Signals \union {None}, hw : Int, eq : Int, float : Int, sum : Int, day : DayRecord,
   known : SUBSET Signals, mine : SUBSET Signals,
   gone : SUBSET Signals, shut : SUBSET Signals, log : Seq(Int)]

(* Types; a job holds the row it judges by, and only open rows are locked, *)
(* each by one job.                                                        *)
TypeOK ==
  /\ pos \in [Signals -> {"none", "open", "closed"}] /\ pl \in [Signals -> Int]
  /\ book \in [Signals -> {"none", "open", "closed"}]
  /\ day \in DayRecord /\ filed \in BOOLEAN /\ hw \in Int /\ lock \in Workers \union {Free}
  /\ todo \subseteq Signals /\ enabled \in BOOLEAN /\ run \in [Workers -> RunRecord]
  /\ ledger \in Seq(Int) /\ atStop \in Nat /\ late \in Nat /\ faults \in 0..MaxFaults
  /\ \A w \in Workers : run[w].pc \in {"judge", "order", "ordered"} => lock = w
  /\ \A w \in Workers : \A s \in run[w].mine :
       book[s] = "open" /\ \A v \in Workers \ {w} : s \notin run[v].mine

(* However the jobs interleave, the account never has more open rows than  *)
(* its profile allows: who counts them holds the day's row until its own   *)
(* row is committed.                                                       *)
OpenRowsCapped == Cardinality(In(book, "open")) <= MaxPositions

(* The stored streak is the number of losses the broker closed since its   *)
(* last winning closure, in the order they were booked: none is lost or    *)
(* counted twice between concurrent bookings.                              *)
StreakCounted ==
  LET Win == {i \in DOMAIN ledger : ledger[i] > 0}
  IN  day.streak = Cardinality({i \in DOMAIN ledger : ledger[i] < 0 /\ \A k \in Win : k < i})

(* "Stop new trades" (README.md:81): jobs that had read the flag may still *)
(* order; until the operator lets trading go on nothing that starts or     *)
(* starts again after the stop does.                                       *)
StopHolds == late <= atStop

(* The daily loss limit: what a job judges by may be older than the lock it*)
(* waited for, but it accounts for every trade booked before it began.     *)
LossLimitHolds ==
  \A w \in Workers : At(w, "order") =>
    \E S \in SUBSET In(book, "closed") :
      run[w].known \subseteq S /\ Profit(S) + run[w].float > -MaxLoss

(* Sums computed before a lock was granted overwrite newer ones, but when  *)
(* the closures end the stored total is that of the trades for good.       *)
TotalSettles == <>[](day.realized = Booked)

(* "Monotonic high-water update using durable values restored from         *)
(* storage." (risk/drawdown.py:22)                                         *)
HighWaterKept == [][hw' >= hw]_vars
=============================================================================
