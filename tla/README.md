# Patel Propfirm Blaster: a TLA+ verification project

The program turns Telegram messages into broker orders under prop-firm risk rules. It is a
set of Python processes (an HTTP API, one or more workers, a Telegram listener) around
PostgreSQL, Redis and, per account, a broker: an in-memory mock (SHADOW) or MetaTrader 5
(DEMO). This directory holds TLA+ models of the parts whose correctness depends on the order
in which those processes, the broker and failures act; TLC configurations that check them;
and TLAPS proofs of the results that matter most. Paths are relative to `src/backend/app/`
unless they name another directory.

## The system

| part | state it keeps | operations | interacts with |
|---|---|---|---|
| work queue `workers/queue.py` | Redis stream, consumer group, pending list; a local list per worker | enqueue, read, claim stale, process, acknowledge | listener and scheduler enqueue; handlers run from it |
| scheduler lease `workers/leadership.py`, `workers/main.py` | a Redis key with a TTL, `held` per process | acquire, renew, release, the 2 s loop | enqueues `reconcile`, `notify`, `aggregate` |
| signal pipeline `workers/pipeline.py` | messages, signals, decisions, positions, orders, trades | `process`: new, duplicate and edited messages; `_route` | parser, risk guards, `execution/*`, brokers |
| DEMO execution `execution/demo.py`, `execution/engine.py`, `brokers/mt5.py` | the broker's positions | position limit, preflight, place with idempotency comment | pipeline |
| DEMO monitoring `monitoring/service.py`, `positions/manager.py`, `brokers/mt5.py` | position and target rows; volume and stop at the broker | detect broker closures, take virtual targets, protect, commit | queue, daily statistics |
| take-profit allocation `positions/tp_allocation.py` | none | split a volume over targets | execution |
| guru updates `workers/pipeline.py:198`, `positions/updates.py` | SHADOW positions | break-even, stop, partial, close, target hit | mock broker, API, reconcile |
| SHADOW execution, mock broker `execution/shadow.py`, `brokers/mock.py` | prices and positions, per process | place, modify, close | restored from rows |
| position API `api/stubs.py` | the same rows | partial close, close, stop, set price | mock broker of the API process |
| risk guards `risk/*`, `prop_rules/engine.py`, `monitoring/live_equity.py` | daily statistics, high-water marks | lock, multiplier, drawdown, rules | pipeline, monitoring |
| notifications, daily report `notifications/*`, `monitoring/service.py:285` | outbox rows, one per channel | queue, send a batch, mark, file a report | every handler queues; scheduler asks |
| emergency stop `api/system.py` | one settings row | stop, close-all request (read by nothing) | pipeline reads the stop |
| consistency checker, recovery report | none | read-only checks | operator |
| parser, listener, authentication, CRUD API, frontend, scripts | | | |

What is hard in it:

* **Delivery is at least once.** A handler may run again after it failed, while it still runs
  (idle time exceeded), or after a crash between any two of its steps.
* **A broker order is in no transaction.** A rollback undoes every row and no order; replies
  get lost; the broker closes positions on its own.
* **Workers interleave.** Nothing but row locks, unique indexes and a broker-side comment
  keeps two workers apart.
* **Transactions read at several moments.** An account row read at the start, a sum taken before
  a lock and a position read without one are older than what is written over.
* **SHADOW processes each simulate a broker of their own**, which a rollback does not undo.
* **A lease is a promise about time**, and processes stall.
* **Arithmetic in broker steps** loses or invents volume at its boundaries.

What makes each part correct: the queue forgets no job and repeats none without bound; at
most one process schedules; a message is traded at most once per account, within the
account's limits, and never re-entered by an edit or a repost; an order is always owned by a
row; the row never claims less volume than the broker holds; the stop it shows is really
there; an allocation keeps the whole volume in pieces the broker accepts; limits of the day hold however
the jobs interleave; a notification is delivered and repeated only within bounds. `PROJECT.json` lists each
hazard at its line with the properties aimed at it.

## Modules

| module | what it is |
|---|---|
| `AtLeastOnce` | the abstract promise of the queue: accepted, performed, retired |
| `JobQueue` | the queue in detail; refines `AtLeastOnce` |
| `JobQueueProofs` | TLAPS proofs about `JobQueue` |
| `SchedulerLease` | scheduler election over the Redis lease, with time |
| `SchedulerLeaseProofs` | TLAPS proofs about `SchedulerLease` |
| `SignalExecution` | `process()` for entry signals on DEMO accounts, workers in parallel |
| `SignalExecutionProofs` | TLAPS proofs about `SignalExecution` |
| `DemoMonitor` | one DEMO position from entry to closure |
| `DemoMonitorProofs` | TLAPS proofs about `DemoMonitor` |
| `PositionLife` | the abstract life of a position's row: opened, reduced, protected, closed |
| `TpAllocation` | the allocation algorithm, one kept target per step |
| `TpAllocationProofs` | TLAPS proofs about `TpAllocation` |
| `ShadowPosition` | one SHADOW position between API requests, reconcile runs and guru updates |
| `ShadowPositionProofs` | TLAPS proofs about `ShadowPosition` |
| `DailyGuard` | the risk state of one DEMO account over a day, read and written by concurrent jobs |
| `DailyGuardProofs` | TLAPS proofs about `DailyGuard` |
| `Notifications` | the durable outbox, its sender, and the daily report |
| `NotificationsProofs` | TLAPS proofs about `Notifications` |
| `MC*` | constants for TLC |

`SignalExecution` uses the queue as `JobQueue` proves it to be: an entry is handed out, stays
pending until acknowledged, and may be handed out again. `DemoMonitor` starts from the rows
`SignalExecution!Commit` writes, with targets as `TpAllocation` plans them (an allocation of 0
is a merged target), and its runs are the `reconcile` jobs `SchedulerLease` asks for.
`DemoMonitor` refines `PositionLife` (`ImplementsLife`); `ShadowPosition` takes a
`PositionLife` step whenever no guru update overwrites what it had not read. `DailyGuard` looks
at the same route and reconcile jobs for what they do to the account's day; it abstracts a
position to its profit. `Notifications` takes the rows other handlers add at their commits as
`Notify`.

### JobQueue
Entries are numbered in `XADD` order. `Claim` is `_claim_stale`, whose reply is the oldest
idle entries up to the count; `Read` is `XREADGROUP` with count 1, only after an empty claim;
`Start`/`Finish`/`Fail`/`Ack` are the steps of `_process`. A worker's `batch` is the reply it
iterates and it does not look at the stream again, so entries in it may have moved on: this
is what `CopiesBounded` is about. `BecomesIdle` is the passing of `claim_idle_ms`, at any
time, also while the holder still works.

### SchedulerLease
One `Tick` is the loop's 2-second sleep, and the lease lasts `TTL = 5` of them (10 s). A
process that is not asleep when a tick happens has stalled for two seconds: `MaxStalls` of
these allow a pause longer than the lease at any point, e.g. between a renewal and the enqueue
that follows it. `Abort` is an exception from Redis (the `finally` releases the lease),
`Crash` a kill, `LoseKey` Redis restarting empty.

### SignalExecution
A worker is a record: `pc`, the job, the row it read (`seen`), the `locks` of its open
transaction (message row, signal row, unique fingerprint, daily row per account), what it
drafted and which tickets it got. Database variables change at `CommitRow` and `Commit` only;
before that a conflicting write waits for the lock (`Free`), and a duplicate key rolls back.
Rejections before the position limit come in two kinds. `GateReject` stands for those made before
the daily row is touched (settings, acknowledgement, heartbeat, profile, emergency stop,
connection), `GuardedReject` for those made after it (daily guard, drawdown, rules): these wait for
the daily row's lock and keep it until the commit, as `GatePass` does. `GuardReject` stands for the
limit and preflight. In all three the code may reject at its own discretion, so the model may
always reject. Only passing has conditions: the daily row's lock in `GatePass` (`GetsDay`), room
under the limit in `GuardPass`. On the accounts of `FirstJobs` the day has no row yet: a job that
finds none while another inserts it (`MissDay`) waits with an INSERT of its own and fails when the
other one commits (`InsertLost`). An order may be filled in part (`FillPartly`), which the adapter
reports as an error with the order open. After an accepted order `Planned` is what
`allocate_take_profits` makes of it: where the body has more targets than the account's list of
percentages (`ShortLists`) it raises behind the fill and everything but the order is rolled back.
Two history variables name what the code lets go wrong with nothing failing: `raised` has the
messages whose routing raised that way, `redone` those of which an edit was handled again when its
text was already in the row. `Losable` are the orders these two and partial fills account for.
One `max_positions` stands for the three limits (account, symbol,
direction). `Fingerprint[body]` is what the hash sees, which excludes the take-profits (and
includes the five-minute bucket of the message: bodies here count as sent in one bucket).
`Decision.ERROR` is `REJECTED`. A market order is filled at once and pending orders are not
used, as `_place_order_once` sends them. `Executed` abstracts the join of signals and
decisions. Audit rows and notifications are left out.

### DemoMonitor
`row` is the committed position with its targets; a run works on the copy `m` and writes it in
`Commit`. `Start` is the `FOR UPDATE SKIP LOCKED` query. The position query, each broker
call and the commit are separate steps, so the broker may close the position, the price may
move, or the run may die between any two. A close whose reply was lost may have been done or
not; `RecheckDone`, `RecheckResend` and `RecheckRefused` are `_retry_close_after_disconnect`.
`logged` is the volume `TPn` events account for. Written for a BUY; prices of a SELL are
mirrored. Volumes are whole steps. The broker fills any part of a close; the answer to a part is
`TRADE_RETCODE_DONE_PARTIAL`, which the adapter accepts as it does a whole one, and the history field
`unfilled` adds up what the accepted closes of a row left open. P&L, trades and statistics are left out: they
feed back into nothing the monitor decides.

### ShadowPosition
A session is a job of a worker or an HTTP request; `book[p]` and `price[p]` are the simulated
broker of process `p`. A handler's calls on the simulation contain no `await` and are one
step (`Answer`, `GuruActs`, `TakeTarget`); reading the row, acting and committing are separate
steps. Requests and reconcile runs hold the row's lock from the read to the commit;
`GuruReads` takes none. `Written` is the UPDATE SQLAlchemy emits: the columns that differ from
what was loaded, so two writers may mix columns. `Restored` is the `setdefault` of a position
the process does not have. `Applied` is `apply_position_update` with the manager's functions;
`CloseVolume`'s last case is the simulation's refusal to part with what it does not have.
`overlap` records that a guru update wrote over a row that had changed since it was read.

### DailyGuard
`run[w]` is what a job has read: `hw` the account row at its start, `known` the trades booked
then, `eq` and `float` of the broker snapshot, `sum` over the closed trades, `day` its copy of
the locked row. `Snapshot`, `SumTrades` and `Persist` are the three moments of
`persist_demo_live_equity` at which it reads or locks; `DailyLocked`, `DrawdownBreached` and
`PositionsFull` are the three judges, `Reject` any other gate. The day begins without a row (`filed`):
the first jobs insert one each (`FindsNone`), and all but the first to commit fail (`InsertLost`). A
position is committed with the day's row, so that `Book` always finds one; a position that is
open since the day before, whose closure is booked before the day has a row, is not covered.
`EmergencyStop` and `Resume` are the two values of the endpoint's `stop_new_trades`. `Book` is
`_reconcile_broker_closed` for one position, `Complete` a monitor run that sells the last
target. The amounts are small integers, a position has one final profit, the day does not
change, and the drawdown is the trailing-equity one.

### Notifications
`Rows` has one row per item and channel. `Select` reads any `Limit` queued rows (the query has
no order) and the recipient; `Send` posts one of them; `SendFails` is a refusal or a timeout,
with the message taken or not; `CommitAll` writes the whole batch. `FindReport`/`CommitReport`
is the report of a `notify_daily` job for one account and date, with several such jobs at work at
once: each election of a scheduler enqueues one. The figures of
`daily_performance` are left out: each run recomputes them and no code reads them.

### TpAllocation
`Units` and `MinUnits` convert a volume and the broker's minimum to whole steps, both rounded down; a
minimum that is no multiple of the step thus becomes a smaller one. From there on volumes
count steps; a percentage is a weight over the sum of the weights. Decimal
quotients and products are rounded to `Digits` significant digits, half to even, as the
`decimal` module does (28 in the program, 5 in the run). `Ten` is the powers of ten, `Places` and
`Surplus` the exponents Decimal chooses. `PrecisionAssumption` says that the precision exceeds a
volume times a weight, as 28 digits do. For the run's 11 280 inputs, which 22 320 calls lead to, the model and the Python
function, its context set to 5 digits, were compared and end the same way with the same plans.
One rounding is left out: EQUAL computes `1/n` and divides it by the sum of all again, which at 28
digits gives the same quotient up to 10 targets and may change its last digit from 11 on.

## Runs

| run | expected | shows |
|---|---|---|
| `JobQueue` | pass | at-least-once delivery, refinement, bounded repetition, every good job served |
| `SchedulerLease` | pass | one scheduler, a deposed one stops, nobody takes another's lease, reconciliation for ever |
| `SignalExecution` | pass | no double order, limits, reposts, executed signals stand, every event retired |
| `SignalOrphan` | violation | `ReclaimedEventsProtected`: a plan that raises behind a fill (or a crash there) orphans an open order |
| `DemoMonitor` | pass | no volume forgotten, closes bounded, recorded stops real, closures and targets dealt with, `PositionLife` refined |
| `DemoFalseFlat` | violation | `NeverUnderTracked` fails when a failed query reads as flat |
| `TpAllocation` | pass | plans are whole, broker-acceptable and within a step of the request |
| `ShadowPosition` | pass | who may overwrite whom, closed is final, targets taken once and given up only for a cause |
| `DailyGuard` | pass | rows capped, streak exact, stop effective, loss limit, total settles |
| `DailyHighWater` | violation | `HighWaterKept`: concurrent jobs can lower the high-water equity |
| `Notifications` | pass | bounded copies and reports, every row dealt with, dashboard served without a recipient |
| `ReportTwice` | violation | `OneReport`: two daily jobs side by side both file the day's report |

The four violations are disagreements between the code and what its documents, comments or
tests say; `PROJECT.json` "findings" quotes the line and tells the story of each. The runs
`SignalExecution`, `ShadowPosition` and `DailyGuard` check `TypeOK`, which relates more than types
there; elsewhere, where there is one, it is only proved.

Further disagreements the models show when asked, without a run of their own:
* An edit can adopt the order placed for the text before it (`Deduplicate` matches source,
  message and account only), so that rows and order differ.
* With `BlindScans = TRUE` in `SignalExecution.cfg` `OneOrderPerExecution` and `WithinPositionLimit` fail: a
  scan that fails is read as an empty book, by the limit's guard as by the search for the order,
  which is then sent again; `docs/EXECUTION.md:5` excludes that.
* The monitor can loosen the stop at the broker (`positions/manager.py:105` says "without ever loosening
  a stop"): a run that moved it twice and was rolled back is repeated from the stale row; and with
  take-profits that are not in the order of the trade, which the parser allows
  (`signal_parser/parser.py:48-52` keeps the order of the text), one lost reply is enough.
  `StopReallyThere` is what remains true in both cases: the row never shows a stop better than the
  broker's.
* A part of a close that was filled before its reply was lost is sold again: the retry sends the
  whole volume (`brokers/mt5.py:432`). A close answered `DONE_PARTIAL` may leave the row CLOSED over an
  open position, which nothing monitors; `NeverUnderTracked` bounds the difference by exactly what such
  answers left unfilled.
* An edit that is redelivered after a crash may undo an executed signal: "Executed signals" below.
* `testing/check_consistency.py:60` does not count `BROKER_POSITION_CLOSED`, so it reports a
  volume mismatch for a target followed by a closure at the broker.
* A guru update that read a SHADOW position before an API request's partial close was committed
  can leave a CLOSED row with remaining volume (`check_consistency.py:51`): each wrote its own
  columns.
* A route job that waited for the day's lock may order past a loss that was booked meanwhile,
  since it sums the trades before it waits. `LossLimitHolds` is what remains true.
* A notification Telegram always refuses makes every batch it is in roll back. The model bounds
  refusals by `MaxFaults`; `Retired` says what holds once they stop. Rows sent without a bot
  token become FAILED and are not tried again.

### Bounds, and why they suffice
* `JobQueue`: 2 workers, 3 entries, claims of at most 2, 1 crash. Two workers give every
  overlap of claim, run and acknowledgement for one entry; three entries put a good one behind
  a poison and an unknown one; a claim of 2 makes the local list outlive its reply. `runs` is
  bounded by `CopiesBounded` itself.
* `SchedulerLease`: 2 processes, TTL 5, a job every 3 rounds (5 s in steps of 2), 6 stalls (one
  more than the lease), 2 faults (a crash and a lost key, or two crashes).
* `SignalExecution`: 2 workers, 2 accounts (crosswise locking needs two) with a limit of 1 each, and
  3 events: a signal, its edit to another entry, and a repost of the edit. One account has no row
  of the day yet, on the other orders may be filled in part and the repost's targets outnumber the
  percentages; the broker may close the repost's position on the first; at most 2 orders of one
  execution id (`MaxOrders`). One fault; none in `SignalOrphan`, which has no lost replies and no
  partial fills either. `Reclaim` is FALSE in these runs: a job is handed out again only when no live
  worker holds it; the proofs do without that.
* `DemoMonitor`: 2 runs at a time, 3 targets (entry, first-target and no protection), the first one
  further than the second, prices on, between and beyond them, every partial fill of a close,
  1 fault.
* `ShadowPosition`: one worker session, two HTTP requests in one server process, two targets of
  2 steps, two messages (a partial close with break-even, a target hit), each of which may be
  edited once and is then handled again; one rollback or restart. Two processes and three sessions are what it takes for a
  simulation to be stale while a third party holds the row.
* `DailyGuard`: 2 workers, 2 signals, a loss that reaches the limit of 2 and a win, room for one
  row, one fault, any number of stops and resumptions; `DailyHighWater` has two wins, room for two and no fault. A worker routes
  while the other reconciles, routes or waits for the lock at each of its steps.
* `Notifications`: 2 workers, one event and up to 3 reports (one more than can be filed), batches
  of 2, so that rows of one item are split over batches and waiting rows can fill one; 1 fault, none
  in `ReportTwice`.
* `TpAllocation`: volumes 1..31 and minima 1..3 with steps of 1 and 2, up to 5 targets (one more than any preset has),
  custom lists with zeros, negatives, too few and too many values.

### Fairness
* `JobQueue`: live workers go on, idle time passes, a dead worker is restarted, and a job that
  is not poison completes if tried often enough. `EveryJobServed` moreover assumes
  `QuietPolls`: polls that find nothing stale keep happening. The code gives no such guarantee
  (a worker reads new entries only when nothing stale was claimed), which is why it stands in
  the property as a hypothesis.
* `SignalExecution`: workers go on, and PostgreSQL grants a row lock to a waiter in the end
  (strong fairness of `GuardedReject` or `GatePass` per account). A message whose routing raises is
  tried until it is older than 120 s (`execution/engine.py:40`) and then rejected: strong fairness of
  `GuardReject` for such a message. Nothing is assumed of faults or the broker, nor of early
  rejections, so a crosswise wait ends only by its victim.
* `DemoMonitor`: the scheduler keeps enqueueing (`ReconcileForever`), a started run goes on, and
  the connection is not down at every query (strong fairness of `Query` and `ReadPrice`). No
  fairness for the price, the broker, refusals or `ClosureUnresolved`.
* `SchedulerLease`: time passes, live processes run, dead ones are restarted by the service
  manager.

* `DailyGuard`: a job that has begun goes on, reconcile jobs keep coming (`ReconcileForever`), and
  the broker answers some snapshot in the end (strong fairness of `Snapshot`). None for the
  market, the broker, refusals or the operator.
* `Notifications`: the scheduler enqueues notify jobs for ever and the queue serves them (strong
  fairness of a job starting), a job that runs goes on. None for failures or the recipient.
* `ShadowPosition`: none, its properties are safety.

`SignalExecution`, `TpAllocation` and `Notifications` runs switch deadlock checking off: a
finished feed, a finished call or an empty outbox with its last report filed is where they
really stop.

## Proofs

Every safety property of the passing runs is also proved for every value of the constants, five of
them under a hypothesis that the theorem states: `~BlindScans` for `OneOrderPerExecution` and
`WithinPositionLimit`, `BlindQueries = FALSE` for `NeverUnderTracked` and `ImplementsLife`, `OneJobEach` for
`GivenUpForCause`. The first four hypotheses say that a query that fails is not read as an empty book:
the code does read it so (`brokers/mt5.py:202`, `:305`), and what then happens is the run
`DemoFalseFlat` and the disagreement about `BlindScans` above. The fifth is how a worker runs its jobs.
Where the code breaks a promise on its own, the property names the exception in its formula, and
theorem and run are about the same formula. Each proof has an inductive invariant made of named
parts.

`JobQueueProofs` (for any number of workers, entries, crashes, and any claim size):
* `TypeCorrect`: `Spec => []TypeOK`, by one step per action.
* `NoJobIsLost`: `Spec => []NoJobLost`. The property is not inductive: `Ack` retires whatever
  the worker has in hand. The strengthening says that a worker at `ack` has completed the
  handler of its entry, or has an entry of an unknown kind.
* `CopiesAreBounded`: `Spec => []CopiesBounded`. While an entry is pending, each of its completed runs
  has a worker at `ack` or one that died there; once it is acknowledged nobody is handed it
  again, and whoever still holds it, in hand or in a local list, runs it once more at most
  (`Counted`).
* `Refinement`: `Spec => Promise!Spec`: each step is an `AtLeastOnce` step or a stutter; the
  invariant above is what makes `Ack` a legal `Retire`.

`SchedulerLeaseProofs` (for any number of processes, any lease of at least two sleeps, and any
number of stalls, deaths and lost keys):
* `TypeCorrect`, `DeposedAreStopped` (`[]DeposedStops`), `OnlyScheduler` (`[]SoleScheduler`) and
  `LeaseIsRespected` (`LeaseRespected`, a property of steps). None of the last three is inductive. The
  strengthening says that the lives of a process are counted by the faults, so that a token
  names one life (`LivesCounted`); that a deposed process has a renewal ahead of it before it
  can enqueue again (`RenewalAhead`); and that among prompt processes a believer's lease is as
  fresh as its last sleep (`LeaseFresh`). Most actions are a step of one process, so two lemmas,
  `ShapedStep` and `RestStep`, state once what such a step must respect.

`SignalExecutionProofs` (for any stream of new messages, edits and reposts, any workers, accounts,
limits and faults):
* `TypeCorrect`: `Spec => []TypeOK`.
* `OrdersAreDeduplicated` and `LimitsAreKept` (`[]OneOrderPerExecution`, `[]WithinPositionLimit`), both
  with `~BlindScans`, and both with entries handed out twice at once. A row lock has one holder
  (`OneHolder`); a job that is about to order holds its account's daily row (`DayHeld`), so the
  room it counted is still there, also when it looks a second time after a lost reply
  (`RoomKept`), and nobody else can place the same execution id between its look and its order.
* `ExecutedSignalsStand` (`ExecutedStands`, a property of steps). A job behind the checks inserted its
  message's row or edits it, and has it locked in either case, unless the message is in `redone`
  (`Entered`); a message without a row has no signal and one without a signal no decision (`RowsFirst`);
  so a message that is not in `redone` is not executed as long as anyone is behind the checks
  (`Unexecuted`), whatever fails and however often its job is handed out.
* `OrphansNeedFaults`, `RepostsAreNotTraded` (`[]OrphansNeedAFault`, `[]RepostNotTraded`): before the first
  fault a job has none but its own open orders in hand, each for what it routes (`Sound`), those in
  the database belong to approved decisions (`Tracks`), and whoever routes a fingerprint holds its
  unique key and found nobody who posted it (`Claimed`). Where an order is `Losable` these say less,
  and so do the properties.

All five theorems hold for jobs that are handed out twice at once (`Reclaim`).

`DemoMonitorProofs` (for any targets, prices, runs and faults, and any allocation that hands out no
more than the volume, `PlanAssumption`, which is what `PlanWhole` says of the plans):
* `TypeCorrect`: `Spec => []TypeOK`: the volumes that are subtracted are there, and only the holder of
  the lock runs.
* `FillsAreBounded` (`[]FillsBounded`): a target that a run may still sell was sold whole by rolled back runs
  only (`Spare`), or the reply is lost and the broker's volume, which is compared before a close is
  sent again, shows that it was done (`Shows`).
* `OpenRowsAreExplained` (`[]OpenRowExplained`): of the row and of every copy, what remains and what the
  events account for make up the volume, and what remains covers the sum of all targets that were
  not taken (`Explained`); that one target's volume is in what remains is not inductive by itself.
* `NoVolumeUntracked` (`[]NeverUnderTracked`) and `ImplementsPositionLife` (`Spec => Life!Spec`), with
  `BlindQueries = FALSE`, i.e. a failed query is not taken for an empty book; `DemoFalseFlat` shows
  that the first needs it. `CopyCovers` says that the copy of a run, with what it left unfilled
  (`Held`), covers the broker's volume wherever it is in the loop and, while it re-checks a lost close, that the volume before the
  close was covered as well; the refinement needs moreover that a run copied the row under the
  lock and only ever advances its copy.
* `StopsAreReallyThere` (`[]StopReallyThere`), for take-profits in any order: the stop of a run's copy is at
  most the broker's wherever the run is, a stop that it is about to set is beyond that of its
  copy, and the copy is never behind the row (`RunHolds`).

`ShadowPositionProofs` (for any sessions, processes, guru messages, targets and volumes):
* First what the simulated broker and the manager may make of a copy and a book in one call, for
  each call and then for a whole guru message (`AppliedActs`): volume only goes out, the stop only
  tightens, CLOSED is when nothing remains, a target changes once, and none is given up while
  the book has what the copy has.
* `TypeCorrect`, `ClosedStaysClosed` (`ClosedIsFinal`), `LockedWritersLoseNothing` (`OnlyGurusOverwrite`): a
  session works on a copy that was loaded OPEN and only advanced, and the row is still what was
  loaded as long as it has the lock (`CopyOK`). A write of what was read puts the copy in the row's
  place; any other may mix columns, but a status that was not changed is not written.
* `TargetsExecuteOnce` (`[]ExecutedOnce`): until an update overwrote the row, a target's events and its
  state agree.
* `GivenUpOnlyForCause` (`[]GivenUpForCause`), with `OneJobEach`: a worker's process has one session at a
  time, as `workers/queue.py:39-48` has it; the server's requests may be any number. The book of a
  process is empty or has at least what the row has, except while its session has taken out of it
  what it is about to commit (`Ample`). The lock, or being the worker's only job, is what keeps two
  sessions of a process from being there at once (`Alone`).

`DailyGuardProofs` (for any number of workers and signals, any profits and limits):
* `TypeCorrect`: `Spec => []TypeOK`.
* `PositionsStayCapped` (`[]OpenRowsCapped`): who has counted the rows holds the day's lock until
  its own row is committed (`Holders`), and until then there is room (`Room`).
* `StopIsFinal` (`[]StopHolds`): while trading is stopped the orders sent after the stop and the route jobs that may still
  send one are together at most the route jobs that were at work at the stop.
* `StreakIsExact` (`[]StreakCounted`): a booking works on the day it locked, so that its copy and the
  ledger agree until it commits both.
* `LossLimitIsJudged` (`[]LossLimitHolds`): what a job sums are all trades of some set that has those it
  knew at its start, and the day's row it then locks is for it to overwrite.

`NotificationsProofs` (for any number of workers, items, faults and batch limits, with or
without a token):
* `OutboxTypes`, `CopiesAreBounded`, `ReportsAreBounded`, all from one invariant. A copy of a queued
  item is explained by a rollback or by a job that has sent it and not committed; once it is
  marked, by jobs that still have it in their batch, which no job joins (`Counted`). A report
  in hand counts from the look (`Reported`), and no other job has the same one (`InHand`).

`TpAllocationProofs` (for any volumes, minima, numbers of targets, custom lists and precision):
* `PlansAreWhole`, `PlansHaveNoCrumbs` (`[]PlanWhole`, `[]NoCrumbs`). Neither is inductive: while the
  k-th kept target is served, what it was given and what is left make the volume, every target
  served has its minimum and no other has anything (`Given`), and what is left still has a minimum
  for the k-th and each one after it (`Enough`). `Fit`, the number of kept targets, is where that
  begins, and what `min(units, remaining - reserved)` keeps. Nothing is assumed of the percentages.
* `RequestsAreHonoured` (`[]RequestHonoured`), which is about the percentages. The quotient is off by
  half a unit of its last decimal and the product, within `PrecisionAssumption`, by what that makes
  of the volume, which is less than the distance to the next step (`ErrorOfShare`, `WholeUnits`);
  so a request is the exact one or one step less. `Honoured` adds that once a target got less than
  that, exactly minima are left, and are what the later ones then get (`Squeezed`).
* `OnlyShortListsFail`: `IndexError` is raised for nothing but a CUSTOM list shorter than the signal's
  list of targets; what becomes of the order that was filled before is `SignalOrphan`.
* What the recursive functions compute is derived from their definitions: the function with the
  finite prefixes is built from least counterexamples, for the powers of ten (`TenIs`) as for the
  sum of a list (`TotalIs`), where no induction theorem can be used.

`DailyGuardProofs` and `DemoMonitorProofs` begin with what they need of `MapThenSumSet`: that it may be
split, that it is additive, that it covers each of its terms. The induction on the size of the set
is an argument from the least size that would refute it.

All rest on the named assumptions on constants (`QueueAssumption`, `MonitorAssumption`,
`VolumeAssumption`, `PlanAssumption`, `LeaseAssumption`, `DayAssumption`, `OutboxAssumption`,
`SignalAssumption`, `ShadowAssumption`, `InputsAssumption`, `PrecisionAssumption`), which TLC evaluates in the passing runs, and on the
hypotheses named above, each in the statement of its theorem.

Only model-checked is liveness, which is out of the prover's reach: `EveryJobServed`,
`ReconcileForever`, `EveryEventRetired`, `ClosureRecorded`, `TargetServed`, `TotalSettles`, `Retired`,
`DashboardServed`.

### Executed signals
`ExecutedStands` says that an approved decision, and its signal, are never touched again, except
for messages in `redone`. That is not caution. `Check` protects an executed message because an edit's
UPDATE of its row waits for whoever is trading it. An edit that finds in the row the text that it is
about to write emits no UPDATE and waits for nobody: two edits of a message and one crash are
enough. The first edit is committed as rejected, its worker dies before the acknowledgement, the
second edit is routed; meanwhile the first is redelivered (30 s by default, when a signal is fresh
for 120 s), finds its own text, passes the check, and after the second edit's commit deletes the
decision that was approved and routes the message again. `workers/queue.py:67` relies on "durable
application idempotency" for such deliveries, `README.md:49` on the idempotency keys. For the same
reason such messages are among the exceptions of `OrphansNeedAFault` and `RepostNotTraded`. What two
jobs of one message behind the checks do to each other happens only to messages in `redone`, and is
approximated: a DELETE that waits for another's is not modelled.

## Not modelled

* The parser: regular expressions over text. The pipeline model starts from its verdict.
* Listener, authentication, CRUD endpoints, configuration, frontend, scripts: I/O without a
  protocol.
* `route_saved`: no caller enqueues `route_signal` or `execute`.
* Routing an entry to SHADOW accounts: the same gates as DEMO, then the mock broker, whose
  `executions` live in the worker's memory only.
* Position sizing, risk classification, the other drawdown anchors, the profit and trade-count
  limits, and the change of the trading day: arithmetic on one snapshot, or a clock.
* `daily_performance`, recovery report, `positions/resolution.py`, health and overview: written or
  read by nothing that decides.
* `close_all_requested` (no code reads it).

## Plan

1. Done: `JobQueue` with its abstract promise; `SignalExecution`; `DemoMonitor`; `TpAllocation`;
   `SchedulerLease`; the queue's and the monitor's first theorems; the lease's safety.
2. Done: `ShadowPosition`, `DailyGuard`, `Notifications`; `PositionLife` and its refinement; the
   theorems about the day's limits and the outbox.
3. Done: theorems for the safety properties of every module; sums over finite sets; the decimal
   arithmetic of the allocation.
4. Done: fills in part, plans that raise behind a fill, rejections under the daily row's lock and the
   insertion of that row; theorems without the hypotheses that excluded redeliveries.
5. Open: two jobs of one message behind the checks in
   `SignalExecution`; the change of the trading day in `DailyGuard`; SHADOW entries.
