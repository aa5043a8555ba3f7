--------------------------- MODULE ShadowPosition ---------------------------
(***************************************************************************)
(* One SHADOW position after its entry.  Its row is in PostgreSQL; the     *)
(* broker is simulated, and every process (worker or HTTP server) has a    *)
(* simulation of its own in memory (brokers/mock.py).  Three writers meet: *)
(*   - HTTP requests (api/stubs.py) lock the row FOR UPDATE;               *)
(*   - reconcile runs (monitoring/service.py) lock it FOR UPDATE SKIP      *)
(*     LOCKED: jobs of the workers, and the end of a shadow-price request; *)
(*   - guru updates (workers/pipeline.py) read it without a lock, act, and *)
(*     write at the end.                                                   *)
(* A transaction writes the columns that it changed, not the row.  The     *)
(* simulation is called without an await in between, so a handler's calls  *)
(* on it are one step, and it keeps what it did when the transaction rolls *)
(* back.  Written for a BUY, without spread; a SELL mirrors the prices.    *)
(***************************************************************************)
EXTENDS Integers, FiniteSets

CONSTANTS
  Sessions,   \* database sessions: jobs of the workers, HTTP requests
  Handlers,   \* those that are HTTP requests
  Proc,       \* Proc[s]: the process a session belongs to
  Updates,    \* the guru's management messages
  Request,    \* Request[u]: what message u asks for
  Targets,    \* 1..n, the virtual take-profits
  Alloc,      \* Alloc[i]: volume of target i (0: merged into a later one)
  Target,     \* Target[i]: its price
  Entry, Stop, Volume, \* what was opened
  Prices,     \* prices an administrator sets
  Stops,      \* stops an administrator or the guru asks for
  Percents,   \* shares of the remaining volume they close
  MaxFaults,  \* bound on rollbacks and process restarts
  Free        \* the lock when nobody holds it

Processes == {Proc[s] : s \in Sessions}

ASSUME ShadowAssumption ==
  /\ Handlers \subseteq Sessions /\ Free \notin Sessions /\ DOMAIN Proc = Sessions
  /\ Targets \subseteq Nat \ {0} /\ Alloc \in [Targets -> Nat] /\ Target \in [Targets -> Int]
  /\ Entry \in Int /\ Stop \in Int /\ Entry >= Stop /\ Volume \in Nat \ {0}
  /\ Prices \subseteq Int /\ Stops \subseteq Int /\ Percents \subseteq 1..99 /\ MaxFaults \in Nat
  /\ Request \in [Updates -> [action : {"MOVE_STOP"}, stop : Stops]
                        \union [action : {"PARTIAL_CLOSE", "PARTIAL_CLOSE_AND_BREAK_EVEN"}, percent : Percents]
                        \union [action : {"TARGET_HIT"}, target : Targets]
                        \union [action : {"MOVE_BREAK_EVEN", "CLOSE", "HOLD"}]]

VARIABLES
  row,     \* positions and position_targets, committed
  execs,   \* execs[i]: VIRTUAL_TP_EXECUTED events of target i
  seen, edited, \* messages that are recorded, and recorded again as an edit
  lock,    \* the session that has the row FOR UPDATE
  book,    \* book[p]: the position in process p's simulation (vol 0: not there)
  price,   \* price[p]: its price
  sess,    \* the sessions
  overlap, \* a guru update has written over what it had not read
  faults

db == <<row, execs, seen, edited, overlap>>
mem == <<book, price>>
vars == <<db, lock, mem, sess, faults>>

Opened == [status |-> "OPEN", remaining |-> Volume, stop |-> Stop,
           target |-> [i \in Targets |-> IF Alloc[i] = 0 THEN "MERGED" ELSE "WAITING"]]
Absent == [vol |-> 0, stop |-> Stop]
(* was: the row as loaded, m: the session's copy, upd: the guru messages it*)
(* is handling.                                                            *)
Idle == [pc |-> "idle", was |-> Opened, m |-> Opened, upd |-> {}]

(* The worker that filled the order has the position, the others have not. *)
Init ==
  /\ row = Opened /\ execs = [i \in Targets |-> 0]
  /\ seen = {} /\ edited = {} /\ overlap = FALSE
  /\ lock = Free
  /\ \E p \in {Proc[s] : s \in Sessions \ Handlers} :
       book = [q \in Processes |-> IF q = p THEN [vol |-> Volume, stop |-> Stop] ELSE Absent]
  /\ price = [p \in Processes |-> Entry]
  /\ sess = [s \in Sessions |-> Idle]
  /\ faults = 0

At(s, pc) == sess[s].pc = pc
Become(s, x) == sess' = [sess EXCEPT ![s] = x]
(* No other session of the process is inside the monitor's loop, which     *)
(* does not await.                                                         *)
Turn(s) == \A t \in Sessions \ {s} : Proc[t] = Proc[s] => ~At(t, "monitor")

-----------------------------------------------------------------------------
(* The simulated broker, and the manager on top of it: functions of a      *)
(* state x of the session's copy x.m and its process's book x.b; x.ok says *)
(* whether the last call was accepted.                                     *)
Refused(x) == [x EXCEPT !.ok = FALSE]

(* setdefault: a position that is there already keeps its old volume.      *)
Restored(b, m) == IF b.vol > 0 THEN b ELSE [vol |-> m.remaining, stop |-> m.stop]

ModifyStop(x, to) ==
  IF x.b.vol > 0 /\ to >= x.b.stop
  THEN [m |-> [x.m EXCEPT !.stop = to], b |-> [x.b EXCEPT !.stop = to], ok |-> TRUE]
  ELSE Refused(x)
MoveStop(x, to) == IF to < x.m.stop THEN Refused(x) ELSE ModifyStop(x, to)

Taken(m, vol) == [m EXCEPT !.remaining = @ - vol, !.status = IF m.remaining = vol THEN "CLOSED" ELSE @]
CloseAll(x) ==
  IF x.m.status = "OPEN" /\ x.b.vol > 0
  THEN [m |-> Taken(x.m, x.m.remaining), b |-> [x.b EXCEPT !.vol = 0], ok |-> TRUE]
  ELSE Refused(x)
CloseVolumeStrict(x, vol) ==
  IF x.m.status # "OPEN" \/ vol <= 0 THEN Refused(x)
  ELSE IF vol > x.m.remaining THEN CloseAll(x)
  ELSE IF vol < x.b.vol THEN [m |-> Taken(x.m, vol), b |-> [x.b EXCEPT !.vol = @ - vol], ok |-> TRUE]
  ELSE Refused(x)
CloseVolume(x, vol) ==
  IF x.m.status # "OPEN" \/ vol <= 0 THEN Refused(x)
  ELSE IF vol >= x.m.remaining THEN CloseAll(x)
  ELSE IF vol < x.b.vol THEN [m |-> Taken(x.m, vol), b |-> [x.b EXCEPT !.vol = @ - vol], ok |-> TRUE]
  ELSE Refused(x)
Part(m, pct) == (m.remaining * pct) \div 100

(* A target that is taken, or refused and given up; then                   *)
(* protect_after_target: the entry after the first, the first after the    *)
(* second.                                                                 *)
Hit(x, i) ==
  LET y == CloseVolume(x, Alloc[i])
  IN [y EXCEPT !.m.target[i] = IF y.ok THEN "EXECUTED" ELSE "FAILED"]
Desired(i) == IF i = 1 THEN Entry ELSE Target[1]
Protected(x, i) ==
  IF x.m.status = "OPEN" /\ i \in {1, 2} /\ 1 \in Targets /\ Desired(i) > x.m.stop
  THEN MoveStop(x, Desired(i)) ELSE x

Half(x, pct) == CloseVolume(x, Part(x.m, pct))
(* apply_position_update.  trigger_target's branch for a position that the *)
(* broker has no longer is not taken: the caller has just restored it.     *)
Applied(x, req) ==
  CASE req.action = "MOVE_STOP" -> MoveStop(x, req.stop)
    [] req.action = "MOVE_BREAK_EVEN" -> MoveStop(x, Entry)
    [] req.action = "PARTIAL_CLOSE" -> Half(x, req.percent)
    [] req.action = "PARTIAL_CLOSE_AND_BREAK_EVEN" ->
         IF Half(x, req.percent).ok THEN MoveStop(Half(x, req.percent), Entry) ELSE Half(x, req.percent)
    [] req.action = "CLOSE" -> CloseAll(x)
    [] req.action = "TARGET_HIT" ->
         IF x.m.target[req.target] # "WAITING" THEN Refused(x)
         ELSE IF Hit(x, req.target).ok THEN Protected(Hit(x, req.target), req.target)
         ELSE Hit(x, req.target)
    [] req.action = "HOLD" -> x

State(s, m) == [m |-> m, b |-> book[Proc[s]], ok |-> TRUE]
Keep(s, b) == book' = [book EXCEPT ![Proc[s]] = b]

-----------------------------------------------------------------------------
(* The UPDATE a flush emits: the columns whose value differs from the one  *)
(* that was loaded; each target is a row of its own.                       *)
Column(old, was, now) == IF now = was THEN old ELSE now
WrittenWhole(old, was, m) == m
Written(old, was, m) ==
  [status |-> Column(old.status, was.status, m.status),
   remaining |-> Column(old.remaining, was.remaining, m.remaining),
   stop |-> Column(old.stop, was.stop, m.stop),
   target |-> [i \in Targets |-> Column(old.target[i], was.target[i], m.target[i])]]
Newly(s, i) == sess[s].m.target[i] = "EXECUTED" /\ sess[s].was.target[i] # "EXECUTED"
Store(s) ==
  /\ row' = Written(row, sess[s].was, sess[s].m)
  /\ execs' = [i \in Targets |-> IF Newly(s, i) THEN execs[i] + 1 ELSE execs[i]]

(* A handler or a reconcile run that has the lock.                         *)
Locked(s) == [pc |-> "locked", was |-> row, m |-> row, upd |-> {}]
Commit(s) ==
  /\ At(s, "commit")
  /\ Store(s)
  /\ lock' = Free /\ Become(s, Idle)
  /\ UNCHANGED <<seen, edited, overlap, mem, faults>>

-----------------------------------------------------------------------------
(* HTTP requests.  _mutable_position waits for the row and finds it OPEN.  *)
RequestLockUnlocked(s) ==
  /\ s \in Handlers /\ At(s, "idle") /\ row.status = "OPEN"
  /\ Become(s, Locked(s))
  /\ UNCHANGED <<db, lock, mem, faults>>
RequestLock(s) ==
  /\ s \in Handlers /\ At(s, "idle") /\ lock = Free /\ row.status = "OPEN"
  /\ lock' = s /\ Become(s, Locked(s))
  /\ UNCHANGED <<db, mem, faults>>

Answer(s, x) ==
  /\ Keep(s, x.b)
  /\ IF x.ok THEN Become(s, [sess[s] EXCEPT !.pc = "commit", !.m = x.m]) /\ UNCHANGED lock
             ELSE Become(s, Idle) /\ lock' = Free
  /\ UNCHANGED <<db, price, faults>>
Start(s) == [State(s, sess[s].m) EXCEPT !.b = Restored(@, sess[s].m)]

PartialClose(s) ==
  /\ At(s, "locked") /\ Turn(s)
  /\ \E pct \in Percents :
       LET vol == Part(sess[s].m, pct) IN
       Answer(s, IF vol < 1 \/ vol >= sess[s].m.remaining THEN Refused(Start(s)) ELSE CloseVolume(Start(s), vol))
ClosePosition(s) ==
  /\ At(s, "locked") /\ Turn(s)
  /\ Answer(s, CloseAll(Start(s)))
(* A worse stop is refused before the position is restored.                *)
StopAnswer(s, to) ==
  IF to < sess[s].m.stop THEN Refused(State(s, sess[s].m)) ELSE ModifyStop(Start(s), to)
SetStop(s) ==
  /\ At(s, "locked") /\ Turn(s)
  /\ \E to \in Stops : Answer(s, StopAnswer(s, to))

(* shadow-price: its process's quote moves, then it reconciles.            *)
ShadowPrice(s) ==
  /\ s \in Handlers /\ At(s, "idle") /\ Turn(s)
  /\ \E px \in Prices : price' = [price EXCEPT ![Proc[s]] = px]
  /\ Become(s, [Idle EXCEPT !.pc = "priced"])
  /\ UNCHANGED <<db, lock, book, faults>>

-----------------------------------------------------------------------------
(* Reconcile.  A run that finds the row locked or closed monitors nothing. *)
MayReconcile(s) == IF s \in Handlers THEN At(s, "priced") ELSE At(s, "idle")
ReconcileUnlocked(s) ==
  /\ MayReconcile(s) /\ Turn(s) /\ row.status = "OPEN"
  /\ lock' = s /\ Become(s, [Locked(s) EXCEPT !.pc = "monitor"])
  /\ Keep(s, Restored(book[Proc[s]], row))
  /\ UNCHANGED <<db, price, faults>>
Reconcile(s) ==
  /\ MayReconcile(s) /\ Turn(s) /\ lock = Free /\ row.status = "OPEN"
  /\ lock' = s /\ Become(s, [Locked(s) EXCEPT !.pc = "monitor"])
  /\ Keep(s, Restored(book[Proc[s]], row))
  /\ UNCHANGED <<db, price, faults>>
Skip(s) ==
  /\ At(s, "priced") /\ (lock # Free \/ row.status # "OPEN")
  /\ Become(s, Idle)
  /\ UNCHANGED <<db, lock, mem, faults>>

(* monitor(): the due targets in order, until one is refused or nothing is *)
(* left.                                                                   *)
Due(s) == {i \in Targets : sess[s].m.target[i] = "WAITING" /\ price[Proc[s]] >= Target[i]}
TakeTarget(s) ==
  /\ At(s, "monitor")
  /\ \E i \in Due(s) :
       /\ \A k \in Due(s) : i <= k
       /\ LET x == Hit(State(s, sess[s].m), i)
              y == IF x.ok THEN Protected(x, i) ELSE x
          IN /\ Keep(s, y.b)
             /\ Become(s, [sess[s] EXCEPT !.m = y.m,
                             !.pc = IF x.ok /\ x.m.status = "OPEN" THEN "monitor" ELSE "commit"])
  /\ UNCHANGED <<db, lock, price, faults>>
Monitored(s) ==
  /\ At(s, "monitor") /\ Due(s) = {}
  /\ Become(s, [sess[s] EXCEPT !.pc = "commit"])
  /\ UNCHANGED <<db, lock, mem, faults>>

-----------------------------------------------------------------------------
(* Guru updates.  A message is handled when it is new and again when it is *)
(* edited (its row keeps two sessions from doing so at once).              *)
Pending(u) == u \notin seen \/ u \notin edited
Recorded(u) == seen' = seen \union {u} /\ edited' = edited \union (seen \intersect {u})

(* The position is selected, without FOR UPDATE.  With no open position    *)
(* the message goes to manual review.                                      *)
GuruReads(s) ==
  /\ s \notin Handlers /\ At(s, "idle") /\ row.status = "OPEN"
  /\ \E u \in Updates :
       /\ Pending(u) /\ \A t \in Sessions : u \notin sess[t].upd
       /\ Become(s, [pc |-> "guru", was |-> row, m |-> row, upd |-> {u}])
  /\ UNCHANGED <<db, lock, mem, faults>>
GuruTooLate(s) ==
  /\ s \notin Handlers /\ At(s, "idle") /\ row.status # "OPEN"
  /\ \E u \in Updates :
       Pending(u) /\ (\A t \in Sessions : u \notin sess[t].upd) /\ Recorded(u)
  /\ UNCHANGED <<row, execs, overlap, lock, mem, sess, faults>>

(* The targets are selected later than the position, then the update is    *)
(* applied at once.                                                        *)
GuruActs(s) ==
  /\ At(s, "guru") /\ Turn(s)
  /\ \E u \in sess[s].upd :
       LET now == [sess[s].m EXCEPT !.target = row.target]
           x == Applied([State(s, now) EXCEPT !.b = Restored(@, now)], Request[u])
       IN /\ Keep(s, x.b)
          /\ Become(s, [sess[s] EXCEPT !.pc = "write", !.was.target = row.target, !.m = x.m])
  /\ UNCHANGED <<db, lock, price, faults>>

(* Its UPDATE waits for the row's lock, and does not look what is there.   *)
Stale(s) == row # sess[s].was
GuruWrites(s) ==
  /\ At(s, "write") /\ lock = Free
  /\ Store(s)
  /\ \E u \in sess[s].upd : Recorded(u)
  /\ overlap' = (overlap \/ Stale(s))
  /\ Become(s, Idle)
  /\ UNCHANGED <<lock, mem, faults>>

-----------------------------------------------------------------------------
(* A handler raises: the transaction is rolled back, the simulation not.   *)
Rollback(s) ==
  /\ ~At(s, "idle") /\ Turn(s) /\ faults < MaxFaults
  /\ faults' = faults + 1
  /\ Become(s, Idle)
  /\ lock' = IF lock = s THEN Free ELSE lock
  /\ UNCHANGED <<db, mem>>
(* A process restarts: its simulation is gone, with its prices.            *)
Restart(p) ==
  /\ faults < MaxFaults
  /\ faults' = faults + 1
  /\ sess' = [s \in Sessions |-> IF Proc[s] = p THEN Idle ELSE sess[s]]
  /\ lock' = IF lock \in Sessions /\ Proc[lock] = p THEN Free ELSE lock
  /\ book' = [book EXCEPT ![p] = Absent] /\ price' = [price EXCEPT ![p] = Entry]
  /\ UNCHANGED db

HandlerStep(s) ==
  RequestLock(s) \/ PartialClose(s) \/ ClosePosition(s) \/ SetStop(s) \/ ShadowPrice(s)
RunStep(s) == Reconcile(s) \/ Skip(s) \/ TakeTarget(s) \/ Monitored(s) \/ Commit(s)
GuruStep(s) == GuruReads(s) \/ GuruTooLate(s) \/ GuruActs(s) \/ GuruWrites(s)
Next ==
  \/ \E s \in Sessions : HandlerStep(s) \/ RunStep(s) \/ GuruStep(s) \/ Rollback(s)
  \/ \E p \in Processes : Restart(p)

Spec == Init /\ [][Next]_vars

-----------------------------------------------------------------------------
Record == [status : {"OPEN", "CLOSED"}, remaining : 0..Volume, stop : Int,
           target : [Targets -> {"WAITING", "EXECUTED", "FAILED", "MERGED"}]]
Session == [pc : {"idle", "locked", "priced", "monitor", "guru", "write", "commit"},
            was : Record, m : Record, upd : SUBSET Updates]

TypeOK ==
  /\ row \in Record /\ execs \in [Targets -> Nat]
  /\ seen \subseteq Updates /\ edited \subseteq seen /\ overlap \in BOOLEAN
  /\ lock \in Sessions \union {Free}
  /\ book \in [Processes -> [vol : 0..Volume, stop : Int]] /\ price \in [Processes -> Prices \union {Entry}]
  /\ sess \in [Sessions -> Session] /\ faults \in 0..MaxFaults
  /\ \A s \in Sessions : sess[s].pc \in {"locked", "monitor", "commit"} => lock = s

(* A closed position stays closed, whatever a session that read it before  *)
(* still writes.                                                           *)
ClosedIsFinal == [][row.status = "CLOSED" => row'.status = "CLOSED"]_vars

(* The row lives as it should (PositionLife) in every step but the write   *)
(* of a guru update that read the row before another's commit: the writers *)
(* that lock never lose each other's changes, nor an update's.             *)
Life == INSTANCE PositionLife WITH status <- row.status, remaining <- row.remaining, stop <- row.stop
Overwrites(s) == At(s, "write") /\ Stale(s) /\ sess'[s].pc = "idle"
OnlyGurusOverwrite == [][(\A s \in Sessions : ~Overwrites(s)) => [Life!Next]_(Life!life)]_vars

(* A target is given up only after a rollback or an overwriting update:    *)
(* the processes' separate simulations alone refuse nothing.               *)
GivenUpForCause == (\E i \in Targets : row.target[i] = "FAILED") => overlap \/ faults > 0

(* The journal has each target executed once, if no update overwrote the   *)
(* row.                                                                    *)
ExecutedOnce == ~overlap => \A i \in Targets : execs[i] <= 1
=============================================================================
