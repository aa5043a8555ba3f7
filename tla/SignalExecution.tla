--------------------------- MODULE SignalExecution ---------------------------
(***************************************************************************)
(* TelegramPipeline.process (workers/pipeline.py) for entry signals routed *)
(* to MT5 DEMO accounts: from a queued Telegram event to broker orders and *)
(* the database rows that own them.  Several worker processes run it, each *)
(* in one PostgreSQL transaction (READ COMMITTED): what it wrote is seen by*)
(* the others at its commit, and until then a conflicting write waits.  An *)
(* order sent to the broker is in no transaction: a rollback leaves it.    *)
(* The queue is JobQueue's, reduced to which job a worker may be given.    *)
(***************************************************************************)
EXTENDS Integers, FiniteSets, Sequences

CONSTANTS Msgs, Accounts, Workers,
          Feed,         \* the stream: a sequence of [msg, body, edited]
          Fingerprint,  \* Fingerprint[body]: what signal_fingerprint hashes
          MaxPositions, \* per account: ConcurrentLimits.max_positions
          ShortLists,   \* <<body, account>>: a CUSTOM list of percentages that is
                        \* shorter than the body's list of targets
          MaxFaults,    \* bound on crashes, failed statements, lost replies
          LostReplies,  \* order_send's reply may be lost
          PartialFills, \* accounts on which an IOC order may be filled in part
          Closes,       \* <<message, account>>: positions the broker may close
          FirstJobs,    \* accounts without an account_daily_stats row of today
          BlindScans,   \* positions_get may fail and read as no position
          Reclaim,      \* a job may idle out while its holder still runs it
          MaxOrders,    \* bound on the orders of one execution id
          None

Hashes == {Fingerprint[Feed[j].body] : j \in DOMAIN Feed}
Rows == [body : {Feed[j].body : j \in DOMAIN Feed}, kind : {"NEW", "EDIT", "DUPLICATE"},
         edit : 0..Len(Feed)]

ASSUME SignalAssumption ==
  /\ MaxPositions \in [Accounts -> Nat \ {0}] /\ MaxFaults \in Nat /\ MaxOrders \in Nat
  /\ Feed \in Seq([msg : Msgs, body : {Feed[j].body : j \in DOMAIN Feed}, edited : BOOLEAN])
  /\ ShortLists \subseteq {Feed[j].body : j \in DOMAIN Feed} \X Accounts
  /\ None \notin Hashes /\ None \notin Rows

(* Decision.ERROR is REJECTED here: process() only asks for APPROVED.       *)
Decisions == {"none", "APPROVED", "REJECTED"}

VARIABLES
  delivered, unacked,  \* the stream: last entry handed out, pending entries
  row,                 \* telegram_messages: [body, kind, edit] or None
  sig,                 \* signals: the fingerprint of the message's signal
  dec,                 \* signal_account_decisions
  tracked,             \* broker tickets that a Position and an Order row own
  days,                \* accounts whose account_daily_stats row of today exists
  orders, live,        \* the broker: every order it filled, those still open
  wk,                  \* the workers
  faults,
  raised,              \* history: messages whose routing raised behind an order
  redone               \* history: messages an edit of which was handled again
                       \* when its text was already in their row

stream == <<delivered, unacked>>
db == <<row, sig, dec, tracked, days>>
broker == <<orders, live>>
history == <<faults, raised, redone>>
vars == <<stream, db, broker, wk, history>>

Idle == [pc |-> "idle", job |-> 0, seen |-> None, locks |-> {}, del |-> {},
         gates |-> {}, insert |-> {}, todo |-> <<>>,
         draft |-> [a \in Accounts |-> "none"], tick |-> {}]

Init ==
  /\ delivered = 0 /\ unacked = {}
  /\ row = [m \in Msgs |-> None] /\ sig = [m \in Msgs |-> None]
  /\ dec = [m \in Msgs |-> [a \in Accounts |-> "none"]]
  /\ tracked = {} /\ days = Accounts \ FirstJobs /\ orders = {} /\ live = {}
  /\ wk = [w \in Workers |-> Idle]
  /\ faults = 0 /\ raised = {} /\ redone = {}

Msg(w) == Feed[wk[w].job].msg
Edited(w) == Feed[wk[w].job].edited
Hash(w) == Fingerprint[Feed[wk[w].job].body]
At(w, pc) == wk[w].pc = pc
Goto(w, pc) == wk' = [wk EXCEPT ![w].pc = pc]
Become(w, r) == wk' = [wk EXCEPT ![w] = r]
Free(w, lock) == \A v \in Workers \ {w} : lock \notin wk[v].locks
Of(S, m, a) == {t \in S : t.msg = m /\ t.acct = a}
On(a) == {t \in live : t.acct = a}

(* The exception leaves the handler: rollback, and no acknowledgement.     *)
Rollback(w) == Become(w, Idle) /\ UNCHANGED <<stream, db, broker, history>>

(* What the message row becomes: only the attributes whose value differs   *)
(* from what was read are written.                                         *)
Mine(w) ==
  LET j == wk[w].job IN
  IF wk[w].seen = None
  THEN [body |-> Feed[j].body, kind |-> IF Edited(w) THEN "EDIT" ELSE "NEW",
        edit |-> IF Edited(w) THEN j ELSE 0]
  ELSE [body |-> Feed[j].body, kind |-> IF Edited(w) THEN "EDIT" ELSE "DUPLICATE",
        edit |-> IF Edited(w) THEN j ELSE wk[w].seen.edit]
RowWritten(w) ==
  LET seen == wk[w].seen IN
  [row EXCEPT ![Msg(w)] =
     IF seen = None THEN Mine(w)
     ELSE [x \in DOMAIN seen |-> IF Mine(w)[x] = seen[x] THEN @[x] ELSE Mine(w)[x]]]
CommitRow(w) ==
  /\ row' = RowWritten(w)
  /\ Become(w, [Idle EXCEPT !.pc = "ack", !.job = wk[w].job])
  /\ UNCHANGED <<stream, sig, dec, tracked, days, broker, history>>

-----------------------------------------------------------------------------
(* The queue hands out the next entry, or one that is pending and idle.    *)
Take(w) ==
  /\ At(w, "idle")
  /\ \E j \in DOMAIN Feed :
       /\ \/ j = delivered + 1 /\ delivered' = j
          \/ /\ j \in unacked /\ UNCHANGED delivered
             /\ Reclaim \/ \A v \in Workers : wk[v].job # j
       /\ unacked' = unacked \union {j}
       /\ Become(w, [Idle EXCEPT !.pc = "read", !.job = j])
  /\ UNCHANGED <<db, broker, history>>

(* existing = SELECT ... (source_id, telegram_message_id)                  *)
Read(w) ==
  /\ At(w, "read")
  /\ wk' = [wk EXCEPT ![w].seen = row[Msg(w)], ![w].pc = "write"]
  /\ UNCHANGED <<stream, db, broker, history>>

(* The autoflush before the next query: an INSERT, an UPDATE, or nothing   *)
(* when the payload repeats what the row says.                             *)
Insert(w) ==
  LET m == Msg(w) IN
  /\ At(w, "write") /\ wk[w].seen = None /\ Free(w, <<"msg", m>>)
  /\ IF row[m] # None THEN Rollback(w)
     ELSE /\ wk' = [wk EXCEPT ![w].locks = @ \union {<<"msg", m>>}, ![w].pc = "lookup"]
          /\ UNCHANGED <<stream, db, broker, history>>
Update(w) ==
  LET m == Msg(w) IN
  /\ At(w, "write") /\ wk[w].seen # None
  /\ \/ /\ Mine(w) = wk[w].seen /\ Goto(w, "check")
        /\ redone' = IF Edited(w) THEN redone \union {m} ELSE redone
     \/ /\ Mine(w) # wk[w].seen /\ Free(w, <<"msg", m>>)
        /\ wk' = [wk EXCEPT ![w].locks = @ \union {<<"msg", m>>}, ![w].pc = "check"]
        /\ UNCHANGED redone
  /\ UNCHANGED <<stream, db, broker, faults, raised>>

(* executed_signal and existing_message_disposition.                       *)
Executed(m) == \E a \in Accounts : dec[m][a] = "APPROVED"
CheckAnyEdit(w) ==
  /\ At(w, "check")
  /\ IF Edited(w) THEN Goto(w, "lookup") /\ UNCHANGED <<stream, db, broker, history>>
     ELSE CommitRow(w)
Check(w) ==
  /\ At(w, "check")
  /\ IF Edited(w) /\ ~Executed(Msg(w))
     THEN Goto(w, "lookup") /\ UNCHANGED <<stream, db, broker, history>>
     ELSE CommitRow(w)

(* prior_signal and duplicate.                                             *)
Posted(m, f) == \E n \in Msgs \ {m} : sig[n] = f
Lookup(w) ==
  LET m == Msg(w) IN
  /\ At(w, "lookup")
  /\ \/ /\ Posted(m, Hash(w)) \/ (sig[m] # None /\ ~Edited(w))
        /\ CommitRow(w)
     \/ /\ ~Posted(m, Hash(w)) /\ (sig[m] # None => Edited(w))
        /\ Goto(w, IF sig[m] # None THEN "delete" ELSE "flush")
        /\ UNCHANGED <<stream, db, broker, history>>

(* DELETE the prior decisions: those its snapshot shows.                   *)
Delete(w) ==
  /\ At(w, "delete")
  /\ wk' = [wk EXCEPT ![w].del = {a \in Accounts : dec[Msg(w)][a] # "none"}, ![w].pc = "flush"]
  /\ UNCHANGED <<stream, db, broker, history>>

(* db.flush(): the signal row, under the unique fingerprint.               *)
FlushUnchecked(w) ==
  /\ At(w, "flush")
  /\ wk' = [wk EXCEPT ![w].locks = @ \union {<<"sig", Msg(w)>>, <<"fp", Hash(w)>>},
                      ![w].gates = Accounts, ![w].pc = "gate"]
  /\ UNCHANGED <<stream, db, broker, history>>
Flush(w) ==
  LET m == Msg(w) IN
  /\ At(w, "flush") /\ Free(w, <<"sig", m>>) /\ Free(w, <<"fp", Hash(w)>>)
  /\ IF Posted(m, Hash(w)) THEN Rollback(w)
     ELSE /\ wk' = [wk EXCEPT ![w].locks = @ \union {<<"sig", m>>, <<"fp", Hash(w)>>},
                              ![w].gates = Accounts, ![w].pc = "gate"]
          /\ UNCHANGED <<stream, db, broker, history>>

-----------------------------------------------------------------------------
(* _route's loop over the accounts, which no ORDER BY orders.  Settings,   *)
(* acknowledgement, heartbeat, profile, emergency stop and broker may      *)
(* reject an account before its daily row is touched.  After that every    *)
(* account, rejected (daily guard, drawdown, rules) or not, has the row    *)
(* locked until the commit.                                                *)
Clash(w, a) == dec[Msg(w)][a] # "none" /\ a \notin wk[w].del

RejectGated(w, a, L) ==
  IF Clash(w, a) THEN Rollback(w)
  ELSE /\ wk' = [wk EXCEPT ![w].gates = @ \ {a}, ![w].insert = {}, ![w].draft[a] = "REJECTED",
                           ![w].locks = @ \union L]
       /\ UNCHANGED <<stream, db, broker, history>>
GateReject(w) ==
  /\ At(w, "gate") /\ wk[w].insert = {}
  /\ \E a \in wk[w].gates : RejectGated(w, a, {})

(* persist_demo_live_equity: SELECT ... FOR UPDATE waits for who has the   *)
(* row.  The first job of the day finds none and INSERTs it; who finds     *)
(* none while that is not committed waits with an INSERT of its own, which *)
(* fails if the first one commits.                                         *)
MissDay(w) ==
  /\ At(w, "gate") /\ wk[w].insert = {}
  /\ \E a \in wk[w].gates \ days :
       ~Free(w, <<"stat", a>>) /\ wk' = [wk EXCEPT ![w].insert = {a}]
  /\ UNCHANGED <<stream, db, broker, history>>
InsertLost(w) ==
  At(w, "gate") /\ wk[w].gates \intersect wk[w].insert \intersect days # {} /\ Rollback(w)
GetsDayUnlocked(w, a) ==
  At(w, "gate") /\ a \in wk[w].gates /\ wk[w].insert \subseteq {a}
GetsDay(w, a) ==
  /\ At(w, "gate") /\ a \in wk[w].gates /\ Free(w, <<"stat", a>>)
  /\ wk[w].insert \subseteq {a} \ days

GuardedReject(w, a) == GetsDay(w, a) /\ RejectGated(w, a, {<<"stat", a>>})
GatePass(w, a) ==
  /\ GetsDay(w, a)
  /\ wk' = [wk EXCEPT ![w].gates = @ \ {a}, ![w].insert = {}, ![w].todo = Append(@, a),
                      ![w].locks = @ \union {<<"stat", a>>}]
  /\ UNCHANGED <<stream, db, broker, history>>

(* Two workers that hold one daily row each and want the other's: the      *)
(* server's deadlock detection fails one of the transactions.              *)
Waits(w, a) ==
  At(w, "gate") /\ a \in wk[w].gates /\ wk[w].insert \subseteq {a} /\ ~Free(w, <<"stat", a>>)
Crosswise(w) ==
  \E v \in Workers \ {w}, a, b \in Accounts :
     /\ Waits(w, a) /\ <<"stat", a>> \in wk[v].locks
     /\ Waits(v, b) /\ <<"stat", b>> \in wk[w].locks
DeadlockUndetected(w) == Crosswise(w) /\ UNCHANGED vars
DeadlockVictim(w) == Crosswise(w) /\ Rollback(w)

(* DemoTradingEngine.route, account by account: the position limit against *)
(* the broker's book (empty when the query fails), and every other reason  *)
(* preflight has to reject (the signal is older than 120 s, no price, out  *)
(* of range, sizing).                                                      *)
Turn(w) == At(w, "gate") /\ wk[w].gates = {} /\ wk[w].todo # <<>>
Here(w) == Head(wk[w].todo)
Decide(w, d, T) ==
  wk' = [wk EXCEPT ![w].draft[Here(w)] = d, ![w].tick = @ \union T,
                   ![w].todo = Tail(@), ![w].pc = "gate"]

GuardReject(w) ==
  /\ Turn(w)
  /\ Decide(w, "REJECTED", {})
  /\ UNCHANGED <<stream, db, broker, history>>
GuardPass(w) ==
  /\ Turn(w) /\ (Cardinality(On(Here(w))) < MaxPositions[Here(w)] \/ BlindScans)
  /\ Goto(w, "place")
  /\ UNCHANGED <<stream, db, broker, history>>

(* The next order of the execution id, filled in whole or in part.         *)
NewOrder(w, part) ==
  [msg |-> Msg(w), acct |-> Here(w), fp |-> Hash(w), part |-> part,
   no |-> Cardinality(Of(orders, Msg(w), Here(w))) + 1]
Raises(w) == <<Feed[wk[w].job].body, Here(w)>> \in ShortLists
Same(w) == Of(live, Msg(w), Here(w))
Sends(w, t) == orders' = orders \union {t} /\ live' = live \union {t}

(* What follows an accepted order: allocate_take_profits raises IndexError *)
(* for a list of percentages that is too short.                            *)
Planned(w, t) ==
  IF Raises(w)
  THEN Become(w, Idle) /\ raised' = raised \union {Msg(w)}
  ELSE Decide(w, "APPROVED", {t}) /\ UNCHANGED raised

(* place_order: _existing_execution looks for the key's comment among the  *)
(* open positions, and only then is an order sent.                         *)
Looks(w) == wk[w].pc \in {"place", "rescan"}
FindsNone(w) ==
  /\ Looks(w) /\ (Same(w) = {} \/ BlindScans)
  /\ Cardinality(Of(orders, Msg(w), Here(w))) < MaxOrders
DeduplicateByKey(w) ==
  /\ Looks(w) /\ Same(w) # {} /\ Planned(w, NewOrder(w, FALSE))
  /\ UNCHANGED <<stream, db, broker, faults, redone>>
Deduplicate(w) ==
  /\ Looks(w) /\ \E t \in Same(w) : Planned(w, t)
  /\ UNCHANGED <<stream, db, broker, faults, redone>>
FillAgain(w) ==
  LET t == NewOrder(w, FALSE) IN
  Looks(w) /\ Sends(w, t) /\ Planned(w, t) /\ UNCHANGED <<stream, db, faults, redone>>
FillMisread(w) ==
  /\ FindsNone(w) /\ Sends(w, NewOrder(w, FALSE)) /\ Decide(w, "REJECTED", {})
  /\ UNCHANGED <<stream, db, history>>
Fill(w) ==
  LET t == NewOrder(w, FALSE) IN
  FindsNone(w) /\ Sends(w, t) /\ Planned(w, t) /\ UNCHANGED <<stream, db, faults, redone>>
(* DONE_PARTIAL is not among the accepted return codes: Decision.ERROR.    *)
FillPartly(w) ==
  /\ FindsNone(w) /\ Here(w) \in PartialFills /\ Sends(w, NewOrder(w, TRUE)) /\ Decide(w, "REJECTED", {})
  /\ UNCHANGED <<stream, db, history>>
(* Order filled, reply lost: reconnect and look again (allow_reconnect).   *)
LoseReply(w) ==
  /\ LostReplies /\ At(w, "place") /\ FindsNone(w) /\ faults < MaxFaults
  /\ faults' = faults + 1
  /\ Sends(w, NewOrder(w, FALSE)) /\ Goto(w, "rescan")
  /\ UNCHANGED <<stream, db, raised, redone>>
(* Refused, no price, or no reconnection.                                  *)
PlaceError(w) ==
  /\ Looks(w) /\ Decide(w, "REJECTED", {})
  /\ UNCHANGED <<stream, db, broker, history>>

(* Decision, Position, Order and Trade rows, then commit, also of the      *)
(* daily rows.  The decision is unique per signal and account, the Order   *)
(* per execution id.                                                       *)
Commit(w) ==
  LET m == Msg(w)
      d == wk[w].draft
      taken(a) == d[a] = "APPROVED" /\ Of(tracked, m, a) # {}
  IN
  /\ At(w, "gate") /\ wk[w].gates = {} /\ wk[w].todo = <<>>
  /\ IF \E a \in Accounts : Clash(w, a) \/ taken(a) THEN Rollback(w)
     ELSE /\ row' = IF Mine(w) = wk[w].seen THEN row ELSE RowWritten(w)
          /\ sig' = [sig EXCEPT ![m] = Hash(w)]
          /\ dec' = [dec EXCEPT ![m] = d]
          /\ tracked' = tracked \union wk[w].tick
          /\ days' = days \union {a \in Accounts : <<"stat", a>> \in wk[w].locks}
          /\ Become(w, [Idle EXCEPT !.pc = "ack", !.job = wk[w].job])
          /\ UNCHANGED <<stream, broker, history>>

Ack(w) ==
  /\ At(w, "ack")
  /\ unacked' = unacked \ {wk[w].job}
  /\ Become(w, Idle)
  /\ UNCHANGED <<delivered, db, broker, history>>

(* The process dies, or a statement fails (PostgreSQL or Redis away).      *)
Fault(w) ==
  /\ ~At(w, "idle") /\ faults < MaxFaults
  /\ faults' = faults + 1
  /\ Become(w, Idle)
  /\ UNCHANGED <<stream, db, broker, raised, redone>>

(* Stop, final target or a human closes an order at the broker.            *)
BrokerCloses ==
  /\ \E t \in live : <<t.msg, t.acct>> \in Closes /\ live' = live \ {t}
  /\ UNCHANGED <<stream, db, orders, wk, history>>

Work(w) ==
  \/ Take(w) \/ Read(w) \/ Insert(w) \/ Update(w) \/ Check(w) \/ Lookup(w) \/ Delete(w)
  \/ Flush(w) \/ MissDay(w) \/ InsertLost(w) \/ DeadlockVictim(w) \/ GuardReject(w)
  \/ \E a \in Accounts : GuardedReject(w, a) \/ GatePass(w, a)
  \/ GuardPass(w) \/ Deduplicate(w) \/ Fill(w) \/ PlaceError(w) \/ Commit(w) \/ Ack(w)
Chance(w) == GateReject(w) \/ FillPartly(w) \/ LoseReply(w) \/ Fault(w)

Next == (\E w \in Workers : Work(w) \/ Chance(w)) \/ BrokerCloses

Spec == Init /\ [][Next]_vars
(* A live worker keeps running and asks the queue for more; PostgreSQL     *)
(* hands a released row lock to a transaction that waits for it; and a     *)
(* signal that is tried again and again outlives its 120 seconds.          *)
FairSpec ==
  /\ Spec
  /\ \A w \in Workers :
       /\ WF_vars(Work(w))
       /\ \A a \in Accounts : SF_vars(GuardedReject(w, a) \/ GatePass(w, a))
  /\ SF_vars(\E w \in Workers : GuardReject(w) /\ Raises(w))

-----------------------------------------------------------------------------
Tickets == [msg : Msgs, acct : Accounts, fp : Hashes, part : BOOLEAN, no : Nat]

TypeOK ==
  /\ delivered \in 0..Len(Feed) /\ unacked \subseteq 1..delivered
  /\ row \in [Msgs -> Rows \union {None}]
  /\ sig \in [Msgs -> Hashes \union {None}]
  /\ dec \in [Msgs -> [Accounts -> Decisions]]
  /\ orders \subseteq Tickets /\ live \subseteq orders /\ tracked \subseteq orders
  /\ days \subseteq Accounts
  /\ \A w \in Workers :
       /\ wk[w].job \in 0..delivered /\ wk[w].tick \subseteq orders
       /\ At(w, "idle") <=> wk[w].job = 0
  /\ faults \in 0..MaxFaults /\ raised \subseteq Msgs /\ redone \subseteq Msgs

InHand == UNION {wk[w].tick : w \in Workers}

(* An execution id has at most one open order, however often its job runs. *)
OneOrderPerExecution ==
  \A m \in Msgs, a \in Accounts : Cardinality(Of(live, m, a)) <= 1

(* Workers that route different signals at once never take an account over *)
(* its position limit.                                                     *)
WithinPositionLimit == \A a \in Accounts : Cardinality(On(a)) <= MaxPositions[a]

(* Orders whose owner the program may lose with nothing failing: filled in *)
(* part, or of a message whose routing raised behind an order, or one that *)
(* handled an edit again when its text was already in the row.             *)
Losable == {t \in orders : t.part \/ t.msg \in raised \union redone}

(* Before a fault a repost is not traded twice: no two orders of an        *)
(* account were sent for the same content, whatever edits either message   *)
(* had and however many workers hold one job, unless one of them is        *)
(* losable.                                                                *)
RepostNotTraded ==
  faults = 0 =>
    \A t, u \in orders \ Losable : t.acct = u.acct /\ t.fp = u.fp => t = u

(* Before a fault every order that is not losable is owned by the database *)
(* or by the worker about to commit it: no lost race, deadlock or          *)
(* duplicate key rolls back behind an order.                               *)
OrphansNeedAFault ==
  faults = 0 => orders \ Losable \subseteq tracked \union InHand

(* An executed signal is never re-entered or rewritten, by whichever edits *)
(* and redeliveries and through crashes.  The exception is in the formula: *)
(* an edit that was handled again when its text was already in the         *)
(* message's row writes nothing, hence locks nothing, and may.             *)
ExecutedStands ==
  [][\A m \in Msgs \ redone, a \in Accounts :
       dec[m][a] = "APPROVED" => dec'[m][a] = "APPROVED" /\ sig'[m] = sig[m]]_vars

(* Every event is acknowledged in the end: lost races, crosswise locks,    *)
(* rolled back transactions and plans that raise resolve on redelivery.    *)
EveryEventRetired == <>(delivered = Len(Feed) /\ unacked = {})

(* Once a message's events are acknowledged, the database owns the order   *)
(* that was placed for it (README.md:49).                                  *)
ReclaimedEventsProtected ==
  \A t \in live : (\A j \in DOMAIN Feed : Feed[j].msg = t.msg => j <= delivered /\ j \notin unacked)
                    => t \in tracked
=============================================================================
