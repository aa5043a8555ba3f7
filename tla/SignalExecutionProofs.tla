----------------------- MODULE SignalExecutionProofs -----------------------
(***************************************************************************)
(* SignalExecution for any stream of events, number of workers and         *)
(* accounts, limits, fingerprints and faults, jobs that are handed out     *)
(* again while their holder runs included: what the row locks and the      *)
(* unique constraints of the database promise about orders and decisions.  *)
(***************************************************************************)
EXTENDS SignalExecution, FiniteSetTheorems, SequenceTheorems, TLAPS

Pcs == {"idle", "read", "write", "check", "lookup", "delete", "flush", "gate", "place",
        "rescan", "ack"}

(* The local variables of a job.                                           *)
Typed(w) ==
  /\ DOMAIN wk[w] = DOMAIN Idle
  /\ wk[w].pc \in Pcs /\ wk[w].job \in 0..delivered
  /\ wk[w].pc = "idle" <=> wk[w].job = 0
  /\ wk[w].seen \in Rows \union {None}
  /\ wk[w].seen # None => wk[w].job # 0 /\ row[Msg(w)] # None
  /\ wk[w].pc = "check" => wk[w].seen # None
  /\ wk[w].gates \subseteq Accounts /\ wk[w].todo \in Seq(Accounts)
  /\ wk[w].draft \in [Accounts -> Decisions]
  /\ wk[w].tick \subseteq orders
  /\ wk[w].pc \in {"place", "rescan"} => wk[w].gates = {} /\ wk[w].todo # <<>>
Local == wk = [w \in Workers |-> wk[w]] /\ \A w \in Workers : Typed(w)
TInv == TypeOK /\ IsFiniteSet(orders) /\ Local
Recorded == faults \in 0..MaxFaults /\ raised \subseteq Msgs /\ redone \subseteq Msgs

-----------------------------------------------------------------------------
(* A row lock has one holder, and an account that waits for its order has  *)
(* its daily row locked.                                                   *)
OneHolder == \A v, w \in Workers : v # w => wk[v].locks \cap wk[w].locks = {}
Listed(w) == {wk[w].todo[i] : i \in DOMAIN wk[w].todo}
DayHeld == \A w \in Workers : \A a \in Listed(w) : <<"stat", a>> \in wk[w].locks
LInv == OneHolder /\ DayHeld

(* The room that preflight saw is there until the order is sent.           *)
Ready(w) == At(w, "place") \/ (At(w, "rescan") /\ Same(w) = {})
RoomKept == \A w \in Workers : Ready(w) => Cardinality(On(Here(w))) < MaxPositions[Here(w)]
PInv == RoomKept /\ WithinPositionLimit
OrdersDiffer == \A t, u \in live : t.msg = u.msg /\ t.acct = u.acct => t = u

-----------------------------------------------------------------------------
Inside(w) == wk[w].pc \in {"lookup", "delete", "flush", "gate", "place", "rescan"}
Routing(w) == wk[w].pc \in {"gate", "place", "rescan"}
HasRow(w) == <<"msg", Msg(w)>> \in wk[w].locks

(* Who is past the checks has inserted the message's row or edits it, and  *)
(* in either case, unless an edit repeats the row, has it locked.          *)
EnteredBy(w) ==
  /\ Inside(w) /\ wk[w].seen = None => row[Msg(w)] = None /\ HasRow(w)
  /\ Inside(w) /\ wk[w].seen # None => Edited(w)
  /\ At(w, "check") \/ Inside(w) => ~Edited(w) \/ HasRow(w) \/ Msg(w) \in redone
Entered == \A w \in Workers : EnteredBy(w)
RowsFirst ==
  \A m \in Msgs : /\ row[m] = None => sig[m] = None
                  /\ sig[m] = None => \A a \in Accounts : dec[m][a] = "none"
(* Who routes a message that was not redone is the only one to, and the    *)
(* message is not executed.                                                *)
Unexecuted == \A w \in Workers : Inside(w) => Msg(w) \in redone \/ ~Executed(Msg(w))
EInv == Entered /\ RowsFirst /\ Unexecuted

-----------------------------------------------------------------------------
(* Before a fault: what a job that routes has made sure of, and which      *)
(* orders it has in hand.                                                  *)
NoClash(w) ==
  At(w, "flush") \/ Routing(w) => Msg(w) \in redone \/ \A a \in Accounts : ~Clash(w, a)
Claimed(w) == Routing(w) => <<"fp", Hash(w)>> \in wk[w].locks /\ ~Posted(Msg(w), Hash(w))
OneTurn(w) ==
  /\ ~Routing(w) => wk[w].todo = <<>>
  /\ \A i \in DOMAIN wk[w].todo :
       /\ wk[w].todo[i] \notin wk[w].gates
       /\ \A j \in DOMAIN wk[w].todo : wk[w].todo[i] = wk[w].todo[j] => i = j
Ticks(w) ==
  \A t \in wk[w].tick :
    /\ Routing(w) /\ wk[w].gates = {} /\ t.msg = Msg(w) /\ (t \in Losable \/ t.fp = Hash(w))
    /\ t.acct \notin Listed(w) /\ wk[w].draft[t.acct] = "APPROVED"
Sound(w) == NoClash(w) /\ Claimed(w) /\ OneTurn(w) /\ Ticks(w)
Tracks ==
  \A t \in tracked : /\ t.msg \in redone \/ dec[t.msg][t.acct] = "APPROVED"
                     /\ t \in Losable \/ sig[t.msg] = t.fp
FInv == faults = 0 => /\ \A w \in Workers : Sound(w)
                      /\ Tracks /\ OrphansNeedAFault /\ RepostNotTraded
-----------------------------------------------------------------------------
(* What the steps do to the jobs.                                          *)
LEMMA FieldNames ==
  DOMAIN Idle = {"pc", "job", "seen", "locks", "del", "gates", "insert", "todo", "draft", "tick"}
  BY DEF Idle

(* Every step of a job is a step of that job only.                         *)
Alone(w) ==
  /\ wk' = [v \in Workers |-> wk'[v]] /\ DOMAIN wk'[w] = DOMAIN Idle
  /\ \A v \in Workers \ {w} : wk'[v] = wk[v]
SameJob(w) == wk'[w].job = wk[w].job /\ wk'[w].seen = wk[w].seen
SameRoute(w) == /\ wk'[w].gates = wk[w].gates /\ wk'[w].todo = wk[w].todo
                /\ wk'[w].draft = wk[w].draft /\ wk'[w].tick = wk[w].tick
Moves(w, p) == Alone(w) /\ SameJob(w) /\ wk'[w].pc = p

LEMMA BecomeStep ==
  ASSUME Local, NEW w \in Workers, NEW r, DOMAIN r = DOMAIN Idle, Become(w, r)
  PROVE  Alone(w) /\ wk'[w] = r
  BY DEF Local, Typed, Alone, Become

LEMMA GotoStep ==
  ASSUME Local, NEW w \in Workers, NEW p, Goto(w, p)
  PROVE  /\ Moves(w, p) /\ SameRoute(w)
         /\ wk'[w].locks = wk[w].locks /\ wk'[w].del = wk[w].del
  BY FieldNames DEF Local, Typed, Alone, Moves, SameJob, SameRoute, Goto

LEMMA ReadStep ==
  ASSUME Local, NEW w \in Workers, Read(w)
  PROVE  /\ Alone(w) /\ SameRoute(w) /\ wk'[w].pc = "write" /\ wk'[w].seen = row[Msg(w)]
         /\ wk'[w].job = wk[w].job /\ wk'[w].locks = wk[w].locks /\ wk'[w].del = wk[w].del
  BY FieldNames DEF Local, Typed, Alone, SameRoute, Read

LEMMA LockStep ==
  ASSUME Local, NEW w \in Workers, NEW l, NEW p,
         wk' = [wk EXCEPT ![w].locks = @ \union {l}, ![w].pc = p]
  PROVE  /\ Moves(w, p) /\ SameRoute(w)
         /\ wk'[w].locks = wk[w].locks \union {l} /\ wk'[w].del = wk[w].del
  BY FieldNames DEF Local, Typed, Alone, Moves, SameJob, SameRoute

LEMMA DeleteStep ==
  ASSUME Local, NEW w \in Workers, Delete(w)
  PROVE  /\ Moves(w, "flush") /\ SameRoute(w) /\ wk'[w].locks = wk[w].locks
         /\ wk'[w].del = {a \in Accounts : dec[Msg(w)][a] # "none"}
  BY FieldNames DEF Local, Typed, Alone, Moves, SameJob, SameRoute, Delete

Claims(w) == {<<"sig", Msg(w)>>, <<"fp", Hash(w)>>}
LEMMA FlushStep ==
  ASSUME Local, NEW w \in Workers, Flush(w), ~Rollback(w)
  PROVE  /\ Moves(w, "gate") /\ wk'[w].locks = wk[w].locks \union Claims(w)
         /\ wk'[w].gates = Accounts /\ wk'[w].todo = wk[w].todo /\ wk'[w].del = wk[w].del
         /\ wk'[w].draft = wk[w].draft /\ wk'[w].tick = wk[w].tick
         /\ ~Posted(Msg(w), Hash(w))
         /\ UNCHANGED <<stream, db, broker, history>>
  <1>1. /\ wk' = [wk EXCEPT ![w].locks = @ \union Claims(w), ![w].gates = Accounts, ![w].pc = "gate"]
        /\ ~Posted(Msg(w), Hash(w)) /\ UNCHANGED <<stream, db, broker, history>>
    BY DEF Flush, Claims
  <1> QED BY <1>1, FieldNames DEF Local, Typed, Alone, Moves, SameJob

(* A rejection before or after the daily row is locked.                    *)
Rejects(w) == GateReject(w) \/ \E a \in Accounts : GuardedReject(w, a)
Passes(w) == \E a \in Accounts : GatePass(w, a)

LEMMA RejectStep ==
  ASSUME Local, NEW w \in Workers, Rejects(w), ~Rollback(w)
  PROVE  \E a \in wk[w].gates, L \in SUBSET {<<"stat", b>> : b \in Accounts} :
           /\ Moves(w, "gate") /\ wk'[w].locks = wk[w].locks \union L /\ wk'[w].del = wk[w].del
           /\ \A l \in L : Free(w, l)
           /\ wk'[w].gates = wk[w].gates \ {a} /\ wk'[w].todo = wk[w].todo
           /\ wk'[w].draft = [wk[w].draft EXCEPT ![a] = "REJECTED"]
           /\ wk'[w].tick = wk[w].tick
           /\ UNCHANGED <<stream, db, broker, history>>
  <1>1. PICK a \in wk[w].gates, L \in SUBSET {<<"stat", b>> : b \in Accounts} :
          /\ \A l \in L : Free(w, l)
          /\ At(w, "gate") /\ RejectGated(w, a, L)
    BY DEF Rejects, GateReject, GuardedReject, GetsDay
  <1>2. /\ wk' = [wk EXCEPT ![w].gates = @ \ {a}, ![w].insert = {}, ![w].draft[a] = "REJECTED",
                            ![w].locks = @ \union L]
        /\ UNCHANGED <<stream, db, broker, history>>
    BY <1>1 DEF RejectGated
  <1>3. /\ Moves(w, "gate") /\ wk'[w].locks = wk[w].locks \union L /\ wk'[w].del = wk[w].del
        /\ wk'[w].gates = wk[w].gates \ {a} /\ wk'[w].todo = wk[w].todo
        /\ wk'[w].draft = [wk[w].draft EXCEPT ![a] = "REJECTED"]
        /\ wk'[w].tick = wk[w].tick
    BY <1>1, <1>2, FieldNames DEF Local, Typed, Alone, Moves, SameJob, At
  <1> QED BY <1>1, <1>2, <1>3

LEMMA MissDayStep ==
  ASSUME Local, NEW w \in Workers, MissDay(w)
  PROVE  /\ Moves(w, "gate") /\ SameRoute(w)
         /\ wk'[w].locks = wk[w].locks /\ wk'[w].del = wk[w].del /\ At(w, "gate")
         /\ wk[w].gates # {} /\ UNCHANGED <<stream, db, broker, history>>
  <1>1. PICK a \in wk[w].gates \ days : wk' = [wk EXCEPT ![w].insert = {a}]
    BY DEF MissDay
  <1> QED BY <1>1, FieldNames DEF Local, Typed, Alone, Moves, SameJob, SameRoute, MissDay, At

LEMMA GatePassStep ==
  ASSUME Local, NEW w \in Workers, Passes(w)
  PROVE  \E a \in wk[w].gates :
           /\ Moves(w, "gate") /\ wk'[w].locks = wk[w].locks \union {<<"stat", a>>}
           /\ wk'[w].gates = wk[w].gates \ {a} /\ wk'[w].todo = Append(wk[w].todo, a)
           /\ wk'[w].draft = wk[w].draft /\ wk'[w].tick = wk[w].tick
           /\ wk'[w].del = wk[w].del /\ Free(w, <<"stat", a>>) /\ At(w, "gate")
           /\ UNCHANGED <<stream, db, broker, history>>
  <1>1. PICK a \in wk[w].gates :
          /\ Free(w, <<"stat", a>>) /\ At(w, "gate")
          /\ wk' = [wk EXCEPT ![w].gates = @ \ {a}, ![w].insert = {}, ![w].todo = Append(@, a),
                              ![w].locks = @ \union {<<"stat", a>>}]
          /\ UNCHANGED <<stream, db, broker, history>>
    BY DEF Passes, GatePass, GetsDay
  <1> QED BY <1>1, FieldNames DEF Local, Typed, Alone, Moves, SameJob, At

LEMMA DecideStep ==
  ASSUME Local, NEW w \in Workers, NEW d, NEW T, Decide(w, d, T)
  PROVE  /\ Moves(w, "gate") /\ wk'[w].locks = wk[w].locks /\ wk'[w].del = wk[w].del
         /\ wk'[w].gates = wk[w].gates /\ wk'[w].todo = Tail(wk[w].todo)
         /\ wk'[w].draft = [wk[w].draft EXCEPT ![Here(w)] = d]
         /\ wk'[w].tick = wk[w].tick \union T
  BY FieldNames DEF Local, Typed, Alone, Moves, SameJob, Decide

(* An order that is there is planned, or behind it the handler is left.    *)
Drops(w) == Become(w, Idle) /\ raised' = raised \union {Msg(w)}
LEMMA PlannedStep ==
  ASSUME NEW w \in Workers, NEW t, Planned(w, t)
  PROVE  Drops(w) \/ (Decide(w, "APPROVED", {t}) /\ UNCHANGED raised)
  BY DEF Planned, Drops
-----------------------------------------------------------------------------
LEMMA FeedFacts ==
  /\ Len(Feed) \in Nat /\ DOMAIN Feed = 1..Len(Feed)
  /\ \A j \in DOMAIN Feed : Feed[j].msg \in Msgs /\ Feed[j].edited \in BOOLEAN
  <1> DEFINE Events == [msg : Msgs, body : {Feed[j].body : j \in DOMAIN Feed}, edited : BOOLEAN]
  <1>1. Feed \in Seq(Events)
    BY SignalAssumption
  <1>2. \A e \in Events : e.msg \in Msgs /\ e.edited \in BOOLEAN
    OBVIOUS
  <1> HIDE DEF Events
  <1> QED BY <1>1, <1>2, LenProperties, ElementOfSeq

LEMMA JobFacts ==
  ASSUME TInv, NEW w \in Workers, wk[w].job # 0
  PROVE  /\ wk[w].job \in DOMAIN Feed /\ wk[w].job \in 1..Len(Feed)
         /\ Msg(w) \in Msgs /\ Edited(w) \in BOOLEAN /\ Hash(w) \in Hashes
         /\ Feed[wk[w].job].body \in {Feed[j].body : j \in DOMAIN Feed}
  <1>1. wk[w].job \in 1..Len(Feed) /\ wk[w].job \in DOMAIN Feed
    <2>1. wk[w].job \in 0..delivered /\ delivered \in 0..Len(Feed)
      BY DEF TInv, TypeOK, Local, Typed
    <2> QED BY <2>1, FeedFacts
  <1> QED BY <1>1, FeedFacts DEF Msg, Edited, Hash, Hashes

(* A row that is written is a row.                                         *)
LEMMA MineTyped ==
  ASSUME TInv, NEW w \in Workers, wk[w].job # 0
  PROVE  Mine(w) \in Rows
  <1>1. wk[w].seen # None => wk[w].seen.edit \in 0..Len(Feed)
    BY DEF TInv, Local, Typed, Rows
  <1>2. /\ wk[w].job \in 0..Len(Feed) /\ Feed[wk[w].job].body \in {Feed[j].body : j \in DOMAIN Feed}
    BY JobFacts, SignalAssumption
  <1>3. CASE wk[w].seen = None
    BY <1>2, <1>3, SignalAssumption DEF Mine, Rows
  <1>4. CASE wk[w].seen # None
    BY <1>1, <1>2, <1>4, SignalAssumption DEF Mine, Rows
  <1> QED BY <1>3, <1>4

(* Only the row of the job's message is written, and it is not emptied.    *)
LEMMA RowWrittenFacts ==
  ASSUME TInv, NEW w \in Workers, wk[w].job # 0
  PROVE  /\ RowWritten(w) \in [Msgs -> Rows \union {None}]
         /\ RowWritten(w)[Msg(w)] \in Rows
         /\ \A m \in Msgs \ {Msg(w)} : RowWritten(w)[m] = row[m]
  <1> DEFINE seen == wk[w].seen
             old == row[Msg(w)]
             new == IF seen = None THEN Mine(w)
                    ELSE [x \in DOMAIN seen |-> IF Mine(w)[x] = seen[x] THEN old[x] ELSE Mine(w)[x]]
  <1>1. RowWritten(w) = [row EXCEPT ![Msg(w)] = new] /\ row \in [Msgs -> Rows \union {None}] /\ Msg(w) \in Msgs
    BY JobFacts DEF RowWritten, TInv, TypeOK
  <1>2. Mine(w) \in Rows
    BY MineTyped
  <1>3. CASE seen = None
    BY <1>1, <1>2, <1>3
  <1>4. CASE seen # None
    <2>1. old \in Rows /\ seen \in Rows
      BY <1>1, <1>4 DEF TInv, Local, Typed
    <2>2. DOMAIN seen = {"body", "kind", "edit"}
      BY <2>1 DEF Rows
    <2>3. /\ new = [body |-> new.body, kind |-> new.kind, edit |-> new.edit]
          /\ new.body \in {old.body, Mine(w).body} /\ new.kind \in {old.kind, Mine(w).kind}
          /\ new.edit \in {old.edit, Mine(w).edit}
      BY <1>4, <2>2
    <2>4. new \in Rows
      BY <1>2, <2>1, <2>3 DEF Rows
    <2> QED BY <1>1, <2>4
  <1> QED BY <1>3, <1>4

LEMMA OthersTyped ==
  ASSUME TInv, NEW w \in Workers, Alone(w), Typed(w)', delivered' \in Nat, delivered <= delivered',
         orders \subseteq orders', \A m \in Msgs : row[m] # None => row'[m] # None
  PROVE  Local'
  <1>1. ASSUME NEW v \in Workers \ {w} PROVE Typed(v)'
    <2>1. wk'[v] = wk[v] /\ Typed(v)
      BY DEF Alone, TInv, Local
    <2>2. delivered \in Nat
      BY FeedFacts DEF TInv, TypeOK
    <2>3. wk[v].job \in 0..delivered'
      BY <2>1, <2>2 DEF Typed
    <2>4. wk[v].seen # None => row'[Msg(v)] # None
      BY <2>1, JobFacts DEF Typed
    <2>5. Msg(v)' = Msg(v)
      BY <2>1 DEF Msg
    <2> QED BY <2>1, <2>3, <2>4, <2>5 DEF Typed
  <1> QED BY <1>1 DEF Local, Alone

(* A step that leaves the stream, the database and the broker alone.       *)
LEMMA InnerTyped ==
  ASSUME TInv, NEW w \in Workers, Alone(w), Typed(w)', UNCHANGED <<stream, db, broker>>, Recorded'
  PROVE  TInv'
  <1>1. Local'
    BY OthersTyped, FeedFacts DEF TInv, TypeOK, stream, db, broker
  <1>2. (\A v \in Workers :
           /\ wk[v].job \in 0..delivered /\ wk[v].tick \subseteq orders
           /\ At(v, "idle") <=> wk[v].job = 0)'
    BY <1>1 DEF Local, Typed, At
  <1> QED BY <1>1, <1>2 DEF TInv, TypeOK, Recorded, stream, db, broker

LEMMA StillRecorded ==
  ASSUME TInv, UNCHANGED history
  PROVE  Recorded'
  BY DEF TInv, TypeOK, Recorded, history

LEMMA IdleTyped ==
  ASSUME NEW w \in Workers, wk'[w] = Idle, delivered' \in Nat
  PROVE  Typed(w)'
  <1>1. /\ wk'[w].pc = "idle" /\ wk'[w].job = 0 /\ wk'[w].seen = None /\ wk'[w].gates = {}
        /\ wk'[w].todo = <<>> /\ wk'[w].tick = {} /\ wk'[w].draft = [a \in Accounts |-> "none"]
    BY DEF Idle
  <1>2. DOMAIN wk'[w] = DOMAIN Idle /\ wk'[w].draft \in [Accounts -> Decisions]
    BY <1>1 DEF Decisions
  <1>3. <<>> \in Seq(Accounts)
    BY EmptySeq
  <1> QED BY <1>1, <1>2, <1>3 DEF Typed, Pcs

(* The job of w is done: its events are acknowledged next.                 *)
LEMMA DoneTyped ==
  ASSUME NEW w \in Workers, wk'[w] = [Idle EXCEPT !.pc = "ack", !.job = wk[w].job],
         wk[w].job \in 1..delivered', delivered' \in Nat
  PROVE  Typed(w)'
  <1>1. /\ wk'[w].pc = "ack" /\ wk'[w].job = wk[w].job /\ wk'[w].seen = None /\ wk'[w].gates = {}
        /\ wk'[w].todo = <<>> /\ wk'[w].tick = {} /\ wk'[w].draft = [a \in Accounts |-> "none"]
    BY FieldNames DEF Idle
  <1>2. DOMAIN wk'[w] = DOMAIN Idle /\ wk'[w].draft \in [Accounts -> Decisions]
    BY <1>1 DEF Decisions
  <1>3. <<>> \in Seq(Accounts)
    BY EmptySeq
  <1>4. wk'[w].job \in 0..delivered' /\ wk'[w].job # 0
    BY <1>1
  <1> QED BY <1>1, <1>2, <1>3, <1>4 DEF Typed, Pcs

LEMMA BegunTyped ==
  ASSUME NEW w \in Workers, NEW j, wk'[w] = [Idle EXCEPT !.pc = "read", !.job = j],
         j \in 1..delivered', delivered' \in Nat
  PROVE  Typed(w)'
  <1>1. /\ wk'[w].pc = "read" /\ wk'[w].job = j /\ wk'[w].seen = None /\ wk'[w].gates = {}
        /\ wk'[w].todo = <<>> /\ wk'[w].tick = {} /\ wk'[w].draft = [a \in Accounts |-> "none"]
    BY FieldNames DEF Idle
  <1>2. DOMAIN wk'[w] = DOMAIN Idle /\ wk'[w].draft \in [Accounts -> Decisions]
    BY <1>1 DEF Decisions
  <1>3. <<>> \in Seq(Accounts)
    BY EmptySeq
  <1>4. wk'[w].job \in 0..delivered' /\ wk'[w].job # 0
    BY <1>1
  <1> QED BY <1>1, <1>2, <1>3, <1>4 DEF Typed, Pcs

LEMMA RollbackTyped ==
  ASSUME TInv, NEW w \in Workers, Rollback(w)
  PROVE  TInv'
  <1>1. Alone(w) /\ wk'[w] = Idle
    BY BecomeStep DEF Rollback, TInv
  <1>2. UNCHANGED <<stream, db, broker, history>> /\ delivered' \in Nat
    BY FeedFacts DEF Rollback, stream, TInv, TypeOK
  <1> QED BY <1>1, <1>2, IdleTyped, InnerTyped, StillRecorded

LEMMA CommitRowTyped ==
  ASSUME TInv, NEW w \in Workers, wk[w].job # 0, CommitRow(w)
  PROVE  TInv'
  <1>1. Alone(w) /\ wk'[w] = [Idle EXCEPT !.pc = "ack", !.job = wk[w].job]
    <2>1. DOMAIN [Idle EXCEPT !.pc = "ack", !.job = wk[w].job] = DOMAIN Idle
      OBVIOUS
    <2> QED BY <2>1, BecomeStep DEF CommitRow, TInv
  <1>2. /\ row' = RowWritten(w) /\ UNCHANGED <<stream, sig, dec, tracked, days, broker, history>>
    BY DEF CommitRow
  <1>3. /\ row' \in [Msgs -> Rows \union {None}]
        /\ \A m \in Msgs : row[m] # None => row'[m] # None
    BY <1>2, RowWrittenFacts, SignalAssumption
  <1>4. Typed(w)'
    <2>1. wk[w].job \in 1..delivered' /\ delivered' \in Nat
      BY <1>2, FeedFacts DEF TInv, TypeOK, Local, Typed, stream
    <2> QED BY <1>1, <2>1, DoneTyped
  <1>5. Local'
    BY <1>1, <1>2, <1>3, <1>4, OthersTyped, FeedFacts DEF TInv, TypeOK, stream, broker
  <1>6. (\A v \in Workers :
           /\ wk[v].job \in 0..delivered /\ wk[v].tick \subseteq orders
           /\ At(v, "idle") <=> wk[v].job = 0)'
    BY <1>5 DEF Local, Typed, At
  <1> QED BY <1>2, <1>3, <1>5, <1>6 DEF TInv, TypeOK, stream, broker, history

(* A step within the handler.                                              *)
LEMMA MovesTyped ==
  ASSUME TInv, NEW w \in Workers, NEW p, Moves(w, p), p \in Pcs \ {"idle"}, wk[w].job # 0,
         UNCHANGED <<stream, db>>, p = "check" => wk[w].seen # None,
         wk'[w].gates \subseteq Accounts, wk'[w].todo \in Seq(Accounts),
         wk'[w].draft \in [Accounts -> Decisions], wk'[w].tick \subseteq orders',
         p \in {"place", "rescan"} => wk'[w].gates = {} /\ wk'[w].todo # <<>>
  PROVE  Typed(w)'
  <1>1. /\ DOMAIN wk'[w] = DOMAIN Idle /\ wk'[w].pc = p /\ wk'[w].job = wk[w].job
        /\ wk'[w].seen = wk[w].seen
    BY DEF Moves, Alone, SameJob
  <1>2. Typed(w)
    BY DEF TInv, Local
  <1>3. Msg(w)' = Msg(w) /\ row' = row /\ delivered' = delivered
    BY <1>1 DEF Msg, stream, db
  <1> QED BY <1>1, <1>2, <1>3 DEF Typed

LEMMA Working ==
  ASSUME TInv, NEW w \in Workers
  PROVE  /\ ~At(w, "idle") => wk[w].job # 0
         /\ wk[w].gates \subseteq Accounts /\ wk[w].todo \in Seq(Accounts)
         /\ wk[w].draft \in [Accounts -> Decisions] /\ wk[w].tick \subseteq orders
         /\ wk[w].pc \in {"place", "rescan"} => wk[w].gates = {} /\ wk[w].todo # <<>>
         /\ At(w, "check") => wk[w].seen # None
         /\ faults \in 0..MaxFaults
         /\ UNCHANGED history => Recorded'
  BY StillRecorded DEF TInv, TypeOK, Local, Typed, At

LEMMA GotoTyped ==
  ASSUME TInv, NEW w \in Workers, NEW p, Moves(w, p), SameRoute(w), p \in Pcs \ {"idle"},
         ~At(w, "idle"), UNCHANGED <<stream, db, broker>>, Recorded',
         p = "check" => wk[w].seen # None,
         p \in {"place", "rescan"} => wk[w].gates = {} /\ wk[w].todo # <<>>
  PROVE  TInv'
  <1>1. Typed(w)'
    BY Working, MovesTyped DEF SameRoute, broker
  <1> QED BY <1>1, Working, InnerTyped DEF Moves

(* Here(w) is an account that had passed its gates.                        *)
LEMMA HereFacts ==
  ASSUME TInv, NEW w \in Workers, wk[w].todo # <<>>
  PROVE  /\ Here(w) \in Accounts /\ Here(w) = wk[w].todo[1] /\ 1 \in DOMAIN wk[w].todo
         /\ Tail(wk[w].todo) \in Seq(Accounts)
         /\ DOMAIN Tail(wk[w].todo) = 1..(Len(wk[w].todo) - 1) /\ Len(wk[w].todo) \in Nat \ {0}
         /\ DOMAIN wk[w].todo = 1..Len(wk[w].todo)
         /\ \A i \in DOMAIN Tail(wk[w].todo) :
              i + 1 \in DOMAIN wk[w].todo /\ Tail(wk[w].todo)[i] = wk[w].todo[i + 1]
  BY Working, HeadTailProperties, LenProperties DEF Here

LEMMA DecideTyped ==
  ASSUME TInv, NEW w \in Workers, NEW d \in Decisions, NEW T, Decide(w, d, T),
         wk[w].todo # <<>>, ~At(w, "idle"), T \subseteq orders', orders \subseteq orders',
         UNCHANGED <<stream, db>>
  PROVE  Typed(w)' /\ Alone(w)
  <1>1. /\ Moves(w, "gate") /\ wk'[w].gates = wk[w].gates /\ wk'[w].todo = Tail(wk[w].todo)
        /\ wk'[w].draft = [wk[w].draft EXCEPT ![Here(w)] = d]
        /\ wk'[w].tick = wk[w].tick \union T
    BY DecideStep DEF TInv
  <1>2. /\ wk'[w].gates \subseteq Accounts /\ wk'[w].todo \in Seq(Accounts)
        /\ wk'[w].draft \in [Accounts -> Decisions] /\ wk'[w].tick \subseteq orders'
    BY <1>1, Working, HereFacts
  <1>3. "gate" \in Pcs \ {"idle"}
    BY DEF Pcs
  <1> QED BY <1>1, <1>2, <1>3, MovesTyped, Working DEF Moves

LEMMA NewOrderFacts ==
  ASSUME TInv, NEW w \in Workers, Looks(w), NEW part \in BOOLEAN
  PROVE  /\ NewOrder(w, part) \in Tickets /\ wk[w].todo # <<>> /\ wk[w].job # 0 /\ ~At(w, "idle")
         /\ NewOrder(w, part).part = part
         /\ NewOrder(w, part).msg = Msg(w) /\ NewOrder(w, part).acct = Here(w) /\ NewOrder(w, part).fp = Hash(w)
  <1>1. wk[w].todo # <<>> /\ wk[w].job # 0 /\ ~At(w, "idle")
    BY Working DEF At, Looks
  <1>2. Cardinality(Of(orders, Msg(w), Here(w))) \in Nat
    <2>1. Of(orders, Msg(w), Here(w)) \subseteq orders
      BY DEF Of
    <2> QED BY <2>1, FS_Subset, FS_CardinalityType DEF TInv
  <1>3. Msg(w) \in Msgs /\ Here(w) \in Accounts /\ Hash(w) \in Hashes
    BY <1>1, JobFacts, HereFacts
  <1> QED BY <1>1, <1>2, <1>3 DEF NewOrder, Tickets

LEMMA SentTyped ==
  ASSUME TInv, NEW w \in Workers, Looks(w), NEW part \in BOOLEAN, Sends(w, NewOrder(w, part)),
         Typed(w)', Alone(w), UNCHANGED <<stream, db>>, Recorded'
  PROVE  TInv'
  <1>1. NewOrder(w, part) \in Tickets
    BY NewOrderFacts
  <1>2. IsFiniteSet(orders') /\ orders' \subseteq Tickets /\ live' \subseteq orders'
        /\ tracked' \subseteq orders'
    BY <1>1, FS_AddElement DEF TInv, TypeOK, db, Sends
  <1>3. Local'
    BY OthersTyped, FeedFacts DEF TInv, TypeOK, stream, db, Sends
  <1>4. (\A v \in Workers :
           /\ wk[v].job \in 0..delivered /\ wk[v].tick \subseteq orders
           /\ At(v, "idle") <=> wk[v].job = 0)'
    BY <1>3 DEF Local, Typed, At
  <1> QED BY <1>2, <1>3, <1>4 DEF TInv, TypeOK, Recorded, stream, db

LEMMA TakeTyped ==
  ASSUME TInv, NEW w \in Workers, Take(w)
  PROVE  TInv'
  <1>1. PICK j \in DOMAIN Feed :
          /\ \/ j = delivered + 1 /\ delivered' = j
             \/ j \in unacked /\ delivered' = delivered
          /\ unacked' = unacked \union {j}
          /\ Become(w, [Idle EXCEPT !.pc = "read", !.job = j])
    BY DEF Take
  <1>2. Alone(w) /\ wk'[w] = [Idle EXCEPT !.pc = "read", !.job = j]
    <2>1. DOMAIN [Idle EXCEPT !.pc = "read", !.job = j] = DOMAIN Idle
      OBVIOUS
    <2> QED BY <1>1, <2>1, BecomeStep DEF TInv
  <1>3. UNCHANGED <<row, sig, dec, tracked, days, orders, live, faults, raised, redone>>
    BY DEF Take, db, broker, history
  <1>4. /\ delivered \in Nat /\ delivered' \in 0..Len(Feed) /\ delivered <= delivered'
        /\ j \in 1..delivered' /\ unacked' \subseteq 1..delivered'
    BY <1>1, FeedFacts DEF TInv, TypeOK
  <1>5. Typed(w)'
    <2>1. delivered' \in Nat
      BY <1>4, FeedFacts
    <2> QED BY <1>2, <1>4, <2>1, BegunTyped
  <1>6. Local'
    BY <1>2, <1>3, <1>4, <1>5, FeedFacts, OthersTyped
  <1>7. (\A v \in Workers :
           /\ wk[v].job \in 0..delivered /\ wk[v].tick \subseteq orders
           /\ At(v, "idle") <=> wk[v].job = 0)'
    BY <1>6 DEF Local, Typed, At
  <1> QED BY <1>3, <1>4, <1>6, <1>7 DEF TInv, TypeOK

LEMMA CommitTyped ==
  ASSUME TInv, NEW w \in Workers, Commit(w), ~Rollback(w)
  PROVE  TInv'
  <1>1. /\ row' = IF Mine(w) = wk[w].seen THEN row ELSE RowWritten(w)
        /\ sig' = [sig EXCEPT ![Msg(w)] = Hash(w)]
        /\ dec' = [dec EXCEPT ![Msg(w)] = wk[w].draft]
        /\ tracked' = tracked \union wk[w].tick
        /\ days' = days \union {a \in Accounts : <<"stat", a>> \in wk[w].locks}
        /\ Become(w, [Idle EXCEPT !.pc = "ack", !.job = wk[w].job])
        /\ UNCHANGED <<stream, broker, history>>
    BY DEF Commit
  <1>2. wk[w].job # 0 /\ wk[w].draft \in [Accounts -> Decisions] /\ wk[w].tick \subseteq orders
    BY Working DEF Commit, At
  <1>3. Alone(w) /\ wk'[w] = [Idle EXCEPT !.pc = "ack", !.job = wk[w].job]
    <2>1. DOMAIN [Idle EXCEPT !.pc = "ack", !.job = wk[w].job] = DOMAIN Idle
      OBVIOUS
    <2> QED BY <1>1, <2>1, BecomeStep DEF TInv
  <1>4. /\ row' \in [Msgs -> Rows \union {None}]
        /\ \A m \in Msgs : row[m] # None => row'[m] # None
    BY <1>1, <1>2, RowWrittenFacts, SignalAssumption DEF TInv, TypeOK
  <1>5. sig' \in [Msgs -> Hashes \union {None}] /\ dec' \in [Msgs -> [Accounts -> Decisions]]
    BY <1>1, <1>2, JobFacts DEF TInv, TypeOK
  <1>6. Typed(w)'
    <2>1. wk[w].job \in 1..delivered' /\ delivered' \in Nat
      BY <1>1, <1>2, FeedFacts DEF TInv, TypeOK, Local, Typed, stream
    <2> QED BY <1>3, <2>1, DoneTyped
  <1>7. Local'
    BY <1>1, <1>3, <1>4, <1>6, OthersTyped, FeedFacts DEF TInv, TypeOK, stream, broker
  <1>8. (\A v \in Workers :
           /\ wk[v].job \in 0..delivered /\ wk[v].tick \subseteq orders
           /\ At(v, "idle") <=> wk[v].job = 0)'
    BY <1>7 DEF Local, Typed, At
  <1>9. days' \subseteq Accounts
    BY <1>1 DEF TInv, TypeOK
  <1> QED BY <1>1, <1>2, <1>4, <1>5, <1>7, <1>8, <1>9 DEF TInv, TypeOK, stream, broker, history

LEMMA AckTyped ==
  ASSUME TInv, NEW w \in Workers, Ack(w)
  PROVE  TInv'
  <1>1. Alone(w) /\ wk'[w] = Idle
    BY BecomeStep DEF Ack, TInv
  <1>2. /\ unacked' = unacked \ {wk[w].job}
        /\ UNCHANGED <<delivered, row, sig, dec, tracked, days, orders, live, faults, raised, redone>>
    BY DEF Ack, db, broker, history
  <1>3. Local'
    <2>1. delivered' \in Nat /\ delivered <= delivered'
      BY <1>2, FeedFacts DEF TInv, TypeOK
    <2> QED BY <1>1, <1>2, <2>1, IdleTyped, OthersTyped
  <1>4. (\A v \in Workers :
           /\ wk[v].job \in 0..delivered /\ wk[v].tick \subseteq orders
           /\ At(v, "idle") <=> wk[v].job = 0)'
    BY <1>3 DEF Local, Typed, At
  <1> QED BY <1>2, <1>3, <1>4 DEF TInv, TypeOK

LEMMA InitTyped == Init => TInv
  <1> SUFFICES ASSUME Init PROVE TInv
    OBVIOUS
  <1>1. /\ wk = [w \in Workers |-> Idle] /\ delivered = 0 /\ unacked = {} /\ orders = {}
        /\ live = {} /\ tracked = {} /\ faults = 0 /\ raised = {} /\ redone = {}
        /\ days \subseteq Accounts
    BY DEF Init
  <1>2. Idle.pc = "idle" /\ Idle.job = 0 /\ Idle.seen = None /\ Idle.gates = {} /\ Idle.tick = {}
        /\ Idle.todo = <<>> /\ Idle.draft = [a \in Accounts |-> "none"]
    BY DEF Idle
  <1>3. \A w \in Workers : wk[w] = Idle
    BY <1>1
  <1>4. <<>> \in Seq(Accounts) /\ Idle.draft \in [Accounts -> Decisions]
    BY <1>2, EmptySeq DEF Decisions
  <1>5. Local
    <2>1. ASSUME NEW w \in Workers PROVE Typed(w)
      <3>1. /\ wk[w].pc = "idle" /\ wk[w].job = 0 /\ wk[w].seen = None /\ wk[w].gates = {}
            /\ wk[w].tick = {} /\ wk[w].todo = <<>> /\ wk[w].draft = Idle.draft
            /\ DOMAIN wk[w] = DOMAIN Idle
        BY <1>2, <1>3
      <3>2. 0 \in 0..delivered
        BY <1>1
      <3> QED BY <1>4, <3>1, <3>2 DEF Typed, Pcs
    <2>2. wk = [w \in Workers |-> wk[w]]
      BY <1>1
    <2> QED BY <2>1, <2>2 DEF Local
  <1>6. IsFiniteSet(orders)
    BY <1>1, FS_EmptySet
  <1>7. /\ row \in [Msgs -> Rows \union {None}] /\ sig \in [Msgs -> Hashes \union {None}]
        /\ dec \in [Msgs -> [Accounts -> Decisions]]
    BY DEF Init, Decisions
  <1>8. \A w \in Workers : /\ wk[w].job \in 0..delivered /\ wk[w].tick \subseteq orders
                           /\ At(w, "idle") <=> wk[w].job = 0
    BY <1>5 DEF Local, Typed, At
  <1> QED BY <1>1, <1>5, <1>6, <1>7, <1>8, FeedFacts, SignalAssumption DEF TInv, TypeOK

LEMMA PlannedTyped ==
  ASSUME TInv, NEW w \in Workers, NEW t, Looks(w), Planned(w, t), {t} \subseteq orders',
         orders \subseteq orders', UNCHANGED <<stream, db, faults, redone>>
  PROVE  Typed(w)' /\ Alone(w) /\ Recorded'
  <1>1. wk[w].todo # <<>> /\ ~At(w, "idle") /\ "APPROVED" \in Decisions /\ wk[w].job # 0
    BY Working DEF Looks, At, Decisions
  <1>2. CASE Drops(w)
    <2>1. Alone(w) /\ wk'[w] = Idle /\ delivered' \in Nat
      BY <1>2, BecomeStep, FeedFacts DEF Drops, TInv, TypeOK, stream
    <2>2. Recorded'
      BY <1>1, <1>2, JobFacts DEF Drops, TInv, TypeOK, Recorded
    <2> QED BY <2>1, <2>2, IdleTyped
  <1>3. CASE Decide(w, "APPROVED", {t}) /\ UNCHANGED raised
    BY <1>1, <1>3, DecideTyped DEF Recorded, TInv, TypeOK
  <1> QED BY <1>2, <1>3, PlannedStep

(* One step per action: who moves within the handler, who leaves it.       *)
Steps(w) == Work(w) \/ Chance(w)
LEMMA StepTyped ==
  ASSUME TInv, NEW w \in Workers, Steps(w)
  PROVE  TInv'
  <1> USE DEF TInv
  <1>0. "read" \in Pcs /\ "write" \in Pcs /\ "check" \in Pcs /\ "lookup" \in Pcs /\ "flush" \in Pcs
        /\ "delete" \in Pcs /\ "gate" \in Pcs /\ "place" \in Pcs
    BY DEF Pcs
  <1>1. CASE Take(w)
    BY <1>1, TakeTyped
  <1>2. CASE Read(w)
    <2>1. /\ Alone(w) /\ SameRoute(w) /\ wk'[w].pc = "write" /\ wk'[w].seen = row[Msg(w)]
          /\ wk'[w].job = wk[w].job /\ UNCHANGED <<stream, db, broker, history>>
      BY <1>2, ReadStep DEF Read
    <2>2. wk[w].job # 0 /\ row[Msg(w)] \in Rows \union {None}
      BY <1>2, Working, JobFacts DEF Read, At, TypeOK
    <2>3. Msg(w)' = Msg(w) /\ row' = row /\ delivered' = delivered /\ orders' = orders
      BY <2>1 DEF Msg, db, stream, broker
    <2>4. Typed(w)'
      <3>1. DOMAIN wk'[w] = DOMAIN Idle /\ Typed(w)
        BY <2>1 DEF Alone, Local
      <3> QED BY <1>0, <2>1, <2>2, <2>3, <3>1 DEF Typed, SameRoute
    <2> QED BY <2>1, <2>4, InnerTyped, Working
  <1>3. CASE Insert(w)
    <2>1. CASE Rollback(w)
      BY <2>1, RollbackTyped
    <2>2. CASE ~Rollback(w)
      <3>1. /\ wk' = [wk EXCEPT ![w].locks = @ \union {<<"msg", Msg(w)>>}, ![w].pc = "lookup"]
            /\ UNCHANGED <<stream, db, broker, history>> /\ ~At(w, "idle")
        BY <1>3, <2>2 DEF Insert, At
      <3>2. Moves(w, "lookup") /\ SameRoute(w)
        BY <3>1, LockStep
      <3> QED BY <1>0, <3>1, <3>2, GotoTyped, StillRecorded
    <2> QED BY <2>1, <2>2
  <1>4. CASE Update(w)
    <2>1. wk[w].seen # None /\ ~At(w, "idle") /\ UNCHANGED <<stream, db, broker, faults, raised>>
      BY <1>4 DEF Update, At
    <2>2. Moves(w, "check") /\ SameRoute(w)
      <3>1. CASE Goto(w, "check")
        BY <3>1, GotoStep
      <3>2. CASE wk' = [wk EXCEPT ![w].locks = @ \union {<<"msg", Msg(w)>>}, ![w].pc = "check"]
        BY <3>2, LockStep
      <3> QED BY <1>4, <3>1, <3>2 DEF Update
    <2>3. Recorded'
      <3>1. redone' \in {redone, redone \union {Msg(w)}}
        BY <1>4 DEF Update
      <3> QED BY <2>1, <3>1, Working, JobFacts DEF TypeOK, Recorded
    <2> QED BY <1>0, <2>1, <2>2, <2>3, GotoTyped
  <1>5. CASE Check(w)
    <2>1. wk[w].job # 0 /\ ~At(w, "idle")
      BY <1>5, Working DEF Check, At
    <2>2. CASE CommitRow(w)
      BY <2>1, <2>2, CommitRowTyped
    <2>3. CASE Goto(w, "lookup") /\ UNCHANGED <<stream, db, broker, history>>
      BY <1>0, <2>1, <2>3, GotoStep, GotoTyped, StillRecorded
    <2> QED BY <1>5, <2>2, <2>3 DEF Check
  <1>6. CASE Lookup(w)
    <2>1. wk[w].job # 0 /\ ~At(w, "idle")
      BY <1>6, Working DEF Lookup, At
    <2>2. CASE CommitRow(w)
      BY <2>1, <2>2, CommitRowTyped
    <2>3. CASE /\ Goto(w, IF sig[Msg(w)] # None THEN "delete" ELSE "flush")
               /\ UNCHANGED <<stream, db, broker, history>>
      BY <1>0, <2>1, <2>3, GotoStep, GotoTyped, StillRecorded
    <2> QED BY <1>6, <2>2, <2>3 DEF Lookup
  <1>7. CASE Delete(w)
    BY <1>0, <1>7, DeleteStep, GotoTyped, StillRecorded DEF Delete, At
  <1>8. CASE Flush(w)
    <2>1. CASE Rollback(w)
      BY <2>1, RollbackTyped
    <2>2. CASE ~Rollback(w)
      <3>1. /\ Moves(w, "gate") /\ wk'[w].gates = Accounts /\ wk'[w].todo = wk[w].todo
            /\ wk'[w].draft = wk[w].draft /\ wk'[w].tick = wk[w].tick
            /\ UNCHANGED <<stream, db, broker, history>> /\ wk[w].job # 0
        BY <1>8, <2>2, FlushStep, Working DEF Flush, At
      <3>2. Typed(w)'
        BY <1>0, <3>1, Working, MovesTyped DEF broker
      <3> QED BY <3>1, <3>2, Working, InnerTyped DEF Moves
    <2> QED BY <2>1, <2>2
  <1>9. CASE Rejects(w)
    <2>1. CASE Rollback(w)
      BY <2>1, RollbackTyped
    <2>2. CASE ~Rollback(w)
      <3>1. PICK a \in wk[w].gates :
              /\ Moves(w, "gate") /\ wk'[w].gates = wk[w].gates \ {a}
              /\ wk'[w].todo = wk[w].todo /\ wk'[w].tick = wk[w].tick
              /\ wk'[w].draft = [wk[w].draft EXCEPT ![a] = "REJECTED"]
              /\ UNCHANGED <<stream, db, broker, history>>
        BY <1>9, <2>2, RejectStep
      <3>2. wk[w].job # 0 /\ wk'[w].draft \in [Accounts -> Decisions]
        <4>1. ~At(w, "idle")
          BY <1>9 DEF Rejects, GateReject, GuardedReject, GetsDay, At
        <4> QED BY <3>1, <4>1, Working DEF Decisions
      <3>3. Typed(w)'
        BY <1>0, <3>1, <3>2, Working, MovesTyped DEF broker
      <3> QED BY <3>1, <3>3, Working, InnerTyped DEF Moves
    <2> QED BY <2>1, <2>2
  <1>10. CASE Passes(w)
    <2>1. PICK a \in wk[w].gates :
            /\ Moves(w, "gate") /\ wk'[w].gates = wk[w].gates \ {a}
            /\ wk'[w].todo = Append(wk[w].todo, a) /\ wk'[w].tick = wk[w].tick
            /\ wk'[w].draft = wk[w].draft /\ At(w, "gate")
            /\ UNCHANGED <<stream, db, broker, history>>
      BY <1>10, GatePassStep
    <2>2. wk[w].job # 0 /\ wk'[w].todo \in Seq(Accounts)
      <3>1. a \in Accounts /\ wk[w].todo \in Seq(Accounts)
        BY Working
      <3>2. Append(wk[w].todo, a) \in Seq(Accounts)
        BY <3>1, AppendProperties
      <3> QED BY <2>1, <3>2, Working DEF At
    <2>3. Typed(w)'
      BY <1>0, <2>1, <2>2, Working, MovesTyped DEF broker
    <2> QED BY <2>1, <2>2, <2>3, Working, InnerTyped DEF Moves
  <1>11. CASE MissDay(w)
    <2>1. /\ Moves(w, "gate") /\ SameRoute(w) /\ ~At(w, "idle")
          /\ UNCHANGED <<stream, db, broker, history>>
      BY <1>11, MissDayStep DEF At
    <2> QED BY <1>0, <2>1, GotoTyped, Working
  <1>12. CASE GuardReject(w) \/ PlaceError(w)
    <2>1. /\ Decide(w, "REJECTED", {}) /\ "REJECTED" \in Decisions /\ ~At(w, "idle")
          /\ wk[w].todo # <<>> /\ UNCHANGED <<stream, db, broker, history>>
      BY <1>12, Working DEF GuardReject, PlaceError, Turn, Looks, At, Decisions
    <2>2. Typed(w)' /\ Alone(w)
      BY <2>1, DecideTyped DEF broker
    <2> QED BY <2>1, <2>2, Working, InnerTyped
  <1>13. CASE GuardPass(w)
    <2>1. /\ ~At(w, "idle") /\ wk[w].gates = {} /\ wk[w].todo # <<>>
          /\ UNCHANGED <<stream, db, broker, history>> /\ Goto(w, "place")
      BY <1>13 DEF GuardPass, Turn, At
    <2> QED BY <1>0, <2>1, GotoStep, GotoTyped, StillRecorded
  <1>14. CASE Deduplicate(w)
    <2>1. PICK t \in Same(w) : Planned(w, t)
      BY <1>14 DEF Deduplicate
    <2>2. /\ Looks(w) /\ {t} \subseteq orders /\ UNCHANGED <<stream, db, broker, faults, redone>>
      BY <1>14 DEF Deduplicate, Same, Of, TypeOK
    <2>3. Typed(w)' /\ Alone(w) /\ Recorded'
      BY <2>1, <2>2, PlannedTyped DEF broker
    <2> QED BY <2>2, <2>3, InnerTyped
  <1>15. CASE Fill(w)
    <2>1. /\ Looks(w) /\ Planned(w, NewOrder(w, FALSE)) /\ Sends(w, NewOrder(w, FALSE))
          /\ UNCHANGED <<stream, db, faults, redone>>
      BY <1>15 DEF Fill, FindsNone
    <2>2. Typed(w)' /\ Alone(w) /\ Recorded'
      BY <2>1, PlannedTyped DEF Sends
    <2> QED BY <2>1, <2>2, SentTyped
  <1>16. CASE Commit(w)
    BY <1>16, RollbackTyped, CommitTyped
  <1>17. CASE Ack(w)
    BY <1>17, AckTyped
  <1>18. CASE InsertLost(w) \/ DeadlockVictim(w)
    BY <1>18, RollbackTyped DEF InsertLost, DeadlockVictim
  <1>19. CASE FillPartly(w)
    <2>1. /\ Looks(w) /\ Decide(w, "REJECTED", {}) /\ Sends(w, NewOrder(w, TRUE))
          /\ UNCHANGED <<stream, db, history>> /\ "REJECTED" \in Decisions
      BY <1>19 DEF FillPartly, FindsNone, Decisions
    <2>2. Typed(w)' /\ Alone(w)
      <3>1. wk[w].todo # <<>> /\ ~At(w, "idle") /\ {} \subseteq orders' /\ orders \subseteq orders'
        BY <2>1, Working DEF Looks, At, Sends
      <3> QED BY <2>1, <3>1, DecideTyped
    <2> QED BY <2>1, <2>2, Working, SentTyped
  <1>20. CASE LoseReply(w)
    <2>1. /\ Looks(w) /\ Goto(w, "rescan") /\ UNCHANGED <<stream, db, raised, redone>>
          /\ Sends(w, NewOrder(w, FALSE)) /\ faults < MaxFaults /\ faults' = faults + 1
      BY <1>20 DEF LoseReply, FindsNone
    <2>2. Moves(w, "rescan") /\ SameRoute(w) /\ "rescan" \in Pcs \ {"idle"}
      BY <2>1, GotoStep DEF Pcs
    <2>3. Typed(w)'
      BY <2>1, <2>2, Working, NewOrderFacts, MovesTyped DEF SameRoute, Sends, Looks
    <2>4. Recorded'
      BY <2>1, SignalAssumption DEF TypeOK, Recorded
    <2> QED BY <2>1, <2>2, <2>3, <2>4, SentTyped DEF Moves
  <1>21. CASE Fault(w)
    <2>1. /\ Alone(w) /\ wk'[w] = Idle /\ UNCHANGED <<stream, db, broker, raised, redone>>
      BY <1>21, BecomeStep DEF Fault
    <2>2. Recorded'
      BY <1>21, <2>1, SignalAssumption DEF Fault, TypeOK, Recorded
    <2>3. delivered' \in Nat
      BY <2>1, FeedFacts DEF stream, TypeOK
    <2> QED BY <2>1, <2>2, <2>3, IdleTyped, InnerTyped
  <1> QED BY <1>1, <1>2, <1>3, <1>4, <1>5, <1>6, <1>7, <1>8, <1>9, <1>10, <1>11, <1>12, <1>13,
             <1>14, <1>15, <1>16, <1>17, <1>18, <1>19, <1>20, <1>21 DEF Steps, Work, Chance, Rejects, Passes

LEMMA NextTyped == TInv /\ [Next]_vars => TInv'
  <1> SUFFICES ASSUME TInv, [Next]_vars PROVE TInv'
    OBVIOUS
  <1>1. CASE BrokerCloses
    <2>1. live' \subseteq live /\ UNCHANGED <<stream, db, orders, wk, history>>
      BY <1>1 DEF BrokerCloses
    <2> QED BY <2>1 DEF TInv, TypeOK, Local, Typed, Msg, stream, db, history, At
  <1>2. CASE UNCHANGED vars
    BY <1>2 DEF vars, stream, db, broker, history, TInv, TypeOK, Local, Typed, Msg, At
  <1> QED BY <1>1, <1>2, StepTyped DEF Next, Steps

(* Every variable keeps its type: in particular the broker's ids of a      *)
(* worker and of the database are those of orders the broker filled.       *)
THEOREM TypeCorrect == Spec => []TypeOK
  <1>1. TInv => TypeOK
    BY DEF TInv
  <1> QED BY InitTyped, NextTyped, <1>1, PTL DEF Spec

-----------------------------------------------------------------------------
(* A job that begins or ends, with or without success, holds nothing.      *)
Leaves(w) ==
  /\ Alone(w) /\ wk'[w].locks = {} /\ wk'[w].todo = <<>> /\ wk'[w].tick = {}
  /\ wk'[w].seen = None /\ wk'[w].gates = {} /\ wk'[w].pc \in {"idle", "read", "ack"}

LEMMA LeaveSteps ==
  ASSUME Local, NEW w \in Workers,
         Rollback(w) \/ CommitRow(w) \/ Commit(w) \/ Take(w) \/ Ack(w) \/ Fault(w) \/ Drops(w)
  PROVE  /\ Leaves(w)
         /\ wk'[w].pc = "ack" => wk'[w].job = wk[w].job
  <1> DEFINE begun(j) == [Idle EXCEPT !.pc = "read", !.job = j]
             done == [Idle EXCEPT !.pc = "ack", !.job = wk[w].job]
  <1>1. \/ Become(w, Idle)
        \/ Become(w, done)
        \/ \E j \in DOMAIN Feed : Become(w, begun(j))
    BY DEF Rollback, CommitRow, Commit, Take, Ack, Fault, Drops, At
  <1>2. CASE Become(w, Idle)
    <2>1. Alone(w) /\ wk'[w] = Idle
      BY <1>2, BecomeStep
    <2> QED BY <2>1 DEF Leaves, Idle
  <1>3. CASE Become(w, done)
    <2>1. DOMAIN done = DOMAIN Idle
      OBVIOUS
    <2>2. Alone(w) /\ wk'[w] = done
      BY <1>3, <2>1, BecomeStep
    <2> QED BY <2>2, FieldNames DEF Leaves, Idle
  <1>4. ASSUME NEW j, Become(w, begun(j)) PROVE Leaves(w) /\ wk'[w].pc = "read"
    <2>1. DOMAIN begun(j) = DOMAIN Idle
      OBVIOUS
    <2>2. Alone(w) /\ wk'[w] = begun(j)
      BY <1>4, <2>1, BecomeStep
    <2> QED BY <2>2, FieldNames DEF Leaves, Idle
  <1> QED BY <1>1, <1>2, <1>3, <1>4

LEMMA AppendListed ==
  ASSUME NEW w \in Workers, NEW a \in Accounts, wk[w].todo \in Seq(Accounts),
         wk'[w].todo = Append(wk[w].todo, a)
  PROVE  /\ Listed(w)' = Listed(w) \union {a}
         /\ DOMAIN wk'[w].todo = 1..(Len(wk[w].todo) + 1) /\ DOMAIN wk[w].todo = 1..Len(wk[w].todo)
         /\ Len(wk[w].todo) \in Nat
         /\ \A i \in DOMAIN wk[w].todo : wk'[w].todo[i] = wk[w].todo[i]
         /\ wk'[w].todo[Len(wk[w].todo) + 1] = a
  BY AppendProperties, LenProperties DEF Listed

(* What a job adds to its locks was free.                                  *)
LEMMA LocksAdded ==
  ASSUME LInv, NEW w \in Workers, Alone(w), \A l \in wk'[w].locks \ wk[w].locks : Free(w, l),
         \A a \in Listed(w)' : <<"stat", a>> \in wk'[w].locks
  PROVE  LInv'
  <1>1. \A v \in Workers \ {w} : wk'[v] = wk[v]
    BY DEF Alone
  <1>2. \A v \in Workers \ {w} : wk[v].locks \cap (wk'[w].locks \ wk[w].locks) = {}
    BY DEF Free
  <1>3. OneHolder'
    BY <1>1, <1>2 DEF LInv, OneHolder
  <1>4. DayHeld'
    <2>1. \A v \in Workers \ {w} : Listed(v)' = Listed(v)
      BY <1>1 DEF Listed
    <2>2. ASSUME NEW v \in Workers \ {w}, NEW a \in Listed(v)'
          PROVE  <<"stat", a>> \in wk'[v].locks
      BY <1>1, <2>1 DEF LInv, DayHeld
    <2>3. ASSUME NEW v \in Workers, NEW a \in Listed(v)'
          PROVE  <<"stat", a>> \in wk'[v].locks
      BY <2>2, <2>3
    <2> QED BY <2>3 DEF DayHeld
  <1> QED BY <1>3, <1>4 DEF LInv

LEMMA LocksSame ==
  ASSUME LInv, NEW w \in Workers, Alone(w), wk'[w].locks = wk[w].locks,
         wk'[w].todo = wk[w].todo \/ (\A a \in Listed(w)' : <<"stat", a>> \in wk'[w].locks)
  PROVE  LInv'
  <1>1. wk'[w].todo = wk[w].todo => Listed(w)' = Listed(w)
    BY DEF Listed
  <1>2. \A a \in Listed(w)' : <<"stat", a>> \in wk'[w].locks
    BY <1>1 DEF LInv, DayHeld
  <1> QED BY <1>2, LocksAdded

LEMMA LeaveLocks ==
  ASSUME LInv, NEW w \in Workers, Leaves(w)
  PROVE  LInv'
  <1>1. Listed(w)' = {}
    BY DEF Leaves, Listed
  <1> QED BY <1>1, LocksAdded DEF Leaves

LEMMA DecideLocks ==
  ASSUME TInv, LInv, NEW w \in Workers, NEW d, NEW T, Decide(w, d, T), wk[w].todo # <<>>
  PROVE  LInv' /\ Listed(w)' \subseteq Listed(w)
  <1>1. /\ Alone(w) /\ wk'[w].locks = wk[w].locks /\ wk'[w].todo = Tail(wk[w].todo)
    BY DecideStep DEF TInv, Moves
  <1>2. Listed(w)' \subseteq Listed(w)
    BY <1>1, HereFacts DEF Listed
  <1>3. \A a \in Listed(w)' : <<"stat", a>> \in wk'[w].locks
    BY <1>1, <1>2 DEF LInv, DayHeld
  <1> QED BY <1>1, <1>2, <1>3, LocksSame

LEMMA GotoLocks ==
  ASSUME LInv, NEW w \in Workers, Alone(w), wk'[w].todo = wk[w].todo, wk[w].locks \subseteq wk'[w].locks,
         \A l \in wk'[w].locks \ wk[w].locks : Free(w, l)
  PROVE  LInv'
  <1>1. Listed(w)' = Listed(w)
    BY DEF Listed
  <1> QED BY <1>1, LocksAdded DEF LInv, DayHeld

LEMMA StepLocks ==
  ASSUME TInv, LInv, NEW w \in Workers, Steps(w)
  PROVE  LInv'
  <1> USE DEF TInv
  <1>1. CASE Rollback(w) \/ CommitRow(w) \/ Commit(w) \/ Take(w) \/ Ack(w) \/ Fault(w) \/ Drops(w)
    BY <1>1, LeaveSteps, LeaveLocks
  <1>2. ASSUME NEW p, Goto(w, p) PROVE LInv'
    <2>1. Alone(w) /\ wk'[w].todo = wk[w].todo /\ wk'[w].locks = wk[w].locks
      BY <1>2, GotoStep DEF Moves, SameRoute
    <2> QED BY <2>1, LocksSame
  <1>3. ASSUME NEW l, NEW p, Free(w, l), wk' = [wk EXCEPT ![w].locks = @ \union {l}, ![w].pc = p]
        PROVE  LInv'
    <2>1. Alone(w) /\ wk'[w].todo = wk[w].todo /\ wk'[w].locks = wk[w].locks \union {l}
      BY <1>3, LockStep DEF Moves, SameRoute
    <2>2. \A k \in wk'[w].locks \ wk[w].locks : Free(w, k)
      BY <1>3, <2>1
    <2> QED BY <2>1, <2>2, GotoLocks
  <1>4. CASE Read(w)
    <2>1. Alone(w) /\ wk'[w].todo = wk[w].todo /\ wk'[w].locks = wk[w].locks
      BY <1>4, ReadStep DEF SameRoute
    <2> QED BY <2>1, LocksSame
  <1>5. CASE Insert(w) /\ ~Rollback(w)
    BY <1>3, <1>5 DEF Insert
  <1>6. CASE Update(w)
    BY <1>2, <1>3, <1>6 DEF Update
  <1>7. CASE (Check(w) \/ Lookup(w)) /\ ~CommitRow(w)
    BY <1>2, <1>7 DEF Check, Lookup
  <1>8. CASE Delete(w)
    <2>1. Alone(w) /\ wk'[w].todo = wk[w].todo /\ wk'[w].locks = wk[w].locks
      BY <1>8, DeleteStep DEF Moves, SameRoute
    <2> QED BY <2>1, LocksSame
  <1>9. CASE Flush(w) /\ ~Rollback(w)
    <2>1. /\ Alone(w) /\ wk'[w].todo = wk[w].todo /\ wk'[w].locks = wk[w].locks \union Claims(w)
          /\ \A l \in Claims(w) : Free(w, l)
      BY <1>9, FlushStep DEF Moves, Flush, Claims
    <2> QED BY <2>1, GotoLocks
  <1>10. CASE Rejects(w) /\ ~Rollback(w)
    <2>1. PICK a \in wk[w].gates, L \in SUBSET {<<"stat", b>> : b \in Accounts} :
            /\ Alone(w) /\ wk'[w].todo = wk[w].todo /\ wk'[w].locks = wk[w].locks \union L
            /\ \A l \in L : Free(w, l)
      BY <1>10, RejectStep DEF Moves
    <2> QED BY <2>1, GotoLocks
  <1>11. CASE Passes(w)
    <2>1. PICK a \in wk[w].gates :
            /\ Alone(w) /\ wk'[w].locks = wk[w].locks \union {<<"stat", a>>}
            /\ wk'[w].todo = Append(wk[w].todo, a) /\ Free(w, <<"stat", a>>)
      BY <1>11, GatePassStep DEF Moves
    <2>2. Listed(w)' = Listed(w) \union {a}
      BY <2>1, AppendListed, Working
    <2>3. \A k \in wk'[w].locks \ wk[w].locks : Free(w, k)
      BY <2>1
    <2>4. \A b \in Listed(w)' : <<"stat", b>> \in wk'[w].locks
      BY <2>1, <2>2 DEF LInv, DayHeld
    <2> QED BY <2>1, <2>3, <2>4, LocksAdded
  <1>12. CASE GuardReject(w) \/ PlaceError(w) \/ FillPartly(w)
    <2>1. Decide(w, "REJECTED", {}) /\ wk[w].todo # <<>>
      BY <1>12, Working DEF GuardReject, PlaceError, FillPartly, FindsNone, Turn, Looks
    <2> QED BY <2>1, DecideLocks
  <1>13. CASE GuardPass(w) \/ LoseReply(w)
    BY <1>2, <1>13 DEF GuardPass, LoseReply
  <1>14. CASE Deduplicate(w) \/ Fill(w)
    <2>1. PICK t : Planned(w, t)
      BY <1>14 DEF Deduplicate, Fill
    <2>2. wk[w].todo # <<>>
      BY <1>14, Working DEF Deduplicate, Fill, FindsNone, Looks
    <2> QED BY <1>1, <2>1, <2>2, PlannedStep, DecideLocks
  <1>15. CASE MissDay(w)
    <2>1. Alone(w) /\ wk'[w].todo = wk[w].todo /\ wk'[w].locks = wk[w].locks
      BY <1>15, MissDayStep DEF Moves, SameRoute
    <2> QED BY <2>1, LocksSame
  <1>16. CASE DeadlockVictim(w) \/ InsertLost(w)
    BY <1>1, <1>16 DEF DeadlockVictim, InsertLost
  <1> QED BY <1>1, <1>4, <1>5, <1>6, <1>7, <1>8, <1>9, <1>10, <1>11, <1>12, <1>13, <1>14, <1>15,
             <1>16 DEF Steps, Work, Chance, Rejects, Passes

LEMMA NextLocks == TInv /\ LInv /\ [Next]_vars => LInv'
  <1>1. ASSUME TInv, LInv, UNCHANGED wk PROVE LInv'
    BY <1>1 DEF LInv, OneHolder, DayHeld, Listed
  <1> QED BY <1>1, StepLocks DEF Next, BrokerCloses, vars, Steps

LEMMA InitLocks == Init => LInv
  BY DEF Init, Idle, LInv, OneHolder, DayHeld, Listed

(* Where each step leaves the job.                                         *)
LEMMA PcAfter ==
  ASSUME TInv, NEW w \in Workers, Steps(w)
  PROVE  /\ Alone(w)
         /\ ~GuardPass(w) /\ ~LoseReply(w) => wk'[w].pc \notin {"place", "rescan"}
         /\ wk'[w].pc \in {"idle", "read", "ack"} \/ wk'[w].job = wk[w].job
         /\ wk'[w].pc = "ack" => wk'[w].job = wk[w].job
  <1> USE DEF TInv
  <1>1. CASE Rollback(w) \/ CommitRow(w) \/ Commit(w) \/ Take(w) \/ Ack(w) \/ Fault(w) \/ Drops(w)
    BY <1>1, LeaveSteps DEF Leaves
  <1>2. ASSUME NEW p, Goto(w, p)
        PROVE  Alone(w) /\ wk'[w].pc = p /\ wk'[w].job = wk[w].job
    BY <1>2, GotoStep DEF Moves, SameJob
  <1>3. ASSUME NEW d, NEW T, Decide(w, d, T)
        PROVE  Alone(w) /\ wk'[w].pc = "gate" /\ wk'[w].job = wk[w].job
    BY <1>3, DecideStep DEF Moves, SameJob
  <1>4. CASE Read(w)
    BY <1>4, ReadStep
  <1>5. CASE (Insert(w) /\ ~Rollback(w)) \/ Update(w)
    <2>1. ASSUME NEW l, NEW p, wk' = [wk EXCEPT ![w].locks = @ \union {l}, ![w].pc = p]
          PROVE  Alone(w) /\ wk'[w].pc = p /\ wk'[w].job = wk[w].job
      BY <2>1, FieldNames DEF Local, Typed, Alone
    <2>2. CASE Insert(w) /\ ~Rollback(w)
      BY <2>1, <2>2 DEF Insert
    <2>3. CASE Update(w)
      BY <1>2, <2>1, <2>3 DEF Update
    <2> QED BY <1>5, <2>2, <2>3
  <1>6. CASE (Check(w) \/ Lookup(w)) /\ ~CommitRow(w)
    BY <1>2, <1>6 DEF Check, Lookup
  <1>7. CASE Delete(w)
    BY <1>7, DeleteStep DEF Moves, SameJob
  <1>8. CASE ((Flush(w) \/ Rejects(w)) /\ ~Rollback(w)) \/ Passes(w) \/ MissDay(w)
    BY <1>8, FlushStep, RejectStep, GatePassStep, MissDayStep DEF Moves, SameJob
  <1>9. CASE GuardReject(w) \/ PlaceError(w) \/ FillPartly(w)
    BY <1>3, <1>9 DEF GuardReject, PlaceError, FillPartly
  <1>10. CASE GuardPass(w) \/ LoseReply(w)
    BY <1>2, <1>10 DEF GuardPass, LoseReply
  <1>11. CASE DeadlockVictim(w) \/ InsertLost(w)
    BY <1>1, <1>11 DEF DeadlockVictim, InsertLost
  <1>12. CASE Deduplicate(w) \/ Fill(w)
    <2>1. PICK t : Planned(w, t)
      BY <1>12 DEF Deduplicate, Fill
    <2> QED BY <1>1, <1>3, <2>1, PlannedStep
  <1> QED BY <1>1, <1>4, <1>5, <1>6, <1>7, <1>8, <1>9, <1>10, <1>11, <1>12
          DEF Steps, Work, Chance, Rejects, Passes

-----------------------------------------------------------------------------
(* What a step may do to the broker's book.                                *)
LEMMA BookSteps ==
  ASSUME TInv, NEW w \in Workers, Steps(w)
  PROVE  \/ UNCHANGED broker
         \/ /\ Fill(w) \/ FillPartly(w) \/ LoseReply(w)
            /\ \E part \in BOOLEAN : Sends(w, NewOrder(w, part))
            /\ FindsNone(w) /\ Looks(w) /\ UNCHANGED db
  <1>1. CASE Fill(w) \/ FillPartly(w) \/ LoseReply(w)
    BY <1>1 DEF Fill, FillPartly, LoseReply, FindsNone, db
  <1>2. CASE ~(Fill(w) \/ FillPartly(w) \/ LoseReply(w))
    <2>1. Rollback(w) \/ CommitRow(w) => UNCHANGED broker
      BY DEF Rollback, CommitRow
    <2>2. \A a, L : RejectGated(w, a, L) => UNCHANGED broker
      BY <2>1 DEF RejectGated
    <2>3. CASE GateReject(w) \/ \E a \in Accounts : GuardedReject(w, a) \/ GatePass(w, a)
      BY <2>2, <2>3 DEF GateReject, GuardedReject, GatePass
    <2> QED BY <1>2, <2>1, <2>3 DEF Steps, Work, Chance, Take, Read, Insert, Update, Check, Lookup, Delete,
           Flush, MissDay, InsertLost, DeadlockVictim, GuardReject, GuardPass, Deduplicate,
           PlaceError, Commit, Ack, Fault
  <1> QED BY <1>1, <1>2

(* An order is sent only where the scan before it found no other, ...      *)
LEMMA NextDiffers ==
  ASSUME ~BlindScans, TInv, OrdersDiffer, [Next]_vars
  PROVE  OrdersDiffer'
  <1>1. \/ live' \subseteq live
        \/ \E w \in Workers, part \in BOOLEAN :
             live' = live \union {NewOrder(w, part)} /\ Same(w) = {} /\ Looks(w)
    BY BookSteps DEF Next, Steps, vars, BrokerCloses, broker, FindsNone, Sends
  <1>2. ASSUME NEW w \in Workers, NEW part \in BOOLEAN, live' = live \union {NewOrder(w, part)},
               Same(w) = {}, Looks(w)
        PROVE  OrdersDiffer'
    BY <1>2, NewOrderFacts DEF OrdersDiffer, Same, Of
  <1> QED BY <1>1, <1>2 DEF OrdersDiffer

LEMMA LiveFinite ==
  ASSUME TInv
  PROVE  IsFiniteSet(live)
  BY FS_Subset DEF TInv, TypeOK

(* ... so that an execution id has one open order at most, whatever else   *)
(* happens: faults, lost replies, jobs handed out twice.                   *)
THEOREM OrdersAreDeduplicated ==
  ASSUME ~BlindScans
  PROVE  Spec => []OneOrderPerExecution
  <1>1. Init => OrdersDiffer
    BY DEF Init, OrdersDiffer
  <1>2. TInv /\ OrdersDiffer /\ [Next]_vars => OrdersDiffer'
    BY NextDiffers
  <1>3. TInv /\ OrdersDiffer => OneOrderPerExecution
    <2> SUFFICES ASSUME TInv, OrdersDiffer, NEW m \in Msgs, NEW a \in Accounts
                 PROVE  Cardinality(Of(live, m, a)) <= 1
      BY DEF OneOrderPerExecution
    <2>1. CASE Of(live, m, a) = {}
      BY <2>1, FS_EmptySet
    <2>2. CASE Of(live, m, a) # {}
      <3>1. PICK t \in Of(live, m, a) : TRUE
        BY <2>2
      <3>2. Of(live, m, a) = {t}
        BY <3>1 DEF Of, OrdersDiffer
      <3>3. Cardinality({t}) = 1
        BY FS_Singleton
      <3> QED BY <3>2, <3>3
    <2> QED BY <2>1, <2>2
  <1> QED BY InitTyped, NextTyped, <1>1, <1>2, <1>3, PTL DEF Spec

-----------------------------------------------------------------------------
(* Only the job that has an account's daily row orders for it.             *)
LEMMA OneOrderer ==
  ASSUME TInv, LInv, NEW v \in Workers, NEW w \in Workers, v # w,
         wk[v].todo # <<>>, wk[w].todo # <<>>
  PROVE  Here(v) # Here(w)
  <1>1. <<"stat", Here(v)>> \in wk[v].locks /\ <<"stat", Here(w)>> \in wk[w].locks
    BY HereFacts DEF LInv, DayHeld, Listed
  <1> QED BY <1>1 DEF LInv, OneHolder

LEMMA OnFacts ==
  ASSUME TInv, NEW a
  PROVE  /\ IsFiniteSet(On(a)) /\ Cardinality(On(a)) \in Nat
         /\ \A S \in SUBSET live : Cardinality({t \in S : t.acct = a}) <= Cardinality(On(a))
         /\ \A x : IF x.acct = a
                   THEN Cardinality({t \in live \union {x} : t.acct = a}) <= Cardinality(On(a)) + 1
                   ELSE {t \in live \union {x} : t.acct = a} = On(a)
  <1>1. IsFiniteSet(On(a)) /\ Cardinality(On(a)) \in Nat
    BY LiveFinite, FS_Subset, FS_CardinalityType DEF On
  <1>2. ASSUME NEW S \in SUBSET live
        PROVE  Cardinality({t \in S : t.acct = a}) <= Cardinality(On(a))
    <2>1. {t \in S : t.acct = a} \subseteq On(a)
      BY DEF On
    <2> QED BY <1>1, <2>1, FS_Subset
  <1>3. ASSUME NEW x, x.acct = a
        PROVE  Cardinality({t \in live \union {x} : t.acct = a}) <= Cardinality(On(a)) + 1
    <2>1. {t \in live \union {x} : t.acct = a} = On(a) \union {x}
      BY <1>3 DEF On
    <2> QED BY <1>1, <2>1, FS_AddElement
  <1>4. ASSUME NEW x, x.acct # a
        PROVE  {t \in live \union {x} : t.acct = a} = On(a)
    BY <1>4 DEF On
  <1> QED BY <1>1, <1>2, <1>3, <1>4

LEMMA ReadyFacts ==
  ASSUME TInv, NEW w \in Workers, Ready(w)
  PROVE  /\ Here(w) \in Accounts /\ MaxPositions[Here(w)] \in Nat /\ wk[w].todo # <<>>
  BY Working, HereFacts, SignalAssumption DEF Ready, At

(* Orders close: an account that has room, or whose lost order closed, has *)
(* room.                                                                   *)
LEMMA ClosingKeepsRoom ==
  ASSUME TInv, WithinPositionLimit, NEW S \in SUBSET live, NEW a \in Accounts
  PROVE  LET left == {t \in S : t.acct = a}
         IN  /\ Cardinality(left) <= MaxPositions[a]
             /\ Cardinality(On(a)) < MaxPositions[a] \/ left # On(a) => Cardinality(left) < MaxPositions[a]
  <1> DEFINE left == {t \in S : t.acct = a}
  <1>1. left \subseteq On(a)
    BY DEF On
  <1>2. /\ Cardinality(left) \in Nat /\ Cardinality(On(a)) \in Nat /\ MaxPositions[a] \in Nat
        /\ Cardinality(left) <= Cardinality(On(a)) /\ Cardinality(On(a)) <= MaxPositions[a]
        /\ left # On(a) => Cardinality(left) < Cardinality(On(a))
    BY <1>1, OnFacts, FS_Subset, FS_CardinalityType, SignalAssumption DEF WithinPositionLimit
  <1> HIDE DEF left
  <1>3. Cardinality(left) <= MaxPositions[a]
    BY <1>2
  <1>4. Cardinality(On(a)) < MaxPositions[a] \/ left # On(a) => Cardinality(left) < MaxPositions[a]
    BY <1>2
  <1> QED BY <1>3, <1>4 DEF left

(* A job whose own state is the same keeps its room.                       *)
LEMMA WaitingKeepsRoom ==
  ASSUME TInv, PInv, live' \subseteq live, NEW v \in Workers, wk'[v] = wk[v], Ready(v)'
  PROVE  (Cardinality(On(Here(v))) < MaxPositions[Here(v)])'
  <1> DEFINE a == Here(v)
             left == {t \in live' : t.acct = a}
  <1>1. Here(v)' = a /\ wk[v].pc \in {"place", "rescan"} /\ Msg(v)' = Msg(v)
    BY DEF Ready, At, Here, Msg
  <1>2. a \in Accounts
    BY <1>1, Working, HereFacts
  <1>3. Cardinality(On(a)) < MaxPositions[a] \/ left # On(a)
    <2>1. CASE Ready(v)
      BY <2>1 DEF PInv, RoomKept
    <2>2. CASE ~Ready(v)
      <3>1. PICK t \in Same(v) : t \notin Same(v)'
        BY <1>1, <2>2 DEF Ready, At
      <3>2. t \in On(a) /\ t \notin left
        BY <1>1, <3>1 DEF Same, Of, On
      <3> QED BY <3>2
    <2> QED BY <2>1, <2>2
  <1>4. Cardinality(left) < MaxPositions[a]
    BY <1>2, <1>3, ClosingKeepsRoom DEF PInv
  <1>5. On(Here(v))' = left
    BY <1>1 DEF On
  <1> QED BY <1>1, <1>4, <1>5

LEMMA ClosingStep ==
  ASSUME TInv, PInv, live' \subseteq live,
         \A v \in Workers : wk'[v] = wk[v] \/ ~Ready(v)'
                             \/ (Cardinality(On(Here(v))) < MaxPositions[Here(v)])'
  PROVE  PInv'
  <1>1. WithinPositionLimit'
    <2> SUFFICES ASSUME NEW a \in Accounts PROVE Cardinality(On(a)') <= MaxPositions[a]
      BY DEF WithinPositionLimit
    <2>1. On(a)' = {t \in live' : t.acct = a}
      BY DEF On
    <2> QED BY <2>1, ClosingKeepsRoom DEF PInv
  <1>2. RoomKept'
    BY WaitingKeepsRoom DEF RoomKept
  <1> QED BY <1>1, <1>2 DEF PInv

(* An order is sent by the job that has the room.                          *)
LEMMA OrderStep ==
  ASSUME TInv, LInv, PInv, NEW w \in Workers, Alone(w), Ready(w), Same(w) = {},
         NEW part \in BOOLEAN, live' = live \union {NewOrder(w, part)}, ~Ready(w)'
  PROVE  PInv'
  <1>1. /\ Here(w) \in Accounts /\ NewOrder(w, part).acct = Here(w) /\ wk[w].todo # <<>>
        /\ Cardinality(On(Here(w))) < MaxPositions[Here(w)]
    BY ReadyFacts, NewOrderFacts DEF PInv, RoomKept, Ready, Looks, At
  <1>2. ASSUME NEW a \in Accounts
        PROVE  /\ a # Here(w) => On(a)' = On(a)
               /\ Cardinality(On(a)') <= MaxPositions[a]
    <2>1. On(a)' = {t \in live \union {NewOrder(w, part)} : t.acct = a}
      BY DEF On
    <2>2. Cardinality(On(a)) <= MaxPositions[a] /\ MaxPositions[a] \in Nat /\ Cardinality(On(a)) \in Nat
      BY OnFacts, SignalAssumption DEF PInv, WithinPositionLimit
    <2>3. CASE a # Here(w)
      BY <1>1, <2>1, <2>2, <2>3 DEF On
    <2>4. CASE a = Here(w)
      <3>1. On(a)' = On(a) \union {NewOrder(w, part)}
        BY <1>1, <2>1, <2>4 DEF On
      <3>2. Cardinality(On(a)') <= Cardinality(On(a)) + 1 /\ Cardinality(On(a)') \in Nat
        <4>1. IsFiniteSet(On(a))
          BY OnFacts
        <4>2. Cardinality(On(a)') \in {Cardinality(On(a)), Cardinality(On(a)) + 1}
          BY <3>1, <4>1, FS_AddElement
        <4> QED BY <2>2, <4>2
      <3> QED BY <1>1, <2>2, <2>4, <3>2
    <2> QED BY <2>3, <2>4
  <1>3. WithinPositionLimit'
    BY <1>2 DEF WithinPositionLimit
  <1>4. ASSUME NEW v \in Workers \ {w}, Ready(v)'
        PROVE  (Cardinality(On(Here(v))) < MaxPositions[Here(v)])'
    <2>1. wk'[v] = wk[v] /\ Here(v)' = Here(v) /\ wk[v].pc \in {"place", "rescan"} /\ Msg(v)' = Msg(v)
      BY <1>4 DEF Alone, Ready, At, Here, Msg
    <2>2. wk[v].todo # <<>> /\ Here(v) \in Accounts
      BY <2>1, Working, HereFacts
    <2>3. Here(v) # Here(w)
      BY <1>1, <2>2, OneOrderer
    <2>4. On(Here(v))' = On(Here(v))
      BY <1>1, <2>1, <2>3 DEF On
    <2>5. Ready(v)
      BY <1>1, <1>4, <2>1, <2>3 DEF Ready, At, Same, Of
    <2> QED BY <2>1, <2>4, <2>5 DEF PInv, RoomKept
  <1> QED BY <1>3, <1>4 DEF PInv, RoomKept

LEMMA NextRoom ==
  ASSUME ~BlindScans, TInv, LInv, PInv, [Next]_vars
  PROVE  PInv'
  <1>1. ASSUME NEW w \in Workers, Alone(w), wk'[w].pc \notin {"place", "rescan"}, live' \subseteq live
        PROVE  PInv'
    BY <1>1, ClosingStep DEF Alone, Ready, At
  <1>2. ASSUME NEW w \in Workers, Fill(w) \/ FillPartly(w) \/ LoseReply(w)
        PROVE  PInv'
    <2>1. FindsNone(w) /\ Steps(w)
      BY <1>2 DEF Fill, FillPartly, LoseReply, Steps, Work, Chance
    <2>2. Ready(w) /\ Same(w) = {} /\ Looks(w)
      BY <2>1 DEF FindsNone, Looks, Ready, At
    <2>3. CASE Fill(w) \/ FillPartly(w)
      <3>1. PICK part \in BOOLEAN : live' = live \union {NewOrder(w, part)}
        BY <2>3 DEF Fill, FillPartly, Sends
      <3>2. Alone(w) /\ ~Ready(w)'
        <4>1. \A d, T : Decide(w, d, T) => Alone(w) /\ wk'[w].pc = "gate"
          BY DecideStep DEF TInv, Moves
        <4>2. Drops(w) => Alone(w) /\ wk'[w].pc \in {"idle", "read", "ack"}
          BY LeaveSteps DEF TInv, Leaves
        <4>3. Drops(w) \/ \E d, T : Decide(w, d, T)
          BY <2>3, PlannedStep DEF Fill, FillPartly
        <4> QED BY <4>1, <4>2, <4>3 DEF Ready, At
      <3> QED BY <2>2, <3>1, <3>2, OrderStep
    <2>4. CASE LoseReply(w)
      <3>1. /\ Goto(w, "rescan") /\ live' = live \union {NewOrder(w, FALSE)} /\ FALSE \in BOOLEAN
        BY <2>4 DEF LoseReply, Sends
      <3>2. Moves(w, "rescan") /\ SameRoute(w)
        BY <3>1, GotoStep DEF TInv
      <3>3. Here(w)' = Here(w) /\ Msg(w)' = Msg(w)
        BY <3>2 DEF Moves, SameJob, SameRoute, Here, Msg
      <3>4. NewOrder(w, FALSE) \in Same(w)'
        BY <2>2, <3>1, <3>3, NewOrderFacts DEF Same, Of
      <3>5. Alone(w) /\ ~Ready(w)'
        BY <3>2, <3>4 DEF Moves, Ready, At
      <3> QED BY <2>2, <3>1, <3>5, OrderStep
    <2> QED BY <1>2, <2>3, <2>4
  <1>3. ASSUME NEW w \in Workers, GuardPass(w)
        PROVE  PInv'
    <2>1. Moves(w, "place") /\ SameRoute(w) /\ live' = live
      BY <1>3, GotoStep DEF GuardPass, TInv, broker
    <2>2. Here(w)' = Here(w) /\ On(Here(w))' = On(Here(w))
      BY <2>1 DEF Moves, SameRoute, Here, On
    <2>3. Cardinality(On(Here(w))) < MaxPositions[Here(w)]
      BY <1>3 DEF GuardPass
    <2> QED BY <2>1, <2>2, <2>3, ClosingStep DEF Moves, Alone
  <1>4. ASSUME NEW w \in Workers, Steps(w), ~Fill(w), ~FillPartly(w), ~GuardPass(w), ~LoseReply(w)
        PROVE  PInv'
    <2>1. live' = live
      BY <1>4, BookSteps DEF broker
    <2>2. Alone(w) /\ wk'[w].pc \notin {"place", "rescan"}
      BY <1>4, PcAfter
    <2> QED BY <1>1, <2>1, <2>2
  <1>5. CASE BrokerCloses
    BY <1>5, ClosingStep DEF BrokerCloses
  <1>6. CASE UNCHANGED vars
    BY <1>6, ClosingStep DEF vars, broker
  <1> QED BY <1>2, <1>3, <1>4, <1>5, <1>6 DEF Next, Steps

(* However many jobs route at once, an account never has more open         *)
(* positions than its limit: a job counts the broker's book and orders     *)
(* under the lock of the account's daily row, and whoever has to look a    *)
(* second time either finds its lost order or has the room it had.         *)
THEOREM LimitsAreKept ==
  ASSUME ~BlindScans
  PROVE  Spec => []WithinPositionLimit
  <1>1. Init => PInv
    <2> SUFFICES ASSUME Init PROVE PInv
      OBVIOUS
    <2>1. RoomKept
      BY DEF Init, Idle, RoomKept, Ready, At
    <2>2. ASSUME NEW a \in Accounts PROVE Cardinality(On(a)) <= MaxPositions[a]
      <3>1. On(a) = {}
        BY DEF Init, On
      <3> QED BY <3>1, FS_EmptySet, SignalAssumption
    <2> QED BY <2>1, <2>2 DEF PInv, WithinPositionLimit
  <1>2. TInv /\ LInv /\ PInv /\ [Next]_vars => PInv'
    BY NextRoom
  <1>3. PInv => WithinPositionLimit
    BY DEF PInv
  <1> QED BY InitTyped, NextTyped, InitLocks, NextLocks, <1>1, <1>2, <1>3, PTL DEF Spec

-----------------------------------------------------------------------------
(* What a job that stays in the handler does to the database and the       *)
(* stream: nothing.                                                        *)
Stays(w) ==
  /\ Alone(w) /\ SameJob(w) /\ wk[w].locks \subseteq wk'[w].locks /\ UNCHANGED <<stream, db>>
  /\ redone \subseteq redone'
  /\ \/ Inside(w) /\ Inside(w)'
     \/ Insert(w) /\ row[Msg(w)] = None /\ wk[w].seen = None /\ HasRow(w)' /\ wk'[w].pc = "lookup"
     \/ Update(w) /\ wk'[w].pc = "check" /\ (HasRow(w)' \/ (Edited(w) => Msg(w) \in redone'))
     \/ Check(w) /\ wk[w].seen # None /\ Edited(w) /\ ~Executed(Msg(w)) /\ wk'[w].pc = "lookup"

LEMMA StayingSteps ==
  ASSUME TInv, NEW w \in Workers, Steps(w),
         ~(Rollback(w) \/ ((Check(w) \/ Lookup(w)) /\ CommitRow(w)) \/ Commit(w) \/ Take(w)
           \/ Ack(w) \/ Read(w) \/ Fault(w) \/ ((Fill(w) \/ Deduplicate(w)) /\ Drops(w)))
  PROVE  Stays(w)
  <1> USE DEF TInv
  <1>1. CASE Insert(w)
    <2>1. /\ wk' = [wk EXCEPT ![w].locks = @ \union {<<"msg", Msg(w)>>}, ![w].pc = "lookup"]
          /\ UNCHANGED <<stream, db, redone>> /\ row[Msg(w)] = None /\ wk[w].seen = None
      BY <1>1 DEF Insert, history
    <2>2. Moves(w, "lookup") /\ wk'[w].locks = wk[w].locks \union {<<"msg", Msg(w)>>}
      BY <2>1, LockStep
    <2>3. Msg(w)' = Msg(w)
      BY <2>2 DEF Moves, SameJob, Msg
    <2> QED BY <1>1, <2>1, <2>2, <2>3 DEF Stays, Moves, HasRow
  <1>2. CASE Update(w)
    <2>1. UNCHANGED <<stream, db>>
      BY <1>2 DEF Update
    <2>2. CASE /\ Mine(w) = wk[w].seen /\ Goto(w, "check")
               /\ redone' = IF Edited(w) THEN redone \union {Msg(w)} ELSE redone
      <3>1. redone \subseteq redone' /\ (Edited(w) => Msg(w) \in redone')
        BY <2>2
      <3> QED BY <1>2, <2>1, <2>2, <3>1, GotoStep DEF Stays, Moves
    <2>3. CASE /\ wk' = [wk EXCEPT ![w].locks = @ \union {<<"msg", Msg(w)>>}, ![w].pc = "check"]
               /\ UNCHANGED redone
      <3>1. Moves(w, "check") /\ wk'[w].locks = wk[w].locks \union {<<"msg", Msg(w)>>}
        BY <2>3, LockStep
      <3>2. Msg(w)' = Msg(w)
        BY <3>1 DEF Moves, SameJob, Msg
      <3> QED BY <1>2, <2>1, <2>3, <3>1, <3>2 DEF Stays, Moves, HasRow
    <2> QED BY <1>2, <2>2, <2>3 DEF Update
  <1>3. CASE Check(w)
    <2>1. /\ Goto(w, "lookup") /\ UNCHANGED <<stream, db, redone>> /\ wk[w].seen # None
          /\ Edited(w) /\ ~Executed(Msg(w))
      BY <1>3, Working DEF Check, At, history
    <2> QED BY <1>3, <2>1, GotoStep DEF Stays, Moves
  <1>4. ASSUME NEW p, Goto(w, p), Inside(w), p \in {"delete", "flush", "place", "rescan"},
               UNCHANGED <<stream, db, redone>>
        PROVE  Stays(w)
    BY <1>4, GotoStep DEF Stays, Moves, Inside, At
  <1>5. CASE Lookup(w)
    BY <1>4, <1>5 DEF Lookup, Inside, At, history
  <1>6. CASE GuardPass(w)
    BY <1>4, <1>6 DEF GuardPass, Inside, At, Turn, history
  <1>7. CASE LoseReply(w)
    BY <1>4, <1>7 DEF LoseReply, Inside, At
  <1>8. CASE Delete(w)
    BY <1>8, DeleteStep DEF Delete, Stays, Moves, Inside, At, history
  <1>9. CASE Flush(w)
    BY <1>9, FlushStep DEF Flush, Stays, Moves, Inside, At, history
  <1>10. CASE Rejects(w)
    <2>1. At(w, "gate")
      BY <1>10 DEF Rejects, GateReject, GuardedReject, GetsDay
    <2> QED BY <1>10, <2>1, RejectStep DEF Stays, Moves, Inside, At, history
  <1>11. CASE Passes(w)
    BY <1>11, GatePassStep DEF Stays, Moves, Inside, At, history
  <1>12. CASE MissDay(w)
    BY <1>12, MissDayStep DEF Stays, Moves, Inside, At, history
  <1>13. ASSUME NEW d, NEW T, Decide(w, d, T), Inside(w), UNCHANGED <<stream, db, redone>>
         PROVE  Stays(w)
    BY <1>13, DecideStep DEF Stays, Moves, Inside, At
  <1>14. CASE GuardReject(w) \/ PlaceError(w) \/ FillPartly(w)
    BY <1>13, <1>14 DEF GuardReject, PlaceError, FillPartly, FindsNone, Turn, Looks, Inside, At, history
  <1>15. CASE Deduplicate(w) \/ Fill(w)
    <2>1. PICK t : Planned(w, t)
      BY <1>15 DEF Deduplicate, Fill
    <2>2. UNCHANGED <<stream, db, redone>> /\ Inside(w)
      BY <1>15 DEF Deduplicate, Fill, FindsNone, Looks, Inside
    <2> QED BY <1>13, <1>15, <2>1, <2>2, PlannedStep
  <1>16. CASE DeadlockVictim(w) \/ InsertLost(w)
    BY <1>16 DEF DeadlockVictim, InsertLost
  <1> QED BY <1>1, <1>2, <1>3, <1>5, <1>6, <1>7, <1>8, <1>9, <1>10, <1>11, <1>12, <1>14, <1>15, <1>16
          DEF Steps, Work, Chance, Rejects, Passes

(* Two jobs past the checks are never about the same message.              *)
LEMMA Apart ==
  ASSUME TInv, LInv, EInv, NEW v \in Workers, NEW w \in Workers, v # w,
         Inside(v), Inside(w), Msg(w) \notin redone
  PROVE  Msg(v) # Msg(w)
  <1> SUFFICES ASSUME Msg(v) = Msg(w) PROVE FALSE
    OBVIOUS
  <1>1. ~(HasRow(v) /\ HasRow(w))
    BY DEF LInv, OneHolder, HasRow
  <1>2. EnteredBy(v) /\ EnteredBy(w)
    BY DEF EInv, Entered
  <1> QED BY <1>1, <1>2 DEF EnteredBy

LEMMA NotExecuted ==
  ASSUME EInv, NEW m \in Msgs, row[m] = None
  PROVE  ~Executed(m) /\ sig[m] = None /\ \A a \in Accounts : dec[m][a] = "none"
  BY DEF EInv, RowsFirst, Executed

LEMMA StayEntered ==
  ASSUME TInv, EInv, NEW w \in Workers, Stays(w)
  PROVE  EInv'
  <1>1. /\ \A v \in Workers \ {w} : wk'[v] = wk[v]
        /\ wk'[w].job = wk[w].job /\ wk'[w].seen = wk[w].seen /\ wk[w].locks \subseteq wk'[w].locks
        /\ UNCHANGED <<row, sig, dec>> /\ redone \subseteq redone'
    BY DEF Stays, Alone, SameJob, db
  <1>2. \A v \in Workers : Msg(v)' = Msg(v) /\ Edited(v)' = Edited(v)
    BY <1>1 DEF Msg, Edited
  <1>3. EnteredBy(w)'
    <2>1. EnteredBy(w)
      BY DEF EInv, Entered
    <2>2. HasRow(w) => HasRow(w)'
      BY <1>1, <1>2 DEF HasRow
    <2>3. CASE Inside(w) /\ Inside(w)'
      BY <1>1, <1>2, <2>1, <2>2, <2>3 DEF EnteredBy
    <2>4. CASE row[Msg(w)] = None /\ wk[w].seen = None /\ HasRow(w)' /\ wk'[w].pc = "lookup"
      BY <1>1, <1>2, <2>4 DEF EnteredBy
    <2>5. CASE wk'[w].pc = "check" /\ (HasRow(w)' \/ (Edited(w) => Msg(w) \in redone'))
      BY <1>1, <1>2, <2>5 DEF EnteredBy, Inside
    <2>6. CASE Check(w) /\ wk[w].seen # None /\ Edited(w) /\ wk'[w].pc = "lookup"
      BY <1>1, <1>2, <2>1, <2>2, <2>6 DEF EnteredBy, Check
    <2> QED BY <2>3, <2>4, <2>5, <2>6 DEF Stays
  <1>4. Entered'
    <2>1. ASSUME NEW v \in Workers \ {w} PROVE EnteredBy(v)'
      BY <1>1, <1>2 DEF EInv, Entered, EnteredBy, Inside, At, HasRow
    <2> QED BY <1>3, <2>1 DEF Entered
  <1>5. RowsFirst'
    BY <1>1 DEF EInv, RowsFirst
  <1>6. Unexecuted'
    <2> SUFFICES ASSUME NEW v \in Workers, Inside(v)', Msg(v)' \notin redone'
                 PROVE  ~Executed(Msg(v))'
      BY DEF Unexecuted
    <2>1. Executed(Msg(v))' = Executed(Msg(v)) /\ Msg(v) \notin redone
      BY <1>1, <1>2 DEF Executed
    <2>2. CASE Inside(v)
      BY <2>1, <2>2 DEF EInv, Unexecuted
    <2>3. CASE ~Inside(v)
      <3>1. v = w
        BY <1>1, <2>3 DEF Inside
      <3>2. CASE Insert(w) /\ row[Msg(w)] = None
        <4>1. Msg(w) \in Msgs
          BY <3>2, Working, JobFacts DEF Insert, At
        <4> QED BY <2>1, <3>1, <3>2, <4>1, NotExecuted
      <3>3. CASE wk'[w].pc = "check"
        BY <3>1, <3>3 DEF Inside
      <3>4. CASE ~Executed(Msg(w))
        BY <2>1, <3>1, <3>4
      <3> QED BY <2>3, <3>1, <3>2, <3>3, <3>4 DEF Stays
    <2> QED BY <2>2, <2>3
  <1> QED BY <1>4, <1>5, <1>6 DEF EInv

(* A job that leaves changes the rows of its own message at most.          *)
LEMMA LeaveEntered ==
  ASSUME TInv, LInv, EInv, NEW w \in Workers, Leaves(w), UNCHANGED redone, RowsFirst',
         \A m \in Msgs : row'[m] # row[m] => m = Msg(w) /\ (Inside(w) \/ wk[w].seen # None),
         \A m \in Msgs : dec'[m] # dec[m] => m = Msg(w) /\ Inside(w)
  PROVE  EInv'
  <1>1. /\ \A v \in Workers \ {w} : wk'[v] = wk[v]
        /\ ~Inside(w)' /\ ~At(w, "check")'
    BY DEF Leaves, Alone, Inside, At
  <1>2. \A v \in Workers \ {w} : Msg(v)' = Msg(v) /\ Edited(v)' = Edited(v) /\ Inside(v)' = Inside(v)
    BY <1>1 DEF Msg, Edited, Inside
  <1>3. \A v \in Workers : Inside(v) => Msg(v) \in Msgs
    BY Working, JobFacts DEF Inside, At
  <1>4. Entered'
    <2>1. EnteredBy(w)'
      BY <1>1 DEF EnteredBy
    <2>2. ASSUME NEW v \in Workers \ {w} PROVE EnteredBy(v)'
      <3>1. EnteredBy(v) /\ EnteredBy(w)
        BY DEF EInv, Entered
      <3>2. Inside(v) /\ wk[v].seen = None => row'[Msg(v)] = row[Msg(v)]
        <4> SUFFICES ASSUME Inside(v), wk[v].seen = None, row'[Msg(v)] # row[Msg(v)] PROVE FALSE
          OBVIOUS
        <4>1. Msg(v) = Msg(w) /\ (Inside(w) \/ wk[w].seen # None)
          BY <1>3
        <4>2. wk[w].seen = None
          BY <3>1, <4>1 DEF TInv, Local, Typed, EnteredBy
        <4>3. HasRow(v) /\ HasRow(w)
          BY <3>1, <4>1, <4>2 DEF EnteredBy
        <4> QED BY <4>1, <4>3 DEF LInv, OneHolder, HasRow
      <3> QED BY <1>1, <1>2, <3>1, <3>2 DEF EnteredBy, HasRow, At
    <2> QED BY <2>1, <2>2 DEF Entered
  <1>5. Unexecuted'
    <2> SUFFICES ASSUME NEW v \in Workers, Inside(v)', Msg(v)' \notin redone'
                 PROVE  ~Executed(Msg(v))'
      BY DEF Unexecuted
    <2>1. v # w /\ Inside(v) /\ Msg(v)' = Msg(v) /\ Msg(v) \notin redone
      BY <1>1, <1>2
    <2>2. dec'[Msg(v)] = dec[Msg(v)]
      BY <1>3, <2>1, Apart
    <2>3. ~Executed(Msg(v))
      BY <2>1 DEF EInv, Unexecuted
    <2> QED BY <2>1, <2>2, <2>3 DEF Executed
  <1> QED BY <1>4, <1>5 DEF EInv

(* Leaving without a commit of rows.                                       *)
LEMMA QuietLeave ==
  ASSUME TInv, LInv, EInv, NEW w \in Workers, Leaves(w), UNCHANGED <<row, sig, dec, redone>>
  PROVE  EInv'
  <1>1. RowsFirst'
    BY DEF EInv, RowsFirst
  <1> QED BY <1>1, LeaveEntered

LEMMA CommitRowEntered ==
  ASSUME TInv, LInv, EInv, NEW w \in Workers, CommitRow(w), At(w, "check") \/ At(w, "lookup")
  PROVE  EInv'
  <1>1. /\ row' = RowWritten(w) /\ UNCHANGED <<sig, dec, redone>>
    BY DEF CommitRow, history
  <1>2. wk[w].job # 0 /\ (Inside(w) \/ wk[w].seen # None)
    BY Working DEF At, Inside
  <1>3. /\ \A m \in Msgs \ {Msg(w)} : row'[m] = row[m]
        /\ \A m \in Msgs : row[m] # None => row'[m] # None
    BY <1>1, <1>2, RowWrittenFacts, SignalAssumption
  <1>4. RowsFirst'
    BY <1>1, <1>3 DEF EInv, RowsFirst
  <1>5. Leaves(w)
    BY LeaveSteps DEF TInv
  <1> QED BY <1>1, <1>2, <1>3, <1>4, <1>5, LeaveEntered

LEMMA CommitEffect ==
  ASSUME TInv, NEW w \in Workers, Commit(w), ~Rollback(w)
  PROVE  /\ row' = (IF Mine(w) = wk[w].seen THEN row ELSE RowWritten(w))
         /\ sig' = [sig EXCEPT ![Msg(w)] = Hash(w)]
         /\ dec' = [dec EXCEPT ![Msg(w)] = wk[w].draft]
         /\ tracked' = tracked \union wk[w].tick
         /\ UNCHANGED <<stream, broker, history>>
         /\ wk[w].job # 0 /\ At(w, "gate") /\ Inside(w) /\ Leaves(w)
         /\ wk'[w].pc = "ack" /\ wk'[w].job = wk[w].job
         /\ Msg(w) \in Msgs /\ Hash(w) \in Hashes /\ Hash(w) # None
  <1> DEFINE done == [Idle EXCEPT !.pc = "ack", !.job = wk[w].job]
  <1>1. /\ row' = IF Mine(w) = wk[w].seen THEN row ELSE RowWritten(w)
        /\ sig' = [sig EXCEPT ![Msg(w)] = Hash(w)]
        /\ dec' = [dec EXCEPT ![Msg(w)] = wk[w].draft]
        /\ tracked' = tracked \union wk[w].tick
        /\ Become(w, done) /\ UNCHANGED <<stream, broker, history>> /\ At(w, "gate")
    BY DEF Commit
  <1>2. wk'[w].pc = "ack" /\ wk'[w].job = wk[w].job
    <2>1. DOMAIN done = DOMAIN Idle /\ done.pc = "ack" /\ done.job = wk[w].job
      BY FieldNames DEF Idle
    <2> HIDE DEF done
    <2> QED BY <1>1, <2>1, BecomeStep DEF TInv
  <1>3. wk[w].job # 0 /\ Inside(w) /\ Leaves(w)
    BY <1>1, Working, LeaveSteps DEF At, Inside, TInv
  <1> QED BY <1>1, <1>2, <1>3, JobFacts, SignalAssumption

LEMMA CommitEntered ==
  ASSUME TInv, LInv, EInv, NEW w \in Workers, Commit(w), ~Rollback(w)
  PROVE  EInv'
  <1>1. /\ row' \in {row, RowWritten(w)} /\ UNCHANGED redone /\ Leaves(w) /\ wk[w].job # 0
    BY CommitEffect DEF history
  <1>2. /\ \A m \in Msgs \ {Msg(w)} : row'[m] = row[m]
        /\ \A m \in Msgs : row[m] # None => row'[m] # None
        /\ row' = RowWritten(w) => row'[Msg(w)] # None
    BY <1>1, RowWrittenFacts, SignalAssumption
  <1>3. row'[Msg(w)] # None
    <2>1. CASE Mine(w) = wk[w].seen
      <3>1. wk[w].seen # None
        BY <1>1, <2>1, MineTyped, SignalAssumption
      <3>2. row[Msg(w)] # None
        BY <3>1 DEF TInv, Local, Typed
      <3> QED BY <1>2, <3>2, CommitEffect
    <2>2. CASE Mine(w) # wk[w].seen
      BY <1>2, <2>2, CommitEffect
    <2> QED BY <2>1, <2>2
  <1>4. /\ sig'[Msg(w)] # None /\ \A m \in Msgs \ {Msg(w)} : sig'[m] = sig[m] /\ dec'[m] = dec[m]
    BY CommitEffect DEF TInv, TypeOK
  <1>5. RowsFirst'
    BY <1>2, <1>3, <1>4 DEF EInv, RowsFirst
  <1> QED BY <1>1, <1>2, <1>4, <1>5, CommitEffect, LeaveEntered

LEMMA ReadEntered ==
  ASSUME TInv, EInv, NEW w \in Workers, Read(w)
  PROVE  EInv'
  <1>1. /\ \A v \in Workers \ {w} : wk'[v] = wk[v]
        /\ wk'[w].pc = "write" /\ UNCHANGED <<row, sig, dec, redone>>
    BY ReadStep DEF TInv, Read, Alone, db, history
  <1>2. \A v \in Workers : /\ Inside(v)' = (v # w /\ Inside(v)) /\ At(v, "check")' = (v # w /\ At(v, "check"))
                           /\ v # w => Msg(v)' = Msg(v) /\ Edited(v)' = Edited(v)
    BY <1>1 DEF Inside, At, Msg, Edited
  <1>3. Entered'
    <2> SUFFICES ASSUME NEW v \in Workers PROVE EnteredBy(v)'
      BY DEF Entered
    <2>1. CASE v = w
      BY <1>2, <2>1 DEF EnteredBy
    <2>2. CASE v # w
      BY <1>1, <1>2, <2>2 DEF EInv, Entered, EnteredBy, HasRow
    <2> QED BY <2>1, <2>2
  <1>4. RowsFirst'
    BY <1>1 DEF EInv, RowsFirst
  <1>5. Unexecuted'
    BY <1>1, <1>2 DEF EInv, Unexecuted, Executed
  <1> QED BY <1>3, <1>4, <1>5 DEF EInv

LEMMA NextEntered ==
  ASSUME TInv, LInv, EInv, [Next]_vars
  PROVE  EInv'
  <1>1. ASSUME NEW w \in Workers, Steps(w) PROVE EInv'
    <2>1. CASE Rollback(w) \/ Take(w) \/ Ack(w) \/ Fault(w) \/ ((Fill(w) \/ Deduplicate(w)) /\ Drops(w))
      <3>1. UNCHANGED <<row, sig, dec, redone>>
        BY <2>1 DEF Rollback, Take, Ack, Fault, Fill, Deduplicate, db, history
      <3> QED BY <2>1, <3>1, LeaveSteps, QuietLeave DEF TInv
    <2>2. CASE CommitRow(w) /\ (Check(w) \/ Lookup(w))
      BY <2>2, CommitRowEntered DEF Check, Lookup
    <2>3. CASE Commit(w) /\ ~Rollback(w)
      BY <2>3, CommitEntered
    <2>4. CASE Read(w)
      BY <2>4, ReadEntered
    <2>5. CASE Stays(w)
      BY <2>5, StayEntered
    <2> QED BY <1>1, <2>1, <2>2, <2>3, <2>4, <2>5, StayingSteps
  <1>2. CASE UNCHANGED <<db, wk, history>>
    BY <1>2 DEF EInv, Entered, EnteredBy, RowsFirst, Unexecuted, Executed,
       Inside, At, Msg, Edited, HasRow, db, history
  <1> QED BY <1>1, <1>2 DEF Next, Steps, BrokerCloses, vars

LEMMA InitEntered == Init => EInv
  <1> SUFFICES ASSUME Init PROVE EInv
    OBVIOUS
  <1>1. /\ \A w \in Workers : wk[w].pc = "idle"
        /\ \A m \in Msgs : row[m] = None /\ sig[m] = None /\ \A a \in Accounts : dec[m][a] = "none"
    BY DEF Init, Idle
  <1>2. RowsFirst
    BY <1>1 DEF RowsFirst
  <1>3. Entered /\ Unexecuted
    BY <1>1 DEF Entered, EnteredBy, Unexecuted, Inside, At
  <1> QED BY <1>2, <1>3 DEF EInv

(* Only a commit of a routed signal touches signals, decisions and the     *)
(* rows that own an order.                                                 *)
LEMMA DecisionsCommit ==
  ASSUME TInv, [Next]_vars, ~UNCHANGED <<sig, dec, tracked>>
  PROVE  \E w \in Workers : Commit(w) /\ ~Rollback(w)
  <1>1. ASSUME NEW w \in Workers, Steps(w), ~Commit(w)
        PROVE  UNCHANGED <<sig, dec, tracked>>
    <2>1. CASE Stays(w) \/ Take(w) \/ Ack(w) \/ Read(w) \/ Fault(w) \/ Fill(w) \/ Deduplicate(w)
      BY <2>1 DEF Stays, Take, Ack, Read, Fault, Fill, Deduplicate, db
    <2>2. CASE Rollback(w) \/ CommitRow(w)
      BY <2>2 DEF Rollback, CommitRow, db
    <2> QED BY <1>1, <2>1, <2>2, StayingSteps
  <1>2. \A w \in Workers : Rollback(w) => UNCHANGED <<sig, dec, tracked>>
    BY DEF Rollback, db
  <1> QED BY <1>1, <1>2 DEF Next, Steps, BrokerCloses, vars, db

(* An edit never re-enters or rewrites an executed signal: who is past the *)
(* checks has the message to itself, because it inserted its row or holds  *)
(* its lock.  The messages excepted are those in redone, of which an edit  *)
(* was handled again when its text was already in the row.                 *)
THEOREM ExecutedSignalsStand == Spec => ExecutedStands
  <1> DEFINE Keeps == \A m \in Msgs \ redone, a \in Accounts :
                        dec[m][a] = "APPROVED" => dec'[m][a] = "APPROVED" /\ sig'[m] = sig[m]
  <1>1. ASSUME TInv, EInv, [Next]_vars PROVE [Keeps]_vars
    <2>1. ASSUME NEW w \in Workers, Commit(w), ~Rollback(w) PROVE Keeps
      <3>1. Inside(w) /\ \A m \in Msgs \ {Msg(w)} : dec'[m] = dec[m] /\ sig'[m] = sig[m]
        BY <1>1, <2>1, CommitEffect DEF TInv, TypeOK
      <3>2. Msg(w) \in redone \/ ~Executed(Msg(w))
        BY <1>1, <3>1 DEF EInv, Unexecuted
      <3> QED BY <3>1, <3>2 DEF Executed
    <2>2. CASE UNCHANGED <<sig, dec, tracked>>
      BY <2>2
    <2> QED BY <1>1, <2>1, <2>2, DecisionsCommit
  <1>2. Spec => [](TInv /\ LInv /\ EInv)
    BY InitTyped, NextTyped, InitLocks, NextLocks, InitEntered, NextEntered, PTL DEF Spec
  <1>3. TInv /\ EInv /\ [Next]_vars => [Keeps]_vars
    BY <1>1
  <1> QED BY <1>2, <1>3, PTL DEF Spec, ExecutedStands

-----------------------------------------------------------------------------
LEMMA SoundFacts ==
  ASSUME FInv, faults = 0
  PROVE  /\ \A w \in Workers : Sound(w)
         /\ Tracks /\ orders \ Losable \subseteq tracked \union InHand
         /\ \A t, u \in orders \ Losable : t.acct = u.acct /\ t.fp = u.fp => t = u
  BY DEF FInv, OrphansNeedAFault, RepostNotTraded

(* What was sent or lost before stays so.                                  *)
Grows == orders \subseteq orders' /\ raised \subseteq raised' /\ redone \subseteq redone'
LEMMA LosableGrows ==
  ASSUME Grows
  PROVE  /\ Losable \subseteq Losable'
         /\ \A t \in orders' : t.part \/ t.msg \in raised' \union redone' => t \in Losable'
         /\ \A t \in orders' \ Losable' : t \in orders => t \in orders \ Losable
  BY DEF Grows, Losable

(* Whoever is not routing, or has gates ahead, has no order in hand.       *)
LEMMA EmptyHanded ==
  ASSUME NEW w \in Workers, Sound(w), ~Routing(w) \/ wk[w].gates # {}
  PROVE  wk[w].tick = {}
  BY DEF Sound, Ticks

(* A step of one job leaves the others sound.                              *)
LEMMA OthersSound ==
  ASSUME FInv, faults = 0, NEW w \in Workers, Alone(w), Grows, UNCHANGED <<sig, dec>>,
         NEW v \in Workers \ {w}
  PROVE  Sound(v)'
  <1>1. wk'[v] = wk[v] /\ Losable \subseteq Losable' /\ redone \subseteq redone'
    BY LosableGrows DEF Alone, Grows
  <1>2. /\ Msg(v)' = Msg(v) /\ Hash(v)' = Hash(v) /\ Routing(v)' = Routing(v)
        /\ Listed(v)' = Listed(v) /\ At(v, "flush")' = At(v, "flush")
    BY <1>1 DEF Msg, Hash, Routing, Listed, At
  <1>3. Sound(v)
    BY SoundFacts
  <1>4. NoClash(v)'
    BY <1>1, <1>2, <1>3 DEF Sound, NoClash, Clash
  <1>5. Claimed(v)' /\ OneTurn(v)'
    BY <1>1, <1>2, <1>3 DEF Sound, Claimed, OneTurn, Posted
  <1>6. Ticks(v)'
    BY <1>1, <1>2, <1>3 DEF Sound, Ticks
  <1> QED BY <1>4, <1>5, <1>6 DEF Sound

(* A step that sends and drops losable orders only.                        *)
LEMMA QuietSound ==
  ASSUME TInv, FInv, faults = 0, NEW w \in Workers, Alone(w), Sound(w)', Grows,
         \A t \in wk[w].tick : t \in wk'[w].tick \/ t \in Losable',
         \A t \in orders' \ orders : t \in Losable', UNCHANGED <<sig, dec, tracked>>
  PROVE  FInv'
  <1>1. \A v \in Workers \ {w} : wk'[v] = wk[v]
    BY DEF Alone
  <1>2. /\ Losable \subseteq Losable' /\ \A t \in orders' \ Losable' : t \in orders \ Losable
    BY LosableGrows
  <1>3. Tracks'
    BY <1>2, SoundFacts DEF Tracks, Grows
  <1>4. ASSUME NEW t \in orders' \ Losable' PROVE t \in tracked' \union InHand'
    <2>1. CASE t \in tracked
      BY <2>1
    <2>2. ASSUME NEW v \in Workers, t \in wk[v].tick PROVE t \in InHand'
      BY <1>1, <1>4, <2>2 DEF InHand
    <2>3. t \in tracked \/ \E v \in Workers : t \in wk[v].tick
      BY <1>2, <1>4, SoundFacts DEF InHand
    <2> QED BY <2>1, <2>2, <2>3
  <1>5. OrphansNeedAFault' /\ RepostNotTraded'
    BY <1>2, <1>4, SoundFacts DEF OrphansNeedAFault, RepostNotTraded
  <1> QED BY <1>3, <1>5, OthersSound DEF FInv

LEMMA LeaveSound ==
  ASSUME TInv, FInv, faults = 0, NEW w \in Workers, Leaves(w), Grows,
         \A t \in wk[w].tick : t \in Losable',
         \A t \in orders' \ orders : t \in Losable', UNCHANGED <<sig, dec, tracked>>
  PROVE  FInv'
  <1>1. Sound(w)'
    BY DEF Leaves, Sound, NoClash, Claimed, OneTurn, Ticks, Routing, At
  <1> QED BY <1>1, QuietSound DEF Leaves

(* An exception behind an order makes all of the message losable.          *)
LEMMA DropSound ==
  ASSUME TInv, FInv, faults = 0, NEW w \in Workers, Drops(w), Grows,
         \A t \in orders' \ orders : t.msg = Msg(w), UNCHANGED <<sig, dec, tracked>>
  PROVE  FInv'
  <1>1. Leaves(w) /\ raised' = raised \union {Msg(w)}
    BY LeaveSteps DEF Drops, TInv
  <1>2. \A t \in wk[w].tick : t \in orders' /\ t.msg = Msg(w)
    BY SoundFacts, Working DEF Sound, Ticks, Grows
  <1>3. \A t \in orders' : t.msg = Msg(w) => t \in Losable'
    BY <1>1, LosableGrows
  <1> QED BY <1>1, <1>2, <1>3, LeaveSound

Calm == UNCHANGED <<sig, dec, tracked, orders>> /\ Grows

(* Steps before the flush.                                                 *)
LEMMA EarlySound ==
  ASSUME TInv, FInv, faults = 0, NEW w \in Workers, Alone(w), SameRoute(w), ~Routing(w),
         ~Routing(w)', ~At(w, "flush")', Calm
  PROVE  FInv'
  <1>1. Sound(w) /\ wk[w].tick = {}
    BY EmptyHanded, SoundFacts
  <1>2. Sound(w)'
    BY <1>1 DEF SameRoute, Sound, NoClash, Claimed, OneTurn, Ticks
  <1> QED BY <1>1, <1>2, QuietSound DEF Calm

LEMMA FlushedSound ==
  ASSUME TInv, FInv, faults = 0, NEW w \in Workers, Moves(w, "flush"), SameRoute(w), ~Routing(w),
         \A a \in Accounts : dec[Msg(w)][a] # "none" => a \in wk'[w].del, Calm
  PROVE  FInv'
  <1>1. Sound(w) /\ wk[w].tick = {}
    BY EmptyHanded, SoundFacts
  <1>2. Msg(w)' = Msg(w)
    BY DEF Moves, SameJob, Msg
  <1>3. NoClash(w)'
    BY <1>2 DEF NoClash, Clash, Calm
  <1>4. Sound(w)'
    BY <1>1, <1>3 DEF Moves, SameRoute, Sound, Claimed, OneTurn, Ticks, Routing
  <1> QED BY <1>1, <1>4, QuietSound DEF Moves, Calm

(* While it routes a job keeps its message, its content and its claim.     *)
LEMMA RoutingSound ==
  ASSUME TInv, FInv, faults = 0, NEW w \in Workers, Alone(w), SameJob(w), Routing(w), Routing(w)',
         wk[w].locks \subseteq wk'[w].locks, wk'[w].del = wk[w].del, UNCHANGED <<sig, dec>>, Grows
  PROVE  /\ NoClash(w)' /\ Claimed(w)'
         /\ Msg(w)' = Msg(w) /\ Hash(w)' = Hash(w)
  <1>1. Msg(w)' = Msg(w) /\ Hash(w)' = Hash(w)
    BY DEF SameJob, Msg, Hash
  <1>2. NoClash(w) /\ Claimed(w)
    BY SoundFacts DEF Sound
  <1> QED BY <1>1, <1>2 DEF NoClash, Claimed, Clash, Posted, Grows

LEMMA GotoSound ==
  ASSUME TInv, FInv, faults = 0, NEW w \in Workers, NEW p \in {"place", "gate"}, Moves(w, p),
         SameRoute(w), wk'[w].locks = wk[w].locks, wk'[w].del = wk[w].del, Routing(w), Calm
  PROVE  FInv'
  <1>1. Sound(w) /\ Losable \subseteq Losable'
    BY SoundFacts, LosableGrows DEF Calm
  <1>2. /\ NoClash(w)' /\ Claimed(w)' /\ Msg(w)' = Msg(w) /\ Hash(w)' = Hash(w) /\ Routing(w)'
    BY RoutingSound DEF Moves, Routing, Calm
  <1>3. OneTurn(w)' /\ Ticks(w)'
    BY <1>1, <1>2 DEF SameRoute, Sound, OneTurn, Ticks, Listed
  <1>4. wk'[w].tick = wk[w].tick
    BY DEF SameRoute
  <1> QED BY <1>2, <1>3, <1>4, QuietSound DEF Moves, Sound, Calm

LEMMA FlushSound ==
  ASSUME TInv, FInv, faults = 0, NEW w \in Workers, Flush(w), ~Rollback(w)
  PROVE  FInv'
  <1>1. /\ Moves(w, "gate") /\ wk'[w].locks = wk[w].locks \union Claims(w)
        /\ wk'[w].todo = wk[w].todo /\ wk'[w].del = wk[w].del /\ wk'[w].tick = wk[w].tick
        /\ ~Posted(Msg(w), Hash(w)) /\ UNCHANGED <<stream, db, broker, history>>
    BY FlushStep DEF TInv
  <1>2. Sound(w) /\ At(w, "flush") /\ ~Routing(w) /\ wk[w].tick = {} /\ wk[w].todo = <<>>
    BY EmptyHanded, SoundFacts DEF Flush, Routing, At, Sound, OneTurn
  <1>3. Msg(w)' = Msg(w) /\ Hash(w)' = Hash(w) /\ Calm
    BY <1>1 DEF Moves, SameJob, Msg, Hash, db, broker, history, Calm, Grows
  <1>4. NoClash(w)' /\ Claimed(w)'
    BY <1>1, <1>2, <1>3 DEF Sound, NoClash, Claimed, Claims, Clash, Posted, Calm, Grows
  <1>5. OneTurn(w)' /\ Ticks(w)'
    BY <1>1, <1>2 DEF Moves, OneTurn, Ticks, Routing
  <1> QED BY <1>1, <1>3, <1>4, <1>5, QuietSound DEF Moves, Sound, Calm

LEMMA GateRejectSound ==
  ASSUME TInv, FInv, faults = 0, NEW w \in Workers, Rejects(w), ~Rollback(w)
  PROVE  FInv'
  <1>1. PICK a \in wk[w].gates, L \in SUBSET {<<"stat", b>> : b \in Accounts} :
          /\ Moves(w, "gate") /\ wk'[w].locks = wk[w].locks \union L /\ wk'[w].del = wk[w].del
          /\ wk'[w].gates = wk[w].gates \ {a} /\ wk'[w].todo = wk[w].todo
          /\ wk'[w].tick = wk[w].tick /\ UNCHANGED <<stream, db, broker, history>>
    BY RejectStep DEF TInv
  <1>2. At(w, "gate")
    BY DEF Rejects, GateReject, GuardedReject, GetsDay
  <1>3. Sound(w) /\ Routing(w) /\ Routing(w)' /\ wk[w].tick = {}
    BY <1>1, <1>2, EmptyHanded, SoundFacts DEF Routing, At, Moves
  <1>4. Calm
    BY <1>1 DEF db, broker, history, Calm, Grows
  <1>5. wk[w].locks \subseteq wk'[w].locks
    BY <1>1
  <1>6. NoClash(w)' /\ Claimed(w)'
    BY <1>1, <1>3, <1>4, <1>5, RoutingSound DEF Moves, Calm
  <1>7. OneTurn(w)' /\ Ticks(w)'
    BY <1>1, <1>3 DEF Sound, OneTurn, Ticks
  <1> QED BY <1>1, <1>3, <1>4, <1>6, <1>7, QuietSound DEF Moves, Sound, Calm

LEMMA GatePassSound ==
  ASSUME TInv, FInv, faults = 0, NEW w \in Workers, Passes(w)
  PROVE  FInv'
  <1>1. PICK a \in wk[w].gates :
          /\ Moves(w, "gate") /\ wk'[w].locks = wk[w].locks \union {<<"stat", a>>}
          /\ wk'[w].gates = wk[w].gates \ {a} /\ wk'[w].todo = Append(wk[w].todo, a)
          /\ wk'[w].tick = wk[w].tick /\ wk'[w].del = wk[w].del /\ At(w, "gate")
          /\ UNCHANGED <<stream, db, broker, history>>
    BY GatePassStep DEF TInv
  <1>2. Sound(w) /\ Routing(w) /\ Routing(w)' /\ wk[w].tick = {} /\ a \in Accounts
    BY <1>1, EmptyHanded, SoundFacts, Working DEF Routing, At, Moves
  <1>3. Calm
    BY <1>1 DEF db, broker, history, Calm, Grows
  <1>4. NoClash(w)' /\ Claimed(w)'
    BY <1>1, <1>2, <1>3, RoutingSound DEF Moves, Calm
  <1>5. OneTurn(w)'
    <2>1. /\ DOMAIN wk'[w].todo = 1..(Len(wk[w].todo) + 1) /\ DOMAIN wk[w].todo = 1..Len(wk[w].todo)
          /\ Len(wk[w].todo) \in Nat /\ wk'[w].todo[Len(wk[w].todo) + 1] = a
          /\ \A i \in DOMAIN wk[w].todo : wk'[w].todo[i] = wk[w].todo[i]
      BY <1>1, <1>2, AppendListed, Working
    <2>2. \A i \in DOMAIN wk'[w].todo : i \in DOMAIN wk[w].todo \/ i = Len(wk[w].todo) + 1
      BY <2>1
    <2>3. \A i \in DOMAIN wk[w].todo : wk[w].todo[i] \notin wk[w].gates /\ wk[w].todo[i] # a
      BY <1>1, <1>2 DEF Sound, OneTurn
    <2>4. \A i, j \in DOMAIN wk[w].todo : wk[w].todo[i] = wk[w].todo[j] => i = j
      BY <1>2 DEF Sound, OneTurn
    <2>5. \A i \in DOMAIN wk'[w].todo : wk'[w].todo[i] \notin wk'[w].gates
      BY <1>1, <2>1, <2>2, <2>3
    <2>6. ASSUME NEW i \in DOMAIN wk'[w].todo, NEW j \in DOMAIN wk'[w].todo,
                 wk'[w].todo[i] = wk'[w].todo[j]
          PROVE  i = j
      BY <2>1, <2>2, <2>3, <2>4, <2>6
    <2> QED BY <1>2, <2>5, <2>6 DEF OneTurn
  <1>6. Ticks(w)'
    BY <1>1, <1>2 DEF Ticks
  <1> QED BY <1>1, <1>3, <1>4, <1>5, <1>6, QuietSound DEF Moves, Sound, Calm

(* The account whose turn it was is done with.                             *)
LEMMA DecideSound ==
  ASSUME TInv, FInv, faults = 0, NEW w \in Workers, NEW d, NEW T, Decide(w, d, T),
         Routing(w), wk[w].gates = {}, wk[w].todo # <<>>, UNCHANGED <<sig, dec>>, Grows,
         \A t \in T : /\ d = "APPROVED" /\ t.msg = Msg(w) /\ t.acct = Here(w)
                      /\ t \in Losable' \/ t.fp = Hash(w)
  PROVE  /\ Alone(w) /\ Sound(w)' /\ wk'[w].tick = wk[w].tick \union T
         /\ \A t \in wk[w].tick : t.acct # Here(w)
  <1>1. /\ Moves(w, "gate") /\ wk'[w].locks = wk[w].locks /\ wk'[w].del = wk[w].del
        /\ wk'[w].gates = wk[w].gates /\ wk'[w].todo = Tail(wk[w].todo)
        /\ wk'[w].draft = [wk[w].draft EXCEPT ![Here(w)] = d]
        /\ wk'[w].tick = wk[w].tick \union T
    BY DecideStep DEF TInv
  <1>2. Sound(w) /\ Routing(w)' /\ Losable \subseteq Losable'
    BY <1>1, SoundFacts, LosableGrows DEF Routing, Moves
  <1>3. NoClash(w)' /\ Claimed(w)' /\ Msg(w)' = Msg(w) /\ Hash(w)' = Hash(w)
    BY <1>1, <1>2, RoutingSound DEF Moves
  <1>4. /\ DOMAIN wk'[w].todo = 1..(Len(wk[w].todo) - 1) /\ DOMAIN wk[w].todo = 1..Len(wk[w].todo)
        /\ Len(wk[w].todo) \in Nat \ {0} /\ Here(w) = wk[w].todo[1] /\ 1 \in DOMAIN wk[w].todo
        /\ \A i \in DOMAIN wk'[w].todo : i + 1 \in DOMAIN wk[w].todo /\ wk'[w].todo[i] = wk[w].todo[i + 1]
        /\ Here(w) \in Accounts
    BY <1>1, HereFacts
  <1>5. \A i, j \in DOMAIN wk[w].todo : wk[w].todo[i] = wk[w].todo[j] => i = j
    BY <1>2 DEF Sound, OneTurn
  <1>6. OneTurn(w)'
    <2>1. ASSUME NEW i \in DOMAIN wk'[w].todo, NEW j \in DOMAIN wk'[w].todo,
                 wk'[w].todo[i] = wk'[w].todo[j]
          PROVE  i = j
      <3>1. /\ i + 1 \in DOMAIN wk[w].todo /\ j + 1 \in DOMAIN wk[w].todo
            /\ wk[w].todo[i + 1] = wk[w].todo[j + 1]
        BY <1>4, <2>1
      <3>2. i + 1 = j + 1
        BY <1>5, <3>1
      <3> QED BY <1>4, <3>2
    <2> QED BY <1>1, <1>2, <2>1 DEF OneTurn
  <1>7. Listed(w)' \subseteq Listed(w) /\ Here(w) \in Listed(w)
    BY <1>4 DEF Listed
  <1>8. Here(w) \notin Listed(w)'
    <2>1. ASSUME NEW i \in DOMAIN wk'[w].todo, wk'[w].todo[i] = Here(w) PROVE FALSE
      <3>1. i + 1 = 1
        BY <1>4, <1>5, <2>1
      <3> QED BY <1>4, <3>1
    <2> QED BY <2>1 DEF Listed
  <1>9. wk[w].draft \in [Accounts -> Decisions]
    BY Working
  <1>10. \A t \in wk[w].tick : /\ t.acct # Here(w) /\ wk[w].draft[t.acct] = "APPROVED"
                               /\ t.acct \notin Listed(w)' /\ t.msg = Msg(w)
                               /\ t \in Losable' \/ t.fp = Hash(w)
    BY <1>2, <1>7 DEF Sound, Ticks
  <1>11. \A t \in wk[w].tick : wk'[w].draft[t.acct] = "APPROVED"
    BY <1>1, <1>9, <1>10
  <1>12. T # {} => wk'[w].draft[Here(w)] = "APPROVED"
    BY <1>1, <1>4, <1>9
  <1>13. Ticks(w)'
    BY <1>1, <1>2, <1>3, <1>8, <1>10, <1>11, <1>12 DEF Ticks
  <1> QED BY <1>1, <1>3, <1>6, <1>10, <1>13 DEF Moves, Sound

(* Before a fault no order of an execution that is not losable is there    *)
(* when its job places it: the job is the only one on the message, which   *)
(* is not executed.                                                        *)
LEMMA OrderIsNew ==
  ASSUME TInv, LInv, EInv, FInv, faults = 0, NEW w \in Workers, Routing(w), wk[w].todo # <<>>,
         NEW t \in orders \ Losable, t.acct = Here(w)
  PROVE  t.msg # Msg(w) /\ t.fp # Hash(w)
  <1>1. t \in Tickets /\ Inside(w) /\ Here(w) \in Accounts /\ t.msg \notin redone
    BY HereFacts DEF TInv, TypeOK, Inside, Routing, Losable
  <1>2. Here(w) \in Listed(w)
    BY HereFacts DEF Listed
  <1>3. t \in tracked \/ \E v \in Workers : t \in wk[v].tick
    BY SoundFacts DEF InHand
  <1>4. CASE t \in tracked
    <2>1. dec[t.msg][t.acct] = "APPROVED" /\ sig[t.msg] = t.fp /\ t.msg \in Msgs
      BY <1>1, <1>4, SoundFacts DEF Tracks, Tickets
    <2>2. (Msg(w) \in redone \/ ~Executed(Msg(w))) /\ ~Posted(Msg(w), Hash(w))
      BY <1>1, SoundFacts DEF EInv, Unexecuted, Sound, Claimed
    <2> QED BY <1>1, <2>1, <2>2 DEF Executed, Posted
  <1>5. ASSUME NEW v \in Workers, t \in wk[v].tick PROVE t.msg # Msg(w) /\ t.fp # Hash(w)
    <2>1. Routing(v) /\ t.msg = Msg(v) /\ t.fp = Hash(v) /\ t.acct \notin Listed(v) /\ Claimed(v)
      BY <1>5, SoundFacts DEF Sound, Ticks
    <2>2. v # w
      BY <1>2, <2>1
    <2>3. Msg(v) # Msg(w)
      BY <1>1, <2>1, <2>2, Apart DEF Inside, Routing
    <2>4. <<"fp", Hash(v)>> \in wk[v].locks /\ <<"fp", Hash(w)>> \in wk[w].locks
      BY <2>1, SoundFacts DEF Sound, Claimed
    <2>5. Hash(v) # Hash(w)
      BY <2>2, <2>4 DEF LInv, OneHolder
    <2> QED BY <2>1, <2>3, <2>5
  <1> QED BY <1>3, <1>4, <1>5

LEMMA RejectedSound ==
  ASSUME TInv, FInv, faults = 0, NEW w \in Workers, GuardReject(w) \/ PlaceError(w) \/ FillPartly(w)
  PROVE  FInv'
  <1>1. /\ Decide(w, "REJECTED", {}) /\ Routing(w) /\ wk[w].gates = {} /\ wk[w].todo # <<>>
        /\ UNCHANGED <<sig, dec, tracked>>
    BY Working DEF GuardReject, PlaceError, FillPartly, FindsNone, Turn, Looks, At, Routing, db
  <1>2. Grows /\ \A t \in orders' \ orders : t.part
    <2>1. CASE GuardReject(w) \/ PlaceError(w)
      BY <2>1 DEF GuardReject, PlaceError, broker, history, Grows
    <2>2. CASE FillPartly(w)
      <3>1. Looks(w) /\ orders' = orders \union {NewOrder(w, TRUE)} /\ UNCHANGED history
        BY <2>2 DEF FillPartly, FindsNone, Sends
      <3> QED BY <3>1 DEF Grows, history, NewOrder
    <2> QED BY <2>1, <2>2
  <1>3. \A t \in orders' \ orders : t \in Losable'
    BY <1>2, LosableGrows
  <1>4. Alone(w) /\ Sound(w)' /\ wk'[w].tick = wk[w].tick \union {}
    <2>1. \A t \in {} : /\ "REJECTED" = "APPROVED" /\ t.msg = Msg(w) /\ t.acct = Here(w)
                        /\ t \in Losable' \/ t.fp = Hash(w)
      OBVIOUS
    <2> QED BY <1>1, <1>2, <2>1, DecideSound
  <1> QED BY <1>1, <1>2, <1>3, <1>4, QuietSound

LEMMA DeduplicateSound ==
  ASSUME TInv, LInv, EInv, FInv, faults = 0, NEW w \in Workers, Deduplicate(w)
  PROVE  FInv'
  <1>1. PICK t \in Same(w) : Planned(w, t)
    BY DEF Deduplicate
  <1>2. /\ t \in orders /\ t.msg = Msg(w) /\ t.acct = Here(w) /\ Routing(w) /\ wk[w].todo # <<>>
        /\ wk[w].gates = {} /\ UNCHANGED <<sig, dec, tracked, orders, redone>>
    BY <1>1, Working DEF Same, Of, Deduplicate, Looks, Routing, TInv, TypeOK, db, broker
  <1>3. t \in Losable
    BY <1>2, OrderIsNew
  <1>4. CASE Drops(w)
    BY <1>2, <1>4, DropSound DEF Drops, Grows
  <1>5. CASE Decide(w, "APPROVED", {t}) /\ UNCHANGED raised
    <2>1. Grows /\ Losable \subseteq Losable'
      BY <1>2, <1>5, LosableGrows DEF Grows
    <2>2. Alone(w) /\ Sound(w)' /\ wk'[w].tick = wk[w].tick \union {t}
      BY <1>2, <1>3, <1>5, <2>1, DecideSound
    <2> QED BY <1>2, <2>1, <2>2, QuietSound
  <1> QED BY <1>1, <1>4, <1>5, PlannedStep

LEMMA FillSound ==
  ASSUME TInv, LInv, EInv, FInv, faults = 0, NEW w \in Workers, Fill(w)
  PROVE  FInv'
  <1> DEFINE new == NewOrder(w, FALSE)
  <1>1. /\ Planned(w, new) /\ Routing(w) /\ wk[w].gates = {} /\ wk[w].todo # <<>> /\ Looks(w)
        /\ UNCHANGED <<sig, dec, tracked, redone>> /\ orders' = orders \union {new}
    BY Working DEF Fill, FindsNone, Looks, Sends, Routing, db
  <1>2. new.msg = Msg(w) /\ new.acct = Here(w) /\ new.fp = Hash(w)
    BY <1>1, NewOrderFacts
  <1> HIDE DEF new
  <1>3. CASE Drops(w)
    BY <1>1, <1>2, <1>3, DropSound DEF Drops, Grows
  <1>4. CASE Decide(w, "APPROVED", {new}) /\ UNCHANGED raised
    <2>1. Grows
      BY <1>1, <1>4 DEF Grows
    <2>2. Alone(w) /\ Sound(w)' /\ wk'[w].tick = wk[w].tick \union {new}
      BY <1>1, <1>2, <1>4, <2>1, DecideSound
    <2>3. \A v \in Workers \ {w} : wk'[v] = wk[v]
      BY <2>2 DEF Alone
    <2>4. /\ Losable \subseteq Losable'
          /\ \A t \in orders' \ Losable' : t = new \/ t \in orders \ Losable
      BY <1>1, <2>1, LosableGrows
    <2>5. Tracks'
      BY <1>1, <2>4, SoundFacts DEF Tracks
    <2>6. orders' \ Losable' \subseteq tracked' \union InHand'
      <3>1. InHand \union {new} \subseteq InHand'
        BY <2>2, <2>3 DEF InHand
      <3> QED BY <1>1, <2>4, <3>1, SoundFacts
    <2>7. \A t, u \in orders' \ Losable' : t.acct = u.acct /\ t.fp = u.fp => t = u
      <3>1. \A t \in orders \ Losable : t.acct = Here(w) => t.fp # Hash(w)
        BY <1>1, OrderIsNew
      <3> QED BY <1>2, <2>4, <3>1, SoundFacts
    <2>8. \A v \in Workers : Sound(v)'
      BY <1>1, <2>1, <2>2, OthersSound
    <2> QED BY <2>5, <2>6, <2>7, <2>8 DEF FInv, OrphansNeedAFault, RepostNotTraded
  <1> QED BY <1>1, <1>3, <1>4, PlannedStep

LEMMA CommitSound ==
  ASSUME TInv, LInv, EInv, FInv, faults = 0, NEW w \in Workers, Commit(w), ~Rollback(w)
  PROVE  FInv'
  <1> DEFINE m == Msg(w)
  <1>1. /\ sig' = [sig EXCEPT ![m] = Hash(w)] /\ dec' = [dec EXCEPT ![m] = wk[w].draft]
        /\ tracked' = tracked \union wk[w].tick /\ UNCHANGED <<orders, raised, redone>>
        /\ Inside(w) /\ Routing(w) /\ Leaves(w) /\ m \in Msgs /\ Hash(w) # None
    BY CommitEffect DEF broker, history, Routing, At
  <1>2. /\ sig'[m] = Hash(w) /\ dec'[m] = wk[w].draft
        /\ \A n \in Msgs \ {m} : sig'[n] = sig[n] /\ dec'[n] = dec[n]
    BY <1>1 DEF TInv, TypeOK
  <1>3. /\ m \in redone \/ ~Executed(m)
        /\ tracked \subseteq Tickets /\ wk[w].tick \subseteq Tickets /\ tracked \subseteq orders
    BY <1>1, Working DEF EInv, Unexecuted, TInv, TypeOK
  <1>4. Losable' = Losable
    BY <1>1 DEF Losable
  <1>5. \A t \in orders : t.msg \in redone => t \in Losable
    BY DEF Losable
  <1> HIDE DEF m
  <1>6. Sound(w)'
    BY <1>1 DEF Leaves, Sound, NoClash, Claimed, OneTurn, Ticks, Routing, At
  <1>7. \A v \in Workers \ {w} : wk'[v] = wk[v]
    BY <1>1 DEF Leaves, Alone
  <1>8. ASSUME NEW v \in Workers \ {w} PROVE Sound(v)'
    <2>1. /\ Msg(v)' = Msg(v) /\ Hash(v)' = Hash(v) /\ Routing(v)' = Routing(v)
          /\ Listed(v)' = Listed(v) /\ Sound(v) /\ At(v, "flush")' = At(v, "flush")
      BY <1>7, SoundFacts DEF Msg, Hash, Routing, Listed, At
    <2>2. OneTurn(v)' /\ Ticks(v)'
      BY <1>4, <1>7, <2>1 DEF Sound, OneTurn, Ticks
    <2>3. ASSUME At(v, "flush") \/ Routing(v), Msg(v) \notin redone PROVE NoClash(v)'
      <3>1. Inside(v)
        BY <2>3 DEF Inside, Routing, At
      <3>2. Msg(v) # m /\ Msg(v) \in Msgs
        BY <1>1, <2>3, <3>1, Apart, JobFacts, Working DEF m, Inside, At
      <3>3. dec'[Msg(v)] = dec[Msg(v)]
        BY <1>2, <3>2
      <3> QED BY <1>7, <2>1, <2>3, <3>3 DEF Sound, NoClash, Clash
    <2>4. ASSUME Routing(v) PROVE Claimed(v)'
      <3>1. <<"fp", Hash(v)>> \in wk[v].locks /\ <<"fp", Hash(w)>> \in wk[w].locks
        BY <1>1, <2>1, <2>4, SoundFacts DEF Sound, Claimed
      <3>2. Hash(v) # Hash(w)
        BY <3>1 DEF LInv, OneHolder
      <3>3. ~Posted(Msg(v), Hash(v))
        BY <2>1, <2>4 DEF Sound, Claimed
      <3>4. \A n \in Msgs \ {Msg(v)} : sig'[n] # Hash(v)
        BY <1>2, <3>2, <3>3 DEF Posted
      <3> QED BY <1>7, <2>1, <3>1, <3>4 DEF Claimed, Posted
    <2>5. NoClash(v)'
      BY <1>1, <2>1, <2>3 DEF NoClash
    <2>6. Claimed(v)'
      BY <2>1, <2>4 DEF Claimed
    <2> QED BY <2>2, <2>5, <2>6 DEF Sound
  <1>9. Tracks'
    <2>1. ASSUME NEW t \in tracked
          PROVE  /\ t.msg \in redone \/ dec'[t.msg][t.acct] = "APPROVED"
                 /\ t \in Losable \/ sig'[t.msg] = t.fp
      <3>1. /\ t.msg \in redone \/ dec[t.msg][t.acct] = "APPROVED"
            /\ t \in Losable \/ sig[t.msg] = t.fp
            /\ t.msg \in Msgs /\ t.acct \in Accounts
        BY <1>3, SoundFacts DEF Tracks, Tickets
      <3>2. CASE t.msg = m
        BY <1>3, <1>5, <3>1, <3>2 DEF Executed
      <3>3. CASE t.msg # m
        BY <1>2, <3>1, <3>3
      <3> QED BY <3>2, <3>3
    <2>2. ASSUME NEW t \in wk[w].tick
          PROVE  dec'[t.msg][t.acct] = "APPROVED" /\ (t \in Losable \/ sig'[t.msg] = t.fp)
      BY <1>2, SoundFacts DEF Sound, Ticks, m
    <2> QED BY <1>1, <1>4, <2>1, <2>2 DEF Tracks
  <1>10. orders' \ Losable' \subseteq tracked' \union InHand'
    <2>1. ASSUME NEW v \in Workers, NEW t \in wk[v].tick PROVE t \in tracked' \union InHand'
      BY <1>1, <1>7 DEF InHand
    <2> QED BY <1>1, <1>4, <2>1, SoundFacts DEF InHand
  <1> QED BY <1>1, <1>4, <1>6, <1>8, <1>9, <1>10, SoundFacts DEF FInv, OrphansNeedAFault, RepostNotTraded

(* Whoever rolls back before a fault has sent no order, or is about a      *)
(* message that was redone.                                                *)
LEMMA RollbackSound ==
  ASSUME TInv, EInv, FInv, faults = 0, NEW w \in Workers, Steps(w), Rollback(w), ~Fault(w)
  PROVE  FInv'
  <1>1. UNCHANGED <<sig, dec, tracked, orders>> /\ Leaves(w) /\ Grows
    BY LeaveSteps DEF Rollback, db, broker, history, Grows, TInv
  <1>2. CASE wk[w].tick = {}
    BY <1>1, <1>2, LeaveSound
  <1>3. CASE ~Routing(w) \/ wk[w].gates # {}
    BY <1>2, <1>3, EmptyHanded, SoundFacts
  <1>4. CASE Rejects(w) \/ Passes(w) \/ DeadlockVictim(w) \/ MissDay(w)
    BY <1>3, <1>4 DEF Rejects, GateReject, GuardedReject, Passes, GatePass, GetsDay, MissDay,
       DeadlockVictim, Crosswise, Waits
  <1>5. CASE InsertLost(w)
    BY <1>3, <1>5 DEF InsertLost
  <1>6. CASE GuardReject(w) \/ PlaceError(w) \/ FillPartly(w)
    BY <1>6, RejectedSound
  <1>7. CASE GuardPass(w) \/ LoseReply(w)
    <2>1. wk'[w].pc \in {"place", "rescan"}
      BY <1>7, GotoStep DEF GuardPass, LoseReply, Moves, TInv
    <2>2. wk'[w].pc = "idle"
      BY BecomeStep DEF Rollback, TInv, Idle
    <2> QED BY <2>1, <2>2
  <1>8. CASE Commit(w)
    <2>1. CASE ~(\E a \in Accounts : \/ Clash(w, a)
                                     \/ wk[w].draft[a] = "APPROVED" /\ Of(tracked, Msg(w), a) # {})
      <3> DEFINE done == [Idle EXCEPT !.pc = "ack", !.job = wk[w].job]
      <3>1. Become(w, done)
        BY <1>8, <2>1 DEF Commit
      <3>2. DOMAIN done = DOMAIN Idle /\ done.pc = "ack"
        BY FieldNames DEF Idle
      <3> HIDE DEF done
      <3>3. wk'[w] = done
        BY <3>1, <3>2, BecomeStep DEF TInv
      <3>4. wk'[w] = Idle /\ Idle.pc = "idle"
        BY BecomeStep DEF Rollback, TInv, Idle
      <3> QED BY <3>2, <3>3, <3>4
    <2>2. CASE Msg(w) \in redone
      <3>1. \A t \in wk[w].tick : t \in orders' /\ t.msg \in redone'
        BY <1>1, <2>2, SoundFacts, Working DEF Sound, Ticks, Grows
      <3>2. \A t \in wk[w].tick : t \in Losable'
        BY <1>1, <3>1, LosableGrows
      <3> QED BY <1>1, <3>2, LeaveSound
    <2>3. ASSUME NEW a \in Accounts, Clash(w, a) \/ Of(tracked, Msg(w), a) # {},
                 Msg(w) \notin redone
          PROVE  FALSE
      <3>1. Routing(w) /\ Inside(w) /\ Sound(w)
        BY <1>8, SoundFacts DEF Commit, Routing, Inside, At
      <3>2. ~Clash(w, a) /\ ~Executed(Msg(w))
        BY <2>3, <3>1 DEF Sound, NoClash, EInv, Unexecuted
      <3>3. PICK t \in tracked : t.msg = Msg(w) /\ t.acct = a
        BY <2>3, <3>2 DEF Of
      <3> QED BY <2>3, <3>2, <3>3, SoundFacts DEF Tracks, Executed
    <2> QED BY <2>1, <2>2, <2>3
  <1>9. CASE Take(w) \/ Read(w) \/ Insert(w) \/ Update(w) \/ Check(w) \/ Lookup(w) \/ Delete(w)
             \/ Flush(w) \/ Ack(w)
    BY <1>3, <1>9 DEF Take, Read, Insert, Update, Check, Lookup, Delete, Flush, Ack, Routing, At
  <1>10. CASE Deduplicate(w) \/ Fill(w)
    <2>1. PICK t : Planned(w, t)
      BY <1>10 DEF Deduplicate, Fill
    <2>2. wk'[w] = Idle /\ Idle.pc = "idle"
      BY BecomeStep DEF Rollback, TInv, Idle
    <2>3. Drops(w)
      BY <2>1, <2>2, PlannedStep, DecideStep DEF Moves, TInv
    <2> QED BY <1>1, <2>3, DropSound
  <1> QED BY <1>4, <1>5, <1>6, <1>7, <1>8, <1>9, <1>10 DEF Steps, Work, Chance, Rejects, Passes

LEMMA StepSound ==
  ASSUME TInv, LInv, EInv, FInv, faults = 0, NEW w \in Workers, Steps(w), ~Rollback(w),
         ~Fault(w), ~LoseReply(w)
  PROVE  FInv'
  <1> USE DEF TInv
  <1>1. CASE Take(w) \/ Ack(w) \/ ((Check(w) \/ Lookup(w)) /\ CommitRow(w))
    <2>1. UNCHANGED <<sig, dec, tracked, orders, raised, redone>> /\ Leaves(w) /\ ~Routing(w)
      BY <1>1, LeaveSteps DEF Take, Ack, Check, Lookup, CommitRow, db, broker, history, Routing, At
    <2>2. wk[w].tick = {} /\ Grows
      BY <2>1, EmptyHanded, SoundFacts DEF Grows
    <2> QED BY <2>1, <2>2, LeaveSound
  <1>2. CASE Read(w)
    <2>1. /\ Alone(w) /\ SameRoute(w) /\ ~Routing(w) /\ wk'[w].pc = "write" /\ Calm
      BY <1>2, ReadStep DEF Read, db, broker, history, Routing, At, Calm, Grows
    <2> QED BY <2>1, EarlySound DEF Routing, At
  <1>3. ASSUME NEW p, Goto(w, p), p \in {"check", "lookup", "delete"}, ~Routing(w), Calm
        PROVE  FInv'
    <2>1. Alone(w) /\ SameRoute(w) /\ wk'[w].pc = p
      BY <1>3, GotoStep DEF Moves
    <2> QED BY <1>3, <2>1, EarlySound DEF Routing, At
  <1>4. ASSUME NEW p, NEW l, wk' = [wk EXCEPT ![w].locks = @ \union {l}, ![w].pc = p],
               p \in {"check", "lookup"}, ~Routing(w), Calm
        PROVE  FInv'
    <2>1. Alone(w) /\ SameRoute(w) /\ wk'[w].pc = p
      BY <1>4, LockStep DEF Moves
    <2> QED BY <1>4, <2>1, EarlySound DEF Routing, At
  <1>5. UNCHANGED <<stream, db, broker, history>> => Calm
    BY DEF db, broker, history, Calm, Grows
  <1>6. CASE Insert(w)
    BY <1>4, <1>5, <1>6 DEF Insert, Routing, At
  <1>7. CASE Update(w)
    <2>1. Calm /\ ~Routing(w)
      BY <1>7 DEF Update, db, broker, Calm, Grows, Routing, At
    <2> QED BY <1>3, <1>4, <1>7, <2>1 DEF Update
  <1>8. CASE Check(w) /\ ~CommitRow(w)
    BY <1>3, <1>5, <1>8 DEF Check, Routing, At
  <1>9. CASE Lookup(w) /\ ~CommitRow(w)
    <2>1. /\ Goto(w, IF sig[Msg(w)] # None THEN "delete" ELSE "flush") /\ ~Routing(w)
          /\ Calm /\ At(w, "lookup")
      BY <1>5, <1>9 DEF Lookup, Routing, At
    <2>2. CASE sig[Msg(w)] # None
      BY <1>3, <2>1, <2>2
    <2>3. CASE sig[Msg(w)] = None
      <3>1. Msg(w) \in Msgs
        BY <2>1, Working, JobFacts DEF At
      <3>2. \A a \in Accounts : dec[Msg(w)][a] = "none"
        BY <2>3, <3>1 DEF EInv, RowsFirst
      <3>3. Moves(w, "flush") /\ SameRoute(w)
        BY <2>1, <2>3, GotoStep
      <3> QED BY <2>1, <3>2, <3>3, FlushedSound
    <2> QED BY <2>2, <2>3
  <1>10. CASE Delete(w)
    <2>1. /\ Moves(w, "flush") /\ SameRoute(w) /\ ~Routing(w) /\ Calm
          /\ wk'[w].del = {a \in Accounts : dec[Msg(w)][a] # "none"}
      BY <1>5, <1>10, DeleteStep DEF Delete, Routing, At
    <2> QED BY <2>1, FlushedSound
  <1>11. CASE GuardPass(w)
    <2>1. /\ Moves(w, "place") /\ SameRoute(w) /\ wk'[w].locks = wk[w].locks /\ wk'[w].del = wk[w].del
          /\ Routing(w) /\ Calm
      BY <1>5, <1>11, GotoStep DEF GuardPass, Turn, Routing, At
    <2> QED BY <2>1, GotoSound
  <1>12. CASE MissDay(w)
    <2>1. /\ Moves(w, "gate") /\ SameRoute(w) /\ wk'[w].locks = wk[w].locks /\ wk'[w].del = wk[w].del
          /\ Routing(w) /\ Calm
      BY <1>5, <1>12, MissDayStep DEF Routing, At
    <2> QED BY <2>1, GotoSound
  <1>13. CASE DeadlockVictim(w) \/ InsertLost(w)
    BY <1>13 DEF DeadlockVictim, InsertLost
  <1> QED BY <1>1, <1>2, <1>6, <1>7, <1>8, <1>9, <1>10, <1>11, <1>12, <1>13, FlushSound,
             GateRejectSound, GatePassSound, RejectedSound, DeduplicateSound, FillSound, CommitSound
          DEF Steps, Work, Chance, Rejects, Passes

LEMMA FaultsCount ==
  ASSUME TInv, NEW w \in Workers, Steps(w), faults' = 0
  PROVE  faults = 0 /\ ~LoseReply(w) /\ ~Fault(w)
  <1>1. faults \in Nat
    BY Working, SignalAssumption
  <1>2. ~LoseReply(w) /\ ~Fault(w)
    <2>1. faults + 1 # 0
      BY <1>1
    <2> QED BY <2>1 DEF LoseReply, Fault
  <1>3. CASE UNCHANGED history \/ UNCHANGED faults
    BY <1>2, <1>3 DEF history
  <1>4. Rollback(w) \/ CommitRow(w) \/ (\E a, L : RejectGated(w, a, L)) => UNCHANGED history
    BY DEF Rollback, CommitRow, RejectGated
  <1>5. CASE GateReject(w) \/ \E a \in Accounts : GuardedReject(w, a) \/ GatePass(w, a)
    BY <1>3, <1>4, <1>5 DEF GateReject, GuardedReject, GatePass
  <1> QED BY <1>2, <1>3, <1>4, <1>5 DEF Steps, Work, Chance, Take, Read, Insert, Update, Check,
       Lookup, Delete, Flush, MissDay, InsertLost, DeadlockVictim, GuardReject, GuardPass,
       Deduplicate, Fill, FillPartly, PlaceError, Commit, Ack

LEMMA NextSound ==
  ASSUME TInv, LInv, EInv, FInv, [Next]_vars
  PROVE  FInv'
  <1> SUFFICES ASSUME faults' = 0 PROVE FInv'
    BY DEF FInv
  <1>1. ASSUME NEW w \in Workers, Steps(w) PROVE FInv'
    BY <1>1, FaultsCount, RollbackSound, StepSound
  <1>2. CASE UNCHANGED <<stream, db, orders, wk, history>>
    <2>1. \A w \in Workers : /\ Msg(w)' = Msg(w) /\ Hash(w)' = Hash(w) /\ Routing(w)' = Routing(w)
                             /\ Listed(w)' = Listed(w) /\ At(w, "flush")' = At(w, "flush")
      BY <1>2 DEF Msg, Hash, Routing, Listed, At
    <2>2. Losable' = Losable /\ InHand' = InHand /\ faults = 0
      BY <1>2 DEF Losable, InHand, history
    <2>3. (\A w \in Workers : Sound(w))'
      BY <1>2, <2>1, <2>2, SoundFacts
         DEF Sound, NoClash, Claimed, OneTurn, Ticks, Clash, Posted, db, history
    <2> QED BY <1>2, <2>2, <2>3, SoundFacts
            DEF FInv, Tracks, OrphansNeedAFault, RepostNotTraded, db, history
  <1> QED BY <1>1, <1>2 DEF Next, Steps, BrokerCloses, vars, broker

LEMMA InitSound == Init => FInv
  <1> SUFFICES ASSUME Init PROVE FInv
    OBVIOUS
  <1>1. /\ tracked = {} /\ orders = {}
        /\ \A w \in Workers : wk[w].pc = "idle" /\ wk[w].todo = <<>> /\ wk[w].tick = {}
    BY DEF Init, Idle
  <1>2. \A w \in Workers : Sound(w)
    BY <1>1 DEF Sound, NoClash, Claimed, OneTurn, Ticks, Routing, At
  <1> QED BY <1>1, <1>2 DEF FInv, Tracks, OrphansNeedAFault, RepostNotTraded

LEMMA Soundness == Spec => []FInv
  BY InitTyped, NextTyped, InitLocks, NextLocks, InitEntered, NextEntered, InitSound, NextSound,
     PTL DEF Spec

(* Without a fault every order of the broker that is not losable is owned  *)
(* by a position row or by the job that is about to commit it, whatever is *)
(* edited, reposted, handed out twice or rolled back meanwhile.            *)
THEOREM OrphansNeedFaults == Spec => []OrphansNeedAFault
  <1>1. FInv => OrphansNeedAFault
    BY DEF FInv, OrphansNeedAFault
  <1> QED BY Soundness, <1>1, PTL

(* Without a fault no account has two orders for the same content, neither *)
(* of them losable: the fingerprint is locked by whoever routes it and     *)
(* posted by whoever did.                                                  *)
THEOREM RepostsAreNotTraded == Spec => []RepostNotTraded
  <1>1. FInv => RepostNotTraded
    BY DEF FInv, RepostNotTraded
  <1> QED BY Soundness, <1>1, PTL
=============================================================================
