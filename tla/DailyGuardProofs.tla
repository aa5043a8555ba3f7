-------------------------- MODULE DailyGuardProofs --------------------------
(***************************************************************************)
(* DailyGuard for any number of workers, signals and rolled back jobs, any *)
(* profits and limits: the open rows an account may have, what the         *)
(* emergency stop lets through, the streak that is stored, and the loss    *)
(* that a job is judged by.                                                *)
(***************************************************************************)
EXTENDS DailyGuard, FiniteSetTheorems, WellFoundedInduction, TLAPS

(* Nothing is said of the amounts a job has read: the limit on rows rests  *)
(* on who holds the day's row from counting them to its own commit.        *)
Shape ==
  /\ run = [w \in Workers |-> run[w]]
  /\ \A w \in Workers : DOMAIN run[w] = DOMAIN Idle
Holders == \A w \in Workers : run[w].pc \in {"judge", "order", "ordered"} => lock = w
Open == In(book, "open")
Room == \A w \in Workers : run[w].pc \in {"order", "ordered"} => Cardinality(Open) < MaxPositions
DInv == Shape /\ Holders /\ Room /\ OpenRowsCapped

(* What a job's step does to the jobs.                                     *)
LEMMA GotoEffect ==
  ASSUME Shape, NEW w \in Workers, NEW x, DOMAIN x = DOMAIN Idle, NEW p, Goto(w, x, p)
  PROVE  /\ Shape' /\ run'[w].pc = p /\ run'[w].s = x.s
         /\ \A v \in Workers \ {w} : run'[v] = run[v]
  <1> DEFINE y == [x EXCEPT !.pc = p]
  <1>1. DOMAIN Idle = {"pc", "s", "hw", "eq", "float", "sum", "known", "day", "mine",
                       "gone", "shut", "log"}
    BY DEF Idle
  <1>2. y.pc = p /\ y.s = x.s /\ DOMAIN y = DOMAIN Idle
    BY <1>1
  <1>3. run' = [run EXCEPT ![w] = y]
    BY DEF Goto
  <1> HIDE DEF y
  <1>4. run'[w] = y /\ \A v \in Workers \ {w} : run'[v] = run[v]
    BY <1>3 DEF Shape
  <1>5. run' = [v \in Workers |-> run'[v]]
    BY <1>3 DEF Shape
  <1>6. Shape'
    BY <1>2, <1>4, <1>5 DEF Shape
  <1> QED BY <1>2, <1>4, <1>6

LEMMA ReleaseEffect ==
  ASSUME Shape, NEW w \in Workers, Release(w)
  PROVE  /\ Shape' /\ run'[w] = Idle /\ lock' = IF lock = w THEN Free ELSE lock
         /\ \A v \in Workers \ {w} : run'[v] = run[v]
  BY DEF Shape, Release

(* A step of a job inside its transaction.                                 *)
LEMMA InnerStep ==
  ASSUME DInv, NEW w \in Workers, NEW x, DOMAIN x = DOMAIN Idle, NEW p, Goto(w, x, p),
         book' = book, lock' = lock \/ LockDay(w),
         p \in {"judge", "order", "ordered"} => lock' = w,
         p \in {"order", "ordered"} => Cardinality(Open) < MaxPositions
  PROVE  DInv'
  <1>1. /\ Shape' /\ run'[w].pc = p /\ \A v \in Workers \ {w} : run'[v] = run[v]
    BY GotoEffect DEF DInv
  <1>2. Holders'
    BY <1>1, DayAssumption DEF DInv, Holders, LockDay
  <1>3. Open' = Open
    BY DEF Open, In
  <1>4. Room'
    BY <1>1, <1>3 DEF DInv, Room
  <1>5. OpenRowsCapped'
    BY <1>3 DEF DInv, OpenRowsCapped, Open
  <1> QED BY <1>1, <1>2, <1>4, <1>5 DEF DInv

LEMMA OpenFinite == IsFiniteSet(Open) /\ Cardinality(Open) \in Nat
  BY DayAssumption, FS_Subset, FS_CardinalityType DEF Open, In

(* The transaction ends: only an ordered job adds a row, and it found room *)
(* for it under the lock it still holds.                                   *)
LEMMA EndStep ==
  ASSUME DInv, NEW w \in Workers, Release(w), Open' \subseteq Open \union {run[w].s},
         At(w, "ordered") \/ Open' \subseteq Open
  PROVE  DInv'
  <1>1. /\ Shape' /\ run'[w] = Idle /\ lock' = IF lock = w THEN Free ELSE lock
        /\ \A v \in Workers \ {w} : run'[v] = run[v]
    BY ReleaseEffect DEF DInv
  <1>2. Holders'
    BY <1>1 DEF DInv, Holders, Idle
  <1>3. CASE Open' \subseteq Open
    <2>1. Cardinality(Open') <= Cardinality(Open) /\ Cardinality(Open') \in Nat
      BY <1>3, OpenFinite, FS_Subset, FS_CardinalityType
    <2>2. Room'
      BY <1>1, <2>1, OpenFinite, DayAssumption DEF DInv, Room, Idle
    <2>3. OpenRowsCapped'
      BY <2>1, OpenFinite, DayAssumption DEF DInv, OpenRowsCapped, Open
    <2> QED BY <1>1, <1>2, <2>2, <2>3 DEF DInv
  <1>4. CASE At(w, "ordered")
    <2>1. lock = w /\ Cardinality(Open) < MaxPositions
      BY <1>4 DEF DInv, Holders, Room, At
    <2>2. /\ IsFiniteSet(Open \union {run[w].s})
          /\ Cardinality(Open \union {run[w].s}) <= Cardinality(Open) + 1
      BY OpenFinite, FS_AddElement
    <2>3. Cardinality(Open') <= Cardinality(Open \union {run[w].s}) /\ Cardinality(Open') \in Nat
          /\ Cardinality(Open \union {run[w].s}) \in Nat
      BY <2>2, FS_Subset, FS_CardinalityType
    <2>4. OpenRowsCapped'
      BY <2>1, <2>2, <2>3, OpenFinite, DayAssumption DEF OpenRowsCapped, Open
    <2>5. Room'
      BY <1>1, <2>1 DEF DInv, Holders, Room, Idle
    <2> QED BY <1>1, <1>2, <2>4, <2>5 DEF DInv
  <1> QED BY <1>3, <1>4

LEMMA CommitKeeps ==
  ASSUME DInv, NEW w \in Workers, Commit(w) PROVE DInv'
  <1>1. Release(w)
    BY DEF Commit
  <1>2. Open' \subseteq Open \union {run[w].s}
    BY DEF Commit, Open, In
  <1>3. At(w, "ordered") \/ Open' \subseteq Open
    BY DEF Commit, Open, In
  <1> QED BY <1>1, <1>2, <1>3, EndStep

LEMMA InitDInv == Init => DInv
  <1> SUFFICES ASSUME Init PROVE DInv
    OBVIOUS
  <1>1. Open = {} /\ Cardinality(Open) = 0
    BY FS_EmptySet DEF Init, Open, In
  <1> QED BY <1>1, DayAssumption DEF Init, DInv, Shape, Holders, Room, OpenRowsCapped, Open, Idle
-----------------------------------------------------------------------------
(* Every step inside a transaction is a Goto, of a job that does not       *)
(* change what it routes once it has begun.                                *)
Inside(w) ==
  \/ BeginRoute(w) \/ BeginReconcile(w) \/ Book(w) \/ Complete(w) \/ Snapshot(w)
  \/ SnapshotFails(w) \/ SumTrades(w) \/ FindsNone(w) \/ Persist(w) \/ Judge(w)
  \/ Reject(w) \/ Order(w)

LEMMA InsideKeeps ==
  ASSUME DInv, NEW w \in Workers, Inside(w) PROVE DInv'
  <1>0. /\ DOMAIN run[w] = DOMAIN Idle /\ DOMAIN Started = DOMAIN Idle
        /\ At(w, "order") => lock = w /\ Cardinality(Open) < MaxPositions
        /\ At(w, "judge") => lock = w
    BY DEF DInv, Shape, Holders, Room, Started, At
  <1>1. CASE BeginRoute(w)
    <2>1. PICK s \in todo : Goto(w, [Started EXCEPT !.s = s], "snapshot")
      BY <1>1 DEF BeginRoute
    <2>2. DOMAIN [Started EXCEPT !.s = s] = DOMAIN Idle
      BY <1>0
    <2>3. book' = book /\ lock' = lock
      BY <1>1 DEF BeginRoute, rows
    <2> QED BY <2>1, <2>2, <2>3, InnerStep
  <1>2. CASE BeginReconcile(w)
    <2> DEFINE mine == {s \in In(book, "open") : \A v \in Workers : s \notin run[v].mine}
               x == [Started EXCEPT !.mine = mine, !.gone = {s \in mine : pos[s] = "closed"}]
    <2>1. Goto(w, x, "book")
      BY <1>2 DEF BeginReconcile
    <2>2. DOMAIN x = DOMAIN Idle
      BY <1>0
    <2>3. book' = book /\ lock' = lock
      BY <1>2 DEF BeginReconcile, rows
    <2> HIDE DEF x
    <2> QED BY <2>1, <2>2, <2>3, InnerStep
  <1>3. CASE Book(w)
    <2>1. PICK s \in run[w].gone :
            Goto(w, [Closing(w, s) EXCEPT !.day = After(DayOf(w), pl[s])], "book")
      BY <1>3 DEF Book
    <2>2. DOMAIN [Closing(w, s) EXCEPT !.day = After(DayOf(w), pl[s])] = DOMAIN Idle
      BY <1>0 DEF Closing
    <2>3. book' = book /\ LockDay(w)
      BY <1>3 DEF Book, rows
    <2> QED BY <2>1, <2>2, <2>3, InnerStep
  <1>4. CASE Complete(w)
    <2>1. PICK s : Goto(w, [run[w] EXCEPT !.shut = @ \union {s}], "book")
      BY <1>4 DEF Complete
    <2>2. DOMAIN [run[w] EXCEPT !.shut = @ \union {s}] = DOMAIN Idle
      BY <1>0
    <2>3. book' = book /\ lock' = lock
      BY <1>4 DEF Complete, rows
    <2> QED BY <2>1, <2>2, <2>3, InnerStep
  <1>5. CASE Snapshot(w)
    <2> DEFINE x == [run[w] EXCEPT !.eq = Equity, !.float = Profit(In(pos, "open"))]
    <2>1. Goto(w, x, "sum")
      BY <1>5 DEF Snapshot
    <2>2. DOMAIN x = DOMAIN Idle
      BY <1>0
    <2>3. book' = book /\ lock' = lock
      BY <1>5 DEF Snapshot, rows
    <2> HIDE DEF x
    <2> QED BY <2>1, <2>2, <2>3, InnerStep
  <1>6. CASE SumTrades(w)
    <2>1. PICK a : Goto(w, [run[w] EXCEPT !.sum = a], "lock")
      BY <1>6 DEF SumTrades
    <2>2. DOMAIN [run[w] EXCEPT !.sum = a] = DOMAIN Idle
      BY <1>0
    <2>3. book' = book /\ lock' = lock
      BY <1>6 DEF SumTrades, rows
    <2> QED BY <2>1, <2>2, <2>3, InnerStep
  <1>7. CASE Persist(w)
    <2> DEFINE x == [run[w] EXCEPT !.day = [DayOf(w) EXCEPT !.realized = run[w].sum], !.sum = 0]
               q == IF Routing(w) THEN "judge" ELSE "commit"
    <2>1. Goto(w, x, q)
      BY <1>7 DEF Persist
    <2>2. DOMAIN x = DOMAIN Idle /\ q \in {"judge", "commit"}
      BY <1>0
    <2>3. book' = book /\ LockDay(w) /\ lock' = w
      BY <1>7 DEF Persist, rows, LockDay
    <2> HIDE DEF x, q
    <2> QED BY <2>1, <2>2, <2>3, InnerStep
  <1>8. CASE Judge(w)
    <2>1. Goto(w, run[w], "order") /\ book' = book /\ lock' = lock /\ lock = w
      BY <1>0, <1>8 DEF Judge, rows
    <2>2. Cardinality(Open) < MaxPositions
      BY <1>8, OpenFinite, DayAssumption DEF Judge, Blocked, PositionsFull, Open
    <2> QED BY <1>0, <2>1, <2>2, InnerStep
  <1>9. CASE Order(w)
    <2>1. Goto(w, run[w], "ordered") /\ book' = book /\ lock' = lock /\ At(w, "order")
      BY <1>9 DEF Order, rows
    <2> QED BY <1>0, <2>1, InnerStep
  <1>10. CASE SnapshotFails(w) \/ Reject(w)
    <2>1. Goto(w, run[w], "commit") /\ book' = book /\ lock' = lock
      BY <1>10 DEF SnapshotFails, Reject, rows
    <2> QED BY <1>0, <2>1, InnerStep
  <1>11. CASE FindsNone(w)
    <2>1. Goto(w, run[w], "insert") /\ book' = book /\ lock' = lock
      BY <1>11 DEF FindsNone, rows
    <2> QED BY <1>0, <2>1, InnerStep
  <1> QED BY <1>1, <1>2, <1>3, <1>4, <1>5, <1>6, <1>7, <1>8, <1>9, <1>10, <1>11 DEF Inside

LEMMA NextKeepsDInv ==
  ASSUME DInv, [Next]_vars PROVE DInv'
  <1>1. ASSUME NEW w \in Workers, Inside(w) PROVE DInv'
    BY <1>1, InsideKeeps
  <1>2. ASSUME NEW w \in Workers, Commit(w) PROVE DInv'
    BY <1>2, CommitKeeps
  <1>3. ASSUME NEW w \in Workers, Rollback(w) \/ InsertLost(w) PROVE DInv'
    <2>1. Release(w) /\ Open' = Open
      BY <1>3 DEF Rollback, InsertLost, rows, Open, In
    <2> QED BY <2>1, EndStep
  <1>4. ASSUME NEW w \in Workers, Stopped(w) PROVE DInv'
    <2> run' = run /\ lock' = lock /\ book' = book
      BY <1>4 DEF Stopped
    <2> QED BY DEF DInv, Shape, Holders, Room, OpenRowsCapped, Open, In
  <1>5. ASSUME NEW s \in Signals, Moves(s) \/ BrokerCloses(s) PROVE DInv'
    <2> run' = run /\ lock' = lock /\ book' = book
      BY <1>5 DEF Moves, BrokerCloses, rows
    <2> QED BY DEF DInv, Shape, Holders, Room, OpenRowsCapped, Open, In
  <1>6. CASE EmergencyStop \/ Resume \/ UNCHANGED vars
    <2> run' = run /\ lock' = lock /\ book' = book
      BY <1>6 DEF EmergencyStop, Resume, rows, vars
    <2> QED BY DEF DInv, Shape, Holders, Room, OpenRowsCapped, Open, In
  <1> QED BY <1>1, <1>2, <1>3, <1>4, <1>5, <1>6 DEF Next, Work, Inside

(* Any number of workers may route and reconcile at once: the committed    *)
(* rows never exceed the profile's maximum_positions, because a job counts *)
(* them under the lock of the day's row and keeps it until its own row is  *)
(* there to be counted.                                                    *)
THEOREM PositionsStayCapped == Spec => []OpenRowsCapped
  <1>1. DInv => OpenRowsCapped
    BY DEF DInv
  <1>2. DInv /\ [Next]_vars => DInv'
    BY NextKeepsDInv
  <1> QED BY InitDInv, <1>1, <1>2, PTL DEF Spec
-----------------------------------------------------------------------------
(* The jobs that may still order: each late order uses one up, and none is *)
(* added after the stop.                                                   *)
Working == {w \in Workers : Routing(w) /\ run[w].pc \notin {"ordered", "commit"}}
Judged == \A w \in Workers : run[w].pc \in {"judge", "order", "ordered"} => Routing(w)
SInv ==
  /\ Shape /\ Judged /\ late \in Nat /\ atStop \in Nat
  /\ IF enabled THEN late = 0 /\ atStop = 0 ELSE late + Cardinality(Working) <= atStop

LEMMA WorkingFinite == IsFiniteSet(Working) /\ Cardinality(Working) \in Nat
  BY DayAssumption, FS_Subset, FS_CardinalityType DEF Working

(* Nobody orders: it is enough that nobody joins after the stop.           *)
LEMMA NoOrder ==
  ASSUME SInv, Shape', Judged', UNCHANGED <<enabled, atStop, late>>,
         enabled \/ Working' \subseteq Working
  PROVE  SInv'
  <1>1. CASE enabled
    BY <1>1 DEF SInv
  <1>2. CASE ~enabled
    <2>1. Cardinality(Working') <= Cardinality(Working) /\ Cardinality(Working') \in Nat
      BY <1>2, WorkingFinite, FS_Subset, FS_CardinalityType
    <2>2. late + Cardinality(Working') <= atStop
      BY <1>2, <2>1, WorkingFinite DEF SInv
    <2> QED BY <1>2, <2>2 DEF SInv
  <1> QED BY <1>1, <1>2

(* A job goes on without ordering.                                         *)
LEMMA GoesOn ==
  ASSUME SInv, NEW w \in Workers, NEW x, DOMAIN x = DOMAIN Idle, NEW p, Goto(w, x, p),
         UNCHANGED <<enabled, atStop, late>>, x.s \in {run[w].s, None},
         run[w].pc \notin {"ordered", "commit"},
         p \in {"judge", "order", "ordered"} => x.s # None
  PROVE  SInv'
  <1>1. /\ Shape' /\ run'[w].pc = p /\ run'[w].s = x.s
        /\ \A v \in Workers \ {w} : run'[v] = run[v]
    BY GotoEffect DEF SInv
  <1>2. Judged'
    BY <1>1 DEF SInv, Judged, Routing
  <1>3. Working' \subseteq Working
    BY <1>1 DEF Working, Routing
  <1> QED BY <1>1, <1>2, <1>3, NoOrder

LEMMA JobsGoOn ==
  ASSUME SInv, NEW w \in Workers,
         \/ BeginReconcile(w) \/ Book(w) \/ Complete(w) \/ Snapshot(w) \/ SnapshotFails(w)
         \/ SumTrades(w) \/ FindsNone(w) \/ Persist(w) \/ Judge(w) \/ Reject(w)
  PROVE  SInv'
  <1>0. /\ DOMAIN run[w] = DOMAIN Idle /\ DOMAIN Started = DOMAIN Idle /\ Started.s = None
        /\ DOMAIN Idle = {"pc", "s", "hw", "eq", "float", "sum", "known", "day", "mine",
                          "gone", "shut", "log"}
        /\ UNCHANGED <<enabled, atStop, late>> /\ run[w].pc \notin {"ordered", "commit"}
    <2>1. /\ DOMAIN run[w] = DOMAIN Idle /\ DOMAIN Started = DOMAIN Idle /\ Started.s = None
          /\ DOMAIN Idle = {"pc", "s", "hw", "eq", "float", "sum", "known", "day", "mine",
                            "gone", "shut", "log"}
      BY DEF SInv, Shape, Started, Idle
    <2>2. UNCHANGED <<enabled, atStop, late>> /\ run[w].pc \notin {"ordered", "commit"}
      BY DEF BeginReconcile, Book, Complete, Snapshot, SnapshotFails, SumTrades, FindsNone,
             Persist, HasRow, Judge, Reject, counts, At
    <2> QED BY <2>1, <2>2
  <1>1. CASE BeginReconcile(w)
    <2> DEFINE mine == {s \in In(book, "open") : \A v \in Workers : s \notin run[v].mine}
               x == [Started EXCEPT !.mine = mine, !.gone = {s \in mine : pos[s] = "closed"}]
    <2>1. Goto(w, x, "book")
      BY <1>1 DEF BeginReconcile
    <2>2. DOMAIN x = DOMAIN Idle /\ x.s = None
      BY <1>0
    <2> HIDE DEF x
    <2> QED BY <1>0, <2>1, <2>2, GoesOn
  <1>2. CASE Book(w)
    <2>1. PICK s \in run[w].gone :
            Goto(w, [Closing(w, s) EXCEPT !.day = After(DayOf(w), pl[s])], "book")
      BY <1>2 DEF Book
    <2> DEFINE x == [Closing(w, s) EXCEPT !.day = After(DayOf(w), pl[s])]
    <2>2. DOMAIN x = DOMAIN Idle /\ x.s = run[w].s
      BY <1>0 DEF Closing
    <2>3. Goto(w, x, "book")
      BY <2>1
    <2> HIDE DEF x
    <2> QED BY <1>0, <2>2, <2>3, GoesOn
  <1>3. CASE Complete(w)
    <2>1. PICK s : Goto(w, [run[w] EXCEPT !.shut = @ \union {s}], "book")
      BY <1>3 DEF Complete
    <2> DEFINE x == [run[w] EXCEPT !.shut = @ \union {s}]
    <2>2. DOMAIN x = DOMAIN Idle /\ x.s = run[w].s /\ Goto(w, x, "book")
      BY <1>0, <2>1
    <2> HIDE DEF x
    <2> QED BY <1>0, <2>2, GoesOn
  <1>4. CASE Snapshot(w)
    <2> DEFINE x == [run[w] EXCEPT !.eq = Equity, !.float = Profit(In(pos, "open"))]
    <2>1. Goto(w, x, "sum")
      BY <1>4 DEF Snapshot
    <2>2. DOMAIN x = DOMAIN Idle /\ x.s = run[w].s
      BY <1>0
    <2> HIDE DEF x
    <2> QED BY <1>0, <2>1, <2>2, GoesOn
  <1>5. CASE SumTrades(w)
    <2> DEFINE x == [run[w] EXCEPT !.sum = Profit(In(book, "closed") \union run[w].shut)]
    <2>1. Goto(w, x, "lock")
      BY <1>5 DEF SumTrades
    <2>2. DOMAIN x = DOMAIN Idle /\ x.s = run[w].s
      BY <1>0
    <2> HIDE DEF x
    <2> QED BY <1>0, <2>1, <2>2, GoesOn
  <1>6. CASE Persist(w)
    <2> DEFINE x == [run[w] EXCEPT !.day = [DayOf(w) EXCEPT !.realized = run[w].sum], !.sum = 0]
               q == IF Routing(w) THEN "judge" ELSE "commit"
    <2>1. Goto(w, x, q)
      BY <1>6 DEF Persist
    <2>2. /\ DOMAIN x = DOMAIN Idle /\ x.s = run[w].s
          /\ q \in {"judge", "order", "ordered"} => run[w].s # None
      BY <1>0 DEF Routing
    <2> HIDE DEF x, q
    <2> QED BY <1>0, <2>1, <2>2, GoesOn
  <1>7. CASE Judge(w) \/ Reject(w) \/ SnapshotFails(w) \/ FindsNone(w)
    <2>1. PICK q \in {"order", "commit", "insert"} :
            Goto(w, run[w], q) /\ (q = "order" => At(w, "judge"))
      BY <1>7 DEF Judge, Reject, SnapshotFails, FindsNone
    <2>2. q \in {"judge", "order", "ordered"} => run[w].s # None
      BY <2>1 DEF SInv, Judged, Routing, At
    <2> QED BY <1>0, <2>1, <2>2, GoesOn
  <1> QED BY <1>1, <1>2, <1>3, <1>4, <1>5, <1>6, <1>7

LEMMA BeginRouteCounts ==
  ASSUME SInv, NEW w \in Workers, BeginRoute(w) PROVE SInv'
  <1>1. PICK s \in todo : Goto(w, [Started EXCEPT !.s = s], "snapshot")
    BY DEF BeginRoute
  <1>2. DOMAIN [Started EXCEPT !.s = s] = DOMAIN Idle
    BY DEF Started
  <1>3. /\ Shape' /\ run'[w].pc = "snapshot"
        /\ \A v \in Workers \ {w} : run'[v] = run[v]
    BY <1>1, <1>2, GotoEffect DEF SInv
  <1>4. Judged'
    BY <1>3 DEF SInv, Judged, Routing
  <1>5. enabled /\ UNCHANGED <<enabled, atStop, late>>
    BY DEF BeginRoute, counts
  <1> QED BY <1>3, <1>4, <1>5, NoOrder

(* The job that orders is used up.                                         *)
LEMMA OrderCounts ==
  ASSUME SInv, NEW w \in Workers, Order(w) PROVE SInv'
  <1>0. /\ At(w, "order") /\ Goto(w, run[w], "ordered") /\ UNCHANGED <<enabled, atStop>>
        /\ late' = IF enabled THEN late ELSE late + 1
    BY DEF Order
  <1>1. /\ Shape' /\ run'[w].pc = "ordered" /\ run'[w].s = run[w].s
        /\ \A v \in Workers \ {w} : run'[v] = run[v]
    BY <1>0, GotoEffect DEF SInv, Shape
  <1>2. Judged'
    BY <1>0, <1>1 DEF SInv, Judged, Routing, At
  <1>3. CASE enabled
    BY <1>0, <1>1, <1>2, <1>3 DEF SInv
  <1>4. CASE ~enabled
    <2>1. w \in Working /\ Working' \subseteq Working \ {w}
      BY <1>0, <1>1 DEF SInv, Judged, Working, Routing, At
    <2>2. IsFiniteSet(Working \ {w}) /\ Cardinality(Working \ {w}) = Cardinality(Working) - 1
      BY <2>1, WorkingFinite, FS_RemoveElement
    <2>3. Cardinality(Working') <= Cardinality(Working) - 1 /\ Cardinality(Working') \in Nat
      BY <2>1, <2>2, FS_Subset, FS_CardinalityType
    <2>4. late' \in Nat /\ late' + Cardinality(Working') <= atStop
      BY <1>0, <1>4, <2>3, WorkingFinite DEF SInv
    <2> QED BY <1>0, <1>1, <1>2, <1>4, <2>4 DEF SInv
  <1> QED BY <1>3, <1>4

LEMMA EndCounts ==
  ASSUME SInv, NEW w \in Workers, Release(w), UNCHANGED <<enabled, atStop, late>> PROVE SInv'
  <1>1. Shape' /\ run'[w] = Idle /\ \A v \in Workers \ {w} : run'[v] = run[v]
    BY ReleaseEffect DEF SInv
  <1>2. Idle.s = None /\ Idle.pc = "idle"
    BY DEF Idle
  <1>3. Judged' /\ Working' \subseteq Working
    BY <1>1, <1>2 DEF SInv, Judged, Working, Routing
  <1> QED BY <1>1, <1>3, NoOrder

LEMMA NextKeepsSInv ==
  ASSUME SInv, [Next]_vars PROVE SInv'
  <1>1. ASSUME NEW w \in Workers, BeginRoute(w) PROVE SInv'
    BY <1>1, BeginRouteCounts
  <1>2. ASSUME NEW w \in Workers,
               \/ BeginReconcile(w) \/ Book(w) \/ Complete(w) \/ Snapshot(w) \/ SnapshotFails(w)
               \/ SumTrades(w) \/ FindsNone(w) \/ Persist(w) \/ Judge(w) \/ Reject(w)
        PROVE  SInv'
    BY <1>2, JobsGoOn
  <1>3. ASSUME NEW w \in Workers, Order(w) PROVE SInv'
    BY <1>3, OrderCounts
  <1>4. ASSUME NEW w \in Workers, Commit(w) \/ Rollback(w) \/ InsertLost(w) PROVE SInv'
    BY <1>4, EndCounts DEF Commit, Rollback, InsertLost, counts
  <1>5. ASSUME NEW w \in Workers, Stopped(w) PROVE SInv'
    BY <1>5, NoOrder DEF Stopped, counts, SInv, Shape, Judged, Working, Routing
  <1>6. ASSUME NEW s \in Signals, Moves(s) \/ BrokerCloses(s) PROVE SInv'
    BY <1>6, NoOrder DEF Moves, BrokerCloses, counts, SInv, Shape, Judged, Working, Routing
  <1>7. CASE EmergencyStop
    <2> DEFINE R == {w \in Workers : Routing(w)}
    <2>1. Working \subseteq R /\ IsFiniteSet(R)
      BY DayAssumption, FS_Subset DEF Working
    <2>2. Cardinality(Working) <= Cardinality(R) /\ Cardinality(R) \in Nat
      BY <2>1, FS_Subset, FS_CardinalityType
    <2>3. late = 0 /\ late' = late /\ atStop' = Cardinality(R) /\ ~enabled' /\ run' = run
      BY <1>7 DEF EmergencyStop, SInv
    <2>4. Shape' /\ Judged' /\ Working' = Working
      BY <2>3 DEF SInv, Shape, Judged, Working, Routing
    <2> HIDE DEF R
    <2>5. late' + Cardinality(Working') <= atStop'
      BY <2>2, <2>3, <2>4, WorkingFinite
    <2> QED BY <2>2, <2>3, <2>4, <2>5 DEF SInv
  <1>8. CASE UNCHANGED vars
    BY <1>8 DEF vars, counts, SInv, Shape, Judged, Working, Routing
  <1>9. CASE Resume
    BY <1>9 DEF Resume, SInv, Shape, Judged, Routing
  <1> QED BY <1>1, <1>2, <1>3, <1>4, <1>5, <1>6, <1>7, <1>8, <1>9 DEF Next, Work

(* For any number of workers: an emergency stop lets through at most the   *)
(* jobs that were routing a signal when it came, whatever is rolled back   *)
(* and tried again before trading is allowed once more.                    *)
THEOREM StopIsFinal == Spec => []StopHolds
  <1>1. Init => SInv
    BY DEF Init, SInv, Shape, Judged, Idle
  <1>2. SInv /\ [Next]_vars => SInv'
    BY NextKeepsSInv
  <1>3. SInv => StopHolds
    BY WorkingFinite DEF SInv, StopHolds
  <1> QED BY <1>1, <1>2, <1>3, PTL DEF Spec
-----------------------------------------------------------------------------
(* The streak of a sequence of closures, as StreakCounted counts it.       *)
Wins(L) == {i \in DOMAIN L : L[i] > 0}
Losses(L) == {i \in DOMAIN L : L[i] < 0 /\ \A k \in Wins(L) : k < i}
Streak(L) == Cardinality(Losses(L))

LEMMA LossesFinite ==
  ASSUME NEW L \in Seq(Int) PROVE IsFiniteSet(Losses(L)) /\ Streak(L) \in Nat
  <1>1. DOMAIN L = 1..Len(L) /\ Len(L) \in Nat
    OBVIOUS
  <1>2. IsFiniteSet(DOMAIN L)
    BY <1>1, FS_Interval
  <1> QED BY <1>2, FS_Subset, FS_CardinalityType DEF Losses, Streak

(* One more closure does to the streak what After does to the row's.       *)
LEMMA StreakAppend ==
  ASSUME NEW L \in Seq(Int), NEW p \in Int
  PROVE  Streak(Append(L, p)) = IF p > 0 THEN 0 ELSE IF p < 0 THEN Streak(L) + 1 ELSE Streak(L)
  <1> DEFINE M == Append(L, p)
             n == Len(L) + 1
  <1>1. /\ DOMAIN L = 1..Len(L) /\ Len(L) \in Nat /\ DOMAIN M = 1..n
        /\ \A i \in 1..Len(L) : M[i] = L[i]
        /\ M[n] = p
    OBVIOUS
  <1> HIDE DEF M
  <1>2. CASE p > 0
    <2>1. n \in Wins(M) /\ \A i \in DOMAIN M : ~(n < i)
      BY <1>1, <1>2 DEF Wins
    <2>2. Losses(M) = {}
      BY <2>1 DEF Losses
    <2> QED BY <1>2, <2>2, FS_EmptySet DEF Streak, M
  <1>3. CASE ~(p > 0)
    <2>1. Wins(M) = Wins(L)
      BY <1>1, <1>3 DEF Wins
    <2>2. Wins(L) \subseteq 1..Len(L)
      BY <1>1 DEF Wins
    <2>3. CASE p < 0
      <3>1. Losses(M) = Losses(L) \union {n} /\ n \notin Losses(L)
        BY <1>1, <2>1, <2>2, <2>3 DEF Losses
      <3>2. Cardinality(Losses(M)) = Cardinality(Losses(L)) + 1
        BY <3>1, LossesFinite, FS_AddElement
      <3> QED BY <1>3, <2>3, <3>2 DEF Streak, M
    <2>4. CASE ~(p < 0)
      <3>1. Losses(M) = Losses(L)
        BY <1>1, <2>1, <2>2, <2>4 DEF Losses
      <3> QED BY <1>3, <2>4, <3>1 DEF Streak, M
    <2> QED BY <2>3, <2>4
  <1> QED BY <1>2, <1>3

LEMMA ConcatAppend ==
  ASSUME NEW L \in Seq(Int), NEW G \in Seq(Int), NEW p \in Int
  PROVE  L \o Append(G, p) = Append(L \o G, p)
  OBVIOUS

LEMMA ConcatEmpty == ASSUME NEW L \in Seq(Int) PROVE L \o <<>> = L
  OBVIOUS
-----------------------------------------------------------------------------
(* Profits are summed by MapThenSumSet, which unrolls a recursive function *)
(* over an arbitrary order of the set: what it returns depends on nothing  *)
(* but the profits of that set, and is an integer.                         *)
Sum(f, S) == MapThenSumSet(LAMBDA s : f[s], S)
Pick(S) == CHOOSE x \in S : TRUE
Unrolled(f, S, iter) == [s \in SUBSET S |-> IF s = {} THEN 0 ELSE f[Pick(s)] + iter[s \ {Pick(s)}]]

LEMMA Unfold ==
  ASSUME NEW f, NEW S
  PROVE Sum(f, S) = (CHOOSE iter : iter = Unrolled(f, S, iter))[S]
  BY Zenon DEF Sum, MapThenSumSet, MapThenFoldSet, Pick, Unrolled

LEMMA Picked == ASSUME NEW S, S # {} PROVE Pick(S) \in S
  BY DEF Pick

LEMMA Same ==
  ASSUME NEW f, NEW g, NEW S, \A s \in S : f[s] = g[s]
  PROVE Sum(f, S) = Sum(g, S)
  <1>1. ASSUME NEW iter PROVE Unrolled(f, S, iter) = Unrolled(g, S, iter)
    <2>1. \A s \in SUBSET S : s # {} => f[Pick(s)] = g[Pick(s)]
      BY Picked
    <2> QED BY <2>1 DEF Unrolled
  <1>2. \A iter : (iter = Unrolled(f, S, iter)) <=> (iter = Unrolled(g, S, iter))
    BY <1>1
  <1>3. (CHOOSE iter : iter = Unrolled(f, S, iter)) = (CHOOSE iter : iter = Unrolled(g, S, iter))
    BY Zenon, <1>2
  <1> QED BY <1>3, Unfold

LEMMA LeastNat ==
  ASSUME NEW B \in SUBSET Nat, B # {}
  PROVE \E n \in B : \A m \in B : n <= m
  <1>1. PICK n \in B : \A m \in B : ~(<<m, n>> \in OpToRel(<, Nat))
    BY Zenon, WFMin, NatLessThanWellFounded
  <1>2. \A m \in B : ~(m < n)
    BY <1>1 DEF OpToRel
  <1> QED BY <1>2

(* The sums over the subsets of S of up to n elements, by induction on n.  *)
Small(S, n) == {s \in SUBSET S : Cardinality(s) <= n}
Adds(f, F, D) == \A s \in D : F[s] = IF s = {} THEN 0 ELSE f[Pick(s)] + F[s \ {Pick(s)}]

LEMMA Drop ==
  ASSUME NEW S, IsFiniteSet(S), NEW s \in SUBSET S, s # {}
  PROVE /\ Pick(s) \in s /\ s \ {Pick(s)} \in SUBSET S
        /\ Cardinality(s \ {Pick(s)}) = Cardinality(s) - 1
        /\ Cardinality(s) \in Nat \ {0}
        /\ Cardinality(s \ {Pick(s)}) \in Nat
  <1>1. Pick(s) \in s /\ IsFiniteSet(s)
    BY Picked, FS_Subset
  <1>2. Cardinality(s \ {Pick(s)}) = Cardinality(s) - 1
    BY <1>1, FS_RemoveElement
  <1>3. Cardinality(s) \in Nat /\ Cardinality(s) # 0
    BY <1>1, FS_CardinalityType, FS_EmptySet
  <1> QED BY <1>1, <1>2, <1>3

LEMMA AddsExist ==
  ASSUME NEW S, IsFiniteSet(S), NEW f \in [S -> Int], NEW k \in Nat
  PROVE \E F \in [Small(S, k) -> Int] : Adds(f, F, Small(S, k))
  <1> DEFINE B == {n \in Nat : ~(\E F \in [Small(S, n) -> Int] : Adds(f, F, Small(S, n)))}
  <1> SUFFICES ASSUME B # {} PROVE FALSE
    OBVIOUS
  <1>1. PICK n \in B : \A m \in B : n <= m
    BY LeastNat
  <1>2. n \in Nat /\ ~(\E F \in [Small(S, n) -> Int] : Adds(f, F, Small(S, n)))
    BY <1>1
  <1>3. CASE n = 0
    <2>1. Small(S, 0) = {{}}
      BY FS_EmptySet, FS_Subset, FS_CardinalityType DEF Small
    <2>2. [s \in {{}} |-> 0] \in [Small(S, 0) -> Int] /\ Adds(f, [s \in {{}} |-> 0], Small(S, 0))
      BY <2>1 DEF Adds
    <2> QED BY <1>2, <1>3, <2>2
  <1>4. CASE n # 0
    <2>1. n - 1 \in Nat /\ n - 1 \notin B
      BY <1>1, <1>2, <1>4
    <2>2. PICK F \in [Small(S, n - 1) -> Int] : Adds(f, F, Small(S, n - 1))
      BY <2>1
    <2> DEFINE G == [s \in Small(S, n) |-> IF s = {} THEN 0 ELSE f[Pick(s)] + F[s \ {Pick(s)}]]
    <2>3. ASSUME NEW s \in Small(S, n), s # {}
          PROVE  s \ {Pick(s)} \in Small(S, n - 1) /\ f[Pick(s)] \in Int
      BY <1>2, <2>3, Drop DEF Small
    <2>4. G \in [Small(S, n) -> Int]
      BY <2>3
    <2>5. \A t \in Small(S, n - 1) : t \in Small(S, n) /\ G[t] = F[t]
      <3> TAKE t \in Small(S, n - 1)
      <3>1. t \in Small(S, n)
        BY <1>2, FS_Subset, FS_CardinalityType DEF Small
      <3>2. F[t] = IF t = {} THEN 0 ELSE f[Pick(t)] + F[t \ {Pick(t)}]
        BY <2>2 DEF Adds
      <3> QED BY <3>1, <3>2
    <2>6. \A s \in Small(S, n) : G[s] = IF s = {} THEN 0 ELSE f[Pick(s)] + G[s \ {Pick(s)}]
      BY <2>3, <2>5
    <2>7. Adds(f, G, Small(S, n))
      BY <2>6 DEF Adds
    <2> QED BY <1>2, <2>4, <2>7
  <1> QED BY <1>3, <1>4

LEMMA SumAdds ==
  ASSUME NEW S, IsFiniteSet(S), NEW f \in [S -> Int]
  PROVE \E it : Adds(f, it, SUBSET S) /\ Sum(f, S) = it[S]
  <1>1. Small(S, Cardinality(S)) = SUBSET S /\ Cardinality(S) \in Nat
    BY FS_Subset, FS_CardinalityType DEF Small
  <1>2. \E F \in [Small(S, Cardinality(S)) -> Int] : Adds(f, F, Small(S, Cardinality(S)))
    BY <1>1, AddsExist
  <1>3. PICK F \in [SUBSET S -> Int] : Adds(f, F, SUBSET S)
    BY <1>1, <1>2
  <1>4. F = Unrolled(f, S, F)
    BY <1>3 DEF Adds, Unrolled
  <1>5. PICK it : it = (CHOOSE i : i = Unrolled(f, S, i))
    OBVIOUS
  <1>6. it = Unrolled(f, S, it)
    BY <1>4, <1>5
  <1>7. Adds(f, it, SUBSET S)
    BY <1>6 DEF Adds, Unrolled
  <1> QED BY <1>5, <1>7, Unfold

LEMMA SumIsInt ==
  ASSUME NEW S, IsFiniteSet(S), NEW f, \A s \in S : f[s] \in Int
  PROVE Sum(f, S) \in Int
  <1>1. PICK g \in [S -> Int] : \A s \in S : g[s] = f[s]
    <2>1. [s \in S |-> f[s]] \in [S -> Int]
      OBVIOUS
    <2> QED BY <2>1
  <1>2. Sum(f, S) = Sum(g, S)
    BY <1>1, Same
  <1>3. PICK it : Adds(g, it, SUBSET S) /\ Sum(g, S) = it[S]
    BY SumAdds
  <1> DEFINE B == {n \in Nat : \E s \in SUBSET S : Cardinality(s) = n /\ it[s] \notin Int}
  <1>4. B = {}
    <2> SUFFICES ASSUME B # {} PROVE FALSE
      OBVIOUS
    <2>1. PICK n \in B : \A m \in B : n <= m
      BY LeastNat
    <2>2. PICK s \in SUBSET S : Cardinality(s) = n /\ it[s] \notin Int
      BY <2>1
    <2>3. it[s] = IF s = {} THEN 0 ELSE g[Pick(s)] + it[s \ {Pick(s)}]
      BY <1>3 DEF Adds
    <2>4. s # {}
      BY <2>2, <2>3
    <2>5. /\ Pick(s) \in s /\ s \ {Pick(s)} \in SUBSET S
          /\ Cardinality(s \ {Pick(s)}) = n - 1 /\ n \in Nat \ {0} /\ n - 1 \in Nat
      BY <2>2, <2>4, Drop
    <2>6. it[s \ {Pick(s)}] \notin Int
      BY <1>1, <2>2, <2>3, <2>4, <2>5
    <2>7. n - 1 \in B
      BY <2>5, <2>6
    <2> QED BY <2>1, <2>5, <2>7
  <1>5. Cardinality(S) \in Nat
    BY FS_CardinalityType
  <1> QED BY <1>2, <1>3, <1>4, <1>5

LEMMA ProfitIsSum == ASSUME NEW S PROVE Profit(S) = Sum(pl, S) /\ Profit(S)' = Sum(pl', S)
  <1>1. Profit(S) = Sum(pl, S)
    BY DEF Profit, Sum
  <1>2. Profit(S)' = Sum(pl', S)
    BY DEF Profit, Sum, MapThenSumSet, MapThenFoldSet
  <1> QED BY <1>1, <1>2

LEMMA ProfitIsInt ==
  ASSUME TypeOK, NEW S \in SUBSET Signals PROVE Profit(S) \in Int
  <1>1. IsFiniteSet(S) /\ \A s \in S : pl[s] \in Int
    BY DayAssumption, FS_Subset DEF TypeOK
  <1>2. Sum(pl, S) \in Int
    BY <1>1, SumIsInt
  <1> QED BY <1>2, ProfitIsSum

LEMMA ProfitStays ==
  ASSUME NEW S, \A s \in S : pl'[s] = pl[s] PROVE Profit(S)' = Profit(S)
  <1>1. Sum(pl', S) = Sum(pl, S)
    BY Same
  <1> QED BY <1>1, ProfitIsSum

(* A job routes a signal that nobody else routes and that has no row yet,  *)
(* or has locked the open rows it works on; what it has found or made      *)
(* closed, and what is closed in the book, is closed at the broker.        *)
OwnWork ==
  /\ \A s \in todo : book[s] = "none"
  /\ \A w \in Workers :
       /\ run[w].gone \union run[w].shut \subseteq run[w].mine
       /\ Routing(w) => /\ run[w].s \in todo /\ run[w].mine = {}
                        /\ \A v \in Workers \ {w} : run[v].s # run[w].s
ClosedForGood ==
  /\ \A s \in In(book, "closed") : pos[s] = "closed"
  /\ \A w \in Workers : \A s \in run[w].gone \union run[w].shut : pos[s] = "closed"
TInv == TypeOK /\ OwnWork /\ ClosedForGood

Stages == {"idle", "book", "snapshot", "sum", "lock", "insert", "judge", "order", "ordered", "commit"}

(* A step inside a transaction, by what it puts into the job's record.     *)
LEMMA GotoFields ==
  ASSUME run \in [Workers -> RunRecord], NEW w \in Workers, NEW x \in RunRecord,
         NEW p \in Stages, Goto(w, x, p)
  PROVE  /\ run' \in [Workers -> RunRecord]
         /\ run'[w].pc = p /\ run'[w].s = x.s /\ run'[w].hw = x.hw /\ run'[w].eq = x.eq
         /\ run'[w].float = x.float /\ run'[w].sum = x.sum /\ run'[w].known = x.known
         /\ run'[w].day = x.day /\ run'[w].mine = x.mine /\ run'[w].gone = x.gone
         /\ run'[w].shut = x.shut /\ run'[w].log = x.log
         /\ \A v \in Workers \ {w} : run'[v] = run[v]
  <1> DEFINE y == [x EXCEPT !.pc = p]
  <1>1. /\ y \in RunRecord
        /\ y.pc = p /\ y.s = x.s /\ y.hw = x.hw /\ y.eq = x.eq
        /\ y.float = x.float /\ y.sum = x.sum /\ y.known = x.known /\ y.day = x.day
        /\ y.mine = x.mine /\ y.gone = x.gone /\ y.shut = x.shut /\ y.log = x.log
    BY DEF RunRecord, Stages
  <1>2. run' = [run EXCEPT ![w] = y]
    BY DEF Goto
  <1> HIDE DEF y
  <1>3. run'[w] = y /\ \A v \in Workers \ {w} : run'[v] = run[v]
    BY <1>2
  <1>4. run' \in [Workers -> RunRecord]
    BY <1>1, <1>2
  <1> QED BY <1>1, <1>3, <1>4

LEMMA IdleTyped == Idle \in RunRecord /\ Idle.pc = "idle" /\ Idle.s = None /\ Idle.known = {}
                   /\ Idle.mine = {} /\ Idle.gone = {} /\ Idle.shut = {} /\ Idle.log = <<>>
  BY DayAssumption DEF Idle, RunRecord, DayRecord

LEMMA InnerTyped ==
  ASSUME TInv, NEW w \in Workers, NEW x \in RunRecord, NEW p \in Stages, Goto(w, x, p),
         UNCHANGED rows, UNCHANGED <<pl, enabled, atStop, faults>>, late' \in Nat,
         pos' \in [Signals -> {"none", "open", "closed"}],
         \A s \in Signals : book[s] # "none" /\ pos[s] = "closed" => pos'[s] = "closed",
         lock' = lock \/ LockDay(w),
         p \in {"judge", "order", "ordered"} => lock' = w,
         x.gone \union x.shut \subseteq x.mine,
         \A s \in x.gone \union x.shut : pos'[s] = "closed",
         \A s \in x.mine : book[s] = "open" /\ \A v \in Workers \ {w} : s \notin run[v].mine,
         x.s # None => /\ x.s \in todo /\ x.mine = {}
                       /\ \A v \in Workers \ {w} : run[v].s # x.s
  PROVE  TInv'
  <1>1. /\ run' \in [Workers -> RunRecord] /\ run'[w].pc = p /\ run'[w].s = x.s
        /\ run'[w].mine = x.mine /\ run'[w].gone = x.gone /\ run'[w].shut = x.shut
        /\ \A v \in Workers \ {w} : run'[v] = run[v]
    BY GotoFields DEF TInv, TypeOK
  <1>2. book' = book /\ todo' = todo /\ day' = day /\ hw' = hw /\ ledger' = ledger
        /\ filed' = filed
    BY DEF rows
  <1>3. \A v \in Workers : run'[v].pc \in {"judge", "order", "ordered"} => lock' = v
    <2> TAKE v \in Workers
    <2>1. CASE v = w
      BY <1>1, <2>1
    <2>2. CASE v # w
      <3>1. run'[v] = run[v] /\ (run[v].pc \in {"judge", "order", "ordered"} => lock = v)
        BY <1>1, <2>2 DEF TInv, TypeOK
      <3>2. lock = v => lock' = v
        BY <2>2, DayAssumption DEF LockDay
      <3> QED BY <3>1, <3>2
    <2> QED BY <2>1, <2>2
  <1>4. \A v \in Workers : \A s \in run'[v].mine :
          book'[s] = "open" /\ \A u \in Workers \ {v} : s \notin run'[u].mine
    <2> SUFFICES ASSUME NEW v \in Workers, NEW s \in run'[v].mine
                 PROVE  book[s] = "open" /\ \A u \in Workers \ {v} : s \notin run'[u].mine
      BY <1>2
    <2>1. CASE v = w
      BY <1>1, <2>1
    <2>2. CASE v # w
      <3>1. s \in run[v].mine
        BY <1>1, <2>2
      <3>2. book[s] = "open" /\ \A u \in Workers \ {v} : s \notin run[u].mine
        BY <3>1 DEF TInv, TypeOK
      <3>3. s \notin x.mine
        BY <2>2, <3>1
      <3> QED BY <1>1, <3>2, <3>3
    <2> QED BY <2>1, <2>2
  <1>5. lock' \in Workers \union {Free}
    BY DEF TInv, TypeOK, LockDay
  <1>6. TypeOK'
    BY <1>1, <1>2, <1>3, <1>4, <1>5 DEF TInv, TypeOK
  <1>7. OwnWork'
    BY <1>1, <1>2 DEF TInv, OwnWork, Routing
  <1>8. \A v \in Workers : \A s \in run'[v].gone \union run'[v].shut : pos'[s] = "closed"
    <2> TAKE v \in Workers
    <2>1. CASE v = w
      BY <1>1, <2>1
    <2>2. CASE v # w
      <3>1. run'[v] = run[v]
        BY <1>1, <2>2
      <3>2. \A s \in run[v].gone \union run[v].shut :
              s \in Signals /\ book[s] = "open" /\ pos[s] = "closed"
        BY DEF TInv, TypeOK, OwnWork, ClosedForGood, RunRecord
      <3> QED BY <3>1, <3>2
    <2> QED BY <2>1, <2>2
  <1>9. ClosedForGood'
    BY <1>2, <1>8 DEF TInv, ClosedForGood, In
  <1> QED BY <1>6, <1>7, <1>9 DEF TInv
LEMMA DayTyped ==
  ASSUME TInv, NEW w \in Workers
  PROVE  /\ DayOf(w) \in DayRecord
         /\ \A p \in Int : After(DayOf(w), p) \in DayRecord
         /\ [DayOf(w) EXCEPT !.realized = run[w].sum] \in DayRecord
         /\ [DayOf(w) EXCEPT !.realized = run[w].sum].streak = DayOf(w).streak
         /\ [DayOf(w) EXCEPT !.realized = run[w].sum].realized = run[w].sum
  <1>1. run[w] \in RunRecord /\ day \in DayRecord
    BY DEF TInv, TypeOK
  <1>2. DayOf(w) \in DayRecord /\ run[w].sum \in Int
    BY <1>1 DEF DayOf, RunRecord
  <1> QED BY <1>2 DEF DayRecord, After

(* What each step inside a transaction puts into the job's record.         *)
LEMMA StartedTyped ==
  ASSUME TInv
  PROVE  /\ Started \in RunRecord /\ Started.s = None /\ Started.log = <<>>
         /\ Started.known = In(book, "closed")
         /\ Started.mine = {} /\ Started.gone = {} /\ Started.shut = {}
  <1>1. hw \in Int /\ In(book, "closed") \in SUBSET Signals
    BY DEF TInv, TypeOK, In
  <1>2. DOMAIN Idle = {"pc", "s", "hw", "eq", "float", "sum", "known", "day", "mine",
                       "gone", "shut", "log"}
    BY DEF Idle
  <1>3. Started \in RunRecord
    BY <1>1, IdleTyped DEF Started, RunRecord
  <1>4. Started.s = Idle.s /\ Started.log = Idle.log /\ Started.known = In(book, "closed")
        /\ Started.mine = Idle.mine /\ Started.gone = Idle.gone /\ Started.shut = Idle.shut
    BY <1>2 DEF Started
  <1> QED BY <1>3, <1>4, IdleTyped

LEMMA FieldsOf == ASSUME NEW x \in RunRecord
  PROVE DOMAIN x = {"pc", "s", "hw", "eq", "float", "sum", "known", "day", "mine", "gone", "shut", "log"}
  BY DEF RunRecord

LEMMA BeginRouteTyped ==
  ASSUME TInv, NEW w \in Workers, BeginRoute(w) PROVE TInv'
  <1>1. PICK s \in todo : /\ \A v \in Workers : run[v].s # s
                          /\ Goto(w, [Started EXCEPT !.s = s], "snapshot")
    BY DEF BeginRoute
  <1> DEFINE x == [Started EXCEPT !.s = s]
  <1>2. s \in Signals
    BY DEF TInv, TypeOK
  <1>3. x \in RunRecord /\ x.s = s /\ x.mine = {} /\ x.gone = {} /\ x.shut = {}
    BY <1>2, StartedTyped, FieldsOf DEF RunRecord
  <1>4. Goto(w, x, "snapshot")
    BY <1>1
  <1> HIDE DEF x
  <1>5. /\ UNCHANGED rows /\ UNCHANGED <<pl, enabled, atStop, faults>> /\ lock' = lock
        /\ late' = late /\ pos' = pos
    BY DEF BeginRoute, broker, counts
  <1> QED BY <1>1, <1>3, <1>4, <1>5, InnerTyped DEF Stages, TInv, TypeOK

LEMMA BeginReconcileTyped ==
  ASSUME TInv, NEW w \in Workers, BeginReconcile(w) PROVE TInv'
  <1> DEFINE mine == {s \in In(book, "open") : \A v \in Workers : s \notin run[v].mine}
             x == [Started EXCEPT !.mine = mine, !.gone = {s \in mine : pos[s] = "closed"}]
  <1>1. x \in RunRecord /\ x.s = None /\ x.mine = mine /\ x.shut = {}
        /\ x.gone = {s \in mine : pos[s] = "closed"}
    BY StartedTyped, FieldsOf DEF RunRecord, In
  <1>2. \A s \in x.mine : book[s] = "open" /\ \A v \in Workers : s \notin run[v].mine
    BY <1>1 DEF In
  <1>3. \A s \in x.gone \union x.shut : s \in x.mine /\ pos[s] = "closed"
    BY <1>1
  <1>4. Goto(w, x, "book")
    BY DEF BeginReconcile
  <1>5. x.s = None
    BY <1>1
  <1> HIDE DEF x
  <1>6. /\ UNCHANGED rows /\ UNCHANGED <<pl, enabled, atStop, faults>> /\ lock' = lock
        /\ late' = late /\ pos' = pos
    BY DEF BeginReconcile, broker, counts
  <1> QED BY <1>1, <1>2, <1>3, <1>4, <1>5, <1>6, InnerTyped DEF Stages, TInv, TypeOK

(* A job that goes on with the signal and the positions it has.            *)
LEMMA GoesOnTyped ==
  ASSUME TInv, NEW w \in Workers, NEW x \in RunRecord, NEW p \in Stages, Goto(w, x, p),
         UNCHANGED rows, UNCHANGED <<pl, enabled, atStop, faults>>, late' \in Nat,
         pos' \in [Signals -> {"none", "open", "closed"}],
         \A s \in Signals : book[s] # "none" /\ pos[s] = "closed" => pos'[s] = "closed",
         lock' = lock \/ LockDay(w),
         p \in {"judge", "order", "ordered"} => lock' = w,
         x.s = run[w].s, x.mine = run[w].mine,
         \A s \in x.gone \union x.shut :
           s \in run[w].gone \union run[w].shut \/ (s \in run[w].mine /\ pos'[s] = "closed")
  PROVE  TInv'
  <1>1. \A s \in run[w].mine :
          /\ s \in Signals /\ book[s] = "open"
          /\ \A v \in Workers \ {w} : s \notin run[v].mine
    BY DEF TInv, TypeOK, RunRecord
  <1>2. \A s \in run[w].gone \union run[w].shut : s \in run[w].mine /\ pos[s] = "closed"
    BY DEF TInv, OwnWork, ClosedForGood
  <1>3. x.gone \union x.shut \subseteq x.mine /\ \A s \in x.gone \union x.shut : pos'[s] = "closed"
    BY <1>1, <1>2
  <1>4. x.s # None => /\ x.s \in todo /\ x.mine = {}
                      /\ \A v \in Workers \ {w} : run[v].s # x.s
    BY DEF TInv, OwnWork, Routing
  <1> QED BY <1>1, <1>3, <1>4, InnerTyped

LEMMA BookTyped ==
  ASSUME TInv, NEW w \in Workers, Book(w) PROVE TInv'
  <1>1. PICK s \in run[w].gone :
          Goto(w, [Closing(w, s) EXCEPT !.day = After(DayOf(w), pl[s])], "book")
    BY DEF Book
  <1> DEFINE x == [Closing(w, s) EXCEPT !.day = After(DayOf(w), pl[s])]
  <1>2. run[w] \in RunRecord /\ s \in Signals /\ pl[s] \in Int
    BY DEF TInv, TypeOK, RunRecord
  <1>3. After(DayOf(w), pl[s]) \in DayRecord
    BY <1>2, DayTyped
  <1>4. Append(run[w].log, pl[s]) \in Seq(Int)
    BY <1>2 DEF RunRecord
  <1>5. /\ x \in RunRecord /\ x.s = run[w].s /\ x.mine = run[w].mine
        /\ x.gone = run[w].gone \ {s} /\ x.shut = run[w].shut \union {s}
    BY <1>2, <1>3, <1>4, FieldsOf DEF Closing, RunRecord
  <1>6. Goto(w, x, "book")
    BY <1>1
  <1>7. \A t \in x.gone \union x.shut : t \in run[w].gone \union run[w].shut
    BY <1>5
  <1> HIDE DEF x
  <1>8. /\ UNCHANGED rows /\ UNCHANGED <<pl, enabled, atStop, faults>> /\ LockDay(w)
        /\ late' = late /\ pos' = pos
    BY DEF Book, broker, counts
  <1> QED BY <1>5, <1>6, <1>7, <1>8, GoesOnTyped DEF Stages, TInv, TypeOK

LEMMA CompleteTyped ==
  ASSUME TInv, NEW w \in Workers, Complete(w) PROVE TInv'
  <1>1. PICK s \in run[w].mine :
          /\ pos' = [pos EXCEPT ![s] = "closed"]
          /\ Goto(w, [run[w] EXCEPT !.shut = @ \union {s}], "book")
    BY DEF Complete
  <1> DEFINE x == [run[w] EXCEPT !.shut = @ \union {s}]
  <1>2. run[w] \in RunRecord /\ s \in Signals
    BY DEF TInv, TypeOK, RunRecord
  <1>3. /\ x \in RunRecord /\ x.s = run[w].s /\ x.mine = run[w].mine
        /\ x.gone = run[w].gone /\ x.shut = run[w].shut \union {s}
    BY <1>2, FieldsOf DEF RunRecord
  <1>4. Goto(w, x, "book")
    BY <1>1
  <1>5. /\ pos' \in [Signals -> {"none", "open", "closed"}] /\ pos'[s] = "closed"
        /\ \A t \in Signals : pos[t] = "closed" => pos'[t] = "closed"
    BY <1>1, <1>2 DEF TInv, TypeOK
  <1>6. \A t \in x.gone \union x.shut :
          t \in run[w].gone \union run[w].shut \/ (t \in run[w].mine /\ pos'[t] = "closed")
    BY <1>1, <1>3, <1>5
  <1> HIDE DEF x
  <1>7. /\ UNCHANGED rows /\ UNCHANGED <<pl, enabled, atStop, faults>> /\ lock' = lock
        /\ late' = late
    BY DEF Complete, counts
  <1> QED BY <1>3, <1>4, <1>5, <1>6, <1>7, GoesOnTyped DEF Stages, TInv, TypeOK

LEMMA SnapshotTyped ==
  ASSUME TInv, NEW w \in Workers, Snapshot(w) PROVE TInv'
  <1> DEFINE x == [run[w] EXCEPT !.eq = Equity, !.float = Profit(In(pos, "open"))]
  <1>1. run[w] \in RunRecord /\ In(pos, "open") \in SUBSET Signals
    BY DEF TInv, TypeOK, In
  <1>2. Equity \in Int /\ Profit(In(pos, "open")) \in Int
    BY <1>1, ProfitIsInt, DayAssumption DEF TInv, Equity
  <1>3. /\ x \in RunRecord /\ x.s = run[w].s /\ x.mine = run[w].mine
        /\ x.gone = run[w].gone /\ x.shut = run[w].shut
    BY <1>1, <1>2, FieldsOf DEF RunRecord
  <1>4. Goto(w, x, "sum")
    BY DEF Snapshot
  <1> HIDE DEF x
  <1>5. /\ UNCHANGED rows /\ UNCHANGED <<pl, enabled, atStop, faults>> /\ lock' = lock
        /\ late' = late /\ pos' = pos
    BY DEF Snapshot, counts, broker
  <1> QED BY <1>3, <1>4, <1>5, GoesOnTyped DEF Stages, TInv, TypeOK

LEMMA SumTradesTyped ==
  ASSUME TInv, NEW w \in Workers, SumTrades(w) PROVE TInv'
  <1> DEFINE T == In(book, "closed") \union run[w].shut
             x == [run[w] EXCEPT !.sum = Profit(T)]
  <1>1. run[w] \in RunRecord /\ T \in SUBSET Signals
    BY DEF TInv, TypeOK, In, RunRecord
  <1>2. Profit(T) \in Int
    BY <1>1, ProfitIsInt DEF TInv
  <1>3. /\ x \in RunRecord /\ x.s = run[w].s /\ x.mine = run[w].mine
        /\ x.gone = run[w].gone /\ x.shut = run[w].shut
    BY <1>1, <1>2, FieldsOf DEF RunRecord
  <1>4. Goto(w, x, "lock")
    BY DEF SumTrades
  <1> HIDE DEF x
  <1>5. /\ UNCHANGED rows /\ UNCHANGED <<pl, enabled, atStop, faults>> /\ lock' = lock
        /\ late' = late /\ pos' = pos
    BY DEF SumTrades, counts, broker
  <1> QED BY <1>3, <1>4, <1>5, GoesOnTyped DEF Stages, TInv, TypeOK

LEMMA PersistTyped ==
  ASSUME TInv, NEW w \in Workers, Persist(w) PROVE TInv'
  <1>1. PICK d \in DayRecord, q \in Stages : Goto(w, [run[w] EXCEPT !.day = d, !.sum = 0], q)
    <2>1. (IF Routing(w) THEN "judge" ELSE "commit") \in Stages
      BY DEF Stages
    <2> QED BY <2>1, DayTyped DEF Persist
  <1> DEFINE x == [run[w] EXCEPT !.day = d, !.sum = 0]
  <1>2. run[w] \in RunRecord
    BY DEF TInv, TypeOK
  <1>3. /\ x \in RunRecord /\ x.s = run[w].s /\ x.mine = run[w].mine
        /\ x.gone = run[w].gone /\ x.shut = run[w].shut
    <2> DEFINE y == [run[w] EXCEPT !.day = d]
    <2>1. /\ y \in RunRecord /\ y.s = run[w].s /\ y.mine = run[w].mine
          /\ y.gone = run[w].gone /\ y.shut = run[w].shut
      BY <1>2, FieldsOf DEF RunRecord
    <2>2. x = [y EXCEPT !.sum = 0]
      BY <1>2, FieldsOf
    <2> HIDE DEF x, y
    <2> QED BY <2>1, <2>2, FieldsOf DEF RunRecord
  <1>4. Goto(w, x, q)
    BY <1>1
  <1> HIDE DEF x
  <1>5. /\ UNCHANGED rows /\ UNCHANGED <<pl, enabled, atStop, faults>> /\ LockDay(w) /\ lock' = w
        /\ late' = late /\ pos' = pos
    BY DEF Persist, LockDay, counts, broker
  <1> QED BY <1>3, <1>4, <1>5, GoesOnTyped DEF TInv, TypeOK

LEMMA JudgedTyped ==
  ASSUME TInv, NEW w \in Workers,
         Judge(w) \/ Reject(w) \/ SnapshotFails(w) \/ FindsNone(w)
  PROVE  TInv'
  <1>1. PICK q \in {"order", "commit", "insert"} :
          Goto(w, run[w], q) /\ (q = "order" => At(w, "judge"))
    BY DEF Judge, Reject, SnapshotFails, FindsNone
  <1>2. run[w] \in RunRecord /\ (q = "order" => lock = w)
    BY <1>1 DEF TInv, TypeOK, At
  <1>3. /\ UNCHANGED rows /\ UNCHANGED <<pl, enabled, atStop, faults>> /\ lock' = lock
        /\ late' = late /\ pos' = pos
    BY DEF Judge, Reject, SnapshotFails, FindsNone, counts, broker
  <1> QED BY <1>1, <1>2, <1>3, GoesOnTyped DEF Stages, TInv, TypeOK

LEMMA OrderTyped ==
  ASSUME TInv, NEW w \in Workers, Order(w) PROVE TInv'
  <1>1. Goto(w, run[w], "ordered") /\ lock = w
    BY DEF Order, TInv, TypeOK, At
  <1>2. /\ UNCHANGED rows /\ UNCHANGED <<pl, enabled, atStop, faults>> /\ lock' = lock
        /\ late' \in Nat /\ pos' = [pos EXCEPT ![run[w].s] = "open"]
    BY DEF Order, TInv, TypeOK
  <1>3. run[w].s # None => run[w].s \in todo
    BY DEF TInv, OwnWork, Routing
  <1>7. run[w] \in RunRecord
    BY DEF TInv, TypeOK
  <1>4. \A s \in Signals : s # run[w].s => pos'[s] = pos[s]
    BY <1>2 DEF TInv, TypeOK
  <1>5. \A s \in Signals : book[s] # "none" /\ pos[s] = "closed" => pos'[s] = "closed"
    <2> TAKE s \in Signals
    <2>1. CASE s = run[w].s
      <3>1. s \in todo
        BY <1>3, <1>7, <2>1, DayAssumption
      <3> QED BY <3>1 DEF TInv, OwnWork
    <2> QED BY <1>4, <2>1
  <1>6. pos' \in [Signals -> {"none", "open", "closed"}]
    BY <1>2 DEF TInv, TypeOK
  <1> QED BY <1>1, <1>2, <1>5, <1>6, <1>7, GoesOnTyped DEF Stages

LEMMA EndTyped ==
  ASSUME TInv, NEW w \in Workers, Release(w), UNCHANGED <<broker, enabled, counts>>,
         faults' \in 0..MaxFaults,
         book' \in [Signals -> {"none", "open", "closed"}], day' \in DayRecord,
         filed' \in BOOLEAN, hw' \in Int, ledger' \in Seq(Int), todo' \in SUBSET todo,
         run[w].s \notin todo' \/ book' = book,
         \A s \in Signals : \/ book'[s] = book[s]
                            \/ s \in run[w].shut /\ book'[s] = "closed"
                            \/ s = run[w].s /\ book'[s] = "open",
         \A s \in todo \ todo' : s = run[w].s
  PROVE  TInv'
  <1>1. /\ run' \in [Workers -> RunRecord] /\ run'[w] = Idle
        /\ \A v \in Workers \ {w} : run'[v] = run[v]
    BY IdleTyped DEF Release, TInv, TypeOK
  <1>2. lock' = (IF lock = w THEN Free ELSE lock) /\ lock' \in Workers \union {Free}
    BY DEF Release, TInv, TypeOK
  <1>3. pos' = pos /\ pl' = pl /\ enabled' = enabled /\ atStop' = atStop /\ late' = late
    BY DEF broker, counts
  <1>4. \A v \in Workers : run'[v].pc \in {"judge", "order", "ordered"} => lock' = v
    BY <1>1, <1>2, IdleTyped DEF TInv, TypeOK
  <1>5. \A v \in Workers \ {w} : \A s \in run[v].mine :
          s \in Signals /\ book[s] = "open" /\ \A u \in Workers \ {v} : s \notin run[u].mine
    BY DEF TInv, TypeOK, RunRecord
  <1>6. run[w].shut \subseteq run[w].mine /\ run[w].shut \subseteq Signals
    BY DEF TInv, TypeOK, OwnWork, RunRecord
  <1>7. run[w].s \in Signals => book[run[w].s] = "none" /\ run[w].s \in todo
    BY DayAssumption DEF TInv, OwnWork, Routing
  <1>8. \A v \in Workers \ {w} : \A s \in run[v].mine : book'[s] = "open"
    <2> SUFFICES ASSUME NEW v \in Workers \ {w}, NEW s \in run[v].mine
                 PROVE  book'[s] = "open"
      OBVIOUS
    <2>1. s \in Signals /\ book[s] = "open" /\ s \notin run[w].mine
      BY <1>5
    <2> QED BY <1>6, <2>1
  <1>9. \A v \in Workers : \A s \in run'[v].mine :
          book'[s] = "open" /\ \A u \in Workers \ {v} : s \notin run'[u].mine
    <2> SUFFICES ASSUME NEW v \in Workers, NEW s \in run'[v].mine
                 PROVE  book'[s] = "open" /\ \A u \in Workers \ {v} : s \notin run'[u].mine
      OBVIOUS
    <2>1. v # w /\ s \in run[v].mine
      BY <1>1, IdleTyped
    <2>2. \A u \in Workers \ {v} : s \notin run[u].mine
      BY <1>5, <2>1
    <2> QED BY <1>1, <1>8, <2>1, <2>2, IdleTyped
  <1>10. TypeOK'
    BY <1>1, <1>2, <1>3, <1>4, <1>9 DEF TInv, TypeOK
  <1>11. \A s \in todo' : book'[s] = "none"
    <2> TAKE s \in todo'
    <2>1. s \in Signals /\ book[s] = "none" /\ s \in todo
      BY DEF TInv, TypeOK, OwnWork
    <2>2. s \notin run[w].shut
      BY <1>6, <2>1 DEF TInv, TypeOK
    <2> QED BY <2>1, <2>2
  <1>12. ASSUME NEW v \in Workers
         PROVE  /\ run'[v].gone \union run'[v].shut \subseteq run'[v].mine
                /\ run'[v].s # None => /\ run'[v].s \in todo' /\ run'[v].mine = {}
                                     /\ \A u \in Workers \ {v} : run'[u].s # run'[v].s
    <2>1. CASE v = w
      BY <1>1, <2>1, IdleTyped
    <2>2. CASE v # w
      <3>1. run'[v] = run[v]
        BY <1>1, <2>2
      <3>2. /\ run[v].gone \union run[v].shut \subseteq run[v].mine
            /\ run[v].s # None => /\ run[v].s \in todo /\ run[v].mine = {}
                                 /\ \A u \in Workers \ {v} : run[u].s # run[v].s
        BY DEF TInv, OwnWork, Routing
      <3>3. run[v].s # None => run[v].s \in todo'
        BY <2>2, <3>2
      <3>4. run[v].s # None => \A u \in Workers \ {v} : run'[u].s # run[v].s
        BY <1>1, <3>2, IdleTyped
      <3> QED BY <3>1, <3>2, <3>3, <3>4
    <2> QED BY <2>1, <2>2
  <1>13. OwnWork'
    BY <1>11, <1>12 DEF OwnWork, Routing
  <1>14. \A s \in run[w].shut : pos[s] = "closed"
    BY DEF TInv, ClosedForGood
  <1>15. ClosedForGood'
    <2>1. \A s \in In(book, "closed")' : pos[s] = "closed"
      BY <1>14 DEF TInv, ClosedForGood, In
    <2>2. \A v \in Workers : \A s \in run'[v].gone \union run'[v].shut : pos[s] = "closed"
      BY <1>1, IdleTyped DEF TInv, ClosedForGood
    <2> QED BY <1>3, <2>1, <2>2 DEF ClosedForGood
  <1> QED BY <1>10, <1>13, <1>15 DEF TInv

LEMMA LogTyped ==
  ASSUME TInv, NEW w \in Workers
  PROVE  run[w].log \in Seq(Int) /\ ledger \in Seq(Int) /\ ledger \o run[w].log \in Seq(Int)
  <1>1. run[w].log \in Seq(Int) /\ ledger \in Seq(Int)
    BY DEF TInv, TypeOK, RunRecord
  <1> QED BY <1>1

LEMMA CommitTyped ==
  ASSUME TInv, NEW w \in Workers, Commit(w) PROVE TInv'
  <1>1. run[w] \in RunRecord /\ run[w].eq \in Int /\ hw \in Int
    BY DEF TInv, TypeOK, RunRecord
  <1>2. day' \in DayRecord /\ hw' \in Int /\ ledger' \in Seq(Int) /\ filed' \in BOOLEAN
    BY <1>1, DayTyped, LogTyped DEF Commit
  <1>3. /\ book' \in [Signals -> {"none", "open", "closed"}]
        /\ \A s \in Signals : \/ book'[s] = book[s]
                              \/ s \in run[w].shut /\ book'[s] = "closed"
                              \/ s = run[w].s /\ book'[s] = "open"
    BY DEF Commit, TInv, TypeOK
  <1>4. Release(w) /\ UNCHANGED <<broker, enabled, counts>> /\ faults' = faults
        /\ todo' = todo \ {run[w].s}
    BY DEF Commit
  <1>5. faults' \in 0..MaxFaults
    BY <1>4 DEF TInv, TypeOK
  <1> QED BY <1>2, <1>3, <1>4, <1>5, EndTyped

LEMMA RollbackTyped ==
  ASSUME TInv, NEW w \in Workers, Rollback(w) \/ InsertLost(w) PROVE TInv'
  <1>1. Release(w) /\ UNCHANGED <<broker, enabled, counts>>
    BY DEF Rollback, InsertLost
  <1>2. /\ book' = book /\ day' = day /\ hw' = hw /\ todo' = todo /\ ledger' = ledger
        /\ filed' = filed
    BY DEF Rollback, InsertLost, rows
  <1>3. faults' \in 0..MaxFaults
    BY DayAssumption DEF Rollback, InsertLost, TInv, TypeOK
  <1>4. /\ book \in [Signals -> {"none", "open", "closed"}] /\ day \in DayRecord /\ hw \in Int
        /\ ledger \in Seq(Int) /\ filed \in BOOLEAN
    BY DEF TInv, TypeOK
  <1> QED BY <1>1, <1>2, <1>3, <1>4, EndTyped

(* The jobs stand still: the broker, the operator, a signal refused.       *)
LEMMA OthersTyped ==
  ASSUME TInv, UNCHANGED <<run, lock, book, day, filed, hw, ledger, faults>>,
         pl' \in [Signals -> Int], pos' \in [Signals -> {"none", "open", "closed"}],
         \A s \in Signals : pos[s] = "closed" => pos'[s] = "closed",
         todo' \subseteq todo, \A s \in todo \ todo' : \A w \in Workers : run[w].s # s,
         enabled' \in BOOLEAN, atStop' \in Nat, late' \in Nat
  PROVE  TInv'
  <1>1. TypeOK'
    BY DEF TInv, TypeOK
  <1>2. OwnWork'
    BY DEF TInv, OwnWork, Routing
  <1>3. \A w \in Workers : run[w].gone \union run[w].shut \subseteq Signals
    BY DEF TInv, TypeOK, RunRecord
  <1>4. ClosedForGood'
    BY <1>3 DEF TInv, ClosedForGood, In
  <1> QED BY <1>1, <1>2, <1>4 DEF TInv

LEMMA InitTInv == Init => TInv
  <1> SUFFICES ASSUME Init PROVE TInv
    OBVIOUS
  <1>1. run \in [Workers -> RunRecord] /\ \A w \in Workers : run[w] = Idle
    BY IdleTyped DEF Init
  <1>2. Idle.day = [realized |-> 0, streak |-> 0]
    BY DEF Idle
  <1>3. TypeOK
    <2>1. filed \in BOOLEAN
      BY DEF Init
    <2> QED BY <1>1, <1>2, <2>1, IdleTyped, DayAssumption DEF Init, TypeOK, DayRecord
  <1>4. OwnWork /\ ClosedForGood
    BY <1>1, IdleTyped DEF Init, OwnWork, ClosedForGood, Routing, In
  <1> QED BY <1>3, <1>4 DEF TInv

LEMMA NextKeepsTInv ==
  ASSUME TInv, [Next]_vars PROVE TInv'
  <1>1. ASSUME NEW w \in Workers, Work(w) \/ Snapshot(w) \/ Complete(w) \/ SnapshotFails(w)
                                  \/ Rollback(w)
        PROVE  TInv'
    <2>1. CASE Stopped(w)
      <3>1. PICK s \in todo : (\A v \in Workers : run[v].s # s) /\ todo' = todo \ {s}
        BY <2>1 DEF Stopped
      <3>2. UNCHANGED <<run, lock, book, day, filed, hw, ledger, faults, pos, pl, enabled, atStop, late>>
        BY <2>1 DEF Stopped, broker, counts
      <3> QED BY <3>1, <3>2, OthersTyped DEF TInv, TypeOK
    <2> QED BY <1>1, <2>1, BeginRouteTyped, BeginReconcileTyped, BookTyped, CompleteTyped,
              SnapshotTyped, SumTradesTyped, PersistTyped, JudgedTyped, OrderTyped, CommitTyped,
              RollbackTyped DEF Work
  <1>2. ASSUME NEW s \in Signals, Moves(s) PROVE TInv'
    <2>1. pl' \in [Signals -> Int]
      BY <1>2, DayAssumption DEF Moves, TInv, TypeOK
    <2>2. UNCHANGED <<run, lock, book, day, filed, hw, ledger, faults, pos, todo, enabled, atStop, late>>
      BY <1>2 DEF Moves, rows, counts
    <2> QED BY <2>1, <2>2, OthersTyped DEF TInv, TypeOK
  <1>3. ASSUME NEW s \in Signals, BrokerCloses(s) PROVE TInv'
    <2>1. /\ pos' \in [Signals -> {"none", "open", "closed"}]
          /\ \A t \in Signals : pos[t] = "closed" => pos'[t] = "closed"
      BY <1>3 DEF BrokerCloses, TInv, TypeOK
    <2>2. UNCHANGED <<run, lock, book, day, filed, hw, ledger, faults, pl, todo, enabled, atStop, late>>
      BY <1>3 DEF BrokerCloses, rows, counts
    <2> QED BY <2>1, <2>2, OthersTyped DEF TInv, TypeOK
  <1>4. CASE EmergencyStop
    <2>1. IsFiniteSet({w \in Workers : Routing(w)})
      BY DayAssumption, FS_Subset
    <2>2. atStop' \in Nat /\ enabled' \in BOOLEAN
      BY <1>4, <2>1, FS_CardinalityType DEF EmergencyStop
    <2>3. UNCHANGED <<run, lock, book, day, filed, hw, ledger, faults, pos, pl, todo, late>>
      BY <1>4 DEF EmergencyStop, rows, broker
    <2> QED BY <2>2, <2>3, OthersTyped DEF TInv, TypeOK
  <1>5. CASE UNCHANGED vars
    <2>1. /\ UNCHANGED <<run, lock, book, day, filed, hw, ledger, faults>>
          /\ UNCHANGED <<pos, pl, todo, late, atStop, enabled>>
      BY <1>5 DEF vars, rows, broker, counts
    <2> QED BY <2>1, OthersTyped DEF TInv, TypeOK
  <1>6. CASE Resume
    <2>1. UNCHANGED <<run, lock, book, day, filed, hw, ledger, faults, pos, pl, todo>>
      BY <1>6 DEF Resume, rows, broker
    <2> QED BY <1>6, <2>1, OthersTyped DEF Resume, TInv, TypeOK
  <1> QED BY <1>1, <1>2, <1>3, <1>4, <1>5, <1>6 DEF Next

(* Every state has its types; a job that judges holds the day's row, and a *)
(* position is worked on by one reconcile job, which finds its row open.   *)
THEOREM TypeCorrect == Spec => []TypeOK
  <1>1. TInv => TypeOK
    BY DEF TInv
  <1>2. TInv /\ [Next]_vars => TInv'
    BY NextKeepsTInv
  <1> QED BY InitTInv, <1>1, <1>2, PTL DEF Spec
-----------------------------------------------------------------------------
(* What the steps of a job do to the amounts it will write or judge by.    *)
Outside(w) ==
  /\ \A v \in Workers \ {w} : run'[v] = run[v]
  /\ UNCHANGED rows /\ pl' = pl

LEMMA BeginFields ==
  ASSUME TInv, NEW w \in Workers, BeginRoute(w) \/ BeginReconcile(w)
  PROVE  /\ Outside(w) /\ lock' = lock /\ At(w, "idle") /\ run'[w].pc \in {"snapshot", "book"}
         /\ run'[w].log = <<>> /\ run'[w].known = In(book, "closed")
  <1>1. run \in [Workers -> RunRecord] /\ todo \subseteq Signals
    BY DEF TInv, TypeOK
  <1>2. CASE BeginRoute(w)
    <2>1. PICK s \in todo : Goto(w, [Started EXCEPT !.s = s], "snapshot")
      BY <1>2 DEF BeginRoute
    <2> DEFINE x == [Started EXCEPT !.s = s]
    <2>2. x \in RunRecord /\ x.log = <<>> /\ x.known = In(book, "closed")
      BY <1>1, StartedTyped, FieldsOf DEF RunRecord
    <2>3. Goto(w, x, "snapshot") /\ "snapshot" \in Stages
      BY <2>1 DEF Stages
    <2> HIDE DEF x
    <2>4. lock' = lock /\ At(w, "idle") /\ UNCHANGED rows /\ pl' = pl
      BY <1>2 DEF BeginRoute, broker
    <2> QED BY <1>1, <2>2, <2>3, <2>4, GotoFields DEF Outside
  <1>3. CASE BeginReconcile(w)
    <2> DEFINE mine == {s \in In(book, "open") : \A v \in Workers : s \notin run[v].mine}
               x == [Started EXCEPT !.mine = mine, !.gone = {s \in mine : pos[s] = "closed"}]
    <2>1. x \in RunRecord /\ x.log = <<>> /\ x.known = In(book, "closed")
      BY StartedTyped, FieldsOf DEF RunRecord, In
    <2>2. Goto(w, x, "book") /\ "book" \in Stages
      BY <1>3 DEF BeginReconcile, Stages
    <2> HIDE DEF x
    <2>3. lock' = lock /\ At(w, "idle") /\ UNCHANGED rows /\ pl' = pl
      BY <1>3 DEF BeginReconcile, broker
    <2> QED BY <1>1, <2>1, <2>2, <2>3, GotoFields DEF Outside
  <1> QED BY <1>2, <1>3

LEMMA BookFields ==
  ASSUME TInv, NEW w \in Workers, Book(w)
  PROVE  /\ Outside(w) /\ LockDay(w) /\ run'[w].pc = "book" /\ run'[w].known = run[w].known
         /\ \E p \in Int : /\ run'[w].log = Append(run[w].log, p)
                           /\ run'[w].day = After(DayOf(w), p)
  <1>1. PICK s \in run[w].gone :
          Goto(w, [Closing(w, s) EXCEPT !.day = After(DayOf(w), pl[s])], "book")
    BY DEF Book
  <1> DEFINE x == [Closing(w, s) EXCEPT !.day = After(DayOf(w), pl[s])]
  <1>2. run[w] \in RunRecord /\ s \in Signals /\ pl[s] \in Int
    BY DEF TInv, TypeOK, RunRecord
  <1>3. After(DayOf(w), pl[s]) \in DayRecord
    BY <1>2, DayTyped
  <1>4. Append(run[w].log, pl[s]) \in Seq(Int)
    BY <1>2 DEF RunRecord
  <1>5. /\ x \in RunRecord /\ x.log = Append(run[w].log, pl[s])
        /\ x.day = After(DayOf(w), pl[s]) /\ x.known = run[w].known
    BY <1>2, <1>3, <1>4, FieldsOf DEF Closing, RunRecord
  <1>6. Goto(w, x, "book") /\ "book" \in Stages
    BY <1>1 DEF Stages
  <1> HIDE DEF x
  <1>7. LockDay(w) /\ UNCHANGED rows /\ pl' = pl
    BY DEF Book, broker
  <1>8. run \in [Workers -> RunRecord]
    BY DEF TInv, TypeOK
  <1> QED BY <1>2, <1>5, <1>6, <1>7, <1>8, GotoFields DEF Outside

LEMMA SumFields ==
  ASSUME TInv, NEW w \in Workers, SumTrades(w)
  PROVE  /\ Outside(w) /\ lock' = lock /\ run'[w].pc = "lock" /\ run'[w].s = run[w].s
         /\ run'[w].log = run[w].log /\ run'[w].known = run[w].known /\ run'[w].day = run[w].day
         /\ run'[w].sum = Profit(In(book, "closed") \union run[w].shut)
  <1> DEFINE T == In(book, "closed") \union run[w].shut
  <1>1. run \in [Workers -> RunRecord] /\ run[w] \in RunRecord /\ T \in SUBSET Signals
    BY DEF TInv, TypeOK, In, RunRecord
  <1>2. PICK a \in Int : a = Profit(T)
    BY <1>1, ProfitIsInt DEF TInv
  <1> DEFINE x == [run[w] EXCEPT !.sum = a]
  <1>3. /\ x \in RunRecord /\ x.s = run[w].s /\ x.log = run[w].log /\ x.known = run[w].known
        /\ x.day = run[w].day /\ x.sum = a
    BY <1>1, FieldsOf DEF RunRecord
  <1>4. Goto(w, x, "lock") /\ "lock" \in Stages
    BY <1>2 DEF SumTrades, Stages
  <1> HIDE DEF x
  <1>5. lock' = lock /\ UNCHANGED rows /\ pl' = pl
    BY DEF SumTrades, broker
  <1> QED BY <1>1, <1>2, <1>3, <1>4, <1>5, GotoFields DEF Outside

LEMMA PersistFields ==
  ASSUME TInv, NEW w \in Workers, Persist(w)
  PROVE  /\ Outside(w) /\ LockDay(w) /\ HasRow(w)
         /\ run'[w].pc \in {"judge", "commit"} /\ (run'[w].pc = "judge" => Routing(w))
         /\ run'[w].log = run[w].log /\ run'[w].known = run[w].known
         /\ run'[w].day.streak = DayOf(w).streak /\ run'[w].day.realized = run[w].sum
  <1>1. PICK q \in {"judge", "commit"} : q = IF Routing(w) THEN "judge" ELSE "commit"
    OBVIOUS
  <1>2. PICK d \in DayRecord : /\ d = [DayOf(w) EXCEPT !.realized = run[w].sum]
                              /\ d.streak = DayOf(w).streak /\ d.realized = run[w].sum
    BY DayTyped
  <1> DEFINE x == [run[w] EXCEPT !.day = d, !.sum = 0]
  <1>3. run \in [Workers -> RunRecord] /\ run[w] \in RunRecord
    BY DEF TInv, TypeOK
  <1>4. x \in RunRecord /\ x.day = d /\ x.log = run[w].log /\ x.known = run[w].known
    <2> DEFINE y == [run[w] EXCEPT !.day = d]
    <2>1. y \in RunRecord /\ y.day = d /\ y.log = run[w].log /\ y.known = run[w].known
      BY <1>3, FieldsOf DEF RunRecord
    <2>2. x = [y EXCEPT !.sum = 0]
      BY <1>3, FieldsOf
    <2> HIDE DEF x, y
    <2> QED BY <2>1, <2>2, FieldsOf DEF RunRecord
  <1>5. Goto(w, x, q) /\ q \in Stages
    BY <1>1, <1>2 DEF Persist, Stages
  <1> HIDE DEF x
  <1>6. LockDay(w) /\ HasRow(w) /\ UNCHANGED rows /\ pl' = pl
    BY DEF Persist, LockDay, broker
  <1> QED BY <1>1, <1>2, <1>3, <1>4, <1>5, <1>6, GotoFields DEF Outside

LEMMA InsertFields ==
  ASSUME TInv, NEW w \in Workers, FindsNone(w)
  PROVE  /\ Outside(w) /\ lock' = lock /\ At(w, "lock") /\ run'[w].pc = "insert"
         /\ run'[w].s = run[w].s /\ run'[w].log = run[w].log /\ run'[w].known = run[w].known
         /\ run'[w].day = run[w].day /\ run'[w].sum = run[w].sum
  <1>1. run \in [Workers -> RunRecord] /\ run[w] \in RunRecord
    BY DEF TInv, TypeOK
  <1>2. Goto(w, run[w], "insert") /\ "insert" \in Stages
    BY DEF FindsNone, Stages
  <1>3. lock' = lock /\ At(w, "lock") /\ UNCHANGED rows /\ pl' = pl
    BY DEF FindsNone, broker
  <1> QED BY <1>1, <1>2, <1>3, GotoFields DEF Outside

LEMMA PlainFields ==
  ASSUME TInv, NEW w \in Workers,
         \/ Complete(w) \/ Snapshot(w) \/ SnapshotFails(w) \/ Judge(w) \/ Reject(w) \/ Order(w)
  PROVE  /\ Outside(w) /\ lock' = lock /\ run'[w].pc \notin {"idle", "lock", "insert", "judge"}
         /\ run'[w].log = run[w].log /\ run'[w].known = run[w].known /\ run'[w].day = run[w].day
         /\ run'[w].pc = "order" => Judge(w) /\ run'[w].float = run[w].float
  <1>1. run \in [Workers -> RunRecord] /\ run[w] \in RunRecord
    BY DEF TInv, TypeOK
  <1>2. CASE Complete(w)
    <2>1. PICK s \in run[w].mine : Goto(w, [run[w] EXCEPT !.shut = @ \union {s}], "book")
      BY <1>2 DEF Complete
    <2> DEFINE x == [run[w] EXCEPT !.shut = @ \union {s}]
    <2>2. s \in Signals
      BY <1>1 DEF RunRecord
    <2>3. /\ x \in RunRecord /\ x.log = run[w].log /\ x.known = run[w].known
          /\ x.day = run[w].day
      BY <1>1, <2>2, FieldsOf DEF RunRecord
    <2>4. Goto(w, x, "book") /\ "book" \in Stages
      BY <2>1 DEF Stages
    <2> HIDE DEF x
    <2>5. lock' = lock /\ UNCHANGED rows /\ pl' = pl
      BY <1>2 DEF Complete
    <2> QED BY <1>1, <2>3, <2>4, <2>5, GotoFields DEF Outside
  <1>3. CASE Snapshot(w)
    <2>1. Equity \in Int /\ Profit(In(pos, "open")) \in Int
      BY ProfitIsInt, DayAssumption DEF TInv, Equity, In
    <2>2. PICK a \in Int, b \in Int : a = Equity /\ b = Profit(In(pos, "open"))
      BY <2>1
    <2> DEFINE x == [run[w] EXCEPT !.eq = a, !.float = b]
    <2>3. /\ x \in RunRecord /\ x.log = run[w].log /\ x.known = run[w].known
          /\ x.day = run[w].day
      BY <1>1, FieldsOf DEF RunRecord
    <2>4. Goto(w, x, "sum") /\ "sum" \in Stages
      BY <1>3, <2>2 DEF Snapshot, Stages
    <2> HIDE DEF x
    <2>5. lock' = lock /\ UNCHANGED rows /\ pl' = pl
      BY <1>3 DEF Snapshot, broker
    <2> QED BY <1>1, <2>3, <2>4, <2>5, GotoFields DEF Outside
  <1>4. CASE SnapshotFails(w) \/ Judge(w) \/ Reject(w) \/ Order(w)
    <2>1. PICK q \in {"order", "commit", "ordered"} : Goto(w, run[w], q) /\ (q = "order" => Judge(w))
      BY <1>4 DEF Judge, Reject, SnapshotFails, Order
    <2>2. lock' = lock /\ UNCHANGED rows /\ pl' = pl
      BY <1>4 DEF Judge, Reject, SnapshotFails, Order, broker
    <2> QED BY <1>1, <2>1, <2>2, GotoFields DEF Outside, Stages
  <1> QED BY <1>2, <1>3, <1>4
-----------------------------------------------------------------------------
(* Whoever holds the day's row has the stored streak and what it has       *)
(* booked since; nobody else has booked anything.                          *)
StreakOf(w) ==
  IF lock = w THEN ~At(w, "idle") /\ run[w].day.streak = Streak(ledger \o run[w].log)
              ELSE run[w].log = <<>>
Streaks == day.streak = Streak(ledger) /\ \A w \in Workers : StreakOf(w)

LEMMA DayOfStreak ==
  ASSUME TInv, Streaks, NEW w \in Workers
  PROVE  DayOf(w).streak = Streak(ledger \o run[w].log)
  <1>1. CASE lock = w
    BY <1>1 DEF Streaks, StreakOf, DayOf
  <1>2. CASE lock # w
    <2>1. run[w].log = <<>> /\ DayOf(w) = day /\ day.streak = Streak(ledger)
      BY <1>2 DEF Streaks, StreakOf, DayOf
    <2>2. ledger \o <<>> = ledger
      BY LogTyped, ConcatEmpty
    <2> QED BY <2>1, <2>2
  <1> QED BY <1>1, <1>2

LEMMA StreaksStep ==
  ASSUME TInv, Streaks, NEW w \in Workers, Outside(w), lock' = lock \/ LockDay(w), StreakOf(w)'
  PROVE  Streaks'
  <1>1. day' = day /\ ledger' = ledger
    BY DEF Outside, rows
  <1>2. \A v \in Workers \ {w} : run'[v] = run[v] /\ (lock' = v <=> lock = v)
    BY DayAssumption DEF Outside, LockDay
  <1>3. ASSUME NEW v \in Workers \ {w} PROVE StreakOf(v)'
    BY <1>1, <1>2 DEF Streaks, StreakOf, At
  <1> QED BY <1>1, <1>3 DEF Streaks

LEMMA InsideStreaks ==
  ASSUME TInv, Streaks, NEW w \in Workers, Inside(w) PROVE Streaks'
  <1>1. CASE BeginRoute(w) \/ BeginReconcile(w)
    <2>1. Outside(w) /\ lock' = lock /\ run'[w].log = <<>> /\ lock # w
      BY <1>1, BeginFields DEF Streaks, StreakOf
    <2> QED BY <2>1, StreaksStep DEF StreakOf
  <1>2. CASE Book(w)
    <2>1. PICK p \in Int : run'[w].log = Append(run[w].log, p) /\ run'[w].day = After(DayOf(w), p)
      BY <1>2, BookFields
    <2>2. Outside(w) /\ LockDay(w) /\ lock' = w /\ run'[w].pc = "book" /\ ledger' = ledger
      BY <1>2, BookFields DEF LockDay, Outside, rows
    <2>3. ledger \o Append(run[w].log, p) = Append(ledger \o run[w].log, p)
      BY LogTyped, ConcatAppend
    <2>4. Streak(Append(ledger \o run[w].log, p))
            = IF p > 0 THEN 0 ELSE IF p < 0 THEN Streak(ledger \o run[w].log) + 1
                              ELSE Streak(ledger \o run[w].log)
      BY LogTyped, StreakAppend
    <2>5. After(DayOf(w), p).streak
            = IF p > 0 THEN 0 ELSE IF p < 0 THEN DayOf(w).streak + 1 ELSE DayOf(w).streak
      BY DEF After
    <2>6. run'[w].day.streak = Streak(ledger \o run'[w].log)
      BY <2>1, <2>3, <2>4, <2>5, DayOfStreak
    <2> QED BY <2>2, <2>6, StreaksStep DEF StreakOf, At
  <1>3. CASE Persist(w)
    <2>1. /\ Outside(w) /\ LockDay(w) /\ lock' = w /\ run'[w].pc # "idle" /\ ledger' = ledger
          /\ run'[w].log = run[w].log /\ run'[w].day.streak = DayOf(w).streak
      BY <1>3, PersistFields DEF LockDay, Outside, rows
    <2>2. run'[w].day.streak = Streak(ledger \o run'[w].log)
      BY <2>1, DayOfStreak
    <2> QED BY <2>1, <2>2, StreaksStep DEF StreakOf, At
  <1>4. CASE ~(BeginRoute(w) \/ BeginReconcile(w) \/ Book(w) \/ Persist(w))
    <2>1. /\ Outside(w) /\ lock' = lock /\ run'[w].pc # "idle"
          /\ run'[w].log = run[w].log /\ run'[w].day = run[w].day
      BY <1>4, SumFields, InsertFields, PlainFields DEF Inside
    <2>2. ledger' = ledger /\ StreakOf(w)
      BY <2>1 DEF Outside, rows, Streaks
    <2> QED BY <2>1, <2>2, StreaksStep DEF StreakOf, At
  <1> QED BY <1>1, <1>2, <1>3, <1>4

LEMMA CommitStreaks ==
  ASSUME TInv, Streaks, NEW w \in Workers, Commit(w) PROVE Streaks'
  <1>1. /\ run'[w] = Idle /\ \A v \in Workers \ {w} : run'[v] = run[v]
        /\ lock' = (IF lock = w THEN Free ELSE lock)
        /\ day' = DayOf(w) /\ ledger' = ledger \o run[w].log
    BY DEF Commit, Release, TInv, TypeOK
  <1>2. day'.streak = Streak(ledger')
    BY <1>1, DayOfStreak
  <1>3. StreakOf(w)'
    BY <1>1, IdleTyped, DayAssumption DEF StreakOf, At
  <1>4. ASSUME NEW v \in Workers \ {w} PROVE StreakOf(v)'
    <2>1. CASE lock = v
      <3>1. run[w].log = <<>> /\ ledger' = ledger
        BY <1>1, <1>4, <2>1, LogTyped, ConcatEmpty DEF Streaks, StreakOf
      <3> QED BY <1>1, <1>4, <2>1, <3>1 DEF Streaks, StreakOf, At
    <2>2. CASE lock # v
      BY <1>1, <1>4, <2>2, DayAssumption DEF Streaks, StreakOf, At
    <2> QED BY <2>1, <2>2
  <1> QED BY <1>2, <1>3, <1>4 DEF Streaks

LEMMA RollbackStreaks ==
  ASSUME TInv, Streaks, NEW w \in Workers, Rollback(w) \/ InsertLost(w) PROVE Streaks'
  <1>1. /\ run'[w] = Idle /\ \A v \in Workers \ {w} : run'[v] = run[v]
        /\ lock' = (IF lock = w THEN Free ELSE lock)
        /\ day' = day /\ ledger' = ledger
    BY DEF Rollback, InsertLost, Release, TInv, TypeOK, rows
  <1>2. StreakOf(w)'
    BY <1>1, IdleTyped, DayAssumption DEF StreakOf, At
  <1>3. ASSUME NEW v \in Workers \ {w} PROVE StreakOf(v)'
    BY <1>1, <1>3, DayAssumption DEF Streaks, StreakOf, At
  <1> QED BY <1>1, <1>2, <1>3 DEF Streaks

LEMMA NextKeepsStreaks ==
  ASSUME TInv, Streaks, [Next]_vars PROVE Streaks'
  <1>1. ASSUME NEW w \in Workers, Stopped(w) PROVE Streaks'
    <2>1. UNCHANGED <<run, lock, day, ledger>>
      BY <1>1 DEF Stopped
    <2> QED BY <2>1 DEF Streaks, StreakOf, At
  <1>2. ASSUME NEW s \in Signals, Moves(s) \/ BrokerCloses(s) PROVE Streaks'
    <2>1. UNCHANGED <<run, lock, day, ledger>>
      BY <1>2 DEF Moves, BrokerCloses, rows
    <2> QED BY <2>1 DEF Streaks, StreakOf, At
  <1>3. CASE EmergencyStop \/ Resume \/ UNCHANGED vars
    <2>1. UNCHANGED <<run, lock, day, ledger>>
      BY <1>3 DEF EmergencyStop, Resume, vars, rows
    <2> QED BY <2>1 DEF Streaks, StreakOf, At
  <1> QED BY <1>1, <1>2, <1>3, InsideStreaks, CommitStreaks, RollbackStreaks
          DEF Next, Work, Inside

LEMMA InitStreaks == Init => Streaks
  <1> SUFFICES ASSUME Init PROVE Streaks
    OBVIOUS
  <1>1. Losses(<<>>) = {}
    BY DEF Losses
  <1>2. day.streak = 0 /\ ledger = <<>> /\ lock = Free /\ \A w \in Workers : run[w] = Idle
    BY DEF Init, Idle
  <1> QED BY <1>1, <1>2, FS_EmptySet, IdleTyped, DayAssumption DEF Streaks, StreakOf, Streak

(* For any number of workers, whatever is rolled back and however bookings *)
(* wait for each other: the committed streak is that of the committed      *)
(* closures, in the order of their commits.                                *)
THEOREM StreakIsExact == Spec => []StreakCounted
  <1>1. Streaks => StreakCounted
    BY DEF Streaks, StreakCounted, Streak, Losses, Wins
  <1>2. TInv /\ Streaks /\ [Next]_vars => TInv' /\ Streaks'
    BY NextKeepsTInv, NextKeepsStreaks
  <1> QED BY InitTInv, InitStreaks, <1>1, <1>2, PTL DEF Spec
-----------------------------------------------------------------------------
(* What a route job sums up, copies and judges by accounts for the trades  *)
(* booked when it began; rows closed once stay closed, with their profit.  *)
Closed == In(book, "closed")
Accounts(w, S) == S \subseteq Closed /\ run[w].known \subseteq S
HeedsLoss(w) ==
  /\ run[w].known \subseteq Closed
  /\ Routing(w) /\ run[w].pc \in {"lock", "insert"} =>
       \E S \in SUBSET Signals : Accounts(w, S) /\ run[w].sum = Profit(S)
  /\ At(w, "judge") =>
       \E S \in SUBSET Signals : Accounts(w, S) /\ run[w].day.realized = Profit(S)
  /\ At(w, "order") =>
       \E S \in SUBSET Signals : Accounts(w, S) /\ Profit(S) + run[w].float > -MaxLoss

LEMMA ClosedSignals == Closed \in SUBSET Signals
  BY DEF Closed, In

LEMMA AccountsStay ==
  ASSUME NEW w \in Workers, run'[w].known = run[w].known, Closed \subseteq Closed',
         \A s \in Closed : pl'[s] = pl[s], NEW S \in SUBSET Signals, Accounts(w, S)
  PROVE  Accounts(w, S)' /\ Profit(S)' = Profit(S)
  <1>1. \A s \in S : pl'[s] = pl[s]
    BY DEF Accounts
  <1>2. Profit(S)' = Profit(S)
    BY <1>1, ProfitStays
  <1> QED BY <1>2 DEF Accounts

LEMMA HeedStays ==
  ASSUME NEW w \in Workers, HeedsLoss(w), run'[w] = run[w], Closed \subseteq Closed',
         \A s \in Closed : pl'[s] = pl[s]
  PROVE  HeedsLoss(w)'
  <1>1. ASSUME NEW S \in SUBSET Signals, Accounts(w, S)
        PROVE  Accounts(w, S)' /\ Profit(S)' = Profit(S)
    BY <1>1, AccountsStay
  <1>2. run'[w].known \subseteq Closed'
    BY DEF HeedsLoss
  <1>3. Routing(w)' /\ run'[w].pc \in {"lock", "insert"} =>
          \E S \in SUBSET Signals : Accounts(w, S)' /\ run'[w].sum = Profit(S)'
    BY <1>1 DEF HeedsLoss, Routing, At
  <1>4. At(w, "judge")' =>
          \E S \in SUBSET Signals : Accounts(w, S)' /\ run'[w].day.realized = Profit(S)'
    BY <1>1 DEF HeedsLoss, At
  <1>5. At(w, "order")' =>
          \E S \in SUBSET Signals : Accounts(w, S)' /\ Profit(S)' + run'[w].float > -MaxLoss
    BY <1>1 DEF HeedsLoss, At
  <1> QED BY <1>2, <1>3, <1>4, <1>5 DEF HeedsLoss

LEMMA InsideHeeds ==
  ASSUME TInv, \A v \in Workers : HeedsLoss(v), NEW w \in Workers, Inside(w)
  PROVE  \A v \in Workers : HeedsLoss(v)'
  <1>1. Outside(w)
    BY BeginFields, BookFields, SumFields, InsertFields, PersistFields, PlainFields DEF Inside
  <1>2. Closed' = Closed /\ pl' = pl
    BY <1>1 DEF Outside, rows, Closed, In
  <1>3. ASSUME NEW v \in Workers \ {w} PROVE HeedsLoss(v)'
    BY <1>1, <1>2, HeedStays DEF Outside
  <1>4. ASSUME NEW S \in SUBSET Signals, Accounts(w, S), run'[w].known = run[w].known
        PROVE  Accounts(w, S)' /\ Profit(S)' = Profit(S)
    BY <1>2, <1>4, AccountsStay
  <1>5. run[w].known \subseteq Closed
    BY DEF HeedsLoss
  <1>6. CASE BeginRoute(w) \/ BeginReconcile(w)
    <2>1. run'[w].pc \in {"snapshot", "book"} /\ run'[w].known = Closed
      BY <1>6, BeginFields DEF Closed
    <2>2. HeedsLoss(w)'
      BY <1>2, <2>1 DEF HeedsLoss, At
    <2> QED BY <1>3, <2>2
  <1>7. CASE Book(w)
    <2>1. run'[w].pc = "book" /\ run'[w].known = run[w].known
      BY <1>7, BookFields
    <2>2. HeedsLoss(w)'
      BY <1>2, <1>5, <2>1 DEF HeedsLoss, At
    <2> QED BY <1>3, <2>2
  <1>8. CASE SumTrades(w)
    <2>1. /\ run'[w].pc = "lock" /\ run'[w].known = run[w].known /\ run'[w].s = run[w].s
          /\ run'[w].sum = Profit(Closed \union run[w].shut)
      BY <1>8, SumFields DEF Closed
    <2>2. ASSUME Routing(w)
          PROVE  \E S \in SUBSET Signals : Accounts(w, S)' /\ run'[w].sum = Profit(S)'
      <3>1. run[w].shut = {}
        BY <2>2 DEF TInv, OwnWork
      <3>2. PICK S \in SUBSET Signals : S = Closed
        BY ClosedSignals
      <3>3. Accounts(w, S) /\ Closed \union run[w].shut = S
        BY <1>5, <3>1, <3>2 DEF Accounts
      <3>4. Accounts(w, S)' /\ Profit(S)' = Profit(S)
        BY <1>4, <2>1, <3>3
      <3>5. Profit(Closed \union run[w].shut) = Profit(S)
        BY <3>3
      <3> QED BY <2>1, <3>4, <3>5
    <2>3. HeedsLoss(w)'
      BY <1>2, <1>5, <2>1, <2>2 DEF HeedsLoss, At, Routing
    <2> QED BY <1>3, <2>3
  <1>9. CASE Persist(w)
    <2>1. /\ run'[w].pc \in {"judge", "commit"} /\ (run'[w].pc = "judge" => Routing(w))
          /\ run'[w].known = run[w].known /\ run'[w].day.realized = run[w].sum
          /\ run[w].pc \in {"lock", "insert"}
      BY <1>9, PersistFields DEF HasRow, At
    <2>2. ASSUME run'[w].pc = "judge"
          PROVE  \E S \in SUBSET Signals : Accounts(w, S)' /\ run'[w].day.realized = Profit(S)'
      <3>1. PICK S \in SUBSET Signals : Accounts(w, S) /\ run[w].sum = Profit(S)
        BY <2>1, <2>2 DEF HeedsLoss
      <3> QED BY <1>4, <2>1, <3>1
    <2>3. HeedsLoss(w)'
      BY <1>2, <1>5, <2>1, <2>2 DEF HeedsLoss, At
    <2> QED BY <1>3, <2>3
  <1>10. CASE ~(\/ BeginRoute(w) \/ BeginReconcile(w) \/ Book(w) \/ SumTrades(w)
                \/ FindsNone(w) \/ Persist(w))
    <2>1. /\ run'[w].pc \notin {"idle", "lock", "insert", "judge"} /\ run'[w].known = run[w].known
          /\ run'[w].pc = "order" => Judge(w) /\ run'[w].float = run[w].float
      BY <1>10, PlainFields DEF Inside
    <2>2. ASSUME run'[w].pc = "order"
          PROVE  \E S \in SUBSET Signals : Accounts(w, S)' /\ Profit(S)' + run'[w].float > -MaxLoss
      <3>1. At(w, "judge") /\ ~DailyLocked(w)
        BY <2>1, <2>2 DEF Judge, Blocked
      <3>2. PICK S \in SUBSET Signals : Accounts(w, S) /\ run[w].day.realized = Profit(S)
        BY <3>1 DEF HeedsLoss
      <3>3. run[w].day.realized \in Int /\ run[w].float \in Int
        BY DEF TInv, TypeOK, RunRecord, DayRecord
      <3>4. Profit(S) + run[w].float > -MaxLoss
        BY <3>1, <3>2, <3>3, DayAssumption DEF DailyLocked
      <3> QED BY <1>4, <2>1, <2>2, <3>2, <3>4
    <2>3. HeedsLoss(w)'
      BY <1>2, <1>5, <2>1, <2>2 DEF HeedsLoss, At
    <2> QED BY <1>3, <2>3
  <1>11. CASE FindsNone(w)
    <2>1. /\ run'[w].pc = "insert" /\ At(w, "lock") /\ run'[w].known = run[w].known
          /\ run'[w].s = run[w].s /\ run'[w].sum = run[w].sum
      BY <1>11, InsertFields
    <2>2. ASSUME Routing(w)
          PROVE  \E S \in SUBSET Signals : Accounts(w, S)' /\ run'[w].sum = Profit(S)'
      <3>1. PICK S \in SUBSET Signals : Accounts(w, S) /\ run[w].sum = Profit(S)
        BY <2>1, <2>2 DEF HeedsLoss, At
      <3> QED BY <1>4, <2>1, <3>1
    <2>3. HeedsLoss(w)'
      BY <1>2, <1>5, <2>1, <2>2 DEF HeedsLoss, At, Routing
    <2> QED BY <1>3, <2>3
  <1> QED BY <1>6, <1>7, <1>8, <1>9, <1>10, <1>11

LEMMA IdleHeeds ==
  ASSUME NEW w \in Workers, run'[w] = Idle PROVE HeedsLoss(w)'
  BY IdleTyped DEF HeedsLoss, At

LEMMA NextHeeds ==
  ASSUME TInv, \A w \in Workers : HeedsLoss(w), [Next]_vars
  PROVE  \A w \in Workers : HeedsLoss(w)'
  <1>1. ASSUME NEW w \in Workers, Commit(w) PROVE \A v \in Workers : HeedsLoss(v)'
    <2>1. /\ run'[w] = Idle /\ \A v \in Workers \ {w} : run'[v] = run[v]
          /\ pl' = pl
      BY <1>1 DEF Commit, Release, TInv, TypeOK, broker
    <2>2. run[w].s \in Signals => book[run[w].s] = "none"
      BY DayAssumption DEF TInv, OwnWork, Routing
    <2>3. Closed \subseteq Closed'
      BY <1>1, <2>2 DEF Commit, Closed, In
    <2> QED BY <2>1, <2>3, HeedStays, IdleHeeds
  <1>2. ASSUME NEW w \in Workers, Rollback(w) \/ InsertLost(w)
        PROVE  \A v \in Workers : HeedsLoss(v)'
    <2>1. /\ run'[w] = Idle /\ \A v \in Workers \ {w} : run'[v] = run[v]
          /\ pl' = pl /\ Closed' = Closed
      BY <1>2 DEF Rollback, InsertLost, Release, TInv, TypeOK, broker, rows, Closed, In
    <2> QED BY <2>1, HeedStays, IdleHeeds
  <1>3. ASSUME NEW w \in Workers, Stopped(w) PROVE \A v \in Workers : HeedsLoss(v)'
    <2>1. run' = run /\ pl' = pl /\ Closed' = Closed
      BY <1>3 DEF Stopped, broker, Closed, In
    <2> QED BY <2>1, HeedStays
  <1>4. ASSUME NEW s \in Signals, Moves(s) PROVE \A v \in Workers : HeedsLoss(v)'
    <2>1. run' = run /\ Closed' = Closed
      BY <1>4 DEF Moves, rows, Closed, In
    <2>2. s \notin Closed
      BY <1>4 DEF Moves, TInv, ClosedForGood, Closed
    <2>3. \A t \in Closed : pl'[t] = pl[t]
      BY <1>4, <2>2, ClosedSignals DEF Moves, TInv, TypeOK
    <2> QED BY <2>1, <2>3, HeedStays
  <1>5. ASSUME NEW s \in Signals, BrokerCloses(s) PROVE \A v \in Workers : HeedsLoss(v)'
    <2>1. run' = run /\ pl' = pl /\ Closed' = Closed
      BY <1>5 DEF BrokerCloses, rows, Closed, In
    <2> QED BY <2>1, HeedStays
  <1>6. CASE EmergencyStop \/ Resume \/ UNCHANGED vars
    <2>1. run' = run /\ pl' = pl /\ Closed' = Closed
      BY <1>6 DEF EmergencyStop, Resume, vars, broker, rows, Closed, In
    <2> QED BY <2>1, HeedStays
  <1> QED BY <1>1, <1>2, <1>3, <1>4, <1>5, <1>6, InsideHeeds DEF Next, Work, Inside

(* For any number of workers, any trades and any limit: a job at its order *)
(* has found the loss limit unreached by a total that contains every trade *)
(* booked before it began, however long it waited for the day's row.       *)
THEOREM LossLimitIsJudged == Spec => []LossLimitHolds
  <1> DEFINE L == \A w \in Workers : HeedsLoss(w)
  <1>1. Init => L
    BY IdleTyped DEF Init, HeedsLoss, At
  <1>2. TInv /\ L /\ [Next]_vars => TInv' /\ L'
    BY NextKeepsTInv, NextHeeds
  <1>3. L => LossLimitHolds
    BY DEF HeedsLoss, LossLimitHolds, Accounts, Closed
  <1> HIDE DEF L
  <1> QED BY InitTInv, <1>1, <1>2, <1>3, PTL DEF Spec
=============================================================================
