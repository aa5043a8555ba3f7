------------------------ MODULE NotificationsProofs ------------------------
(***************************************************************************)
(* The outbox for any number of workers, events, reports and rolled back   *)
(* jobs, any batch limit, with or without a bot token: its types, how      *)
(* often an item can reach Telegram, and how many reports a day can have.  *)
(***************************************************************************)
EXTENDS Notifications, FiniteSetTheorems, TLAPS

Tg(i) == <<i, "TELEGRAM">>

(* A job has sent only what its batch holds, and nothing outside the loop; *)
(* a report in hand is filed by nobody else.                               *)
Batched ==
  \A w \in Workers :
    /\ run[w].sent # {} => At(w, "send") /\ run[w].known /\ Token
    /\ \A i \in run[w].sent : Tg(i) \in run[w].batch
    /\ \A r \in run[w].batch : row[r] # "none"
InHand ==
  \A w \in Workers :
    /\ At(w, "close") => run[w].report # None
    /\ run[w].report # None =>
         ~Filed(run[w].report) /\ \A v \in Workers \ {w} : run[v].report # run[w].report

(* Each copy of a queued item is explained by a rollback or by a job that  *)
(* sent it and has yet to commit.  Once the item is marked, each job that  *)
(* still has it in its batch may add one copy, and no job joins them.      *)
Sent(i) == {w \in Workers : i \in run[w].sent}
Waiting(i) == {w \in Workers : Tg(i) \in run[w].batch /\ i \notin run[w].sent}
Pending(i) == row[Tg(i)] \in {"none", "QUEUED"}
Counted(i) ==
  IF Pending(i) THEN copies[i] <= faults + Cardinality(Sent(i))
                ELSE copies[i] + Cardinality(Waiting(i)) <= faults + Cardinality(Workers)

(* A report in hand will be filed: it counts from the moment of the look.  *)
FiledReports == {i \in Reports : Filed(i)}
Filing == {w \in Workers : run[w].report # None}
Reported == Cardinality(FiledReports) + Cardinality(Filing) <= Cardinality(Workers)

NInv == TypeOK /\ Batched /\ InHand /\ (\A i \in Items : Counted(i)) /\ Reported

-----------------------------------------------------------------------------
(* Sets of workers that differ in one worker at most.                      *)
LEMMA OneWorkerApart ==
  ASSUME NEW w \in Workers, NEW S \in SUBSET Workers, NEW R \in SUBSET Workers,
         S \ {w} = R \ {w}
  PROVE  /\ Cardinality(S) \in Nat /\ Cardinality(R) \in Nat
         /\ Cardinality(R) = IF w \in S /\ w \notin R THEN Cardinality(S) - 1
                             ELSE IF w \notin S /\ w \in R THEN Cardinality(S) + 1
                             ELSE Cardinality(S)
  <1>1. IsFiniteSet(S) /\ IsFiniteSet(R) /\ Cardinality(S) \in Nat /\ Cardinality(R) \in Nat
    BY OutboxAssumption, FS_Subset, FS_CardinalityType
  <1>2. CASE w \in S /\ w \notin R
    <2>1. R = S \ {w}
      BY <1>2
    <2> QED BY <1>1, <1>2, <2>1, FS_RemoveElement
  <1>3. CASE w \notin S /\ w \in R
    <2>1. R = S \union {w}
      BY <1>3
    <2> QED BY <1>1, <1>3, <2>1, FS_AddElement
  <1>4. CASE w \in S <=> w \in R
    <2>1. R = S
      BY <1>4
    <2> QED BY <1>1, <2>1
  <1> QED BY <1>2, <1>3, <1>4

LEMMA DisjointWorkers ==
  ASSUME NEW S \in SUBSET Workers, NEW R \in SUBSET Workers, S \cap R = {}
  PROVE  /\ Cardinality(S) \in Nat /\ Cardinality(R) \in Nat /\ Cardinality(Workers) \in Nat
         /\ Cardinality(S) + Cardinality(R) <= Cardinality(Workers)
  <1>1. /\ IsFiniteSet(S) /\ IsFiniteSet(R) /\ Cardinality(S) \in Nat /\ Cardinality(R) \in Nat
        /\ Cardinality(Workers) \in Nat
    BY OutboxAssumption, FS_Subset, FS_CardinalityType
  <1>2. Cardinality(S \union R) = Cardinality(S) + Cardinality(R)
    <2>1. Cardinality(S \union R) = Cardinality(S) + Cardinality(R) - Cardinality(S \cap R)
      BY <1>1, FS_Union
    <2>2. Cardinality(S \cap R) = 0
      BY FS_EmptySet
    <2> QED BY <1>1, <2>1, <2>2
  <1>3. Cardinality(S \union R) <= Cardinality(Workers)
    BY OutboxAssumption, FS_Subset
  <1> QED BY <1>1, <1>2, <1>3

(* What one worker's step to the job y does to the counts.                 *)
Moved(w, y, i) ==
  /\ Cardinality(Sent(i)) \in Nat /\ Cardinality(Sent(i)') \in Nat
  /\ Cardinality(Waiting(i)) \in Nat /\ Cardinality(Waiting(i)') \in Nat
  /\ Cardinality(Sent(i)') =
       IF w \in Sent(i) /\ i \notin y.sent THEN Cardinality(Sent(i)) - 1
       ELSE IF w \notin Sent(i) /\ i \in y.sent THEN Cardinality(Sent(i)) + 1
       ELSE Cardinality(Sent(i))
  /\ Cardinality(Waiting(i)') =
       IF w \in Waiting(i) /\ ~(Tg(i) \in y.batch /\ i \notin y.sent)
       THEN Cardinality(Waiting(i)) - 1
       ELSE IF w \notin Waiting(i) /\ Tg(i) \in y.batch /\ i \notin y.sent
       THEN Cardinality(Waiting(i)) + 1
       ELSE Cardinality(Waiting(i))

LEMMA CountMoves ==
  ASSUME TypeOK, NEW w \in Workers, NEW y, run' = [run EXCEPT ![w] = y], NEW i \in Items
  PROVE  Moved(w, y, i)
  <1>1. run'[w] = y /\ \A v \in Workers \ {w} : run'[v] = run[v]
    BY DEF TypeOK
  <1> DEFINE S == Sent(i)
             S1 == {v \in Workers : i \in run'[v].sent}
             R == Waiting(i)
             R1 == {v \in Workers : Tg(i) \in run'[v].batch /\ i \notin run'[v].sent}
  <1>2. S1 = Sent(i)' /\ R1 = Waiting(i)'
    BY DEF Sent, Waiting, Tg
  <1>3. /\ S \in SUBSET Workers /\ S1 \in SUBSET Workers /\ S \ {w} = S1 \ {w}
        /\ w \in S1 <=> i \in y.sent
    BY <1>1 DEF Sent
  <1>4. /\ R \in SUBSET Workers /\ R1 \in SUBSET Workers /\ R \ {w} = R1 \ {w}
        /\ w \in R1 <=> (Tg(i) \in y.batch /\ i \notin y.sent)
    BY <1>1 DEF Waiting
  <1> HIDE DEF S, S1, R, R1
  <1>5. /\ Cardinality(S) \in Nat /\ Cardinality(S1) \in Nat
        /\ Cardinality(S1) = IF w \in S /\ w \notin S1 THEN Cardinality(S) - 1
                             ELSE IF w \notin S /\ w \in S1 THEN Cardinality(S) + 1
                             ELSE Cardinality(S)
    BY <1>3, OneWorkerApart
  <1>6. /\ Cardinality(R) \in Nat /\ Cardinality(R1) \in Nat
        /\ Cardinality(R1) = IF w \in R /\ w \notin R1 THEN Cardinality(R) - 1
                             ELSE IF w \notin R /\ w \in R1 THEN Cardinality(R) + 1
                             ELSE Cardinality(R)
    BY <1>4, OneWorkerApart
  <1>7. S = Sent(i) /\ R = Waiting(i)
    BY DEF S, R
  <1> QED BY <1>2, <1>3, <1>4, <1>5, <1>6, <1>7 DEF Moved

LEMMA Sizes == Cardinality(Workers) \in Nat
  BY OutboxAssumption, FS_CardinalityType

LEMMA MovesRun ==
  ASSUME TypeOK, NEW w \in Workers, NEW x, NEW p, Goto(w, x, p), DOMAIN x = DOMAIN Idle
  PROVE  /\ run' = [run EXCEPT ![w] = [x EXCEPT !.pc = p]]
         /\ run'[w].pc = p /\ run'[w].batch = x.batch /\ run'[w].sent = x.sent
         /\ run'[w].known = x.known /\ run'[w].report = x.report
         /\ \A v \in Workers \ {w} : run'[v] = run[v]
  <1> DEFINE y == [x EXCEPT !.pc = p]
  <1>1. y.pc = p /\ y.batch = x.batch /\ y.sent = x.sent /\ y.known = x.known /\ y.report = x.report
    BY DEF Idle
  <1>2. run' = [run EXCEPT ![w] = y]
    BY DEF Goto
  <1> HIDE DEF y
  <1>3. run'[w] = y /\ \A v \in Workers \ {w} : run'[v] = run[v]
    BY <1>2 DEF TypeOK
  <1> QED BY <1>1, <1>2, <1>3 DEF y

-----------------------------------------------------------------------------
(* The types, action by action.                                            *)
Job == [pc : {"idle", "send", "close"}, batch : SUBSET Rows, known : BOOLEAN,
        sent : SUBSET Items, report : Reports \union {None}]

LEMMA IdleTyped == Idle \in Job
  BY DEF Idle, Job

LEMMA RowsTyped ==
  ASSUME TypeOK, NEW i \in Items
  PROVE  /\ WithRows(i) \in [Rows -> {"none", "QUEUED", "SENT", "FAILED", "DELIVERED"}]
         /\ \A j \in Items : WithRows(i)[<<j, "DASHBOARD">>] = "none"
                               <=> WithRows(i)[<<j, "TELEGRAM">>] = "none"
  BY DEF TypeOK, WithRows, Rows, Channels

LEMMA TypeKeeps ==
  ASSUME TypeOK, Batched, InHand, Next PROVE TypeOK'
  <1> USE OutboxAssumption
  <1>1. ASSUME NEW e \in Events, Notify(e) PROVE TypeOK'
    BY <1>1, RowsTyped DEF Notify, TypeOK, Items
  <1>2. CASE Configure
    BY <1>2 DEF Configure, TypeOK
  <1>3. ASSUME NEW w \in Workers, Select(w) PROVE TypeOK'
    <2>1. PICK B \in Batches : Goto(w, [Idle EXCEPT !.batch = B, !.known = chat], "send")
      BY <1>3 DEF Select
    <2>2. B \in SUBSET Rows
      BY DEF Batches, Queued
    <2>3. run' = [run EXCEPT ![w] = [Idle EXCEPT !.batch = B, !.known = chat, !.pc = "send"]]
      BY <2>1 DEF Goto, Idle
    <2> QED BY <1>3, <2>2, <2>3, IdleTyped DEF Job, Select, TypeOK, outbox
  <1>4. ASSUME NEW w \in Workers, Send(w) PROVE TypeOK'
    <2>1. PICK i \in Unsent(w) :
            /\ copies' = [copies EXCEPT ![i] = @ + 1]
            /\ Goto(w, [run[w] EXCEPT !.sent = @ \union {i}], "send")
      BY <1>4 DEF Send
    <2>2. i \in Items
      BY DEF Unsent
    <2> DEFINE y == [run[w] EXCEPT !.sent = @ \union {i}, !.pc = "send"]
    <2>3. y \in Job
      BY <2>2 DEF TypeOK, Job
    <2>4. run' = [run EXCEPT ![w] = y]
      BY <2>1 DEF Goto
    <2> HIDE DEF y
    <2>5. run' \in [Workers -> Job]
      BY <2>3, <2>4 DEF TypeOK, Job
    <2> QED BY <1>4, <2>1, <2>2, <2>5 DEF Send, TypeOK, Job
  <1>5. ASSUME NEW w \in Workers, CommitAll(w) PROVE TypeOK'
    <2>1. run' \in [Workers -> Job]
      BY <1>5, IdleTyped DEF Job, CommitAll, TypeOK
    <2>2. \A r \in Rows : /\ row[r] \in {"none", "QUEUED", "SENT", "FAILED", "DELIVERED"}
                          /\ Status(w, r) \in {"none", "QUEUED", "SENT", "FAILED", "DELIVERED"}
      BY DEF TypeOK, Status, Rows, Channels
    <2>3. row' \in [Rows -> {"none", "QUEUED", "SENT", "FAILED", "DELIVERED"}]
      BY <1>5, <2>2 DEF CommitAll
    <2>4. \A i \in Items : row'[<<i, "DASHBOARD">>] = "none" <=> row'[<<i, "TELEGRAM">>] = "none"
      <3> SUFFICES ASSUME NEW i \in Items
                   PROVE  row'[<<i, "DASHBOARD">>] = "none" <=> row'[<<i, "TELEGRAM">>] = "none"
        OBVIOUS
      <3>1. \A r \in Rows : row'[r] = "none" <=> row[r] = "none"
        <4>1. \A r \in run[w].batch : row[r] # "none" /\ Status(w, r) # "none"
          BY DEF Batched, Status
        <4> QED BY <1>5, <4>1 DEF CommitAll
      <3> QED BY <3>1 DEF TypeOK, Rows, Channels
    <2> QED BY <1>5, <2>1, <2>3, <2>4 DEF CommitAll, TypeOK, Job
  <1>6. ASSUME NEW w \in Workers, SendFails(w) PROVE TypeOK'
    <2>1. PICK i \in Unsent(w) : \E taken \in {0, 1} : copies' = [copies EXCEPT ![i] = @ + taken]
      BY <1>6 DEF SendFails
    <2>2. i \in Items
      BY DEF Unsent
    <2>3. copies' \in [Items -> Nat]
      BY <2>1, <2>2 DEF TypeOK
    <2>4. faults' \in 0..MaxFaults
      BY <1>6 DEF SendFails, Rollback, TypeOK
    <2>5. run' \in [Workers -> Job]
      BY <1>6, IdleTyped DEF Job, SendFails, Rollback, TypeOK
    <2> QED BY <1>6, <2>3, <2>4, <2>5 DEF Job, SendFails, Rollback, TypeOK
  <1>7. ASSUME NEW w \in Workers, FindReport(w) PROVE TypeOK'
    <2>1. PICK i \in Spare : Goto(w, [Idle EXCEPT !.report = i], "close")
      BY <1>7 DEF FindReport, AddReport
    <2>2. i \in Reports
      BY DEF Spare
    <2>3. run' = [run EXCEPT ![w] = [Idle EXCEPT !.report = i, !.pc = "close"]]
      BY <2>1 DEF Goto, Idle
    <2> QED BY <1>7, <2>2, <2>3, IdleTyped DEF Job, FindReport, TypeOK, outbox
  <1>8. ASSUME NEW w \in Workers, CommitReport(w) PROVE TypeOK'
    <2>1. run[w].report \in Items
      BY <1>8 DEF CommitReport, InHand, TypeOK, Items
    <2> QED BY <1>8, <2>1, RowsTyped, IdleTyped DEF Job, CommitReport, TypeOK
  <1>9. ASSUME NEW w \in Workers, Crash(w) PROVE TypeOK'
    BY <1>9, IdleTyped DEF Job, Crash, Rollback, TypeOK
  <1> QED BY <1>1, <1>2, <1>3, <1>4, <1>5, <1>6, <1>7, <1>8, <1>9 DEF Next, Continue

-----------------------------------------------------------------------------
(* What the jobs hold.                                                     *)
LEMMA HoldKeeps ==
  ASSUME NInv, Next PROVE Batched' /\ InHand'
  <1> USE OutboxAssumption DEF NInv
  <1>0. /\ Idle.sent = {} /\ Idle.batch = {} /\ Idle.report = None /\ Idle.pc = "idle"
    BY DEF Idle
  <1>1. ASSUME NEW i \in Items, ~Filed(i), row' = WithRows(i), NEW v \in Workers,
               \A r \in run[v].batch : row[r] # "none"
        PROVE  \A r \in run[v].batch : row'[r] # "none"
    BY <1>1 DEF WithRows, TypeOK
  <1>2. ASSUME NEW e \in Events, Notify(e) PROVE Batched' /\ InHand'
    <2>1. e \in Items /\ ~Filed(e) /\ row' = WithRows(e) /\ run' = run
      BY <1>2 DEF Notify, Items, Filed
    <2>2. Batched'
      BY <1>1, <2>1 DEF Batched, At
    <2>3. \A w \in Workers : run[w].report # None => run[w].report # e /\ run[w].report \in Reports
      BY DEF TypeOK, Reports
    <2>4. \A j \in Reports : ~Filed(j) => ~Filed(j)'
      BY <2>1 DEF Filed, WithRows, Rows, Channels, Items, Reports
    <2>5. InHand'
      BY <2>1, <2>3, <2>4 DEF InHand, At, Filed
    <2> QED BY <2>2, <2>5
  <1>3. CASE Configure
    BY <1>3 DEF Configure, Batched, InHand, At, Filed
  <1>4. ASSUME NEW w \in Workers, Select(w) PROVE Batched' /\ InHand'
    <2>1. PICK B \in Batches : Goto(w, [Idle EXCEPT !.batch = B, !.known = chat], "send")
      BY <1>4 DEF Select
    <2> DEFINE y == [Idle EXCEPT !.batch = B, !.known = chat, !.pc = "send"]
    <2>2. y.batch = B /\ y.sent = {} /\ y.report = None /\ y.pc = "send"
      BY DEF Idle
    <2>3. run' = [run EXCEPT ![w] = y]
      BY <2>1 DEF Goto, Idle
    <2> HIDE DEF y
    <2>4. run'[w] = y /\ (\A v \in Workers \ {w} : run'[v] = run[v]) /\ row' = row
      BY <1>4, <2>3 DEF TypeOK, Select, outbox
    <2>5. \A r \in B : row[r] # "none"
      BY DEF Batches, Queued
    <2> QED BY <2>2, <2>4, <2>5 DEF Batched, InHand, At, Filed
  <1>5. ASSUME NEW w \in Workers, Send(w) PROVE Batched' /\ InHand'
    <2>1. PICK i \in Unsent(w) : Goto(w, [run[w] EXCEPT !.sent = @ \union {i}], "send")
      BY <1>5 DEF Send
    <2> DEFINE y == [run[w] EXCEPT !.sent = @ \union {i}, !.pc = "send"]
    <2>2. /\ y.batch = run[w].batch /\ y.sent = run[w].sent \union {i} /\ y.known = run[w].known
          /\ y.report = run[w].report /\ y.pc = "send"
      BY DEF TypeOK
    <2>3. run' = [run EXCEPT ![w] = y]
      BY <2>1 DEF Goto
    <2> HIDE DEF y
    <2>4. run'[w] = y /\ (\A v \in Workers \ {w} : run'[v] = run[v]) /\ row' = row
      BY <1>5, <2>3 DEF TypeOK, Send
    <2>5. run[w].known /\ Token /\ Tg(i) \in run[w].batch
      BY DEF Unsent, Tg
    <2>6. Batched'
      BY <2>2, <2>4, <2>5 DEF Batched, At
    <2>7. InHand'
      BY <2>2, <2>4 DEF InHand, At, Filed
    <2> QED BY <2>6, <2>7
  <1>6. ASSUME NEW w \in Workers, Rollback(w) PROVE Batched' /\ InHand'
    <2>1. run'[w] = Idle /\ (\A v \in Workers \ {w} : run'[v] = run[v]) /\ row' = row
      BY <1>6 DEF Rollback, TypeOK
    <2> QED BY <1>0, <2>1 DEF Batched, InHand, At, Filed
  <1>7. ASSUME NEW w \in Workers, CommitAll(w) PROVE Batched' /\ InHand'
    <2>1. run'[w] = Idle /\ \A v \in Workers \ {w} : run'[v] = run[v]
      BY <1>7 DEF CommitAll, TypeOK
    <2>2. \A r \in Rows : row'[r] = "none" <=> row[r] = "none"
      <3>1. \A r \in run[w].batch : row[r] # "none" /\ Status(w, r) # "none"
        BY DEF Batched, Status
      <3> QED BY <1>7, <3>1 DEF CommitAll
    <2>3. \A v \in Workers : run[v].batch \subseteq Rows /\ run[v].report \in Reports \union {None}
      BY DEF TypeOK
    <2>4. \A i \in Reports : Filed(i)' <=> Filed(i)
      BY <2>2 DEF Filed, Rows, Channels, Items
    <2>5. Batched'
      BY <1>0, <2>1, <2>2, <2>3 DEF Batched, At
    <2>6. InHand'
      BY <1>0, <2>1, <2>3, <2>4 DEF InHand, At, Filed
    <2> QED BY <2>5, <2>6
  <1>8. ASSUME NEW w \in Workers, FindReport(w) PROVE Batched' /\ InHand'
    <2>1. PICK i \in Spare : Goto(w, [Idle EXCEPT !.report = i], "close")
      BY <1>8 DEF FindReport, AddReport
    <2> DEFINE y == [Idle EXCEPT !.report = i, !.pc = "close"]
    <2>2. y.batch = {} /\ y.sent = {} /\ y.report = i /\ y.pc = "close"
      BY DEF Idle
    <2>3. run' = [run EXCEPT ![w] = y]
      BY <2>1 DEF Goto, Idle
    <2> HIDE DEF y
    <2>4. run'[w] = y /\ (\A v \in Workers \ {w} : run'[v] = run[v]) /\ row' = row
      BY <1>8, <2>3 DEF TypeOK, FindReport, outbox
    <2>5. i \in Nat /\ ~Filed(i) /\ \A v \in Workers : run[v].report # i
      BY DEF Spare, Reports
    <2> QED BY <2>2, <2>4, <2>5 DEF Batched, InHand, At, Filed
  <1>9. ASSUME NEW w \in Workers, CommitReport(w) PROVE Batched' /\ InHand'
    <2> DEFINE i == run[w].report
    <2>1. i \in Reports /\ i \in Items /\ ~Filed(i)
      BY <1>9 DEF CommitReport, InHand, TypeOK, Items
    <2>2. run'[w] = Idle /\ (\A v \in Workers \ {w} : run'[v] = run[v]) /\ row' = WithRows(i)
      BY <1>9 DEF CommitReport, TypeOK
    <2>3. Batched'
      BY <1>0, <1>1, <2>1, <2>2 DEF Batched, At
    <2>4. \A j \in Reports : j # i /\ ~Filed(j) => ~Filed(j)'
      BY <2>2 DEF Filed, WithRows, Rows, Channels, Items
    <2>5. \A v \in Workers : run[v].report \in Reports \union {None}
      BY DEF TypeOK
    <2>6. i # None
      BY <2>1 DEF Reports
    <2>7. \A v \in Workers \ {w} : run[v].report # i
      BY <2>6 DEF InHand
    <2> HIDE DEF i
    <2>8. InHand'
      BY <1>0, <2>2, <2>4, <2>5, <2>7 DEF InHand, At, Filed
    <2> QED BY <2>3, <2>8
  <1> QED BY <1>2, <1>3, <1>4, <1>5, <1>6, <1>7, <1>8, <1>9 DEF Next, Continue, SendFails, Crash

-----------------------------------------------------------------------------
(* The copies.  Outside the loop a job has sent nothing, and what it has   *)
(* sent it also has in its batch.                                          *)
LEMMA CountNumbers ==
  ASSUME NInv, NEW i \in Items
  PROVE  /\ copies[i] \in Nat /\ faults \in Nat /\ Cardinality(Workers) \in Nat
         /\ \A w \in Workers : ~At(w, "send") => w \notin Sent(i)
         /\ Tg(i) \in Rows
  BY Sizes, OutboxAssumption DEF NInv, TypeOK, Batched, Sent, Tg, Rows, Channels

LEMMA RollbackCounts ==
  ASSUME NInv, NEW w \in Workers, Rollback(w), NEW i \in Items,
         \/ copies'[i] = copies[i]
         \/ copies'[i] = copies[i] + 1 /\ w \notin Sent(i)
  PROVE  Counted(i)'
  <1>1. run' = [run EXCEPT ![w] = Idle] /\ faults' = faults + 1 /\ row' = row
    BY DEF Rollback
  <1>2. Idle.sent = {} /\ Idle.batch = {}
    BY DEF Idle
  <1>3. Pending(i)' <=> Pending(i)
    BY <1>1 DEF Pending
  <1>4. Counted(i)
    BY DEF NInv
  <1>5. Moved(w, Idle, i)
    BY <1>1, CountMoves DEF NInv
  <1> QED BY <1>1, <1>2, <1>3, <1>4, <1>5, CountNumbers DEF Counted, Moved

LEMMA CountKeeps ==
  ASSUME NInv, Next, NEW i \in Items PROVE Counted(i)'
  <1>0. Counted(i) /\ Idle.sent = {} /\ Idle.batch = {}
    BY DEF NInv, Idle
  <1>1. ASSUME NEW e \in Items, ~Filed(e), row' = WithRows(e) PROVE Pending(i)' <=> Pending(i)
    BY <1>1, CountNumbers DEF Pending, WithRows, Filed, Tg
  <1>2. ASSUME NEW e \in Events, Notify(e) PROVE Counted(i)'
    <2>1. Pending(i)' <=> Pending(i)
      BY <1>1, <1>2 DEF Notify, Filed, Items
    <2> QED BY <1>0, <1>2, <2>1 DEF Notify, Counted, Sent, Waiting
  <1>3. CASE Configure
    BY <1>0, <1>3 DEF Configure, Counted, Sent, Waiting, Pending
  <1>4. ASSUME NEW w \in Workers, Select(w) PROVE Counted(i)'
    <2>1. PICK B \in Batches : Goto(w, [Idle EXCEPT !.batch = B, !.known = chat], "send")
      BY <1>4 DEF Select
    <2> DEFINE y == [Idle EXCEPT !.batch = B, !.known = chat, !.pc = "send"]
    <2>2. y.batch = B /\ y.sent = {}
      BY DEF Idle
    <2>3. run' = [run EXCEPT ![w] = y]
      BY <2>1 DEF Goto, Idle
    <2>4. ~Pending(i) => Tg(i) \notin B
      BY DEF Batches, Queued, Pending
    <2>5. w \notin Sent(i)
      BY <1>4, CountNumbers DEF Select, At
    <2>6. copies' = copies /\ faults' = faults /\ (Pending(i)' <=> Pending(i))
      BY <1>4 DEF Select, outbox, Pending
    <2> HIDE DEF y
    <2>9. Moved(w, y, i)
      BY <2>3, CountMoves DEF NInv
    <2> QED BY <1>0, <2>2, <2>3, <2>4, <2>5, <2>6, <2>9, CountNumbers DEF Counted, Moved
  <1>5. ASSUME NEW w \in Workers, Send(w) PROVE Counted(i)'
    <2>1. PICK j \in Unsent(w) :
            /\ copies' = [copies EXCEPT ![j] = @ + 1]
            /\ Goto(w, [run[w] EXCEPT !.sent = @ \union {j}], "send")
      BY <1>5 DEF Send
    <2> DEFINE y == [run[w] EXCEPT !.sent = @ \union {j}, !.pc = "send"]
    <2>2. y.batch = run[w].batch /\ y.sent = run[w].sent \union {j}
      BY DEF TypeOK, NInv
    <2>3. run' = [run EXCEPT ![w] = y]
      BY <2>1 DEF Goto
    <2>4. copies'[i] = IF i = j THEN copies[i] + 1 ELSE copies[i]
      BY <2>1 DEF NInv, TypeOK
    <2>5. i = j => w \notin Sent(i) /\ w \in Waiting(i)
      BY DEF Unsent, Sent, Waiting, Tg
    <2>6. faults' = faults /\ (Pending(i)' <=> Pending(i))
      BY <1>5 DEF Send, Pending
    <2>7. (w \in Sent(i) <=> i \in run[w].sent)
          /\ (w \in Waiting(i) <=> Tg(i) \in run[w].batch /\ i \notin run[w].sent)
      BY DEF Sent, Waiting
    <2> HIDE DEF y
    <2>9. Moved(w, y, i)
      BY <2>3, CountMoves DEF NInv
    <2> QED BY <1>0, <2>2, <2>3, <2>4, <2>5, <2>6, <2>7, <2>9, CountNumbers DEF Counted, Moved
  <1>6. ASSUME NEW w \in Workers, SendFails(w) PROVE Counted(i)'
    <2>1. PICK j \in Unsent(w) : \E taken \in {0, 1} : copies' = [copies EXCEPT ![j] = @ + taken]
      BY <1>6 DEF SendFails
    <2>2. w \notin Sent(j)
      BY DEF Unsent, Sent
    <2>3. copies'[i] = copies[i] \/ (i = j /\ copies'[i] = copies[i] + 1)
      BY <2>1, CountNumbers DEF NInv, TypeOK
    <2> QED BY <1>6, <2>2, <2>3, RollbackCounts DEF SendFails
  <1>7. ASSUME NEW w \in Workers, Crash(w) PROVE Counted(i)'
    BY <1>7, RollbackCounts DEF Crash
  <1>8. ASSUME NEW w \in Workers, CommitAll(w) PROVE Counted(i)'
    <2>1. run' = [run EXCEPT ![w] = Idle] /\ copies' = copies /\ faults' = faults
      BY <1>8 DEF CommitAll
    <2>2. row'[Tg(i)] = IF Tg(i) \in run[w].batch THEN Status(w, Tg(i)) ELSE row[Tg(i)]
      BY <1>8, CountNumbers DEF CommitAll
    <2>3. Status(w, Tg(i)) = IF ~run[w].known THEN row[Tg(i)] ELSE IF Token THEN "SENT" ELSE "FAILED"
      BY DEF Status, Tg
    <2>4. w \in Sent(i) => Tg(i) \in run[w].batch /\ run[w].known /\ Token
      BY DEF NInv, Batched, Sent
    <2>5. ~Pending(i) => ~Pending(i)'
      BY <2>2, <2>3 DEF Pending
    <2>6. Pending(i)' => w \notin Sent(i)
      BY <2>2, <2>3, <2>4 DEF Pending
    <2>7. Sent(i) \in SUBSET Workers /\ Waiting(i) \in SUBSET Workers /\ Sent(i) \cap Waiting(i) = {}
      BY DEF Sent, Waiting
    <2>8. Cardinality(Sent(i)) + Cardinality(Waiting(i)) <= Cardinality(Workers)
      <3> DEFINE S == Sent(i)
                 R == Waiting(i)
      <3>1. S \in SUBSET Workers /\ R \in SUBSET Workers /\ S \cap R = {}
        BY <2>7
      <3> HIDE DEF S, R
      <3>2. Cardinality(S) + Cardinality(R) <= Cardinality(Workers)
        BY <3>1, DisjointWorkers
      <3> QED BY <3>2 DEF S, R
    <2>9. Moved(w, Idle, i)
      BY <2>1, CountMoves DEF NInv
    <2> QED BY <1>0, <2>1, <2>5, <2>6, <2>8, <2>9, CountNumbers DEF Counted, Moved
  <1>9. ASSUME NEW w \in Workers, FindReport(w) PROVE Counted(i)'
    <2>1. PICK j \in Spare : Goto(w, [Idle EXCEPT !.report = j], "close")
      BY <1>9 DEF FindReport, AddReport
    <2> DEFINE y == [Idle EXCEPT !.report = j, !.pc = "close"]
    <2>2. y.batch = {} /\ y.sent = {}
      BY DEF Idle
    <2>3. run' = [run EXCEPT ![w] = y]
      BY <2>1 DEF Goto, Idle
    <2>4. w \notin Sent(i)
      BY <1>9, CountNumbers DEF FindReport, At
    <2>5. copies' = copies /\ faults' = faults /\ (Pending(i)' <=> Pending(i))
      BY <1>9 DEF FindReport, outbox, Pending
    <2> HIDE DEF y
    <2>9. Moved(w, y, i)
      BY <2>3, CountMoves DEF NInv
    <2> QED BY <1>0, <2>2, <2>3, <2>4, <2>5, <2>9, CountNumbers DEF Counted, Moved
  <1>10. ASSUME NEW w \in Workers, CommitReport(w) PROVE Counted(i)'
    <2>1. run[w].report \in Items /\ ~Filed(run[w].report)
      BY <1>10 DEF CommitReport, NInv, InHand, TypeOK, Items
    <2>2. row' = WithRows(run[w].report) /\ run' = [run EXCEPT ![w] = Idle]
          /\ copies' = copies /\ faults' = faults
      BY <1>10 DEF CommitReport
    <2>3. Pending(i)' <=> Pending(i)
      BY <1>1, <2>1, <2>2
    <2>4. w \notin Sent(i)
      BY <1>10, CountNumbers DEF CommitReport, At
    <2>9. Moved(w, Idle, i)
      BY <2>2, CountMoves DEF NInv
    <2> QED BY <1>0, <2>2, <2>3, <2>4, <2>9, CountNumbers DEF Counted, Moved
  <1> QED BY <1>2, <1>3, <1>4, <1>5, <1>6, <1>7, <1>8, <1>9, <1>10 DEF Next, Continue

-----------------------------------------------------------------------------
(* The reports.                                                            *)
LEMMA ReportSizes ==
  /\ IsFiniteSet(FiledReports) /\ Cardinality(FiledReports) \in Nat
  /\ IsFiniteSet(Filing) /\ Cardinality(Filing) \in Nat /\ Cardinality(Workers) \in Nat
  /\ Cardinality(Filing) <= Cardinality(Workers)
  <1>1. IsFiniteSet(Reports)
    BY OutboxAssumption, FS_Interval DEF Reports
  <1>2. FiledReports \in SUBSET Reports /\ Filing \in SUBSET Workers
    BY DEF FiledReports, Filing
  <1> QED BY <1>1, <1>2, OutboxAssumption, FS_Subset, FS_CardinalityType

LEMMA FewerFiling ==
  ASSUME Reported, FiledReports' = FiledReports, Filing' \subseteq Filing PROVE Reported'
  <1> DEFINE S == Filing
             R == Filing'
  <1>1. IsFiniteSet(S) /\ R \in SUBSET S /\ Cardinality(S) \in Nat
    BY ReportSizes
  <1> HIDE DEF S, R
  <1>2. Cardinality(R) <= Cardinality(S) /\ Cardinality(R) \in Nat
    BY <1>1, FS_Subset, FS_CardinalityType
  <1>3. Cardinality(Filing') <= Cardinality(Filing) /\ Cardinality(Filing') \in Nat
    BY <1>2 DEF S, R
  <1> QED BY <1>3, ReportSizes DEF Reported

LEMMA ReportedKeeps ==
  ASSUME NInv, Next PROVE Reported'
  <1>0. Reported /\ Idle.report = None
    BY DEF NInv, Idle
  <1>1. ASSUME NEW w \in Workers, NEW y, run' = [run EXCEPT ![w] = y], y.report = run[w].report \/ y.report = None
        PROVE  Filing' \subseteq Filing
    BY <1>1 DEF Filing, NInv, TypeOK
  <1>2. ASSUME \A j \in Reports : row'[Tg(j)] = "none" <=> row[Tg(j)] = "none"
        PROVE  FiledReports' = FiledReports
    BY <1>2 DEF FiledReports, Filed, Tg
  <1>3. ASSUME NEW e \in Events, Notify(e) PROVE Reported'
    <2>1. e \notin Reports
      BY OutboxAssumption DEF Reports
    <2>2. FiledReports' = FiledReports
      BY <1>2, <1>3, <2>1 DEF Notify, WithRows, Rows, Channels, Items, Tg
    <2>3. Filing' = Filing
      BY <1>3 DEF Notify, Filing
    <2> QED BY <1>0, <2>2, <2>3, FewerFiling
  <1>4. CASE Configure
    <2>1. FiledReports' = FiledReports /\ Filing' = Filing
      BY <1>4 DEF Configure, FiledReports, Filed, Filing
    <2> QED BY <1>0, <2>1, FewerFiling
  <1>5. ASSUME NEW w \in Workers, Select(w) PROVE Reported'
    <2>1. PICK B \in Batches : Goto(w, [Idle EXCEPT !.batch = B, !.known = chat], "send")
      BY <1>5 DEF Select
    <2> DEFINE y == [Idle EXCEPT !.batch = B, !.known = chat, !.pc = "send"]
    <2>2. y.report = None /\ run' = [run EXCEPT ![w] = y]
      BY <2>1 DEF Idle, Goto
    <2> HIDE DEF y
    <2>3. Filing' \subseteq Filing
      BY <1>1, <2>2
    <2>4. FiledReports' = FiledReports
      BY <1>5 DEF Select, outbox, FiledReports, Filed
    <2> QED BY <1>0, <2>3, <2>4, FewerFiling
  <1>6. ASSUME NEW w \in Workers, Send(w) PROVE Reported'
    <2>1. PICK i \in Unsent(w) : Goto(w, [run[w] EXCEPT !.sent = @ \union {i}], "send")
      BY <1>6 DEF Send
    <2> DEFINE y == [run[w] EXCEPT !.sent = @ \union {i}, !.pc = "send"]
    <2>2. y.report = run[w].report /\ run' = [run EXCEPT ![w] = y]
      BY <2>1 DEF Goto, NInv, TypeOK
    <2> HIDE DEF y
    <2>3. Filing' \subseteq Filing
      BY <1>1, <2>2
    <2>4. FiledReports' = FiledReports
      BY <1>6 DEF Send, FiledReports, Filed
    <2> QED BY <1>0, <2>3, <2>4, FewerFiling
  <1>7. ASSUME NEW w \in Workers, Rollback(w) PROVE Reported'
    <2>1. Filing' \subseteq Filing
      BY <1>0, <1>1, <1>7 DEF Rollback
    <2>2. FiledReports' = FiledReports
      BY <1>7 DEF Rollback, FiledReports, Filed
    <2> QED BY <1>0, <2>1, <2>2, FewerFiling
  <1>8. ASSUME NEW w \in Workers, CommitAll(w) PROVE Reported'
    <2>1. Filing' \subseteq Filing
      BY <1>0, <1>1, <1>8 DEF CommitAll
    <2>2. \A r \in run[w].batch : row[r] # "none" /\ Status(w, r) # "none"
      BY DEF NInv, Batched, Status
    <2>3. \A r \in Rows : row'[r] = "none" <=> row[r] = "none"
      BY <1>8, <2>2 DEF CommitAll
    <2>4. FiledReports' = FiledReports
      BY <1>2, <2>3 DEF Rows, Channels, Items, Tg
    <2> QED BY <1>0, <2>1, <2>4, FewerFiling
  <1>9. ASSUME NEW w \in Workers, FindReport(w) PROVE Reported'
    <2>1. FiledReports = {} /\ FiledReports' = {}
      BY <1>9 DEF FindReport, FiledReports, Filed, outbox
    <2>2. Cardinality(Filing') \in Nat /\ Cardinality(Filing') <= Cardinality(Workers)
      <3> DEFINE R == Filing'
      <3>1. R \in SUBSET Workers
        BY DEF Filing
      <3> HIDE DEF R
      <3>2. Cardinality(R) \in Nat /\ Cardinality(R) <= Cardinality(Workers)
        BY <3>1, OutboxAssumption, FS_Subset, FS_CardinalityType
      <3> QED BY <3>2 DEF R
    <2>3. Cardinality(FiledReports') = 0
      BY <2>1, FS_EmptySet
    <2> QED BY <2>2, <2>3 DEF Reported
  <1>10. ASSUME NEW w \in Workers, CommitReport(w) PROVE Reported'
    <2> DEFINE i == run[w].report
    <2>1. i \in Reports /\ i \in Items /\ w \in Filing
      BY <1>10 DEF CommitReport, NInv, InHand, TypeOK, Items, Filing
    <2>2. FiledReports' = FiledReports \union {i}
      BY <1>10, <2>1 DEF CommitReport, FiledReports, Filed, WithRows, Rows, Channels, Items
    <2>3. Filing' = Filing \ {w}
      BY <1>0, <1>10 DEF CommitReport, Filing, NInv, TypeOK
    <2>4. Cardinality(FiledReports') <= Cardinality(FiledReports) + 1
          /\ Cardinality(FiledReports') \in Nat
      <3>1. /\ IsFiniteSet(FiledReports \union {i})
            /\ Cardinality(FiledReports \union {i}) =
                 IF i \in FiledReports THEN Cardinality(FiledReports)
                 ELSE Cardinality(FiledReports) + 1
        BY ReportSizes, FS_AddElement
      <3> QED BY <2>2, <3>1, ReportSizes
    <2>5. Cardinality(Filing') = Cardinality(Filing) - 1
      BY <2>1, <2>3, ReportSizes, FS_RemoveElement
    <2> QED BY <1>0, <2>4, <2>5, ReportSizes DEF Reported
  <1> QED BY <1>3, <1>4, <1>5, <1>6, <1>7, <1>8, <1>9, <1>10 DEF Next, Continue, SendFails, Crash

-----------------------------------------------------------------------------
LEMMA InitNInv == Init => NInv
  <1> SUFFICES ASSUME Init PROVE NInv
    OBVIOUS
  <1> USE OutboxAssumption
  <1>1. TypeOK
    <2>1. run \in [Workers -> Job]
      BY IdleTyped DEF Init
    <2>2. \A i \in Items : row[<<i, "DASHBOARD">>] = "none" <=> row[<<i, "TELEGRAM">>] = "none"
      BY DEF Init, Rows, Channels
    <2>3. copies \in [Items -> Nat]
      BY DEF Init
    <2>5. chat \in BOOLEAN /\ faults \in 0..MaxFaults
      <3>1. chat = FALSE
        BY DEF Init
      <3>2. faults = 0 /\ 0 \in 0..MaxFaults
        BY DEF Init
      <3> QED BY <3>1, <3>2
    <2>4. row \in [Rows -> {"none", "QUEUED", "SENT", "FAILED", "DELIVERED"}]
      BY DEF Init
    <2> QED BY <2>1, <2>2, <2>3, <2>4, <2>5 DEF TypeOK, Job
  <1>2. Batched /\ InHand
    BY DEF Init, Batched, InHand, At, Idle
  <1>3. ASSUME NEW i \in Items PROVE Counted(i)
    <2>1. Sent(i) = {} /\ Pending(i) /\ copies[i] = 0 /\ faults = 0
      BY <1>3 DEF Init, Sent, Pending, Tg, Rows, Channels, Idle
    <2>2. Cardinality(Sent(i)) = 0
      BY <2>1, FS_EmptySet
    <2> QED BY <2>1, <2>2 DEF Counted
  <1>4. FiledReports = {} /\ Filing = {}
    BY DEF Init, FiledReports, Filed, Filing, Idle, Rows, Channels, Items
  <1>5. Reported
    BY <1>4, FS_EmptySet, Sizes DEF Reported
  <1> QED BY <1>1, <1>2, <1>3, <1>5 DEF NInv

LEMMA StutterKeeps == NInv /\ UNCHANGED vars => NInv'
  <1> SUFFICES ASSUME NInv, UNCHANGED vars PROVE NInv'
    OBVIOUS
  <1>1. TypeOK' /\ Batched' /\ InHand'
    BY DEF NInv, vars, TypeOK, Batched, InHand, At, Filed
  <1>2. ASSUME NEW i \in Items PROVE Counted(i)'
    <2>1. Sent(i)' = Sent(i) /\ Waiting(i)' = Waiting(i) /\ (Pending(i)' <=> Pending(i))
      BY DEF vars, Sent, Waiting, Pending
    <2> QED BY <2>1 DEF NInv, vars, Counted
  <1>3. FiledReports' = FiledReports /\ Filing' = Filing
    BY DEF vars, FiledReports, Filed, Filing
  <1>4. Reported'
    BY <1>3 DEF NInv, Reported
  <1> QED BY <1>1, <1>2, <1>4 DEF NInv

LEMMA InductiveNInv == Spec => []NInv
  <1>1. NInv /\ Next => NInv'
    BY TypeKeeps, HoldKeeps, CountKeeps, ReportedKeeps DEF NInv
  <1> QED BY InitNInv, <1>1, StutterKeeps, PTL DEF Spec

(* The types: a job's batch and a report in hand are what they should be.  *)
THEOREM OutboxTypes == Spec => []TypeOK
  <1>1. NInv => TypeOK
    BY DEF NInv
  <1> QED BY <1>1, InductiveNInv, PTL

(* An item reaches Telegram at most once per worker and rolled back job.   *)
THEOREM CopiesAreBounded == Spec => []CopiesBounded
  <1>1. NInv => CopiesBounded
    <2> SUFFICES ASSUME NInv, NEW i \in Items
                 PROVE  copies[i] <= faults + Cardinality(Workers)
      BY DEF CopiesBounded
    <2> DEFINE S == Sent(i)
               R == Waiting(i)
    <2>1. S \in SUBSET Workers /\ R \in SUBSET Workers /\ S \cap R = {}
      BY DEF Sent, Waiting
    <2> HIDE DEF S, R
    <2>2. /\ Cardinality(S) \in Nat /\ Cardinality(R) \in Nat
          /\ Cardinality(S) + Cardinality(R) <= Cardinality(Workers)
      BY <2>1, DisjointWorkers
    <2>3. IF Pending(i) THEN copies[i] <= faults + Cardinality(S)
                        ELSE copies[i] + Cardinality(R) <= faults + Cardinality(Workers)
      BY DEF NInv, Counted, S, R
    <2> QED BY <2>2, <2>3, CountNumbers
  <1> QED BY <1>1, InductiveNInv, PTL

(* A day has no more reports than there are workers.                       *)
THEOREM ReportsAreBounded == Spec => []ReportsBounded
  <1>1. NInv => ReportsBounded
    BY ReportSizes DEF NInv, Reported, ReportsBounded, FiledReports
  <1> QED BY <1>1, InductiveNInv, PTL
============================================================================
