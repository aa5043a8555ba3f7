-------------------------- MODULE DemoMonitorProofs --------------------------
(***************************************************************************)
(* The safety of DemoMonitor for any targets, volumes, prices, number of   *)
(* workers and of rolled back runs.  As long as a query that fails is not  *)
(* read as an empty book, the database never believes that less is open    *)
(* than the broker holds, but for what accepted closes left unfilled, and  *)
(* the row lives the life of PositionLife.  Blind queries or not, no       *)
(* target is sold whole more often than runs were rolled back, an open row *)
(* accounts for its volume, and the stop it shows is really there.         *)
(***************************************************************************)
EXTENDS DemoMonitor, FiniteSetTheorems, WellFoundedInduction, TLAPS

(* What makes NeverUnderTracked inductive: the copy a run works on is an   *)
(* upper bound of the broker's volume too, through a lost reply as well;   *)
(* it may replace the row because the row cannot have changed meanwhile.   *)
Held(m) == m.remaining + m.unfilled
CopyCovers ==
  \A r \in Monitors :
    ~At(r, "idle") =>
      /\ bvol <= Held(run[r].m)
      /\ At(r, "recheck") => bvol <= run[r].orig /\ run[r].orig <= Held(run[r].m)

IInv == TypeOK /\ NeverUnderTracked /\ CopyCovers

LEMMA HeldIsNat ==
  ASSUME NEW m \in Record PROVE Held(m) \in Nat /\ m.remaining \in 0..Held(m)
  BY VolumeAssumption DEF Record, Held

LEMMA OpenedIsRecord == Opened \in Record
  BY MonitorAssumption, VolumeAssumption DEF Opened, Record

LEMMA NotRunningIsRecord == NotRunning \in RunRecord
  BY OpenedIsRecord, MonitorAssumption, VolumeAssumption DEF NotRunning, RunRecord

LEMMA InitIInv == Init => IInv
  <1> SUFFICES ASSUME Init PROVE IInv
    OBVIOUS
  <1>1. TypeOK
    BY OpenedIsRecord, NotRunningIsRecord, MonitorAssumption, VolumeAssumption
    DEF Init, TypeOK, At, NotRunning
  <1>2. NeverUnderTracked
    BY VolumeAssumption DEF Init, NeverUnderTracked, Opened
  <1>3. CopyCovers
    BY DEF Init, CopyCovers, At, NotRunning
  <1> QED BY <1>1, <1>2, <1>3 DEF IInv

-----------------------------------------------------------------------------
(* A step of run r, seen from the invariant: the lock stays with r, the    *)
(* others are idle, the broker's volume does not grow and stays covered.   *)
LEMMA StepOfARun ==
  ASSUME IInv, NEW r \in Monitors, NEW x \in RunRecord,
         run' = [run EXCEPT ![r] = x], lock' = lock, row' = row, lock = r,
         bvol' \in 0..Volume, bvol' <= bvol, bvol' <= Held(x.m),
         x.pc = "recheck" => bvol' <= x.orig /\ x.orig <= Held(x.m),
         bstop' \in Int, fills' \in [Targets -> Nat], price' = price,
         faults' = faults
  PROVE  IInv'
  <1>1. run'[r] = x /\ \A q \in Monitors \ {r} : run'[q] = run[q] /\ run[q].pc = "idle"
    BY DEF IInv, TypeOK, At
  <1>2. run' \in [Monitors -> RunRecord]
    BY DEF IInv, TypeOK
  <1>3. TypeOK'
    BY <1>1, <1>2 DEF IInv, TypeOK, At
  <1>4. NeverUnderTracked'
    BY VolumeAssumption DEF IInv, NeverUnderTracked, TypeOK, Record
  <1>5. CopyCovers'
    BY <1>1 DEF CopyCovers, At
  <1> QED BY <1>3, <1>4, <1>5 DEF IInv

(* Facts about the run that moves, for the lemmas below.                   *)
LEMMA Moving ==
  ASSUME IInv, NEW r \in Monitors, ~At(r, "idle")
  PROVE  /\ lock = r /\ run[r] \in RunRecord /\ run[r].m \in Record
         /\ bvol \in 0..Volume /\ bvol <= Held(run[r].m)
         /\ bstop \in Int /\ fills \in [Targets -> Nat]
  BY DEF IInv, TypeOK, CopyCovers, At, RunRecord

(* The volume asked of the broker is positive or nothing, and at most what *)
(* the row has left.                                                       *)
LEMMA VolBounds ==
  ASSUME IInv, NEW r \in Monitors, ~At(r, "idle"), NEW i \in Targets
  PROVE  Vol(r, i) \in 0..run[r].m.remaining
  BY Moving, MonitorAssumption, VolumeAssumption DEF Vol, Record

(* The same for a step that asks nothing of the broker.                    *)
LEMMA QuietStep ==
  ASSUME IInv, NEW r \in Monitors, ~At(r, "idle"), NEW x \in RunRecord,
         run' = [run EXCEPT ![r] = x], x.pc # "recheck", bvol <= Held(x.m),
         UNCHANGED <<row, lock, broker, price, faults>>
  PROVE  IInv'
  <1>1. /\ lock' = lock /\ row' = row /\ lock = r /\ price' = price /\ faults' = faults
        /\ bvol' = bvol /\ bstop' \in Int /\ fills' \in [Targets -> Nat]
    BY Moving DEF broker
  <1>2. bvol' \in 0..Volume /\ bvol' <= bvol /\ bvol' <= Held(x.m)
    BY <1>1, Moving, VolumeAssumption
  <1> QED BY <1>1, <1>2, StepOfARun

(* The control moves, the copy stays.                                      *)
LEMMA GotoKeeps ==
  ASSUME IInv, NEW r \in Monitors, ~At(r, "idle"),
         NEW pc \in {"query", "price", "monitor", "protect", "commit"},
         Goto(r, pc), UNCHANGED <<row, lock, broker, price, faults>>
  PROVE  IInv'
  <1> DEFINE x == [run[r] EXCEPT !.pc = pc]
  <1>1. x \in RunRecord /\ x.pc # "recheck" /\ bvol <= Held(x.m)
    BY Moving DEF RunRecord
  <1>2. run' = [run EXCEPT ![r] = x]
    BY DEF Goto, Become
  <1> HIDE DEF x
  <1> QED BY <1>1, <1>2, QuietStep

(* The copy is replaced by one that still covers the broker.               *)
LEMMA CopyKeeps ==
  ASSUME IInv, NEW r \in Monitors, ~At(r, "idle"),
         NEW pc \in {"query", "price", "monitor", "protect", "commit"},
         NEW m \in Record, bvol <= Held(m),
         Copy(r, m, pc), UNCHANGED <<row, lock, broker, price, faults>>
  PROVE  IInv'
  <1> DEFINE x == [run[r] EXCEPT !.m = m, !.pc = pc]
  <1>1. x \in RunRecord /\ x.pc # "recheck" /\ bvol <= Held(x.m)
    BY Moving DEF RunRecord
  <1>2. run' = [run EXCEPT ![r] = x]
    BY DEF Copy, Become
  <1> HIDE DEF x
  <1> QED BY <1>1, <1>2, QuietStep

LEMMA ClosedIsRecord ==
  ASSUME NEW m \in Record, NEW done
  PROVE  Closed(m, done) \in Record /\ Closed(m, done).remaining = 0
  <1> DEFINE t == [i \in Targets |-> IF m.target[i] \in done THEN "EXECUTED" ELSE m.target[i]]
  <1>1. t \in [Targets -> {"WAITING", "EXECUTED", "FAILED", "MERGED"}]
    BY DEF Record
  <1>2. Closed(m, done) = [m EXCEPT !.status = "CLOSED", !.remaining = 0, !.target = t]
    BY DEF Closed
  <1> HIDE DEF t
  <1>3. 0 \in 0..Volume
    BY VolumeAssumption
  <1>4. Closed(m, done) \in Record
    BY <1>1, <1>2, <1>3 DEF Record
  <1>5. Closed(m, done).remaining = 0
    BY <1>2 DEF Record
  <1> QED BY <1>4, <1>5

LEMMA QueryKeeps ==
  ASSUME IInv, BlindQueries = FALSE, NEW r \in Monitors, Query(r) PROVE IInv'
  <1>0. ~At(r, "idle")
    BY DEF Query, SeesPosition, SeesFlat, At
  <1>1. CASE SeesPosition(r)
    BY <1>0, <1>1, GotoKeeps DEF SeesPosition
  <1>2. CASE SeesFlat(r)
    <2>1. PICK done \in {{}, {"WAITING", "MERGED"}} : Copy(r, Closed(run[r].m, done), "commit")
      BY <1>2 DEF SeesFlat
    <2>2. Closed(run[r].m, done) \in Record /\ Closed(run[r].m, done).remaining = 0
      BY <1>0, Moving, ClosedIsRecord
    <2>3. bvol <= Held(Closed(run[r].m, done))
      BY <1>2, <2>2, HeldIsNat DEF SeesFlat
    <2> QED BY <1>0, <1>2, <2>1, <2>2, <2>3, CopyKeeps DEF SeesFlat
  <1> QED BY <1>1, <1>2 DEF Query

(* The run takes the row and works on a copy of it.                        *)
LEMMA StartKeeps ==
  ASSUME IInv, NEW r \in Monitors, Start(r) PROVE IInv'
  <1> DEFINE x == [NotRunning EXCEPT !.pc = "query", !.m = row]
  <1>1. x \in RunRecord /\ x.m = row /\ x.pc = "query"
    BY NotRunningIsRecord DEF IInv, TypeOK, RunRecord, NotRunning
  <1>2. run' = [run EXCEPT ![r] = x] /\ lock = Free
    BY DEF Start, Become
  <1> HIDE DEF x
  <1>3. /\ run'[r] = x /\ run' \in [Monitors -> RunRecord]
        /\ \A q \in Monitors \ {r} : run'[q] = run[q] /\ run[q].pc = "idle"
    BY <1>1, <1>2, MonitorAssumption DEF IInv, TypeOK, At
  <1>4. row' = row /\ bvol' = bvol /\ lock' = r
    BY DEF Start, broker
  <1>5. TypeOK'
    BY <1>3, <1>4 DEF IInv, TypeOK, At, Start, broker
  <1>6. NeverUnderTracked'
    BY <1>4 DEF IInv, NeverUnderTracked
  <1>7. CopyCovers'
    BY <1>1, <1>3, <1>4 DEF IInv, NeverUnderTracked, CopyCovers, At, Held
  <1> QED BY <1>5, <1>6, <1>7 DEF IInv

(* A run ends: with its copy committed, or with nothing changed.           *)
LEMMA EndKeeps ==
  ASSUME IInv, NEW r \in Monitors, ~At(r, "idle"), Stopped(r),
         row' \in {row, run[r].m}, faults' \in 0..MaxFaults, UNCHANGED <<broker, price>>
  PROVE  IInv'
  <1>1. /\ run'[r] = NotRunning /\ run' \in [Monitors -> RunRecord]
        /\ \A q \in Monitors : run'[q].pc = "idle"
    BY Moving, NotRunningIsRecord DEF IInv, TypeOK, Stopped, Become, At, NotRunning
  <1>2. row' \in Record /\ bvol <= Held(row')
    BY Moving DEF IInv, TypeOK, NeverUnderTracked, Held
  <1>3. TypeOK'
    BY <1>1, <1>2 DEF IInv, TypeOK, At, Stopped, broker
  <1>4. NeverUnderTracked'
    BY <1>2 DEF NeverUnderTracked, broker, Held
  <1>5. CopyCovers'
    BY <1>1 DEF CopyCovers, At
  <1> QED BY <1>3, <1>4, <1>5 DEF IInv

-----------------------------------------------------------------------------
LEMMA FailedRecord ==
  ASSUME NEW m \in Record, NEW i \in Targets
  PROVE  /\ [m EXCEPT !.target[i] = "FAILED"] \in Record
         /\ Held([m EXCEPT !.target[i] = "FAILED"]) = Held(m)
  BY DEF Record, Held

LEMMA TakenRecord ==
  ASSUME NEW m \in Record, NEW i \in Targets, NEW vol \in 0..m.remaining, NEW short \in Nat
  PROVE  /\ Taken(m, i, vol, short) \in Record
         /\ Held(Taken(m, i, vol, short)) = Held(m) - vol + short
  <1>1. /\ m.remaining - vol \in 0..Volume /\ m.logged + vol \in Nat /\ m.unfilled + short \in Nat
        /\ m.remaining \in Nat /\ m.unfilled \in Nat /\ vol \in Nat
    BY VolumeAssumption DEF Record
  <1>2. [m.target EXCEPT ![i] = "EXECUTED"]
          \in [Targets -> {"WAITING", "EXECUTED", "FAILED", "MERGED"}]
    BY DEF Record
  <1>3. Taken(m, i, vol, short) \in Record
    BY <1>1, <1>2 DEF Taken, Record
  <1> QED BY <1>1, <1>3 DEF Taken, Record, Held

(* A close that the broker may have done: whatever it left open, at most   *)
(* what it had and at most what the new copy says, the invariant holds.    *)
LEMMA SoldStep ==
  ASSUME IInv, NEW r \in Monitors, ~At(r, "idle"), NEW x \in RunRecord,
         run' = [run EXCEPT ![r] = x],
         bvol' \in 0..Volume, bvol' <= bvol, bvol' <= Held(x.m),
         x.pc = "recheck" => bvol' <= x.orig /\ x.orig <= Held(x.m),
         fills' \in [Targets -> Nat], UNCHANGED <<row, lock, bstop, price, faults>>
  PROVE  IInv'
  <1>1. /\ lock' = lock /\ row' = row /\ lock = r /\ price' = price /\ faults' = faults
        /\ bstop' \in Int
    BY Moving
  <1> QED BY <1>1, StepOfARun

LEMMA AcceptedKeeps ==
  ASSUME IInv, NEW r \in Monitors, ~At(r, "idle"), NEW i \in Targets, NEW short \in Nat,
         Accepted(r, i, short),
         bvol' \in 0..Volume, bvol' <= bvol, bvol' <= Held(run[r].m) - Vol(r, i) + short,
         fills' \in [Targets -> Nat], UNCHANGED <<row, lock, bstop, price, faults>>
  PROVE  IInv'
  <1> DEFINE pc == Onward(r, i, run[r].m.remaining - Vol(r, i))
             m == Taken(run[r].m, i, Vol(r, i), short)
             x == [run[r] EXCEPT !.to = Protection(r, i), !.pc = pc, !.m = m]
  <1>1. m \in Record /\ Held(m) = Held(run[r].m) - Vol(r, i) + short
    BY Moving, VolBounds, TakenRecord
  <1>2. pc \in {"commit", "protect", "monitor"}
    BY DEF Onward
  <1>3. run' = [run EXCEPT ![r] = x]
    BY DEF Accepted, Become
  <1>4. Protection(r, i) \in Int
    BY Moving, MonitorAssumption DEF Protection, Protects, Desired, RunRecord
  <1> HIDE DEF pc, m
  <1>5. x \in RunRecord /\ x.m = m /\ x.pc # "recheck"
    BY <1>1, <1>2, <1>4, Moving DEF RunRecord
  <1> HIDE DEF x
  <1> QED BY <1>1, <1>3, <1>5, SoldStep

LEMMA FailedKeeps ==
  ASSUME IInv, NEW r \in Monitors, ~At(r, "idle"), NEW i \in Targets, Failed(r, i),
         bvol' \in 0..Volume, bvol' <= bvol,
         fills' \in [Targets -> Nat], UNCHANGED <<row, lock, bstop, price, faults>>
  PROVE  IInv'
  <1> DEFINE m == [run[r].m EXCEPT !.target[i] = "FAILED"]
             x == [run[r] EXCEPT !.m = m, !.pc = "commit"]
  <1>1. m \in Record /\ Held(m) = Held(run[r].m)
    BY Moving, FailedRecord
  <1>2. run' = [run EXCEPT ![r] = x]
    BY DEF Failed, Copy, Become
  <1> HIDE DEF m
  <1>3. x \in RunRecord /\ x.m = m /\ x.pc # "recheck"
    BY <1>1, Moving DEF RunRecord
  <1> HIDE DEF x
  <1>4. bvol' <= Held(x.m)
    BY <1>1, <1>3, Moving, HeldIsNat, VolumeAssumption
  <1> QED BY <1>2, <1>3, <1>4, SoldStep

(* What is asked of the broker when it has `open`, at most what the row    *)
(* accounts for, leaves at most what the row will account for, had it been *)
(* filled whole; what it does not fill is added to the account.            *)
LEMMA QuantityBounds ==
  ASSUME IInv, NEW r \in Monitors, ~At(r, "idle"), NEW i \in Targets,
         NEW open \in 0..Volume, open <= Held(run[r].m),
         All(r, i) \/ Vol(r, i) <= open
  PROVE  /\ Quantity(r, i, open) \in 0..open /\ Vol(r, i) \in 0..Held(run[r].m)
         /\ open - Quantity(r, i, open) <= Held(run[r].m) - Vol(r, i)
  <1>1. /\ run[r].m.remaining \in 0..Held(run[r].m) /\ Held(run[r].m) \in Nat
        /\ Vol(r, i) \in 0..run[r].m.remaining
    BY Moving, VolBounds, HeldIsNat
  <1> HIDE DEF Vol
  <1>2. CASE All(r, i)
    BY <1>1, <1>2, VolumeAssumption DEF Quantity, All
  <1>3. CASE ~All(r, i)
    BY <1>1, <1>3, VolumeAssumption DEF Quantity
  <1> QED BY <1>2, <1>3

LEMMA Sold ==
  ASSUME IInv, NEW r \in Monitors, ~At(r, "idle"), NEW i \in Targets,
         NEW q \in Nat, NEW p \in 1..q, Fills(i, p, q), q <= bvol
  PROVE  /\ bvol' = bvol - p /\ bvol' \in 0..Volume /\ bvol' <= bvol
         /\ q - p \in Nat /\ fills' \in [Targets -> Nat]
  <1>1. bvol' = bvol - p /\ bvol \in 0..Volume
    BY Moving DEF Fills
  <1>2. fills' \in [Targets -> Nat]
    BY Moving DEF Fills
  <1> QED BY <1>1, <1>2, VolumeAssumption

(* What a run can send the broker is something, and no more than is open.  *)
LEMMA SendableBounds ==
  ASSUME IInv, NEW r \in Monitors, ~At(r, "idle"), NEW i \in Targets, Sendable(r, i)
  PROVE  /\ Quantity(r, i, bvol) \in 0..bvol /\ Vol(r, i) \in 0..Held(run[r].m)
         /\ bvol - Quantity(r, i, bvol) <= Held(run[r].m) - Vol(r, i)
  <1>1. bvol \in 0..Volume /\ bvol <= Held(run[r].m)
    BY Moving
  <1>2. Vol(r, i) \in Nat
    BY Moving, VolBounds, VolumeAssumption DEF Record
  <1>3. All(r, i) \/ Vol(r, i) <= bvol
    BY <1>1, <1>2, VolumeAssumption DEF Sendable
  <1> QED BY <1>1, <1>3, QuantityBounds

LEMMA CloseFilledKeeps ==
  ASSUME IInv, NEW r \in Monitors, CloseFilled(r) PROVE IInv'
  <1>0. ~At(r, "idle") /\ UNCHANGED <<row, lock, bstop, price, faults>>
    BY DEF CloseFilled, At
  <1>1. PICK i \in Targets :
          /\ Sendable(r, i)
          /\ \E p \in 1..Quantity(r, i, bvol) : /\ Fills(i, p, Quantity(r, i, bvol))
                                                /\ Accepted(r, i, Quantity(r, i, bvol) - p)
    BY DEF CloseFilled
  <1> DEFINE q == Quantity(r, i, bvol)
  <1>2. PICK p \in 1..q : Fills(i, p, q) /\ Accepted(r, i, q - p)
    BY <1>1
  <1>3. q \in 0..bvol /\ Vol(r, i) \in 0..Held(run[r].m) /\ bvol - q <= Held(run[r].m) - Vol(r, i)
    BY <1>0, <1>1, SendableBounds
  <1> HIDE DEF q
  <1>4. q \in Nat /\ q <= bvol /\ bvol \in Nat /\ Held(run[r].m) \in Nat
    BY <1>0, <1>3, Moving, HeldIsNat, VolumeAssumption
  <1>5. /\ bvol' = bvol - p /\ bvol' \in 0..Volume /\ bvol' <= bvol /\ q - p \in Nat
        /\ fills' \in [Targets -> Nat]
    BY <1>0, <1>2, <1>4, Sold
  <1>6. bvol' <= Held(run[r].m) - Vol(r, i) + (q - p)
    BY <1>3, <1>4, <1>5
  <1> QED BY <1>0, <1>2, <1>5, <1>6, AcceptedKeeps

LEMMA CloseLostKeeps ==
  ASSUME IInv, NEW r \in Monitors, CloseLost(r) PROVE IInv'
  <1>0. ~At(r, "idle") /\ UNCHANGED <<row, lock, bstop, price, faults>>
    BY DEF CloseLost, At
  <1>1. PICK i \in Targets :
          /\ Sendable(r, i)
          /\ \/ \E p \in 1..Quantity(r, i, bvol) : Fills(i, p, Quantity(r, i, bvol))
             \/ UNCHANGED <<bvol, fills>>
          /\ Become(r, [run[r] EXCEPT !.orig = bvol, !.pc = "recheck"])
    BY DEF CloseLost
  <1> DEFINE x == [run[r] EXCEPT !.orig = bvol, !.pc = "recheck"]
             q == Quantity(r, i, bvol)
  <1>2. x \in RunRecord /\ x.orig = bvol /\ x.m = run[r].m
    BY <1>0, Moving DEF RunRecord
  <1>3. run' = [run EXCEPT ![r] = x]
    BY <1>1 DEF Become
  <1> HIDE DEF x
  <1>4. q \in 0..bvol
    BY <1>0, <1>1, SendableBounds
  <1>5. bvol' \in 0..Volume /\ bvol' <= bvol /\ fills' \in [Targets -> Nat]
    <2>1. CASE UNCHANGED <<bvol, fills>>
      BY <1>0, <2>1, Moving, VolumeAssumption
    <2>2. CASE \E p \in 1..q : Fills(i, p, q)
      <3>1. q \in Nat /\ q <= bvol
        BY <1>0, <1>4, Moving, VolumeAssumption
      <3> HIDE DEF q
      <3> QED BY <1>0, <2>2, <3>1, Sold
    <2> QED BY <1>1, <2>1, <2>2
  <1>6. bvol' <= Held(x.m) /\ bvol' <= x.orig /\ x.orig <= Held(x.m)
    BY <1>0, <1>2, <1>5, Moving, HeldIsNat, VolumeAssumption
  <1> QED BY <1>0, <1>2, <1>3, <1>5, <1>6, SoldStep

(* While a lost reply is looked into, the broker has at most what it had   *)
(* when the close was sent.                                                *)
LEMMA Rechecking ==
  ASSUME IInv, NEW r \in Monitors, At(r, "recheck")
  PROVE  /\ ~At(r, "idle") /\ run[r].orig \in 0..Volume
         /\ bvol <= run[r].orig /\ run[r].orig <= Held(run[r].m)
  BY DEF IInv, TypeOK, CopyCovers, At, RunRecord

LEMMA RecheckDoneKeeps ==
  ASSUME IInv, BlindQueries = FALSE, NEW r \in Monitors, RecheckDone(r) PROVE IInv'
  <1>0. At(r, "recheck") /\ ~At(r, "idle")
    BY DEF RecheckDone, At
  <1>1. PICK i \in Targets : /\ bvol <= run[r].orig - Quantity(r, i, run[r].orig)
                             /\ Accepted(r, i, 0)
    BY DEF RecheckDone
  <1> DEFINE q == Quantity(r, i, run[r].orig)
             v == Vol(r, i)
             h == Held(run[r].m)
  <1>2. /\ bvol \in 0..Volume /\ run[r].orig \in 0..Volume /\ run[r].orig <= h
        /\ h \in Nat /\ run[r].m.remaining \in 0..h /\ v \in 0..run[r].m.remaining
    BY <1>0, Rechecking, Moving, VolBounds, HeldIsNat
  <1>3. run[r].orig - q <= h - v /\ q \in Nat
    <2> HIDE DEF h, v
    <2>1. CASE All(r, i)
      BY <1>2, <2>1, VolumeAssumption DEF Quantity, All, v
    <2>2. CASE ~All(r, i)
      <3>1. q = v
        BY <2>2 DEF Quantity, v
      <3> HIDE DEF q
      <3> QED BY <1>2, <3>1, VolumeAssumption
    <2> QED BY <2>1, <2>2
  <1>4. bvol' = bvol /\ fills' = fills /\ UNCHANGED <<row, lock, bstop, price, faults>>
    BY DEF RecheckDone, broker
  <1>5. bvol <= run[r].orig - q
    BY <1>1
  <1>6. bvol <= h - v + 0
    <2> HIDE DEF q, v, h
    <2> QED BY <1>2, <1>3, <1>5, VolumeAssumption
  <1>7. bvol' \in 0..Volume /\ bvol' <= bvol /\ fills' \in [Targets -> Nat]
    BY <1>0, <1>2, <1>4, Moving, VolumeAssumption
  <1>8. bvol' <= h - v + 0 /\ 0 \in Nat
    BY <1>4, <1>6
  <1> QED BY <1>0, <1>1, <1>4, <1>7, <1>8, AcceptedKeeps

LEMMA RecheckResendKeeps ==
  ASSUME IInv, NEW r \in Monitors, RecheckResend(r) PROVE IInv'
  <1>0. At(r, "recheck") /\ ~At(r, "idle") /\ UNCHANGED <<row, lock, bstop, price, faults>>
    BY DEF RecheckResend, At
  <1>1. PICK i \in Targets :
          LET q == Quantity(r, i, run[r].orig) IN
          /\ q <= bvol
          /\ \E p \in 1..q : Fills(i, p, q) /\ (Accepted(r, i, q - p) \/ Failed(r, i))
    BY DEF RecheckResend
  <1> DEFINE q == Quantity(r, i, run[r].orig)
             v == Vol(r, i)
             h == Held(run[r].m)
  <1>2. /\ bvol \in 0..Volume /\ run[r].orig \in 0..Volume /\ bvol <= run[r].orig
        /\ run[r].orig <= h
        /\ h \in Nat /\ run[r].m.remaining \in 0..h /\ v \in 0..run[r].m.remaining
    BY <1>0, Rechecking, Moving, VolBounds, HeldIsNat
  <1>3. q \in Nat /\ q <= bvol /\ bvol - q <= h - v
    <2> HIDE DEF h, v
    <2>1. CASE All(r, i)
      BY <1>1, <1>2, <2>1, VolumeAssumption DEF Quantity, All, v
    <2>2. CASE ~All(r, i)
      <3>1. q = v /\ q <= bvol
        BY <1>1, <2>2 DEF Quantity, v
      <3> HIDE DEF q
      <3> QED BY <1>2, <3>1, VolumeAssumption
    <2> QED BY <2>1, <2>2
  <1>4. PICK p \in 1..q : Fills(i, p, q) /\ (Accepted(r, i, q - p) \/ Failed(r, i))
    BY <1>1
  <1> HIDE DEF q, v, h
  <1>5. /\ bvol' = bvol - p /\ bvol' \in 0..Volume /\ bvol' <= bvol /\ q - p \in Nat
        /\ fills' \in [Targets -> Nat]
    BY <1>0, <1>3, <1>4, Sold
  <1>6. bvol' <= h - v + (q - p)
    BY <1>2, <1>3, <1>5, VolumeAssumption
  <1>7. CASE Accepted(r, i, q - p)
    BY <1>0, <1>5, <1>6, <1>7, AcceptedKeeps DEF h, v
  <1>8. CASE Failed(r, i)
    BY <1>0, <1>5, <1>8, FailedKeeps
  <1> QED BY <1>4, <1>7, <1>8

(* A target that was refused, at once or after the reply was lost.         *)
LEMMA RefusedKeeps ==
  ASSUME IInv, NEW r \in Monitors, CloseRefused(r) \/ RecheckRefused(r) PROVE IInv'
  <1>0. ~At(r, "idle")
    BY DEF CloseRefused, RecheckRefused, At
  <1>1. PICK i \in Targets : Failed(r, i)
    BY DEF CloseRefused, RecheckRefused
  <1>2. UNCHANGED <<row, lock, bstop, price, faults>> /\ bvol' = bvol /\ fills' = fills
    BY DEF CloseRefused, RecheckRefused, broker
  <1>3. bvol' \in 0..Volume /\ bvol' <= bvol /\ fills' \in [Targets -> Nat]
    BY <1>0, <1>2, Moving, VolumeAssumption
  <1> QED BY <1>0, <1>1, <1>2, <1>3, FailedKeeps

-----------------------------------------------------------------------------
LEMMA StopKeeps ==
  ASSUME IInv, NEW r \in Monitors, StopMoved(r) \/ StopReplyLost(r) \/ StopRefused(r)
  PROVE  IInv'
  <1>0. At(r, "protect") /\ ~At(r, "idle")
    BY DEF StopMoved, StopReplyLost, StopRefused, At
  <1>1. run[r].to \in Int
    BY <1>0, Moving DEF RunRecord
  <1> DEFINE m == [run[r].m EXCEPT !.stop = run[r].to]
             x == [run[r] EXCEPT !.m = m, !.pc = "monitor"]
             y == [run[r] EXCEPT !.pc = "monitor"]
  <1>2. x \in RunRecord /\ Held(x.m) = Held(run[r].m) /\ x.pc = "monitor"
    <2>1. m \in Record /\ Held(m) = Held(run[r].m)
      BY <1>0, <1>1, Moving DEF Record, Held
    <2> HIDE DEF m
    <2> QED BY <1>0, <2>1, Moving DEF RunRecord
  <1>3. y \in RunRecord /\ Held(y.m) = Held(run[r].m) /\ y.pc = "monitor"
    BY <1>0, Moving DEF RunRecord
  <1>4. /\ run' = [run EXCEPT ![r] = x] \/ run' = [run EXCEPT ![r] = y]
        /\ bstop' \in {bstop, run[r].to} /\ bvol' = bvol /\ fills' = fills
        /\ row' = row /\ lock' = lock /\ price' = price /\ faults' = faults
    BY DEF StopMoved, StopReplyLost, StopRefused, Copy, Goto, Become, broker
  <1> HIDE DEF x, y
  <1>5. /\ lock = r /\ bvol' \in 0..Volume /\ bvol' <= bvol /\ bstop' \in Int
        /\ bvol' <= Held(run[r].m) /\ fills' \in [Targets -> Nat]
    BY <1>0, <1>1, <1>4, Moving, VolumeAssumption
  <1>6. CASE run' = [run EXCEPT ![r] = x]
    BY <1>2, <1>4, <1>5, <1>6, StepOfARun
  <1>7. CASE run' = [run EXCEPT ![r] = y]
    BY <1>3, <1>4, <1>5, <1>7, StepOfARun
  <1> QED BY <1>4, <1>6, <1>7

LEMMA ReadPriceKeeps ==
  ASSUME IInv, NEW r \in Monitors, ReadPrice(r) PROVE IInv'
  <1>0. ~At(r, "idle")
    BY DEF ReadPrice, At
  <1> DEFINE x == [run[r] EXCEPT !.px = price, !.pc = "monitor"]
  <1>1. price \in Int
    BY MonitorAssumption DEF IInv, TypeOK
  <1>2. x \in RunRecord /\ x.pc # "recheck" /\ bvol <= Held(x.m)
    BY <1>0, <1>1, Moving DEF RunRecord
  <1>3. run' = [run EXCEPT ![r] = x] /\ UNCHANGED <<row, lock, broker, price, faults>>
    BY DEF ReadPrice, Become
  <1> HIDE DEF x
  <1> QED BY <1>0, <1>2, <1>3, QuietStep

(* The broker and the market do what they like.                            *)
LEMMA WorldKeeps ==
  ASSUME IInv, BrokerCloses \/ PriceMoves PROVE IInv'
  <1>1. /\ bvol' \in 0..Volume /\ bvol' <= bvol
        /\ run' = run /\ row' = row /\ lock' = lock /\ faults' = faults
        /\ bstop' = bstop /\ fills' = fills /\ price' \in Prices \union {Entry}
    BY VolumeAssumption DEF BrokerCloses, PriceMoves, broker, IInv, TypeOK
  <1>2. TypeOK'
    BY <1>1 DEF IInv, TypeOK, At
  <1>3. NeverUnderTracked'
    BY <1>1, VolumeAssumption DEF IInv, NeverUnderTracked, TypeOK, Record
  <1>4. CopyCovers'
    <2> SUFFICES ASSUME NEW r \in Monitors, ~At(r, "idle")
                 PROVE  /\ bvol' <= Held(run[r].m)
                        /\ At(r, "recheck") => bvol' <= run[r].orig
                                               /\ run[r].orig <= Held(run[r].m)
      BY <1>1 DEF CopyCovers, At
    <2>1. /\ bvol \in 0..Volume /\ run[r].orig \in 0..Volume
          /\ Held(run[r].m) \in Nat /\ bvol <= Held(run[r].m)
      BY Moving, HeldIsNat DEF RunRecord
    <2>2. At(r, "recheck") => bvol <= run[r].orig /\ run[r].orig <= Held(run[r].m)
      BY Rechecking
    <2> QED BY <1>1, <2>1, <2>2, VolumeAssumption
  <1> QED BY <1>2, <1>3, <1>4 DEF IInv

-----------------------------------------------------------------------------
LEMMA WorkKeeps ==
  ASSUME IInv, BlindQueries = FALSE, NEW r \in Monitors, Work(r) PROVE IInv'
  <1>1. CASE Start(r)
    BY <1>1, StartKeeps
  <1>2. CASE Monitored(r)
    <2> ~At(r, "idle")
      BY <1>2 DEF Monitored, At
    <2> QED BY <1>2, GotoKeeps DEF Monitored
  <1>3. CASE CloseFilled(r)
    BY <1>3, CloseFilledKeeps
  <1>4. CASE CloseLost(r)
    BY <1>4, CloseLostKeeps
  <1>5. CASE CloseRefused(r) \/ RecheckRefused(r)
    BY <1>5, RefusedKeeps
  <1>6. CASE RecheckDone(r)
    BY <1>6, RecheckDoneKeeps
  <1>7. CASE RecheckResend(r)
    BY <1>7, RecheckResendKeeps
  <1>8. CASE StopMoved(r) \/ StopReplyLost(r) \/ StopRefused(r)
    BY <1>8, StopKeeps
  <1>9. CASE Commit(r)
    <2>1. ~At(r, "idle") /\ faults \in 0..MaxFaults
      BY <1>9 DEF Commit, At, IInv, TypeOK
    <2> QED BY <1>9, <2>1, EndKeeps DEF Commit
  <1> QED BY <1>1, <1>2, <1>3, <1>4, <1>5, <1>6, <1>7, <1>8, <1>9 DEF Work

(* The invariant is inductive.                                             *)
LEMMA NextKeepsIInv ==
  ASSUME IInv, BlindQueries = FALSE, [Next]_vars PROVE IInv'
  <1>1. ASSUME NEW r \in Monitors, Work(r) PROVE IInv'
    BY <1>1, WorkKeeps
  <1>2. ASSUME NEW r \in Monitors, Query(r) PROVE IInv'
    BY <1>2, QueryKeeps
  <1>3. ASSUME NEW r \in Monitors, ReadPrice(r) PROVE IInv'
    BY <1>3, ReadPriceKeeps
  <1>4. ASSUME NEW r \in Monitors, Unhealthy(r) PROVE IInv'
    <2>1. ~At(r, "idle") /\ faults \in 0..MaxFaults
      BY <1>4 DEF Unhealthy, At, IInv, TypeOK
    <2>2. Stopped(r) /\ row' = row /\ faults' = faults /\ UNCHANGED <<broker, price>>
      BY <1>4 DEF Unhealthy
    <2> QED BY <2>1, <2>2, EndKeeps
  <1>5. ASSUME NEW r \in Monitors, Rollback(r) PROVE IInv'
    <2>1. ~At(r, "idle") /\ faults' \in 0..MaxFaults
      BY <1>5, MonitorAssumption DEF Rollback, IInv, TypeOK
    <2>2. Stopped(r) /\ row' = row /\ UNCHANGED <<broker, price>>
      BY <1>5 DEF Rollback
    <2> QED BY <2>1, <2>2, EndKeeps
  <1>6. ASSUME NEW r \in Monitors, ClosureUnresolved(r) PROVE IInv'
    <2> ~At(r, "idle")
      BY <1>6 DEF ClosureUnresolved, At
    <2> QED BY <1>6, GotoKeeps DEF ClosureUnresolved
  <1>7. CASE UNCHANGED vars
    BY <1>7 DEF vars, broker, IInv, TypeOK, NeverUnderTracked, CopyCovers, At
  <1> QED BY <1>1, <1>2, <1>3, <1>4, <1>5, <1>6, <1>7, WorldKeeps DEF Next

(* As long as a failed query is not read as an empty book, whatever is     *)
(* lost, retried, filled in part or rolled back, the volume the broker     *)
(* still has open is in the database, but for what the closes it accepted  *)
(* did not fill.                                                           *)
THEOREM NoVolumeUntracked ==
  ASSUME BlindQueries = FALSE PROVE Spec => []NeverUnderTracked
  <1>1. IInv => NeverUnderTracked
    BY DEF IInv
  <1>2. IInv /\ [Next]_vars => IInv'
    BY NextKeepsIInv
  <1> QED BY InitIInv, <1>1, <1>2, PTL DEF Spec

-----------------------------------------------------------------------------
(* What makes the refinement inductive: the row is CLOSED exactly when it  *)
(* is empty, and so is the copy of a run, which never has more volume or a *)
(* looser stop than the row it is going to replace.                        *)
Shut(m) == m.status = "CLOSED" <=> m.remaining = 0
CopyAdvances ==
  \A r \in Monitors :
    ~At(r, "idle") =>
      /\ row.status = "OPEN" /\ Shut(run[r].m)
      /\ run[r].m.remaining <= row.remaining /\ row.stop <= run[r].m.stop
      /\ At(r, "protect") => run[r].m.stop <= run[r].to
LInv == IInv /\ Shut(row) /\ CopyAdvances

(* Facts about the run that moves.                                         *)
LEMMA Advancing ==
  ASSUME LInv, NEW r \in Monitors, ~At(r, "idle")
  PROVE  /\ lock = r /\ run[r] \in RunRecord /\ run[r].m \in Record /\ row \in Record
         /\ row.status = "OPEN" /\ Shut(run[r].m)
         /\ run[r].m.remaining <= row.remaining /\ row.stop <= run[r].m.stop
         /\ \A q \in Monitors \ {r} : run[q].pc = "idle"
  BY Moving DEF LInv, IInv, TypeOK, CopyAdvances, At

LEMMA InitLInv == Init => LInv
  <1> SUFFICES ASSUME Init PROVE LInv
    OBVIOUS
  <1>1. Shut(row)
    BY VolumeAssumption DEF Init, Shut, Opened
  <1>2. CopyAdvances
    BY DEF Init, CopyAdvances, At, NotRunning
  <1> QED BY <1>1, <1>2, InitIInv DEF LInv

(* A step of run r that keeps the row: only r's copy has to be looked at.  *)
LEMMA CopyStep ==
  ASSUME LInv, IInv', NEW r \in Monitors, NEW x, row' = row, row.status = "OPEN",
         run' = [run EXCEPT ![r] = x], \A q \in Monitors \ {r} : run[q].pc = "idle",
         Shut(x.m), x.m.remaining <= row.remaining, row.stop <= x.m.stop,
         x.pc = "protect" => x.m.stop <= x.to
  PROVE  LInv'
  <1>1. run'[r] = x /\ \A q \in Monitors \ {r} : run'[q].pc = "idle"
    BY DEF LInv, IInv, TypeOK
  <1>2. CopyAdvances'
    BY <1>1 DEF CopyAdvances, At
  <1> QED BY <1>2 DEF LInv, Shut

(* The same when the copy stays and only control, price or volume move.    *)
LEMMA SameCopyStep ==
  ASSUME LInv, IInv', NEW r \in Monitors, ~At(r, "idle"), NEW x, row' = row,
         run' = [run EXCEPT ![r] = x], x.m = run[r].m, x.pc # "protect"
  PROVE  LInv'
  BY Advancing, CopyStep

LEMMA TakenAdvances ==
  ASSUME NEW m \in Record, NEW i \in Targets, NEW vol \in 0..m.remaining, NEW short, Shut(m)
  PROVE  /\ Shut(Taken(m, i, vol, short)) /\ Taken(m, i, vol, short).stop = m.stop
         /\ Taken(m, i, vol, short).remaining = m.remaining - vol
  <1>1. m.remaining \in Nat /\ vol \in Nat /\ m.status \in {"OPEN", "CLOSED"}
    BY VolumeAssumption DEF Record
  <1>2. /\ Taken(m, i, vol, short).status = IF m.remaining = vol THEN "CLOSED" ELSE m.status
        /\ Taken(m, i, vol, short).stop = m.stop
        /\ Taken(m, i, vol, short).remaining = m.remaining - vol
    BY DEF Taken, Record
  <1>3. CASE m.remaining = vol
    BY <1>1, <1>2, <1>3 DEF Shut
  <1>4. CASE m.remaining # vol
    BY <1>1, <1>2, <1>4 DEF Shut
  <1> QED BY <1>3, <1>4

LEMMA AcceptedAdvances ==
  ASSUME LInv, IInv', NEW r \in Monitors, ~At(r, "idle"), NEW i \in Targets, NEW short,
         Accepted(r, i, short), row' = row
  PROVE  LInv'
  <1> DEFINE pc == Onward(r, i, run[r].m.remaining - Vol(r, i))
             m == Taken(run[r].m, i, Vol(r, i), short)
             x == [run[r] EXCEPT !.to = Protection(r, i), !.pc = pc, !.m = m]
  <1>0. IInv
    BY DEF LInv
  <1>1. Vol(r, i) \in 0..run[r].m.remaining
    BY <1>0, VolBounds
  <1>2. /\ Shut(m) /\ m.stop = run[r].m.stop
        /\ m.remaining = run[r].m.remaining - Vol(r, i)
    BY <1>1, Advancing, TakenAdvances
  <1>3. m.remaining <= row.remaining
    BY <1>1, <1>2, Advancing, VolumeAssumption DEF Record
  <1>4. pc = "protect" => m.stop <= Protection(r, i)
    <2> SUFFICES ASSUME pc = "protect" PROVE run[r].m.stop <= Protection(r, i)
      BY <1>2
    <2>1. Protects(r, i)
      BY DEF Onward
    <2>2. Desired(i) \in Int /\ run[r].m.stop \in Int /\ Desired(i) > run[r].m.stop
      BY <2>1, Advancing, MonitorAssumption DEF Protects, Desired, Record
    <2> QED BY <2>1, <2>2 DEF Protection
  <1>5. run' = [run EXCEPT ![r] = x]
    BY DEF Accepted, Become
  <1> HIDE DEF pc, m
  <1>6. x.m = m /\ x.pc = pc /\ x.to = Protection(r, i)
    BY Advancing DEF RunRecord
  <1> HIDE DEF x
  <1> QED BY <1>2, <1>3, <1>4, <1>5, <1>6, Advancing, CopyStep

LEMMA FailedAdvances ==
  ASSUME LInv, IInv', NEW r \in Monitors, ~At(r, "idle"), NEW i \in Targets,
         Failed(r, i), row' = row
  PROVE  LInv'
  <1> DEFINE m == [run[r].m EXCEPT !.target[i] = "FAILED"]
             x == [run[r] EXCEPT !.m = m, !.pc = "commit"]
  <1>1. /\ m.remaining = run[r].m.remaining /\ m.stop = run[r].m.stop
        /\ m.status = run[r].m.status
    BY Advancing DEF Record
  <1>2. run' = [run EXCEPT ![r] = x]
    BY DEF Failed, Copy, Become
  <1> HIDE DEF m
  <1>3. x.m = m /\ x.pc = "commit"
    BY Advancing DEF RunRecord
  <1> HIDE DEF x
  <1> QED BY <1>1, <1>2, <1>3, Advancing, CopyStep DEF Shut
LEMMA StartAdvances ==
  ASSUME LInv, IInv', NEW r \in Monitors, Start(r) PROVE LInv'
  <1> DEFINE x == [NotRunning EXCEPT !.pc = "query", !.m = row]
  <1>1. x.m = row /\ x.pc = "query"
    BY DEF NotRunning
  <1>2. /\ run' = [run EXCEPT ![r] = x] /\ row' = row /\ row.status = "OPEN"
        /\ \A q \in Monitors \ {r} : run[q].pc = "idle"
    BY MonitorAssumption DEF Start, Become, LInv, IInv, TypeOK, At
  <1>3. row.remaining <= row.remaining /\ row.stop <= row.stop
    BY VolumeAssumption DEF LInv, IInv, TypeOK, Record
  <1> HIDE DEF x
  <1> QED BY <1>1, <1>2, <1>3, CopyStep DEF LInv

LEMMA QueryAdvances ==
  ASSUME LInv, IInv', NEW r \in Monitors, Query(r) PROVE LInv'
  <1>0. ~At(r, "idle")
    BY DEF Query, SeesPosition, SeesFlat, At
  <1>1. CASE SeesPosition(r)
    <2> DEFINE x == [run[r] EXCEPT !.pc = "price"]
    <2>1. x.m = run[r].m /\ x.pc = "price" /\ run' = [run EXCEPT ![r] = x] /\ row' = row
      BY <1>0, <1>1, Advancing DEF SeesPosition, Goto, Become, RunRecord
    <2> HIDE DEF x
    <2> QED BY <1>0, <2>1, SameCopyStep
  <1>2. CASE SeesFlat(r)
    <2>1. PICK done \in {{}, {"WAITING", "MERGED"}} : Copy(r, Closed(run[r].m, done), "commit")
      BY <1>2 DEF SeesFlat
    <2> DEFINE m == Closed(run[r].m, done)
               x == [run[r] EXCEPT !.m = m, !.pc = "commit"]
    <2>2. m.remaining = 0 /\ m.status = "CLOSED" /\ m.stop = run[r].m.stop
      BY <1>0, Advancing DEF Closed, Record
    <2>3. run' = [run EXCEPT ![r] = x] /\ row' = row
      BY <1>2, <2>1 DEF Copy, Become, SeesFlat
    <2> HIDE DEF m
    <2>4. x.m = m /\ x.pc = "commit"
      BY <1>0, Advancing DEF RunRecord
    <2> HIDE DEF x
    <2>5. 0 <= row.remaining
      BY <1>0, Advancing, VolumeAssumption DEF Record
    <2> QED BY <1>0, <2>2, <2>3, <2>4, <2>5, Advancing, CopyStep DEF Shut
  <1> QED BY <1>1, <1>2 DEF Query

(* Steps that leave the copy alone.                                        *)
LEMMA PlainAdvances ==
  ASSUME LInv, IInv', NEW r \in Monitors,
         \/ Monitored(r) \/ ClosureUnresolved(r) \/ ReadPrice(r) \/ CloseLost(r)
         \/ StopReplyLost(r) \/ StopRefused(r)
  PROVE  LInv'
  <1>1. ~At(r, "idle") /\ row' = row
    BY DEF Monitored, ClosureUnresolved, ReadPrice, CloseLost, StopReplyLost, StopRefused, At
  <1>2. PICK x \in { [run[r] EXCEPT !.pc = "commit"], [run[r] EXCEPT !.pc = "price"],
                     [run[r] EXCEPT !.pc = "monitor"],
                     [run[r] EXCEPT !.px = price, !.pc = "monitor"],
                     [run[r] EXCEPT !.orig = bvol, !.pc = "recheck"] } :
          run' = [run EXCEPT ![r] = x]
    BY DEF Monitored, ClosureUnresolved, ReadPrice, CloseLost, StopReplyLost, StopRefused,
           Goto, Become
  <1>3. x.m = run[r].m /\ x.pc # "protect"
    BY <1>1, <1>2, Advancing DEF RunRecord
  <1> QED BY <1>1, <1>2, <1>3, SameCopyStep

LEMMA StopAdvances ==
  ASSUME LInv, IInv', NEW r \in Monitors, StopMoved(r) PROVE LInv'
  <1>0. At(r, "protect") /\ ~At(r, "idle") /\ row' = row
    BY DEF StopMoved, At
  <1>1. run[r].m.stop <= run[r].to /\ run[r].to \in Int
    BY <1>0, Advancing DEF LInv, CopyAdvances, RunRecord
  <1> DEFINE m == [run[r].m EXCEPT !.stop = run[r].to]
             x == [run[r] EXCEPT !.m = m, !.pc = "monitor"]
  <1>2. /\ m.remaining = run[r].m.remaining /\ m.stop = run[r].to
        /\ m.status = run[r].m.status
    BY <1>0, Advancing DEF Record
  <1>3. run' = [run EXCEPT ![r] = x]
    BY DEF StopMoved, Copy, Become
  <1>4. row.stop <= run[r].to
    BY <1>0, <1>1, Advancing DEF Record
  <1> HIDE DEF m
  <1>5. x.m = m /\ x.pc = "monitor"
    BY <1>0, Advancing DEF RunRecord
  <1> HIDE DEF x
  <1> QED BY <1>0, <1>2, <1>3, <1>4, <1>5, Advancing, CopyStep DEF Shut

(* A run ends: its copy is a step of the row's life, or nothing happened.  *)
LEMMA EndAdvances ==
  ASSUME LInv, IInv', NEW r \in Monitors, Stopped(r), Shut(row')
  PROVE  LInv'
  <1>1. run'[r].pc = "idle" /\ lock' = Free
    BY DEF Stopped, Become, NotRunning, LInv, IInv, TypeOK
  <1>2. \A q \in Monitors : run'[q].pc = "idle"
    BY <1>1, MonitorAssumption DEF IInv, TypeOK, At
  <1>3. CopyAdvances'
    BY <1>2 DEF CopyAdvances, At
  <1> QED BY <1>3 DEF LInv, Shut

(* Every step keeps the invariant, and takes the row a step of its life or *)
(* leaves it as it was.                                                    *)
LEMMA NextKeepsLInv ==
  ASSUME LInv, BlindQueries = FALSE, [Next]_vars
  PROVE  LInv' /\ (row' = row \/ Life!Next)
  <1>1. IInv'
    BY NextKeepsIInv DEF LInv
  <1>2. ASSUME NEW r \in Monitors, CloseFilled(r) \/ RecheckDone(r) \/ RecheckResend(r)
                                  \/ CloseRefused(r) \/ RecheckRefused(r)
        PROVE  LInv' /\ row' = row
    <2>1. ~At(r, "idle") /\ row' = row
      BY <1>2 DEF CloseFilled, RecheckDone, RecheckResend, CloseRefused, RecheckRefused, At
    <2>2. \E i \in Targets : (\E short : Accepted(r, i, short)) \/ Failed(r, i)
      BY <1>2 DEF CloseFilled, RecheckDone, RecheckResend, CloseRefused, RecheckRefused
    <2> QED BY <1>1, <2>1, <2>2, AcceptedAdvances, FailedAdvances
  <1>3. ASSUME NEW r \in Monitors, Start(r) PROVE LInv' /\ row' = row
    BY <1>1, <1>3, StartAdvances DEF Start
  <1>4. ASSUME NEW r \in Monitors, Query(r) PROVE LInv' /\ row' = row
    BY <1>1, <1>4, QueryAdvances DEF Query, SeesPosition, SeesFlat
  <1>5. ASSUME NEW r \in Monitors,
               \/ Monitored(r) \/ ClosureUnresolved(r) \/ ReadPrice(r) \/ CloseLost(r)
               \/ StopReplyLost(r) \/ StopRefused(r)
        PROVE  LInv' /\ row' = row
    <2> row' = row
      BY <1>5 DEF Monitored, ClosureUnresolved, ReadPrice, CloseLost, StopReplyLost, StopRefused
    <2> QED BY <1>1, <1>5, PlainAdvances
  <1>6. ASSUME NEW r \in Monitors, StopMoved(r) PROVE LInv' /\ row' = row
    BY <1>1, <1>6, StopAdvances DEF StopMoved
  <1>7. ASSUME NEW r \in Monitors, Commit(r) PROVE LInv' /\ Life!Next
    <2>1. ~At(r, "idle") /\ row' = run[r].m /\ Stopped(r)
      BY <1>7 DEF Commit, At
    <2>2. LInv'
      BY <1>1, <2>1, Advancing, EndAdvances
    <2>3. /\ run[r].m.remaining \in 0..row.remaining
          /\ run[r].m.status = IF run[r].m.remaining = 0 THEN "CLOSED" ELSE "OPEN"
      BY <2>1, Advancing, VolumeAssumption DEF Record, Shut
    <2>4. Life!Next
      BY <2>1, <2>3, Advancing DEF Life!Next
    <2> QED BY <2>2, <2>4
  <1>8. ASSUME NEW r \in Monitors, Unhealthy(r) \/ Rollback(r) PROVE LInv' /\ row' = row
    <2> row' = row /\ Stopped(r)
      BY <1>8 DEF Unhealthy, Rollback
    <2> QED BY <1>1, EndAdvances DEF LInv
  <1>9. CASE BrokerCloses \/ PriceMoves \/ UNCHANGED vars
    <2> row' = row /\ run' = run
      BY <1>9 DEF BrokerCloses, PriceMoves, vars
    <2> QED BY <1>1 DEF LInv, CopyAdvances, At, Shut
  <1> QED BY <1>2, <1>3, <1>4, <1>5, <1>6, <1>7, <1>8, <1>9 DEF Next, Work

(* For any targets, prices, workers and faults: whatever the runs do, the  *)
(* committed row lives the life its readers rely on, because a run commits *)
(* a copy taken under the lock and only ever advances it.                  *)
THEOREM ImplementsPositionLife ==
  ASSUME BlindQueries = FALSE PROVE Spec => ImplementsLife
  <1>1. Init => Life!Init
    BY DEF Init, Opened, Life!Init
  <1>2. LInv /\ [Next]_vars => LInv' /\ [Life!Next]_(Life!life)
    BY NextKeepsLInv DEF Life!life
  <1> QED BY InitLInv, <1>1, <1>2, PTL DEF Spec, ImplementsLife, Life!Spec

-----------------------------------------------------------------------------
(* What makes FillsBounded inductive: a target that a run may still sell   *)
(* has been sold only by runs that were rolled back, or its reply is lost  *)
(* and the broker's volume shows that it was done.  What a run that has    *)
(* not seen the price yet works on is what the row says.                   *)
Spare(m, i) == m.target[i] = "WAITING" => fills[i] <= faults
Shows(r, i) == /\ At(r, "recheck") /\ IsNext(r, i)
               /\ bvol <= run[r].orig - Quantity(r, i, run[r].orig)
RunSpares(r) ==
  /\ \A i \in Targets : Spare(run[r].m, i) \/ Shows(r, i)
  /\ run[r].pc \in {"query", "price"} => run[r].m = row

FInv ==
  /\ TypeOK /\ FillsBounded
  /\ (\A r \in Monitors : At(r, "idle")) => \A i \in Targets : Spare(row, i)
  /\ \A r \in Monitors : ~At(r, "idle") => RunSpares(r)

LEMMA InitFInv == Init => FInv
  <1> SUFFICES ASSUME Init PROVE FInv
    OBVIOUS
  <1>1. TypeOK
    BY InitIInv DEF IInv
  <1>2. \A i \in Targets : fills[i] = 0 /\ faults = 0
    BY DEF Init
  <1>3. \A r \in Monitors : At(r, "idle")
    BY DEF Init, At, NotRunning
  <1> QED BY <1>1, <1>2, <1>3 DEF FInv, FillsBounded, Spare

(* Facts about the run that moves.                                         *)
LEMMA Running ==
  ASSUME FInv, NEW r \in Monitors, ~At(r, "idle")
  PROVE  /\ lock = r /\ run[r] \in RunRecord /\ run[r].m \in Record /\ row \in Record
         /\ RunSpares(r) /\ \A q \in Monitors \ {r} : run[q].pc = "idle"
         /\ bvol \in 0..Volume /\ bstop \in Int /\ fills \in [Targets -> Nat]
         /\ faults \in Nat
  BY MonitorAssumption DEF FInv, TypeOK, At, RunRecord

LEMMA VolTyped ==
  ASSUME FInv, NEW r \in Monitors, ~At(r, "idle"), NEW i \in Targets
  PROVE  Vol(r, i) \in 0..run[r].m.remaining /\ run[r].m.remaining \in 0..Volume
  BY Running, MonitorAssumption, VolumeAssumption DEF Vol, Record

(* A step of run r towards a record x that is not waiting for a reply.     *)
LEMMA FStep ==
  ASSUME FInv, NEW r \in Monitors, ~At(r, "idle"), NEW x \in RunRecord,
         run' = [run EXCEPT ![r] = x], x.pc # "recheck",
         \A i \in Targets : x.m.target[i] = "WAITING" => fills'[i] <= faults,
         x.pc \in {"query", "price"} => x.m = row,
         bvol' \in 0..Volume, bstop' \in Int,
         fills' \in [Targets -> Nat], \A i \in Targets : fills'[i] <= 1 + faults,
         UNCHANGED <<row, lock, price, faults>>, x.pc # "idle"
  PROVE  FInv'
  <1>1. /\ run'[r] = x /\ run' \in [Monitors -> RunRecord]
        /\ \A q \in Monitors \ {r} : run'[q].pc = "idle"
    BY Running DEF FInv, TypeOK
  <1>2. TypeOK'
    BY <1>1, Running DEF FInv, TypeOK, At
  <1>3. RunSpares(r)'
    BY <1>1 DEF RunSpares, Spare
  <1>4. ~At(r, "idle")'
    BY <1>1 DEF At
  <1>5. \A q \in Monitors : ~At(q, "idle")' => q = r
    BY <1>1 DEF At
  <1> QED BY <1>2, <1>3, <1>4, <1>5 DEF FInv, FillsBounded

(* A step that leaves the broker alone, of a run whose copy becomes m.     *)
LEMMA FQuiet ==
  ASSUME FInv, NEW r \in Monitors, ~At(r, "idle"), ~At(r, "recheck"), NEW x \in RunRecord,
         run' = [run EXCEPT ![r] = x], x.pc \notin {"recheck", "idle"},
         \A i \in Targets : x.m.target[i] = "WAITING" => run[r].m.target[i] = "WAITING",
         x.pc \in {"query", "price"} => x.m = row,
         bstop' \in Int, UNCHANGED <<row, lock, bvol, fills, price, faults>>
  PROVE  FInv'
  <1>1. \A i \in Targets : x.m.target[i] = "WAITING" => fills'[i] <= faults
    BY Running DEF RunSpares, Spare, Shows
  <1>2. /\ bvol' \in 0..Volume /\ fills' \in [Targets -> Nat]
        /\ \A i \in Targets : fills'[i] <= 1 + faults
    BY Running DEF FInv, FillsBounded
  <1> QED BY <1>1, <1>2, FStep

(* There is one next target.                                               *)
LEMMA OneNext ==
  ASSUME NEW r \in Monitors, NEW i \in Targets, NEW k \in Targets, IsNext(r, i), IsNext(r, k)
  PROVE  i = k
  BY MonitorAssumption DEF IsNext, Due

(* The next target is dealt with: whatever was sold for it now, the others *)
(* are as they were.                                                       *)
LEMMA Dealt ==
  ASSUME FInv, NEW r \in Monitors, ~At(r, "idle"), NEW i \in Targets, IsNext(r, i),
         NEW x \in RunRecord, run' = [run EXCEPT ![r] = x],
         x.pc \in {"commit", "protect", "monitor"},
         x.m.target[i] # "WAITING",
         \A k \in Targets \ {i} : x.m.target[k] = run[r].m.target[k],
         bvol' \in 0..Volume, fills' \in [Targets -> Nat], fills'[i] <= 1 + faults,
         \A k \in Targets \ {i} : fills'[k] = fills[k],
         UNCHANGED <<row, lock, bstop, price, faults>>
  PROVE  FInv'
  <1>1. \A k \in Targets : x.m.target[k] = "WAITING" => fills'[k] <= faults
    <2> TAKE k \in Targets
    <2> HAVE x.m.target[k] = "WAITING"
    <2>1. k # i /\ run[r].m.target[k] = "WAITING" /\ fills'[k] = fills[k]
      OBVIOUS
    <2>2. ~Shows(r, k)
      BY <2>1, OneNext DEF Shows
    <2> QED BY <2>1, <2>2, Running DEF RunSpares, Spare
  <1>2. \A k \in Targets : fills'[k] <= 1 + faults
    BY DEF FInv, FillsBounded
  <1>3. bstop' \in Int
    BY Running
  <1> QED BY <1>1, <1>2, <1>3, FStep

LEMMA FAccepted ==
  ASSUME FInv, NEW r \in Monitors, ~At(r, "idle"), NEW i \in Targets, IsNext(r, i),
         NEW short \in Nat, Accepted(r, i, short), bvol' \in 0..Volume, fills' \in [Targets -> Nat],
         fills'[i] <= 1 + faults, \A k \in Targets \ {i} : fills'[k] = fills[k],
         UNCHANGED <<row, lock, bstop, price, faults>>
  PROVE  FInv'
  <1> DEFINE pc == Onward(r, i, run[r].m.remaining - Vol(r, i))
             m == Taken(run[r].m, i, Vol(r, i), short)
             x == [run[r] EXCEPT !.to = Protection(r, i), !.pc = pc, !.m = m]
  <1>1. m \in Record
    BY VolTyped, Running, TakenRecord
  <1>2. /\ m.target[i] # "WAITING"
        /\ \A k \in Targets \ {i} : m.target[k] = run[r].m.target[k]
    BY Running DEF Taken, Record
  <1>3. pc \in {"commit", "protect", "monitor"}
    BY DEF Onward
  <1>4. run' = [run EXCEPT ![r] = x]
    BY DEF Accepted, Become
  <1>5. Protection(r, i) \in Int
    BY Running, MonitorAssumption DEF Protection, Protects, Desired, RunRecord
  <1> HIDE DEF pc, m
  <1>6. x \in RunRecord /\ x.m = m /\ x.pc = pc
    BY <1>1, <1>3, <1>5, Running DEF RunRecord
  <1>7. /\ x.pc \in {"commit", "protect", "monitor"} /\ x.m.target[i] # "WAITING"
        /\ \A k \in Targets \ {i} : x.m.target[k] = run[r].m.target[k]
    BY <1>2, <1>3, <1>6
  <1> HIDE DEF x
  <1> QED BY <1>4, <1>6, <1>7, Dealt

LEMMA FFailed ==
  ASSUME FInv, NEW r \in Monitors, ~At(r, "idle"), NEW i \in Targets, IsNext(r, i),
         Failed(r, i), bvol' \in 0..Volume, fills' \in [Targets -> Nat],
         fills'[i] <= 1 + faults, \A k \in Targets \ {i} : fills'[k] = fills[k],
         UNCHANGED <<row, lock, bstop, price, faults>>
  PROVE  FInv'
  <1> DEFINE m == [run[r].m EXCEPT !.target[i] = "FAILED"]
             x == [run[r] EXCEPT !.m = m, !.pc = "commit"]
  <1>1. m \in Record
    BY Running, FailedRecord
  <1>2. /\ m.target[i] # "WAITING"
        /\ \A k \in Targets \ {i} : m.target[k] = run[r].m.target[k]
    BY Running DEF Record
  <1>3. run' = [run EXCEPT ![r] = x]
    BY DEF Failed, Copy, Become
  <1> HIDE DEF m
  <1>4. x \in RunRecord /\ x.m = m /\ x.pc = "commit"
    BY <1>1, Running DEF RunRecord
  <1>5. /\ x.pc \in {"commit", "protect", "monitor"} /\ x.m.target[i] # "WAITING"
        /\ \A k \in Targets \ {i} : x.m.target[k] = run[r].m.target[k]
    BY <1>2, <1>4
  <1> HIDE DEF x
  <1> QED BY <1>3, <1>4, <1>5, Dealt

LEMMA FStart ==
  ASSUME FInv, NEW r \in Monitors, Start(r) PROVE FInv'
  <1> DEFINE x == [NotRunning EXCEPT !.pc = "query", !.m = row]
  <1>1. x \in RunRecord /\ x.m = row /\ x.pc = "query"
    BY NotRunningIsRecord DEF FInv, TypeOK, RunRecord, NotRunning
  <1>2. run' = [run EXCEPT ![r] = x] /\ lock = Free
    BY DEF Start, Become
  <1> HIDE DEF x
  <1>3. /\ run'[r] = x /\ run' \in [Monitors -> RunRecord]
        /\ \A q \in Monitors : run[q].pc = "idle"
        /\ \A q \in Monitors \ {r} : run'[q] = run[q]
    BY <1>1, <1>2, MonitorAssumption DEF FInv, TypeOK, At
  <1>4. UNCHANGED <<row, bvol, bstop, fills, price, faults>> /\ lock' = r
    BY DEF Start, broker
  <1>5. TypeOK'
    BY <1>3, <1>4 DEF FInv, TypeOK, At
  <1>6. \A i \in Targets : Spare(row, i)
    BY <1>3 DEF FInv, At
  <1>7. RunSpares(r)'
    BY <1>1, <1>3, <1>4, <1>6 DEF RunSpares, Spare
  <1>8. \A q \in Monitors : ~At(q, "idle")' <=> q = r
    BY <1>1, <1>3 DEF At
  <1> QED BY <1>4, <1>5, <1>7, <1>8 DEF FInv, FillsBounded

(* A run ends: what the row then says is what was sold, up to the faults.  *)
LEMMA FEnd ==
  ASSUME FInv, NEW r \in Monitors, ~At(r, "idle"), Stopped(r),
         row' \in Record, faults' \in 0..MaxFaults, faults <= faults',
         UNCHANGED <<broker, price>>, \A i \in Targets : Spare(row, i)'
  PROVE  FInv'
  <1>1. /\ run' \in [Monitors -> RunRecord] /\ lock' = Free
        /\ \A q \in Monitors : run'[q].pc = "idle"
    BY Running, NotRunningIsRecord DEF FInv, TypeOK, Stopped, Become, NotRunning
  <1>2. TypeOK'
    BY <1>1, Running DEF FInv, TypeOK, At, broker
  <1>3. FillsBounded'
    BY Running DEF FInv, FillsBounded, broker, TypeOK
  <1>4. \A q \in Monitors : At(q, "idle")'
    BY <1>1 DEF At
  <1> QED BY <1>2, <1>3, <1>4 DEF FInv

LEMMA FSold ==
  ASSUME FInv, NEW r \in Monitors, ~At(r, "idle"), NEW i \in Targets,
         NEW q \in Nat, NEW p \in 1..q, q <= bvol, Fills(i, p, q), fills[i] <= faults
  PROVE  /\ fills' \in [Targets -> Nat] /\ fills'[i] <= 1 + faults
         /\ \A k \in Targets \ {i} : fills'[k] = fills[k]
         /\ p # q => fills' = fills
         /\ bvol' = bvol - p /\ bvol' \in 0..Volume /\ q - p \in Nat
  <1>1. bvol' = bvol - p /\ bvol \in 0..Volume
    BY Running DEF Fills
  <1>2. /\ fills' \in [Targets -> Nat] /\ fills'[i] <= 1 + faults
        /\ \A k \in Targets \ {i} : fills'[k] = fills[k]
        /\ p # q => fills' = fills
    BY Running DEF Fills
  <1> QED BY <1>1, <1>2, VolumeAssumption

LEMMA SellableTyped ==
  ASSUME FInv, NEW r \in Monitors, ~At(r, "idle"), NEW i \in Targets, Sendable(r, i)
  PROVE  Quantity(r, i, bvol) \in 0..bvol
  <1>1. Vol(r, i) \in Nat /\ bvol \in 0..Volume
    BY Running, VolTyped, VolumeAssumption
  <1> QED BY <1>1, VolumeAssumption DEF Sendable, Quantity

LEMMA FCloseFilled ==
  ASSUME FInv, NEW r \in Monitors, CloseFilled(r) PROVE FInv'
  <1>0. ~At(r, "idle") /\ ~At(r, "recheck") /\ UNCHANGED <<row, lock, bstop, price, faults>>
    BY DEF CloseFilled, At
  <1>1. PICK i \in Targets :
          LET q == Quantity(r, i, bvol) IN
          /\ IsNext(r, i) /\ Sendable(r, i)
          /\ \E p \in 1..q : Fills(i, p, q) /\ Accepted(r, i, q - p)
    BY DEF CloseFilled
  <1> DEFINE q == Quantity(r, i, bvol)
  <1>2. q \in Nat /\ q <= bvol
    BY <1>0, <1>1, Running, SellableTyped, VolumeAssumption
  <1>3. fills[i] <= faults
    BY <1>0, <1>1, Running DEF RunSpares, Spare, Shows, IsNext, Due
  <1>4. PICK p \in 1..q : Fills(i, p, q) /\ Accepted(r, i, q - p)
    BY <1>1
  <1> HIDE DEF q
  <1> QED BY <1>0, <1>1, <1>2, <1>3, <1>4, FSold, FAccepted

LEMMA FCloseLost ==
  ASSUME FInv, NEW r \in Monitors, CloseLost(r) PROVE FInv'
  <1>0. ~At(r, "idle") /\ ~At(r, "recheck") /\ UNCHANGED <<row, lock, bstop, price, faults>>
    BY DEF CloseLost, At
  <1>1. PICK i \in Targets :
          /\ IsNext(r, i) /\ Sendable(r, i)
          /\ \/ \E p \in 1..Quantity(r, i, bvol) : Fills(i, p, Quantity(r, i, bvol))
             \/ UNCHANGED <<bvol, fills>>
          /\ Become(r, [run[r] EXCEPT !.orig = bvol, !.pc = "recheck"])
    BY DEF CloseLost
  <1> DEFINE x == [run[r] EXCEPT !.orig = bvol, !.pc = "recheck"]
             q == Quantity(r, i, bvol)
  <1>2. /\ x \in RunRecord /\ x.orig = bvol /\ x.m = run[r].m /\ x.pc = "recheck"
        /\ x.px = run[r].px
    BY <1>0, Running DEF RunRecord
  <1>3. run' = [run EXCEPT ![r] = x]
    BY <1>1 DEF Become
  <1> HIDE DEF x
  <1>4. /\ run'[r] = x /\ run' \in [Monitors -> RunRecord]
        /\ \A k \in Monitors \ {r} : run'[k].pc = "idle"
    BY <1>0, <1>2, <1>3, Running DEF FInv, TypeOK
  <1>5. fills[i] <= faults /\ q \in 0..bvol
    BY <1>0, <1>1, Running, SellableTyped DEF RunSpares, Spare, Shows, IsNext, Due
  <1>6. IsNext(r, i)'
    BY <1>1, <1>2, <1>4 DEF IsNext, Due
  <1>7. Quantity(r, i, run[r].orig)' = q
    BY <1>2, <1>4 DEF Quantity, All, Vol
  <1>8. \/ UNCHANGED <<bvol, fills>>
        \/ \E p \in 1..q : Fills(i, p, q)
    BY <1>1
  <1>9. /\ bvol' \in 0..Volume /\ fills' \in [Targets -> Nat]
        /\ \A k \in Targets \ {i} : fills'[k] = fills[k]
        /\ fills' = fills \/ (fills'[i] <= 1 + faults /\ bvol' <= bvol - q)
    <2> HIDE DEF q
    <2>1. q \in Nat /\ q <= bvol /\ bvol \in 0..Volume
      BY <1>0, <1>5, Running, VolumeAssumption
    <2>2. CASE UNCHANGED <<bvol, fills>>
      BY <1>0, <2>1, <2>2, Running
    <2>3. ASSUME NEW p \in 1..q, Fills(i, p, q)
          PROVE  /\ bvol' \in 0..Volume /\ fills' \in [Targets -> Nat]
                 /\ \A k \in Targets \ {i} : fills'[k] = fills[k]
                 /\ fills' = fills \/ (fills'[i] <= 1 + faults /\ bvol' <= bvol - q)
      <3>1. /\ bvol' = bvol - p /\ bvol' \in 0..Volume /\ fills' \in [Targets -> Nat]
            /\ fills'[i] <= 1 + faults /\ (p # q => fills' = fills)
            /\ \A k \in Targets \ {i} : fills'[k] = fills[k]
        BY <1>0, <1>5, <2>1, <2>3, FSold
      <3>2. p = q => bvol' <= bvol - q
        BY <2>1, <3>1
      <3> QED BY <3>1, <3>2
    <2> QED BY <1>8, <2>2, <2>3
  <1>10. (\A k \in Targets : fills'[k] <= 1 + faults) /\ TypeOK'
    <2>1. \A k \in Targets : fills'[k] <= 1 + faults
      BY <1>9 DEF FInv, FillsBounded
    <2>2. TypeOK'
      BY <1>0, <1>4, <1>9, Running DEF FInv, TypeOK, At
    <2> QED BY <2>1, <2>2
  <1>11. \A k \in Targets : Spare(run[r].m, k)' \/ Shows(r, k)'
    <2> TAKE k \in Targets
    <2>1. CASE k # i \/ fills' = fills
      <3>1. Spare(run[r].m, k) /\ fills'[k] = fills[k]
        BY <1>0, <1>9, <2>1, Running DEF RunSpares, Shows
      <3> QED BY <1>0, <1>2, <1>4, <3>1 DEF Spare
    <2>2. CASE k = i /\ bvol' <= bvol - q
      <3>1. run'[r].orig = bvol /\ run'[r].pc = "recheck"
        BY <1>2, <1>4
      <3>2. bvol' <= (run[r].orig - Quantity(r, i, run[r].orig))'
        BY <1>7, <2>2, <3>1
      <3> QED BY <1>6, <2>2, <3>1, <3>2 DEF Shows, At
    <2> QED BY <1>9, <2>1, <2>2
  <1>12. RunSpares(r)'
    BY <1>2, <1>4, <1>11 DEF RunSpares
  <1>13. \A k \in Monitors : ~At(k, "idle")' <=> k = r
    BY <1>2, <1>4 DEF At
  <1> QED BY <1>0, <1>10, <1>12, <1>13 DEF FInv, FillsBounded

LEMMA FRecheckResend ==
  ASSUME FInv, NEW r \in Monitors, RecheckResend(r) PROVE FInv'
  <1>0. ~At(r, "idle") /\ UNCHANGED <<row, lock, bstop, price, faults>>
    BY DEF RecheckResend, At
  <1>1. PICK i \in Targets :
          LET q == Quantity(r, i, run[r].orig) IN
          /\ IsNext(r, i) /\ bvol > run[r].orig - q /\ q <= bvol
          /\ \E p \in 1..q : Fills(i, p, q) /\ (Accepted(r, i, q - p) \/ Failed(r, i))
    BY DEF RecheckResend
  <1> DEFINE q == Quantity(r, i, run[r].orig)
  <1>2. q \in Nat /\ run[r].orig \in 0..Volume /\ q <= bvol
    <2>1. Vol(r, i) \in Nat
      BY <1>0, Running, VolTyped, VolumeAssumption
    <2>2. run[r].orig \in 0..Volume
      BY <1>0, Running DEF RunRecord
    <2> QED BY <1>1, <2>1, <2>2, VolumeAssumption DEF Quantity
  <1>3. PICK p \in 1..q : Fills(i, p, q) /\ (Accepted(r, i, q - p) \/ Failed(r, i))
    BY <1>1
  <1>4. ~Shows(r, i)
    <2>1. bvol > run[r].orig - q
      BY <1>1
    <2> HIDE DEF q
    <2> QED BY <1>0, <1>2, <2>1, Running, VolumeAssumption DEF Shows, q
  <1>5. fills[i] <= faults
    BY <1>0, <1>1, <1>4, Running DEF RunSpares, Spare, IsNext, Due
  <1> HIDE DEF q
  <1> QED BY <1>0, <1>1, <1>2, <1>3, <1>5, FSold, FAccepted, FFailed

(* The next target is settled without another deal.                        *)
LEMMA FSettled ==
  ASSUME FInv, NEW r \in Monitors, CloseRefused(r) \/ RecheckRefused(r) \/ RecheckDone(r)
  PROVE  FInv'
  <1>0. ~At(r, "idle") /\ UNCHANGED <<row, lock, broker, price, faults>>
    BY DEF CloseRefused, RecheckRefused, RecheckDone, At
  <1>1. PICK i \in Targets : IsNext(r, i) /\ (Accepted(r, i, 0) \/ Failed(r, i))
    BY DEF CloseRefused, RecheckRefused, RecheckDone
  <1>2. /\ bvol' \in 0..Volume /\ fills' \in [Targets -> Nat] /\ fills'[i] <= 1 + faults
        /\ \A k \in Targets \ {i} : fills'[k] = fills[k]
        /\ UNCHANGED <<row, lock, bstop, price, faults>>
    BY <1>0, Running DEF broker, FInv, FillsBounded
  <1> QED BY <1>0, <1>1, <1>2, FAccepted, FFailed

LEMMA FPlain ==
  ASSUME FInv, NEW r \in Monitors,
         \/ SeesPosition(r) \/ ClosureUnresolved(r) \/ ReadPrice(r) \/ Monitored(r)
         \/ StopReplyLost(r) \/ StopRefused(r)
  PROVE  FInv'
  <1>1. ~At(r, "idle") /\ ~At(r, "recheck") /\ UNCHANGED <<row, lock, bvol, fills, price, faults>>
    BY DEF SeesPosition, ClosureUnresolved, ReadPrice, Monitored, StopReplyLost, StopRefused,
           At, broker
  <1>2. PICK x \in { [run[r] EXCEPT !.pc = "price"], [run[r] EXCEPT !.pc = "commit"],
                     [run[r] EXCEPT !.pc = "monitor"],
                     [run[r] EXCEPT !.px = price, !.pc = "monitor"] } :
          /\ run' = [run EXCEPT ![r] = x]
          /\ x.pc = "price" => At(r, "query")
    BY DEF SeesPosition, ClosureUnresolved, ReadPrice, Monitored, StopReplyLost, StopRefused,
           Goto, Become
  <1>3. price \in Int
    BY MonitorAssumption DEF FInv, TypeOK
  <1>4. x \in RunRecord /\ x.m = run[r].m /\ x.pc \in {"price", "commit", "monitor"}
    BY <1>1, <1>2, <1>3, Running DEF RunRecord
  <1>5. x.pc = "price" => x.m = row
    BY <1>1, <1>2, <1>4, Running DEF RunSpares, At
  <1>6. bstop' \in Int
    BY <1>1, Running DEF SeesPosition, ClosureUnresolved, ReadPrice, Monitored,
           StopReplyLost, StopRefused, broker, RunRecord
  <1>7. /\ x.pc \notin {"recheck", "idle"}
        /\ x.pc \in {"query", "price"} => x.m = row
        /\ \A i \in Targets : x.m.target[i] = "WAITING" => run[r].m.target[i] = "WAITING"
    BY <1>4, <1>5
  <1> QED BY <1>1, <1>2, <1>4, <1>6, <1>7, FQuiet

LEMMA FStopMoved ==
  ASSUME FInv, NEW r \in Monitors, StopMoved(r) PROVE FInv'
  <1> DEFINE m == [run[r].m EXCEPT !.stop = run[r].to]
             x == [run[r] EXCEPT !.m = m, !.pc = "monitor"]
  <1>1. ~At(r, "idle") /\ ~At(r, "recheck") /\ UNCHANGED <<row, lock, bvol, fills, price, faults>>
    BY DEF StopMoved, At
  <1>2. run[r].to \in Int /\ bstop' \in Int
    BY <1>1, Running DEF StopMoved, RunRecord
  <1>3. m \in Record /\ m.target = run[r].m.target
    BY <1>1, <1>2, Running DEF Record
  <1>4. run' = [run EXCEPT ![r] = x]
    BY DEF StopMoved, Copy, Become
  <1> HIDE DEF m
  <1>5. x \in RunRecord /\ x.m = m /\ x.pc = "monitor"
    BY <1>1, <1>3, Running DEF RunRecord
  <1> HIDE DEF x
  <1> QED BY <1>1, <1>2, <1>3, <1>4, <1>5, FQuiet

LEMMA FSeesFlat ==
  ASSUME FInv, NEW r \in Monitors, SeesFlat(r) PROVE FInv'
  <1>1. /\ ~At(r, "idle") /\ ~At(r, "recheck")
        /\ UNCHANGED <<row, lock, bvol, bstop, fills, price, faults>>
    BY DEF SeesFlat, At, broker
  <1>2. PICK done \in {{}, {"WAITING", "MERGED"}} : Copy(r, Closed(run[r].m, done), "commit")
    BY DEF SeesFlat
  <1> DEFINE m == Closed(run[r].m, done)
             x == [run[r] EXCEPT !.m = m, !.pc = "commit"]
  <1>3. m \in Record
    BY <1>1, Running, ClosedIsRecord
  <1>4. \A i \in Targets : m.target[i] \in {run[r].m.target[i], "EXECUTED"}
    BY <1>1, Running DEF Closed, Record
  <1>5. run' = [run EXCEPT ![r] = x]
    BY <1>2 DEF Copy, Become
  <1> HIDE DEF m
  <1>6. x \in RunRecord /\ x.m = m /\ x.pc = "commit"
    BY <1>1, <1>3, Running DEF RunRecord
  <1> HIDE DEF x
  <1>7. /\ bstop' \in Int
        /\ \A i \in Targets : x.m.target[i] = "WAITING" => run[r].m.target[i] = "WAITING"
    BY <1>1, <1>4, <1>6, Running
  <1> QED BY <1>1, <1>5, <1>6, <1>7, FQuiet

LEMMA FStops ==
  ASSUME FInv, NEW r \in Monitors, Commit(r) \/ Unhealthy(r) \/ Rollback(r)
  PROVE  FInv'
  <1>0. ~At(r, "idle") /\ Stopped(r) /\ UNCHANGED <<broker, price>>
    BY DEF Commit, Unhealthy, Rollback, At
  <1>1. CASE Commit(r)
    <2>1. \A i \in Targets : Spare(run[r].m, i)
      BY <1>0, <1>1, Running DEF Commit, RunSpares, Shows, At
    <2>2. row' = run[r].m /\ faults' = faults /\ fills' = fills
      BY <1>1 DEF Commit, broker
    <2>3. \A i \in Targets : Spare(row, i)'
      BY <2>1, <2>2 DEF Spare
    <2>4. row' \in Record /\ faults' \in 0..MaxFaults /\ faults <= faults'
      BY <1>0, <2>2, Running DEF FInv, TypeOK
    <2> QED BY <1>0, <2>3, <2>4, FEnd
  <1>2. CASE Unhealthy(r)
    <2>1. \A i \in Targets : Spare(row, i)
      BY <1>0, <1>2, Running DEF Unhealthy, RunSpares, Shows, At
    <2>2. row' = row /\ faults' = faults /\ fills' = fills
      BY <1>2 DEF Unhealthy, broker
    <2>3. \A i \in Targets : Spare(row, i)'
      BY <2>1, <2>2 DEF Spare
    <2>4. row' \in Record /\ faults' \in 0..MaxFaults /\ faults <= faults'
      BY <1>0, <2>2, Running DEF FInv, TypeOK
    <2> QED BY <1>0, <2>3, <2>4, FEnd
  <1>3. CASE Rollback(r)
    <2>1. row' = row /\ faults' = faults + 1 /\ fills' = fills
      BY <1>3 DEF Rollback, broker
    <2>2. \A i \in Targets : Spare(row, i)'
      BY <1>0, <2>1, Running DEF Spare, FInv, FillsBounded
    <2>3. row' \in Record /\ faults' \in 0..MaxFaults /\ faults <= faults'
      BY <1>0, <1>3, <2>1, Running, MonitorAssumption DEF FInv, TypeOK, Rollback
    <2> QED BY <1>0, <2>2, <2>3, FEnd
  <1> QED BY <1>1, <1>2, <1>3

(* The broker's volume goes, or only the price moves.                      *)
LEMMA FWorld ==
  ASSUME FInv, BrokerCloses \/ PriceMoves PROVE FInv'
  <1>1. UNCHANGED <<row, lock, bstop, fills, run, faults>>
    BY DEF BrokerCloses, PriceMoves, broker
  <1>2. bvol' \in 0..Volume /\ bvol' <= bvol /\ price' \in Prices \union {Entry}
    BY VolumeAssumption DEF BrokerCloses, PriceMoves, FInv, TypeOK, broker
  <1>3. TypeOK'
    BY <1>1, <1>2 DEF FInv, TypeOK, At
  <1>4. ASSUME NEW r \in Monitors, ~At(r, "idle") PROVE RunSpares(r)'
    <2>1. ASSUME NEW i \in Targets, Shows(r, i) PROVE Shows(r, i)'
      <3>1. IsNext(r, i)' /\ At(r, "recheck")'
        BY <1>1, <2>1 DEF Shows, IsNext, Due, At
      <3>2. Quantity(r, i, run[r].orig)' = Quantity(r, i, run[r].orig)
        BY <1>1 DEF Quantity, All, Vol
      <3>3. Vol(r, i) \in Nat /\ run[r].orig \in 0..Volume /\ bvol \in 0..Volume
        BY <1>4, Running, VolTyped, VolumeAssumption DEF RunRecord
      <3>4. Quantity(r, i, run[r].orig) \in Nat
        BY <3>3, VolumeAssumption DEF Quantity
      <3>5. bvol <= run[r].orig - Quantity(r, i, run[r].orig)
        BY <2>1 DEF Shows
      <3>6. bvol' <= run[r].orig - Quantity(r, i, run[r].orig)
        BY <1>2, <3>3, <3>4, <3>5, VolumeAssumption
      <3>7. bvol' <= (run[r].orig - Quantity(r, i, run[r].orig))'
        BY <1>1, <3>2, <3>6
      <3> QED BY <3>1, <3>7 DEF Shows
    <2>2. \A i \in Targets : Spare(run[r].m, i) => Spare(run[r].m, i)'
      BY <1>1 DEF Spare
    <2> QED BY <1>1, <1>4, <2>1, <2>2, Running DEF RunSpares
  <1> QED BY <1>1, <1>3, <1>4 DEF FInv, FillsBounded, At, Spare

LEMMA NextKeepsFInv == FInv /\ [Next]_vars => FInv'
  <1> SUFFICES ASSUME FInv, [Next]_vars PROVE FInv'
    OBVIOUS
  <1>1. ASSUME NEW r \in Monitors, Work(r) PROVE FInv'
    <2>1. CASE Start(r)
      BY <2>1, FStart
    <2>2. CASE CloseFilled(r)
      BY <2>2, FCloseFilled
    <2>3. CASE CloseLost(r)
      BY <2>3, FCloseLost
    <2>4. CASE RecheckResend(r)
      BY <2>4, FRecheckResend
    <2>5. CASE CloseRefused(r) \/ RecheckRefused(r) \/ RecheckDone(r)
      BY <2>5, FSettled
    <2>6. CASE Monitored(r) \/ StopReplyLost(r) \/ StopRefused(r)
      BY <2>6, FPlain
    <2>7. CASE StopMoved(r)
      BY <2>7, FStopMoved
    <2>8. CASE Commit(r)
      BY <2>8, FStops
    <2> QED BY <1>1, <2>1, <2>2, <2>3, <2>4, <2>5, <2>6, <2>7, <2>8 DEF Work
  <1>2. ASSUME NEW r \in Monitors, Query(r) \/ ReadPrice(r) \/ ClosureUnresolved(r)
        PROVE  FInv'
    BY <1>2, FPlain, FSeesFlat DEF Query
  <1>3. ASSUME NEW r \in Monitors, Unhealthy(r) \/ Rollback(r) PROVE FInv'
    BY <1>3, FStops
  <1>4. CASE UNCHANGED vars
    <2>1. UNCHANGED <<row, lock, bvol, bstop, fills, price, run, faults>>
      BY <1>4 DEF vars, broker
    <2> QED BY <2>1 DEF FInv, TypeOK, FillsBounded, Spare, RunSpares, Shows, At, IsNext, Due,
                        Quantity, All, Vol
  <1> QED BY <1>1, <1>2, <1>3, <1>4, FWorld DEF Next

(* Whatever the queries answer, every reachable state is well typed: the   *)
(* copies, the volumes that are subtracted, and only the holder of the     *)
(* row's lock is running.                                                  *)
THEOREM TypeCorrect == Spec => []TypeOK
  <1>1. FInv => TypeOK
    BY DEF FInv
  <1> QED BY InitFInv, NextKeepsFInv, <1>1, PTL DEF Spec

(* A target is sold whole at most once, and once more for every run that   *)
(* was rolled back: a lost reply alone never has what was sold sold again. *)
THEOREM FillsAreBounded == Spec => []FillsBounded
  <1>1. FInv => FillsBounded
    BY DEF FInv
  <1> QED BY InitFInv, NextKeepsFInv, <1>1, PTL DEF Spec

-----------------------------------------------------------------------------
(* Sums over finite sets, as MapThenSumSet computes them: it unrolls a     *)
(* recursive function over an arbitrary order of the set; the lemmas say   *)
(* what that function returns whatever the order, by induction on the size *)
(* of the set, each from the least size that would refute it.              *)
Sum(f, S) == MapThenSumSet(LAMBDA s : f[s], S)
Pick(S) == CHOOSE x \in S : TRUE
Unrolled(f, S, iter) == [s \in SUBSET S |-> IF s = {} THEN 0 ELSE f[Pick(s)] + iter[s \ {Pick(s)}]]

LEMMA Unfold ==
  ASSUME NEW f, NEW S
  PROVE Sum(f, S) = (CHOOSE iter : iter = Unrolled(f, S, iter))[S]
  BY Zenon DEF Sum, MapThenSumSet, MapThenFoldSet, Pick, Unrolled

LEMMA Picked == ASSUME NEW S, S # {} PROVE Pick(S) \in S
  BY DEF Pick

LEMMA Same ==
  ASSUME NEW f, NEW g, NEW S, \A s \in S : f[s] = g[s]
  PROVE Sum(f, S) = Sum(g, S)
  <1>1. ASSUME NEW iter PROVE Unrolled(f, S, iter) = Unrolled(g, S, iter)
    <2>1. \A s \in SUBSET S : s # {} => f[Pick(s)] = g[Pick(s)]
      BY Picked
    <2> QED BY <2>1 DEF Unrolled
  <1>2. \A iter : (iter = Unrolled(f, S, iter)) <=> (iter = Unrolled(g, S, iter))
    BY <1>1
  <1>3. (CHOOSE iter : iter = Unrolled(f, S, iter)) = (CHOOSE iter : iter = Unrolled(g, S, iter))
    BY Zenon, <1>2
  <1> QED BY <1>3, Unfold

LEMMA LeastNat ==
  ASSUME NEW B \in SUBSET Nat, B # {}
  PROVE \E n \in B : \A m \in B : n <= m
  <1>1. PICK n \in B : \A m \in B : ~(<<m, n>> \in OpToRel(<, Nat))
    BY Zenon, WFMin, NatLessThanWellFounded
  <1>2. \A m \in B : ~(m < n)
    BY <1>1 DEF OpToRel
  <1> QED BY <1>2

(* The sums over the subsets of S of up to n elements, by induction on n.  *)
Small(S, n) == {s \in SUBSET S : Cardinality(s) <= n}
Adds(f, F, D) == \A s \in D : F[s] = IF s = {} THEN 0 ELSE f[Pick(s)] + F[s \ {Pick(s)}]

LEMMA Drop ==
  ASSUME NEW S, IsFiniteSet(S), NEW s \in SUBSET S, s # {}
  PROVE /\ Pick(s) \in s /\ s \ {Pick(s)} \in SUBSET S
        /\ Cardinality(s \ {Pick(s)}) = Cardinality(s) - 1
        /\ Cardinality(s) \in Nat \ {0}
        /\ Cardinality(s \ {Pick(s)}) \in Nat
  <1>1. Pick(s) \in s /\ IsFiniteSet(s)
    BY Picked, FS_Subset
  <1>2. Cardinality(s \ {Pick(s)}) = Cardinality(s) - 1
    BY <1>1, FS_RemoveElement
  <1>3. Cardinality(s) \in Nat /\ Cardinality(s) # 0
    BY <1>1, FS_CardinalityType, FS_EmptySet
  <1> QED BY <1>1, <1>2, <1>3

LEMMA AddsExist ==
  ASSUME NEW S, IsFiniteSet(S), NEW f \in [S -> Int], NEW k \in Nat
  PROVE \E F \in [Small(S, k) -> Int] : Adds(f, F, Small(S, k))
  <1> DEFINE B == {n \in Nat : ~(\E F \in [Small(S, n) -> Int] : Adds(f, F, Small(S, n)))}
  <1> SUFFICES ASSUME B # {} PROVE FALSE
    OBVIOUS
  <1>1. PICK n \in B : \A m \in B : n <= m
    BY LeastNat
  <1>2. n \in Nat /\ ~(\E F \in [Small(S, n) -> Int] : Adds(f, F, Small(S, n)))
    BY <1>1
  <1>3. CASE n = 0
    <2>1. Small(S, 0) = {{}}
      BY FS_EmptySet, FS_Subset, FS_CardinalityType DEF Small
    <2>2. [s \in {{}} |-> 0] \in [Small(S, 0) -> Int] /\ Adds(f, [s \in {{}} |-> 0], Small(S, 0))
      BY <2>1 DEF Adds
    <2> QED BY <1>2, <1>3, <2>2
  <1>4. CASE n # 0
    <2>1. n - 1 \in Nat /\ n - 1 \notin B
      BY <1>1, <1>2, <1>4
    <2>2. PICK F \in [Small(S, n - 1) -> Int] : Adds(f, F, Small(S, n - 1))
      BY <2>1
    <2> DEFINE G == [s \in Small(S, n) |-> IF s = {} THEN 0 ELSE f[Pick(s)] + F[s \ {Pick(s)}]]
    <2>3. ASSUME NEW s \in Small(S, n), s # {}
          PROVE  s \ {Pick(s)} \in Small(S, n - 1) /\ f[Pick(s)] \in Int
      BY <1>2, <2>3, Drop DEF Small
    <2>4. G \in [Small(S, n) -> Int]
      BY <2>3
    <2>5. \A t \in Small(S, n - 1) : t \in Small(S, n) /\ G[t] = F[t]
      <3> TAKE t \in Small(S, n - 1)
      <3>1. t \in Small(S, n)
        BY <1>2, FS_Subset, FS_CardinalityType DEF Small
      <3>2. F[t] = IF t = {} THEN 0 ELSE f[Pick(t)] + F[t \ {Pick(t)}]
        BY <2>2 DEF Adds
      <3> QED BY <3>1, <3>2
    <2>6. \A s \in Small(S, n) : G[s] = IF s = {} THEN 0 ELSE f[Pick(s)] + G[s \ {Pick(s)}]
      BY <2>3, <2>5
    <2>7. Adds(f, G, Small(S, n))
      BY <2>6 DEF Adds
    <2> QED BY <1>2, <2>4, <2>7
  <1> QED BY <1>3, <1>4

LEMMA SumAdds ==
  ASSUME NEW S, IsFiniteSet(S), NEW f \in [S -> Int]
  PROVE \E it : Adds(f, it, SUBSET S) /\ Sum(f, S) = it[S]
  <1>1. Small(S, Cardinality(S)) = SUBSET S /\ Cardinality(S) \in Nat
    BY FS_Subset, FS_CardinalityType DEF Small
  <1>2. \E F \in [Small(S, Cardinality(S)) -> Int] : Adds(f, F, Small(S, Cardinality(S)))
    BY <1>1, AddsExist
  <1>3. PICK F \in [SUBSET S -> Int] : Adds(f, F, SUBSET S)
    BY <1>1, <1>2
  <1>4. F = Unrolled(f, S, F)
    BY <1>3 DEF Adds, Unrolled
  <1>5. PICK it : it = (CHOOSE i : i = Unrolled(f, S, i))
    OBVIOUS
  <1>6. it = Unrolled(f, S, it)
    BY <1>4, <1>5
  <1>7. Adds(f, it, SUBSET S)
    BY <1>6 DEF Adds, Unrolled
  <1> QED BY <1>5, <1>7, Unfold

(* The empty sum.                                                          *)
LEMMA SumEmpty == ASSUME NEW f PROVE Sum(f, {}) = 0
  <1>1. PICK g \in [{} -> Int] : TRUE
    <2>1. [s \in {} |-> 0] \in [{} -> Int]
      OBVIOUS
    <2> QED BY <2>1
  <1>2. Sum(f, {}) = Sum(g, {})
    BY Same
  <1>3. PICK it : Adds(g, it, SUBSET {}) /\ Sum(g, {}) = it[{}]
    BY FS_EmptySet, SumAdds
  <1> QED BY <1>2, <1>3 DEF Adds

(* The recursion has one solution.                                         *)
LEMMA AddsAgree ==
  ASSUME NEW T, IsFiniteSet(T), NEW f, NEW F, NEW G,
         Adds(f, F, SUBSET T), Adds(f, G, SUBSET T)
  PROVE  F[T] = G[T]
  <1> DEFINE B == {n \in Nat : \E s \in SUBSET T : Cardinality(s) = n /\ F[s] # G[s]}
  <1>1. B = {}
    <2> SUFFICES ASSUME B # {} PROVE FALSE
      OBVIOUS
    <2>1. PICK n \in B : \A m \in B : n <= m
      BY LeastNat
    <2>2. PICK s \in SUBSET T : Cardinality(s) = n /\ F[s] # G[s]
      BY <2>1
    <2>3. /\ F[s] = IF s = {} THEN 0 ELSE f[Pick(s)] + F[s \ {Pick(s)}]
          /\ G[s] = IF s = {} THEN 0 ELSE f[Pick(s)] + G[s \ {Pick(s)}]
      BY DEF Adds
    <2>4. s # {}
      BY <2>2, <2>3
    <2>5. /\ Pick(s) \in s /\ s \ {Pick(s)} \in SUBSET T
          /\ Cardinality(s \ {Pick(s)}) = n - 1 /\ n \in Nat \ {0} /\ n - 1 \in Nat
      BY <2>2, <2>4, Drop
    <2>6. F[s \ {Pick(s)}] # G[s \ {Pick(s)}]
      BY <2>2, <2>3, <2>4, <2>5
    <2>7. n - 1 \in B
      BY <2>5, <2>6
    <2> QED BY <2>1, <2>5, <2>7
  <1>2. Cardinality(T) \in Nat
    BY FS_CardinalityType
  <1> QED BY <1>1, <1>2

(* Its value at a subset is the sum over that subset.                      *)
LEMMA SumsAdd ==
  ASSUME NEW S, IsFiniteSet(S), NEW f \in [S -> Int]
  PROVE  \A s \in SUBSET S : s # {} => Sum(f, s) = f[Pick(s)] + Sum(f, s \ {Pick(s)})
  <1>1. PICK it : Adds(f, it, SUBSET S) /\ Sum(f, S) = it[S]
    BY SumAdds
  <1>2. ASSUME NEW s \in SUBSET S PROVE Sum(f, s) = it[s]
    <2>1. PICK g \in [s -> Int] : \A x \in s : g[x] = f[x]
      <3>1. [x \in s |-> f[x]] \in [s -> Int]
        OBVIOUS
      <3> QED BY <3>1
    <2>2. IsFiniteSet(s)
      BY FS_Subset
    <2>3. PICK G : Adds(g, G, SUBSET s) /\ Sum(g, s) = G[s]
      BY <2>2, SumAdds
    <2>4. it[s] = G[s]
      <3>1. Adds(f, it, SUBSET s)
        BY <1>1 DEF Adds
      <3>2. \A t \in SUBSET s : t # {} => g[Pick(t)] = f[Pick(t)]
        BY <2>1, Picked
      <3>3. Adds(f, G, SUBSET s)
        BY <2>3, <3>2 DEF Adds
      <3> QED BY <2>2, <3>1, <3>3, AddsAgree
    <2>5. Sum(f, s) = Sum(g, s)
      BY <2>1, Same
    <2> QED BY <2>3, <2>4, <2>5
  <1> TAKE s \in SUBSET S
  <1> HAVE s # {}
  <1>3. s \ {Pick(s)} \in SUBSET S
    OBVIOUS
  <1>4. it[s] = f[Pick(s)] + it[s \ {Pick(s)}]
    BY <1>1 DEF Adds
  <1> QED BY <1>2, <1>3, <1>4

LEMMA SumIsInt ==
  ASSUME NEW S, IsFiniteSet(S), NEW f, \A s \in S : f[s] \in Int
  PROVE Sum(f, S) \in Int
  <1>1. PICK g \in [S -> Int] : \A s \in S : g[s] = f[s]
    <2>1. [s \in S |-> f[s]] \in [S -> Int]
      OBVIOUS
    <2> QED BY <2>1
  <1>2. Sum(f, S) = Sum(g, S)
    BY <1>1, Same
  <1>3. PICK it : Adds(g, it, SUBSET S) /\ Sum(g, S) = it[S]
    BY SumAdds
  <1> DEFINE B == {n \in Nat : \E s \in SUBSET S : Cardinality(s) = n /\ it[s] \notin Int}
  <1>4. B = {}
    <2> SUFFICES ASSUME B # {} PROVE FALSE
      OBVIOUS
    <2>1. PICK n \in B : \A m \in B : n <= m
      BY LeastNat
    <2>2. PICK s \in SUBSET S : Cardinality(s) = n /\ it[s] \notin Int
      BY <2>1
    <2>3. it[s] = IF s = {} THEN 0 ELSE g[Pick(s)] + it[s \ {Pick(s)}]
      BY <1>3 DEF Adds
    <2>4. s # {}
      BY <2>2, <2>3
    <2>5. /\ Pick(s) \in s /\ s \ {Pick(s)} \in SUBSET S
          /\ Cardinality(s \ {Pick(s)}) = n - 1 /\ n \in Nat \ {0} /\ n - 1 \in Nat
      BY <2>2, <2>4, Drop
    <2>6. it[s \ {Pick(s)}] \notin Int
      BY <1>1, <2>2, <2>3, <2>4, <2>5
    <2>7. n - 1 \in B
      BY <2>5, <2>6
    <2> QED BY <2>1, <2>5, <2>7
  <1>5. Cardinality(S) \in Nat
    BY FS_CardinalityType
  <1> QED BY <1>2, <1>3, <1>4, <1>5

(* Any element may be added last.                                          *)
LEMMA SumSplit ==
  ASSUME NEW S, IsFiniteSet(S), NEW f \in [S -> Int], NEW x \in S
  PROVE  Sum(f, S) = f[x] + Sum(f, S \ {x})
  <1> DEFINE Splits(s) == \A y \in s : Sum(f, s) = f[y] + Sum(f, s \ {y})
             B == {n \in Nat : \E s \in SUBSET S : Cardinality(s) = n /\ ~Splits(s)}
  <1>1. ASSUME NEW s \in SUBSET S PROVE IsFiniteSet(s) /\ Cardinality(s) \in Nat /\ Sum(f, s) \in Int
    BY FS_Subset, FS_CardinalityType, SumIsInt
  <1>2. B = {}
    <2> SUFFICES ASSUME B # {} PROVE FALSE
      OBVIOUS
    <2>1. PICK n \in B : \A m \in B : n <= m
      BY LeastNat
    <2>2. PICK s \in SUBSET S : Cardinality(s) = n /\ ~Splits(s)
      BY <2>1
    <2>3. PICK y \in s : Sum(f, s) # f[y] + Sum(f, s \ {y})
      BY <2>2
    <2> DEFINE c == Pick(s)
               s1 == s \ {c}
               s2 == s \ {y}
    <2>4. s # {} /\ c \in s /\ Sum(f, s) = f[c] + Sum(f, s1)
      BY <2>3, SumsAdd, Picked
    <2>5. c # y
      BY <2>3, <2>4
    <2>6. s1 \in SUBSET S /\ s2 \in SUBSET S /\ y \in s1 /\ c \in s2 /\ s1 \ {y} = s2 \ {c}
          /\ s1 \ {y} \in SUBSET S
      BY <2>4, <2>5
    <2>7. Cardinality(s1) = n - 1 /\ Cardinality(s2) = n - 1 /\ n \in Nat
      BY <1>1, <2>2, <2>4, FS_RemoveElement
    <2>8. n - 1 \in Nat /\ n - 1 \notin B
      BY <1>1, <2>1, <2>6, <2>7
    <2>9. Splits(s1) /\ Splits(s2)
      BY <2>6, <2>7, <2>8
    <2>10. /\ Sum(f, s1) = f[y] + Sum(f, s1 \ {y})
           /\ Sum(f, s2) = f[c] + Sum(f, s1 \ {y})
      BY <2>6, <2>9
    <2>11. f[c] \in Int /\ f[y] \in Int /\ Sum(f, s1 \ {y}) \in Int
      BY <1>1, <2>4, <2>6
    <2> HIDE DEF c, s1, s2
    <2>12. Sum(f, s) = f[y] + Sum(f, s2)
      BY <2>4, <2>10, <2>11
    <2> QED BY <2>3, <2>12 DEF s2
  <1>3. Splits(S)
    BY <1>1, <1>2
  <1> QED BY <1>3

(* A sum of natural numbers is one, and at least each of them.             *)
LEMMA SumOfNat ==
  ASSUME NEW S, IsFiniteSet(S), NEW f \in [S -> Nat]
  PROVE  Sum(f, S) \in Nat
  <1>1. f \in [S -> Int]
    OBVIOUS
  <1> DEFINE B == {n \in Nat : \E s \in SUBSET S : Cardinality(s) = n /\ Sum(f, s) \notin Nat}
  <1>2. B = {}
    <2> SUFFICES ASSUME B # {} PROVE FALSE
      OBVIOUS
    <2>1. PICK n \in B : \A m \in B : n <= m
      BY LeastNat
    <2>2. PICK s \in SUBSET S : Cardinality(s) = n /\ Sum(f, s) \notin Nat
      BY <2>1
    <2>3. s # {}
      BY <2>2, SumEmpty
    <2>4. Sum(f, s) = f[Pick(s)] + Sum(f, s \ {Pick(s)})
      BY <1>1, <2>3, SumsAdd
    <2>5. /\ Pick(s) \in s /\ s \ {Pick(s)} \in SUBSET S
          /\ Cardinality(s \ {Pick(s)}) = n - 1 /\ n \in Nat \ {0} /\ n - 1 \in Nat
      BY <2>2, <2>3, Drop
    <2>6. Sum(f, s \ {Pick(s)}) \notin Nat
      BY <2>2, <2>4, <2>5
    <2>7. n - 1 \in B
      BY <2>5, <2>6
    <2> QED BY <2>1, <2>5, <2>7
  <1>3. Cardinality(S) \in Nat
    BY FS_CardinalityType
  <1> QED BY <1>2, <1>3

LEMMA SumCovers ==
  ASSUME NEW S, IsFiniteSet(S), NEW f \in [S -> Nat], NEW x \in S
  PROVE  f[x] <= Sum(f, S)
  <1>1. f \in [S -> Int]
    OBVIOUS
  <1>2. Sum(f, S) = f[x] + Sum(f, S \ {x})
    BY <1>1, SumSplit
  <1>3. PICK g \in [S \ {x} -> Nat] : \A y \in S \ {x} : g[y] = f[y]
    <2>1. [y \in S \ {x} |-> f[y]] \in [S \ {x} -> Nat]
      OBVIOUS
    <2> QED BY <2>1
  <1>4. Sum(f, S \ {x}) \in Nat
    <2>1. Sum(f, S \ {x}) = Sum(g, S \ {x})
      BY <1>3, Same
    <2> QED BY <2>1, SumOfNat, FS_Subset
  <1> QED BY <1>2, <1>4

-----------------------------------------------------------------------------
(* What a step of run r does to its copy: nothing, a new stop, a target    *)
(* that is given up or taken, or the closure the broker reports.  Any step *)
(* but these leaves every copy alone, or ends a run.                       *)
Advances(r, x) ==
  \/ x.pc # "protect" /\ x.m = run[r].m
  \/ x.pc = "monitor" /\ At(r, "protect") /\ x.m = [run[r].m EXCEPT !.stop = run[r].to]
  \/ x.pc = "commit" /\ \E done \in {{}, {"WAITING", "MERGED"}} : x.m = Closed(run[r].m, done)
  \/ x.pc = "commit" /\ \E i \in Targets : /\ IsNext(r, i)
                                           /\ x.m = [run[r].m EXCEPT !.target[i] = "FAILED"]
  \/ \E i \in Targets : /\ IsNext(r, i)
                        /\ \E short : x.m = Taken(run[r].m, i, Vol(r, i), short)
                        /\ x.to = Protection(r, i)
                        /\ x.pc = Onward(r, i, run[r].m.remaining - Vol(r, i))

(* The target is there and its volume, if it is to be sold, is still there.*)
Left(m) == {i \in Targets : m.target[i] # "EXECUTED"}
Explained(m) ==
  m.status = "OPEN" => m.remaining + m.logged = Volume /\ Sum(Alloc, Left(m)) <= m.remaining
EInv ==
  /\ FInv /\ Explained(row)
  /\ \A r \in Monitors : ~At(r, "idle") =>
       /\ Explained(run[r].m)
       /\ ~At(r, "commit") => run[r].m.status = "OPEN"

LEMMA AllocSums ==
  ASSUME NEW S \in SUBSET Targets
  PROVE  /\ Sum(Alloc, S) \in Nat
         /\ \A i \in S : Alloc[i] <= Sum(Alloc, S)
         /\ \A i \in S : Sum(Alloc, S \ {i}) = Sum(Alloc, S) - Alloc[i]
  <1>1. PICK g \in [S -> Nat] : \A i \in S : g[i] = Alloc[i]
    <2>1. [i \in S |-> Alloc[i]] \in [S -> Nat]
      BY MonitorAssumption
    <2> QED BY <2>1
  <1>2. IsFiniteSet(S) /\ g \in [S -> Int]
    BY <1>1, PlanAssumption, FS_Subset
  <1>3. Sum(Alloc, S) = Sum(g, S)
    BY <1>1, Same
  <1>4. Sum(g, S) \in Nat /\ \A i \in S : g[i] <= Sum(g, S)
    BY <1>2, SumOfNat, SumCovers
  <1>5. ASSUME NEW i \in S PROVE Sum(Alloc, S \ {i}) = Sum(Alloc, S) - Alloc[i]
    <2>1. Sum(Alloc, S \ {i}) = Sum(g, S \ {i})
      BY <1>1, Same
    <2>2. Sum(g, S) = g[i] + Sum(g, S \ {i})
      BY <1>2, SumSplit
    <2>3. Sum(g, S \ {i}) \in Int
      BY <1>2, SumIsInt, FS_Subset
    <2>4. Sum(g, S \ {i}) = Sum(g, S) - g[i]
      BY <1>4, <2>2, <2>3
    <2> QED BY <1>1, <1>3, <2>1, <2>4
  <1> QED BY <1>1, <1>3, <1>4, <1>5

LEMMA InitEInv == Init => EInv
  <1> SUFFICES ASSUME Init PROVE EInv
    OBVIOUS
  <1>1. \A r \in Monitors : At(r, "idle")
    BY DEF Init, At, NotRunning
  <1>2. Sum(Alloc, Targets) <= Volume
    BY PlanAssumption DEF Sum
  <1>3. Left(row) = Targets
    BY DEF Init, Opened, Left
  <1>4. Explained(row)
    BY <1>2, <1>3, VolumeAssumption DEF Explained, Init, Opened
  <1> QED BY <1>1, <1>4, InitFInv DEF EInv

(* Each way to advance keeps the account.                                  *)
LEMMA AdvanceExplained ==
  ASSUME EInv, NEW r \in Monitors, ~At(r, "idle"), NEW x, Advances(r, x),
         ~At(r, "commit"), x.pc # "idle"
  PROVE  Explained(x.m) /\ (x.pc # "commit" => x.m.status = "OPEN")
  <1> DEFINE m == run[r].m
  <1>1. /\ m \in Record /\ m.status = "OPEN" /\ m.logged \in Nat
        /\ m.remaining \in 0..Volume
        /\ m.remaining + m.logged = Volume /\ Sum(Alloc, Left(m)) <= m.remaining
    BY Running DEF EInv, Explained, Record
  <1> HIDE DEF m
  <1>2. CASE x.m = m
    BY <1>1, <1>2 DEF Explained
  <1>3. CASE x.m = [m EXCEPT !.stop = run[r].to]
    <2>1. /\ x.m.status = "OPEN" /\ x.m.remaining = m.remaining /\ x.m.logged = m.logged
          /\ x.m.target = m.target
      BY <1>1, <1>3 DEF Record
    <2> QED BY <1>1, <2>1 DEF Explained, Left
  <1>4. CASE x.pc = "commit" /\ \E done \in {{}, {"WAITING", "MERGED"}} : x.m = Closed(m, done)
    <2> x.m.status = "CLOSED"
      BY <1>1, <1>4 DEF Closed, Record
    <2> QED BY <1>4 DEF Explained
  <1>5. ASSUME NEW i \in Targets, IsNext(r, i), x.m = [m EXCEPT !.target[i] = "FAILED"]
        PROVE  Explained(x.m) /\ (x.pc # "commit" => x.m.status = "OPEN")
    <2>1. /\ x.m.status = "OPEN" /\ x.m.remaining = m.remaining /\ x.m.logged = m.logged
          /\ x.m.target = [m.target EXCEPT ![i] = "FAILED"]
      BY <1>1, <1>5 DEF Record
    <2>2. m.target[i] = "WAITING" /\ DOMAIN m.target = Targets
      BY <1>1, <1>5 DEF IsNext, Due, m, Record
    <2>3. Left(x.m) = Left(m)
      BY <2>1, <2>2 DEF Left
    <2> QED BY <1>1, <2>1, <2>3 DEF Explained
  <1>6. ASSUME NEW i \in Targets, IsNext(r, i), NEW short, x.m = Taken(m, i, Vol(r, i), short),
               x.pc = Onward(r, i, m.remaining - Vol(r, i))
        PROVE  Explained(x.m) /\ (x.pc # "commit" => x.m.status = "OPEN")
    <2>1. m.target[i] = "WAITING" /\ DOMAIN m.target = Targets
      BY <1>1, <1>6 DEF IsNext, Due, m, Record
    <2>2. i \in Left(m) /\ Left(m) \in SUBSET Targets
      BY <2>1 DEF Left
    <2>3. /\ Alloc[i] <= Sum(Alloc, Left(m)) /\ Sum(Alloc, Left(m)) \in Nat /\ Alloc[i] \in Nat
          /\ Sum(Alloc, Left(m) \ {i}) = Sum(Alloc, Left(m)) - Alloc[i]
      BY <2>2, AllocSums, MonitorAssumption
    <2>4. Vol(r, i) = Alloc[i]
      BY <1>1, <2>3, VolumeAssumption DEF Vol, m
    <2>5. /\ x.m.status = IF m.remaining = Alloc[i] THEN "CLOSED" ELSE m.status
          /\ x.m.remaining = m.remaining - Alloc[i] /\ x.m.logged = m.logged + Alloc[i]
          /\ x.m.target = [m.target EXCEPT ![i] = "EXECUTED"]
      BY <1>1, <1>6, <2>4 DEF Taken, Record
    <2>6. Left(x.m) = Left(m) \ {i}
      BY <2>1, <2>5 DEF Left
    <2>7. Explained(x.m)
      BY <1>1, <2>3, <2>5, <2>6, VolumeAssumption DEF Explained
    <2>8. x.pc # "commit" => m.remaining # Alloc[i]
      BY <1>1, <1>6, <2>3, <2>4, VolumeAssumption DEF Onward
    <2> QED BY <1>1, <2>5, <2>7, <2>8
  <1> QED BY <1>2, <1>3, <1>4, <1>5, <1>6 DEF Advances, m

(* A run that is not at its end: every step but its last is an advance.    *)
Goes(r) ==
  \/ Query(r) \/ ReadPrice(r) \/ ClosureUnresolved(r)
  \/ Monitored(r) \/ CloseFilled(r) \/ CloseRefused(r) \/ CloseLost(r)
  \/ RecheckDone(r) \/ RecheckResend(r) \/ RecheckRefused(r)
  \/ StopMoved(r) \/ StopReplyLost(r) \/ StopRefused(r)

LEMMA StepAdvances ==
  ASSUME FInv, NEW r \in Monitors, Goes(r)
  PROVE  /\ ~At(r, "idle") /\ ~At(r, "commit") /\ row' = row /\ faults' = faults
         /\ \E x : /\ run' = [run EXCEPT ![r] = x] /\ Advances(r, x) /\ x.pc # "idle"
                   /\ run'[r] = x
         /\ \A q \in Monitors \ {r} : run[q].pc = "idle" /\ run'[q] = run[q]
  <1>1. ~At(r, "idle") /\ ~At(r, "commit") /\ row' = row /\ faults' = faults
    BY DEF Goes, Query, SeesPosition, SeesFlat, ReadPrice, ClosureUnresolved, Monitored,
           CloseFilled, CloseRefused, CloseLost, RecheckDone, RecheckResend, RecheckRefused,
           StopMoved, StopReplyLost, StopRefused, At
  <1>2. run[r] \in RunRecord /\ run[r].m \in Record
    BY <1>1, Running
  <1>3. CASE \/ SeesPosition(r) \/ ClosureUnresolved(r) \/ Monitored(r) \/ StopReplyLost(r)
             \/ StopRefused(r) \/ ReadPrice(r) \/ CloseLost(r)
    <2>1. PICK x \in { [run[r] EXCEPT !.pc = "commit"], [run[r] EXCEPT !.pc = "price"],
                       [run[r] EXCEPT !.pc = "monitor"],
                       [run[r] EXCEPT !.px = price, !.pc = "monitor"],
                       [run[r] EXCEPT !.orig = bvol, !.pc = "recheck"] } :
            run' = [run EXCEPT ![r] = x]
      BY <1>3 DEF SeesPosition, Monitored, ClosureUnresolved, ReadPrice, CloseLost,
             StopReplyLost, StopRefused, Goto, Become
    <2>2. x.m = run[r].m /\ x.pc # "idle" /\ x.pc # "protect"
      BY <1>2, <2>1 DEF RunRecord
    <2> QED BY <1>1, <2>1, <2>2, Running DEF Advances, FInv, TypeOK
  <1>4. CASE SeesFlat(r)
    <2>1. PICK done \in {{}, {"WAITING", "MERGED"}} : Copy(r, Closed(run[r].m, done), "commit")
      BY <1>4 DEF SeesFlat
    <2> DEFINE x == [run[r] EXCEPT !.m = Closed(run[r].m, done), !.pc = "commit"]
    <2>2. run' = [run EXCEPT ![r] = x]
      BY <2>1 DEF Copy, Become
    <2>3. x.m = Closed(run[r].m, done) /\ x.pc = "commit"
      BY <1>2 DEF RunRecord
    <2> HIDE DEF x
    <2> QED BY <1>1, <2>2, <2>3, Running DEF Advances, FInv, TypeOK
  <1>5. CASE StopMoved(r)
    <2> DEFINE x == [run[r] EXCEPT !.m = [run[r].m EXCEPT !.stop = run[r].to], !.pc = "monitor"]
    <2>2. run' = [run EXCEPT ![r] = x]
      BY <1>5 DEF StopMoved, Copy, Become
    <2>3. x.m = [run[r].m EXCEPT !.stop = run[r].to] /\ x.pc = "monitor" /\ At(r, "protect")
      BY <1>2, <1>5 DEF RunRecord, StopMoved
    <2> HIDE DEF x
    <2> QED BY <1>1, <2>2, <2>3, Running DEF Advances, FInv, TypeOK
  <1>6. ASSUME NEW i \in Targets, IsNext(r, i), Failed(r, i)
        PROVE  \E x : run' = [run EXCEPT ![r] = x] /\ Advances(r, x) /\ x.pc # "idle" /\ run'[r] = x
    <2> DEFINE x == [run[r] EXCEPT !.m = [run[r].m EXCEPT !.target[i] = "FAILED"], !.pc = "commit"]
    <2>2. run' = [run EXCEPT ![r] = x]
      BY <1>6 DEF Failed, Copy, Become
    <2>3. x.m = [run[r].m EXCEPT !.target[i] = "FAILED"] /\ x.pc = "commit"
      BY <1>2 DEF RunRecord
    <2> HIDE DEF x
    <2> QED BY <1>6, <2>2, <2>3 DEF Advances, FInv, TypeOK
  <1>7. ASSUME NEW i \in Targets, IsNext(r, i), NEW short, Accepted(r, i, short)
        PROVE  \E x : run' = [run EXCEPT ![r] = x] /\ Advances(r, x) /\ x.pc # "idle" /\ run'[r] = x
    <2> DEFINE pc == Onward(r, i, run[r].m.remaining - Vol(r, i))
               m == Taken(run[r].m, i, Vol(r, i), short)
               x == [run[r] EXCEPT !.to = Protection(r, i), !.pc = pc, !.m = m]
    <2>2. run' = [run EXCEPT ![r] = x]
      BY <1>7 DEF Accepted, Become
    <2>3. pc # "idle"
      BY DEF Onward
    <2> HIDE DEF pc, m
    <2>4. x.m = m /\ x.pc = pc /\ x.to = Protection(r, i)
      BY <1>2 DEF RunRecord
    <2> HIDE DEF x
    <2>5. run'[r] = x
      BY <2>2 DEF FInv, TypeOK
    <2>6. Advances(r, x)
      BY <1>7, <2>4 DEF Advances, pc, m
    <2> QED BY <2>2, <2>3, <2>4, <2>5, <2>6
  <1>8. CASE CloseFilled(r) \/ CloseRefused(r) \/ RecheckDone(r) \/ RecheckResend(r) \/ RecheckRefused(r)
    <2>1. \E i \in Targets : /\ IsNext(r, i)
                             /\ (\E short : Accepted(r, i, short)) \/ Failed(r, i)
      BY <1>8 DEF CloseFilled, CloseRefused, RecheckDone, RecheckResend, RecheckRefused
    <2>2. \E x : run' = [run EXCEPT ![r] = x] /\ Advances(r, x) /\ x.pc # "idle" /\ run'[r] = x
      BY <1>6, <1>7, <2>1
    <2>3. \A q \in Monitors \ {r} : run[q].pc = "idle" /\ run'[q] = run[q]
      BY <1>1, <2>2, Running DEF FInv, TypeOK
    <2> QED BY <1>1, <2>2, <2>3
  <1> QED BY <1>3, <1>4, <1>5, <1>8 DEF Goes, Query

(* The other steps begin or end a run, or are not a run's.                 *)
LEMMA NextSteps ==
  ASSUME FInv, [Next]_vars
  PROVE  \/ \E r \in Monitors : Goes(r)
         \/ \E r \in Monitors : Start(r) \/ Commit(r) \/ Unhealthy(r) \/ Rollback(r)
         \/ UNCHANGED <<row, run, bstop, faults>>
  <1>1. CASE BrokerCloses \/ PriceMoves \/ UNCHANGED vars
    BY <1>1 DEF BrokerCloses, PriceMoves, vars, broker
  <1> QED BY <1>1 DEF Next, Work, Goes

LEMMA StartSees ==
  ASSUME FInv, NEW r \in Monitors, Start(r)
  PROVE  /\ run'[r].m = row /\ run'[r].pc = "query" /\ row.status = "OPEN" /\ row' = row
         /\ bstop' = bstop /\ faults' = faults
         /\ \A q \in Monitors : At(q, "idle") /\ (q # r => run'[q] = run[q])
  <1> DEFINE x == [NotRunning EXCEPT !.pc = "query", !.m = row]
  <1>1. x.m = row /\ x.pc = "query"
    BY DEF NotRunning
  <1>2. run' = [run EXCEPT ![r] = x] /\ lock = Free
    BY DEF Start, Become
  <1> HIDE DEF x
  <1> QED BY <1>1, <1>2, MonitorAssumption DEF FInv, TypeOK, At, Start, broker

LEMMA EndSees ==
  ASSUME FInv, NEW r \in Monitors, Commit(r) \/ Unhealthy(r) \/ Rollback(r)
  PROVE  /\ ~At(r, "idle") /\ bstop' = bstop
         /\ \A q \in Monitors : run'[q].pc = "idle"
         /\ \/ Commit(r) /\ row' = run[r].m /\ faults' = faults
            \/ Unhealthy(r) /\ row' = row /\ run[r].m = row /\ faults' = faults
            \/ Rollback(r) /\ row' = row /\ faults' > 0
  <1>1. ~At(r, "idle") /\ Stopped(r) /\ bstop' = bstop
    BY DEF Commit, Unhealthy, Rollback, At, broker
  <1>2. \A q \in Monitors : run'[q].pc = "idle"
    BY <1>1, Running DEF Stopped, Become, NotRunning, FInv, TypeOK
  <1>3. CASE Commit(r)
    BY <1>1, <1>2, <1>3 DEF Commit
  <1>4. CASE Unhealthy(r)
    BY <1>1, <1>2, <1>4, Running DEF Unhealthy, RunSpares
  <1>5. CASE Rollback(r)
    BY <1>1, <1>2, <1>5, Running DEF Rollback
  <1> QED BY <1>3, <1>4, <1>5

LEMMA NextKeepsEInv == EInv /\ [Next]_vars => EInv'
  <1> SUFFICES ASSUME EInv, [Next]_vars PROVE EInv'
    OBVIOUS
  <1>0. FInv /\ FInv'
    BY NextKeepsFInv DEF EInv
  <1>1. ASSUME NEW r \in Monitors, Goes(r) PROVE EInv'
    <2>1. PICK x : /\ run' = [run EXCEPT ![r] = x] /\ Advances(r, x) /\ x.pc # "idle"
                   /\ run'[r] = x
      BY <1>0, <1>1, StepAdvances
    <2>2. /\ ~At(r, "idle") /\ ~At(r, "commit") /\ row' = row
          /\ \A q \in Monitors \ {r} : run[q].pc = "idle" /\ run'[q] = run[q]
      BY <1>0, <1>1, StepAdvances
    <2>3. Explained(x.m) /\ (x.pc # "commit" => x.m.status = "OPEN")
      BY <2>1, <2>2, AdvanceExplained
    <2>4. \A q \in Monitors : ~At(q, "idle")' => q = r
      BY <2>2 DEF At
    <2>5. Explained(run[r].m)' /\ Explained(row)'
      BY <2>1, <2>2, <2>3 DEF EInv, Explained, Left
    <2> QED BY <1>0, <2>1, <2>3, <2>4, <2>5 DEF EInv, At
  <1>2. ASSUME NEW r \in Monitors, Start(r) PROVE EInv'
    <2>1. /\ run'[r].m = row /\ row.status = "OPEN" /\ row' = row
          /\ \A q \in Monitors : At(q, "idle") /\ (q # r => run'[q] = run[q])
      BY <1>0, <1>2, StartSees
    <2>2. \A q \in Monitors : ~At(q, "idle")' => q = r
      BY <2>1 DEF At
    <2>3. Explained(run[r].m)' /\ Explained(row)'
      BY <2>1 DEF EInv, Explained, Left
    <2> QED BY <1>0, <2>1, <2>2, <2>3 DEF EInv
  <1>3. ASSUME NEW r \in Monitors, Commit(r) \/ Unhealthy(r) \/ Rollback(r) PROVE EInv'
    <2>1. /\ ~At(r, "idle") /\ row' \in {row, run[r].m}
          /\ \A q \in Monitors : run'[q].pc = "idle"
      BY <1>0, <1>3, EndSees
    <2>2. Explained(row)'
      BY <2>1 DEF EInv, Explained, Left
    <2> QED BY <1>0, <2>1, <2>2 DEF EInv, At
  <1>4. CASE UNCHANGED <<row, run, bstop, faults>>
    BY <1>0, <1>4 DEF EInv, Explained, Left, At
  <1> QED BY <1>0, <1>1, <1>2, <1>3, <1>4, NextSteps

(* While the row is OPEN, what it has left and what its events account for *)
(* make up the volume that was opened, and what it has left is enough for  *)
(* every target that has not been sold, whatever the plan.                 *)
THEOREM OpenRowsAreExplained == Spec => []OpenRowExplained
  <1>1. EInv => OpenRowExplained
    <2> SUFFICES ASSUME EInv, row.status = "OPEN"
                 PROVE  /\ row.remaining + row.logged = Volume
                        /\ \A i \in Targets : row.target[i] \in {"WAITING", "FAILED"}
                                                => Alloc[i] <= row.remaining
      BY DEF OpenRowExplained
    <2>1. row.remaining + row.logged = Volume /\ Sum(Alloc, Left(row)) <= row.remaining
      BY DEF EInv, Explained
    <2>2. row.remaining \in Int
      BY VolumeAssumption DEF EInv, FInv, TypeOK, Record
    <2>3. ASSUME NEW i \in Targets, row.target[i] \in {"WAITING", "FAILED"}
          PROVE  Alloc[i] <= row.remaining
      <3>1. i \in Left(row) /\ Left(row) \in SUBSET Targets
        BY <2>3 DEF Left
      <3>2. Alloc[i] <= Sum(Alloc, Left(row)) /\ Sum(Alloc, Left(row)) \in Nat /\ Alloc[i] \in Nat
        BY <3>1, AllocSums, MonitorAssumption
      <3> QED BY <2>1, <2>2, <3>2
    <2> QED BY <2>1, <2>3
  <1> QED BY InitEInv, NextKeepsEInv, <1>1, PTL DEF Spec

-----------------------------------------------------------------------------
(* What makes StopReallyThere inductive: the stop in a run's copy is the   *)
(* broker's or a worse one, and no worse than the row's, which a rollback  *)
(* leaves behind; the stop a run is about to set is a better one.          *)
RunHolds(x) ==
  /\ bstop >= x.m.stop /\ x.m.stop >= row.stop
  /\ x.pc = "protect" => x.to > x.m.stop
HInv == FInv /\ StopReallyThere /\ \A r \in Monitors : ~At(r, "idle") => RunHolds(run[r])

LEMMA InitHInv == Init => HInv
  <1> SUFFICES ASSUME Init PROVE HInv
    OBVIOUS
  <1>1. \A r \in Monitors : At(r, "idle")
    BY DEF Init, At, NotRunning
  <1>2. StopReallyThere
    BY MonitorAssumption DEF Init, StopReallyThere, Opened
  <1> QED BY <1>1, <1>2, InitFInv DEF HInv

(* Away from the broker's stop, a step leaves the copy's stop alone.       *)
LEMMA AdvanceHolds ==
  ASSUME FInv, NEW r \in Monitors, ~At(r, "idle"), ~At(r, "protect"),
         RunHolds(run[r]), NEW x, Advances(r, x)
  PROVE  RunHolds(x)
  <1> DEFINE m == run[r].m
  <1>1. m \in Record
    BY Running
  <1>2. CASE x.pc # "protect" /\ x.m = m
    BY <1>2 DEF RunHolds
  <1>3. CASE x.pc = "commit" /\ \E done \in {{}, {"WAITING", "MERGED"}} : x.m = Closed(m, done)
    <2> x.m.stop = m.stop
      BY <1>1, <1>3 DEF Closed, Record
    <2> QED BY <1>3 DEF RunHolds
  <1>4. CASE x.pc = "commit" /\ \E i \in Targets : x.m = [m EXCEPT !.target[i] = "FAILED"]
    <2> x.m.stop = m.stop
      BY <1>1, <1>4 DEF Record
    <2> QED BY <1>4 DEF RunHolds
  <1>5. ASSUME NEW i \in Targets, NEW short, x.m = Taken(m, i, Vol(r, i), short),
               x.to = Protection(r, i), x.pc = Onward(r, i, m.remaining - Vol(r, i))
        PROVE  RunHolds(x)
    <2>1. x.m.stop = m.stop
      BY <1>1, <1>5 DEF Taken, Record
    <2>2. x.pc = "protect" => x.to > m.stop
      BY <1>5 DEF Onward, Protection, Protects
    <2> QED BY <2>1, <2>2 DEF RunHolds
  <1> QED BY <1>2, <1>3, <1>4, <1>5 DEF Advances

(* At the broker: the row learns of a stop that is there, or of none.      *)
LEMMA ProtectHolds ==
  ASSUME FInv, NEW r \in Monitors, RunHolds(run[r]), At(r, "protect"), Goes(r)
  PROVE  RunHolds(run[r])'
  <1>0. StopMoved(r) \/ StopReplyLost(r) \/ StopRefused(r)
    BY DEF Goes, Query, SeesPosition, SeesFlat, ReadPrice, ClosureUnresolved, Monitored,
           CloseFilled, CloseRefused, CloseLost, RecheckDone, RecheckResend, RecheckRefused, At
  <1>1. /\ run[r] \in RunRecord /\ run[r].m \in Record /\ row \in Record /\ bstop \in Int
        /\ run[r].to \in Int /\ run[r].m.stop \in Int /\ row.stop \in Int
        /\ run[r].to > run[r].m.stop /\ bstop >= run[r].m.stop /\ run[r].m.stop >= row.stop
    BY Running DEF At, RunHolds, RunRecord, Record
  <1>2. CASE StopMoved(r)
    <2> DEFINE m == [run[r].m EXCEPT !.stop = run[r].to]
               x == [run[r] EXCEPT !.m = m, !.pc = "monitor"]
    <2>1. m.stop = run[r].to
      BY <1>1 DEF Record
    <2>2. run' = [run EXCEPT ![r] = x] /\ bstop' = run[r].to /\ row' = row
      BY <1>2 DEF StopMoved, Copy, Become
    <2> HIDE DEF m
    <2>3. x.m = m /\ x.pc = "monitor"
      BY <1>1 DEF RunRecord
    <2> HIDE DEF x
    <2>4. run'[r] = x
      BY <2>2 DEF FInv, TypeOK
    <2> QED BY <1>1, <2>1, <2>2, <2>3, <2>4 DEF RunHolds
  <1>3. CASE StopReplyLost(r) \/ StopRefused(r)
    <2> DEFINE x == [run[r] EXCEPT !.pc = "monitor"]
    <2>1. run' = [run EXCEPT ![r] = x] /\ bstop' \in {bstop, run[r].to} /\ row' = row
      BY <1>3 DEF StopReplyLost, StopRefused, Goto, Become, broker
    <2>2. x.m = run[r].m /\ x.pc = "monitor"
      BY <1>1 DEF RunRecord
    <2> HIDE DEF x
    <2>3. run'[r] = x
      BY <2>1 DEF FInv, TypeOK
    <2> QED BY <1>1, <2>1, <2>2, <2>3 DEF RunHolds
  <1> QED BY <1>0, <1>2, <1>3

LEMMA NextHolds == HInv /\ [Next]_vars => HInv'
  <1> SUFFICES ASSUME HInv, [Next]_vars PROVE HInv'
    OBVIOUS
  <1>0. FInv /\ FInv' /\ bstop \in Int /\ bstop' \in Int
    BY NextKeepsFInv DEF HInv, FInv, TypeOK
  <1>1. ASSUME NEW r \in Monitors, Goes(r) PROVE HInv'
    <2>1. PICK x : run'[r] = x /\ Advances(r, x) /\ x.pc # "idle"
      BY <1>0, <1>1, StepAdvances
    <2>2. /\ ~At(r, "idle") /\ row' = row
          /\ \A q \in Monitors \ {r} : run[q].pc = "idle" /\ run'[q] = run[q]
      BY <1>0, <1>1, StepAdvances
    <2>3. RunHolds(run[r])
      BY <2>2 DEF HInv
    <2>4. RunHolds(run[r])'
      <3>1. CASE At(r, "protect")
        BY <1>0, <1>1, <2>3, <3>1, ProtectHolds
      <3>2. CASE ~At(r, "protect")
        <4>1. RunHolds(x)
          BY <1>0, <2>1, <2>2, <2>3, <3>2, AdvanceHolds
        <4>2. bstop' = bstop
          BY <1>1, <3>2 DEF Goes, Query, SeesPosition, SeesFlat, ReadPrice, ClosureUnresolved,
             Monitored, CloseFilled, CloseRefused, CloseLost, RecheckDone, RecheckResend,
             RecheckRefused, StopMoved, StopReplyLost, StopRefused, broker
        <4> QED BY <2>1, <2>2, <4>1, <4>2 DEF RunHolds
      <3> QED BY <3>1, <3>2
    <2>5. \A q \in Monitors : ~At(q, "idle")' => q = r
      BY <2>2 DEF At
    <2>6. row \in Record /\ row.stop \in Int /\ run'[r].m.stop \in Int
      BY <1>0, <2>2, Running DEF Record, FInv, TypeOK, RunRecord
    <2>7. StopReallyThere'
      BY <1>0, <2>2, <2>4, <2>6 DEF StopReallyThere, RunHolds
    <2> QED BY <1>0, <2>4, <2>5, <2>7 DEF HInv
  <1>2. ASSUME NEW r \in Monitors, Start(r) PROVE HInv'
    <2>1. /\ run'[r].m = row /\ run'[r].pc = "query" /\ bstop' = bstop /\ row' = row
          /\ \A q \in Monitors : At(q, "idle") /\ (q # r => run'[q] = run[q])
      BY <1>0, <1>2, StartSees
    <2>2. \A q \in Monitors : ~At(q, "idle")' => q = r
      BY <2>1 DEF At
    <2>3. StopReallyThere' /\ row.stop \in Int
      BY <2>1 DEF HInv, StopReallyThere, FInv, TypeOK, Record
    <2>4. RunHolds(run[r])'
      BY <1>0, <2>1, <2>3 DEF RunHolds, StopReallyThere
    <2> QED BY <1>0, <2>2, <2>3, <2>4 DEF HInv
  <1>3. ASSUME NEW r \in Monitors, Commit(r) \/ Unhealthy(r) \/ Rollback(r)
        PROVE HInv'
    <2>1. /\ ~At(r, "idle") /\ bstop' = bstop /\ \A q \in Monitors : run'[q].pc = "idle"
          /\ row' = row \/ row' = run[r].m
      BY <1>0, <1>3, EndSees
    <2>2. StopReallyThere'
      BY <2>1 DEF HInv, RunHolds, StopReallyThere
    <2> QED BY <1>0, <2>1, <2>2 DEF HInv, At
  <1>4. CASE UNCHANGED <<row, run, bstop, faults>>
    BY <1>0, <1>4 DEF HInv, RunHolds, StopReallyThere, At
  <1> QED BY <1>0, <1>1, <1>2, <1>3, <1>4, NextSteps DEF HInv

(* Whatever the order of the targets, whichever replies are lost and runs  *)
(* rolled back: the position has the stop the row shows, or a better one,  *)
(* because a stop enters a row only after the broker has confirmed it, and *)
(* a run only ever asks for one beyond the row's.                          *)
THEOREM StopsAreReallyThere == Spec => []StopReallyThere
  <1>1. HInv => StopReallyThere
    BY DEF HInv
  <1> QED BY InitHInv, NextHolds, <1>1, PTL DEF Spec
=============================================================================
