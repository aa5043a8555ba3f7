------------------------ MODULE ShadowPositionProofs ------------------------
(***************************************************************************)
(* ShadowPosition for any sessions, processes, guru messages, targets and  *)
(* volumes.  The argument has two parts: what the simulated broker and the *)
(* manager may do to a session's copy and its process's book in one call;  *)
(* and what a write may do to the row, given what the copies were loaded   *)
(* from.                                                                   *)
(***************************************************************************)
EXTENDS ShadowPosition, TLAPS

Book == [vol : 0..Volume, stop : Int]
Sim == [m : Record, b : Book, ok : BOOLEAN]

(* A call only takes volume out, only tightens the stop, empties what it   *)
(* closes, and never takes more out of the book than out of the copy.      *)
Shut(m) == m.status = "CLOSED" <=> m.remaining = 0
Fit(x) == x.m.remaining <= x.b.vol
Follows(x, y) ==
  /\ y \in Sim
  /\ Shut(x.m) => Shut(y.m)
  /\ y.m.remaining <= x.m.remaining /\ x.m.stop <= y.m.stop
  /\ Fit(x) => Fit(y)

(* A target changes once, from WAITING; and it is not given up while the   *)
(* book has what the copy has.                                             *)
Turned(t, u) ==
  \A k \in Targets : u[k] = t[k] \/ (t[k] = "WAITING" /\ u[k] \in {"EXECUTED", "FAILED"})
Backed(x) ==
  /\ x.m.status = "OPEN" /\ x.b.vol > 0 /\ Fit(x)
  /\ \A k \in Targets : x.m.target[k] = "WAITING" => Alloc[k] > 0
NoneFails(x, y) ==
  Backed(x) => \A k \in Targets : y.m.target[k] = "FAILED" => x.m.target[k] = "FAILED"
Acts(x, y) == Follows(x, y) /\ Turned(x.m.target, y.m.target) /\ NoneFails(x, y)

LEMMA SimFields ==
  ASSUME NEW x \in Sim
  PROVE  /\ x.m \in Record /\ x.b \in Book /\ x.ok \in BOOLEAN
         /\ x.m.remaining \in 0..Volume /\ x.m.remaining \in Nat /\ x.m.stop \in Int
         /\ x.m.status \in {"OPEN", "CLOSED"}
         /\ x.m.target \in [Targets -> {"WAITING", "EXECUTED", "FAILED", "MERGED"}]
         /\ x.b.vol \in 0..Volume /\ x.b.vol \in Nat /\ x.b.stop \in Int /\ Volume \in Nat
  BY ShadowAssumption DEF Sim, Record, Book

(* A call that keeps the targets.                                          *)
LEMMA SameTargets ==
  ASSUME NEW x, NEW y, Follows(x, y), y.m.target = x.m.target
  PROVE  Acts(x, y)
  BY DEF Acts, Turned, NoneFails

LEMMA RefusedFollows ==
  ASSUME NEW x \in Sim
  PROVE  /\ Follows(x, Refused(x)) /\ Refused(x).m = x.m /\ Refused(x).b = x.b
         /\ Refused(x).ok = FALSE
  <1>1. Refused(x) \in Sim /\ Refused(x).m = x.m /\ Refused(x).b = x.b /\ Refused(x).ok = FALSE
    BY DEF Refused, Sim
  <1> QED BY <1>1, SimFields DEF Follows, Fit

LEMMA ModifyStopFollows ==
  ASSUME NEW x \in Sim, NEW to \in Int, x.m.stop <= to
  PROVE  /\ Follows(x, ModifyStop(x, to)) /\ ModifyStop(x, to).m.target = x.m.target
  <1> DEFINE m == [x.m EXCEPT !.stop = to]
             b == [x.b EXCEPT !.stop = to]
             y == [m |-> m, b |-> b, ok |-> TRUE]
  <1>1. /\ m \in Record /\ m.status = x.m.status /\ m.remaining = x.m.remaining /\ m.stop = to
        /\ m.target = x.m.target
    BY SimFields DEF Record
  <1>2. b \in Book /\ b.vol = x.b.vol
    BY SimFields DEF Book
  <1>3. y \in Sim /\ y.m = m /\ y.b = b
    BY <1>1, <1>2 DEF Sim
  <1>5. ModifyStop(x, to) \in {y, Refused(x)}
    BY DEF ModifyStop
  <1> HIDE DEF m, b, y
  <1>4. Follows(x, y) /\ y.m.target = x.m.target
    BY <1>1, <1>2, <1>3, SimFields DEF Follows, Fit, Shut
  <1> QED BY <1>4, <1>5, RefusedFollows

LEMMA MoveStopFollows ==
  ASSUME NEW x \in Sim, NEW to \in Int
  PROVE  Follows(x, MoveStop(x, to)) /\ MoveStop(x, to).m.target = x.m.target
  <1>1. CASE to < x.m.stop
    BY <1>1, RefusedFollows DEF MoveStop
  <1>2. CASE ~(to < x.m.stop)
    <2>1. x.m.stop <= to
      BY <1>2, SimFields
    <2> QED BY <1>2, <2>1, ModifyStopFollows DEF MoveStop
  <1> QED BY <1>1, <1>2

LEMMA TakenFields ==
  ASSUME NEW m \in Record, NEW vol \in 0..m.remaining
  PROVE  /\ Taken(m, vol) \in Record /\ Taken(m, vol).remaining = m.remaining - vol
         /\ Taken(m, vol).stop = m.stop /\ Taken(m, vol).target = m.target
         /\ Taken(m, vol).status = IF m.remaining = vol THEN "CLOSED" ELSE m.status
         /\ Shut(m) => Shut(Taken(m, vol))
  <1>1. /\ m.remaining \in 0..Volume /\ m.remaining \in Nat /\ vol \in Nat
        /\ m.status \in {"OPEN", "CLOSED"}
    BY ShadowAssumption DEF Record
  <1>2. m.remaining - vol \in 0..Volume
    BY <1>1, ShadowAssumption
  <1>3. /\ Taken(m, vol) \in Record /\ Taken(m, vol).remaining = m.remaining - vol
        /\ Taken(m, vol).stop = m.stop /\ Taken(m, vol).target = m.target
        /\ Taken(m, vol).status = IF m.remaining = vol THEN "CLOSED" ELSE m.status
    BY <1>2 DEF Taken, Record
  <1>4. Shut(m) => Shut(Taken(m, vol))
    BY <1>1, <1>3 DEF Shut
  <1> QED BY <1>3, <1>4

LEMMA CloseAllFollows ==
  ASSUME NEW x \in Sim
  PROVE  /\ Follows(x, CloseAll(x)) /\ CloseAll(x).m.target = x.m.target
         /\ x.m.status = "OPEN" /\ x.b.vol > 0 => CloseAll(x).ok = TRUE
  <1> DEFINE m == Taken(x.m, x.m.remaining)
             b == [x.b EXCEPT !.vol = 0]
             y == [m |-> m, b |-> b, ok |-> TRUE]
  <1>1. x.m.remaining \in 0..x.m.remaining
    BY SimFields
  <1>2. /\ m \in Record /\ m.remaining = 0 /\ m.stop = x.m.stop /\ m.target = x.m.target
        /\ Shut(x.m) => Shut(m)
    BY <1>1, SimFields, TakenFields
  <1>3. b \in Book /\ b.vol = 0
    BY SimFields DEF Book
  <1> HIDE DEF m, b
  <1>4. y \in Sim
    BY <1>2, <1>3 DEF Sim
  <1>5. Follows(x, y) /\ y.m.target = x.m.target /\ y.ok = TRUE
    BY <1>2, <1>3, <1>4, SimFields DEF Follows, Fit
  <1> HIDE DEF y
  <1>6. CloseAll(x) = IF x.m.status = "OPEN" /\ x.b.vol > 0 THEN y ELSE Refused(x)
    BY DEF CloseAll, y, m, b
  <1> QED BY <1>5, <1>6, RefusedFollows

(* A close succeeds if the position is open and the book has it all.       *)
LEMMA CloseVolumeFollows ==
  ASSUME NEW x \in Sim, NEW vol \in Int
  PROVE  /\ Follows(x, CloseVolume(x, vol)) /\ CloseVolume(x, vol).m.target = x.m.target
         /\ CloseVolume(x, vol).ok \in BOOLEAN
         /\ x.m.status = "OPEN" /\ x.b.vol > 0 /\ Fit(x) /\ vol > 0 => CloseVolume(x, vol).ok = TRUE
  <1> DEFINE m == Taken(x.m, vol)
             b == [x.b EXCEPT !.vol = @ - vol]
             y == [m |-> m, b |-> b, ok |-> TRUE]
  <1>1. CASE x.m.status # "OPEN" \/ vol <= 0
    <2>1. CloseVolume(x, vol) = Refused(x)
      BY <1>1 DEF CloseVolume
    <2>2. ~(x.m.status = "OPEN" /\ vol > 0)
      BY <1>1
    <2>3. Refused(x).ok = FALSE /\ Refused(x).m = x.m /\ Follows(x, Refused(x))
      BY RefusedFollows
    <2> QED BY <2>1, <2>2, <2>3
  <1>2. CASE ~(x.m.status # "OPEN" \/ vol <= 0) /\ vol >= x.m.remaining
    <2>1. CloseVolume(x, vol) = CloseAll(x)
      BY <1>2 DEF CloseVolume
    <2>2. CloseAll(x).ok \in BOOLEAN
      BY CloseAllFollows DEF Follows, Sim
    <2> QED BY <2>1, <2>2, CloseAllFollows
  <1>3. CASE ~(x.m.status # "OPEN" \/ vol <= 0) /\ ~(vol >= x.m.remaining)
    <2>1. CloseVolume(x, vol) = IF vol < x.b.vol THEN y ELSE Refused(x)
      BY <1>3 DEF CloseVolume
    <2>2. vol \in 0..x.m.remaining
      BY <1>3, SimFields
    <2>3. CASE vol < x.b.vol
      <3>1. /\ m \in Record /\ m.remaining = x.m.remaining - vol /\ m.stop = x.m.stop
            /\ m.target = x.m.target
            /\ Shut(x.m) => Shut(m)
        BY <2>2, SimFields, TakenFields
      <3>2. x.b.vol - vol \in 0..Volume
        BY <1>3, <2>3, SimFields
      <3>3. b \in Book /\ b.vol = x.b.vol - vol
        BY <3>2, SimFields DEF Book
      <3> HIDE DEF m, b
      <3>4. y \in Sim
        BY <3>1, <3>3 DEF Sim
      <3>5. y.m = m /\ y.b = b /\ y.ok = TRUE
        OBVIOUS
      <3> HIDE DEF y
      <3>6. Follows(x, y)
        BY <1>3, <3>1, <3>3, <3>4, <3>5, SimFields DEF Follows, Fit
      <3> QED BY <2>1, <2>3, <3>1, <3>5, <3>6
    <2>4. CASE ~(vol < x.b.vol)
      <3>1. ~Fit(x)
        BY <1>3, <2>4, SimFields DEF Fit
      <3> QED BY <2>1, <2>4, <3>1, RefusedFollows
    <2> QED BY <2>3, <2>4
  <1> QED BY <1>1, <1>2, <1>3

(* A target that waits is hit: only if the book lacks its volume is it     *)
(* given up.                                                               *)
LEMMA HitActs ==
  ASSUME NEW x \in Sim, NEW i \in Targets, x.m.target[i] = "WAITING"
  PROVE  /\ Acts(x, Hit(x, i)) /\ Hit(x, i).ok \in BOOLEAN
         /\ Hit(x, i).m.target[i] # "WAITING"
  <1> DEFINE y == CloseVolume(x, Alloc[i])
             t == [y.m.target EXCEPT ![i] = IF y.ok THEN "EXECUTED" ELSE "FAILED"]
             m == [y.m EXCEPT !.target = t]
             z == [y EXCEPT !.m = m]
  <1>0. Alloc[i] \in Int
    BY ShadowAssumption
  <1>1. /\ Follows(x, y) /\ y.m.target = x.m.target /\ y.ok \in BOOLEAN
        /\ x.m.status = "OPEN" /\ x.b.vol > 0 /\ Fit(x) /\ Alloc[i] > 0 => y.ok = TRUE
    BY <1>0, CloseVolumeFollows
  <1> HIDE DEF y
  <1>2. y \in Sim
    BY <1>1 DEF Follows
  <1>3. Hit(x, i) = z
    BY <1>2 DEF Hit, Sim, Record, y
  <1>4. /\ t \in [Targets -> {"WAITING", "EXECUTED", "FAILED", "MERGED"}]
        /\ t[i] = IF y.ok THEN "EXECUTED" ELSE "FAILED"
        /\ \A k \in Targets : k # i => t[k] = x.m.target[k]
    BY <1>1, <1>2, SimFields
  <1> HIDE DEF t
  <1>5. /\ m \in Record /\ m.status = y.m.status /\ m.remaining = y.m.remaining
        /\ m.stop = y.m.stop /\ m.target = t
    BY <1>2, <1>4, SimFields DEF Record
  <1> HIDE DEF m
  <1>6. z \in Sim /\ z.m = m /\ z.b = y.b /\ z.ok = y.ok
    BY <1>2, <1>5 DEF Sim
  <1> HIDE DEF z
  <1>7. Follows(x, z)
    BY <1>1, <1>5, <1>6 DEF Follows, Fit, Shut
  <1>8. Turned(x.m.target, z.m.target)
    BY <1>4, <1>5, <1>6 DEF Turned
  <1>9. NoneFails(x, z)
    BY <1>1, <1>4, <1>5, <1>6 DEF NoneFails, Backed
  <1> QED BY <1>1, <1>3, <1>4, <1>5, <1>6, <1>7, <1>8, <1>9 DEF Acts

(* A call that keeps the targets, after another.                           *)
LEMMA ActsThen ==
  ASSUME NEW x \in Sim, NEW y \in Sim, NEW z, Acts(x, y), Follows(y, z), z.m.target = y.m.target
  PROVE  Acts(x, z)
  <1>1. z \in Sim
    BY DEF Follows
  <1>2. Follows(x, z)
    BY <1>1, SimFields DEF Acts, Follows
  <1> QED BY <1>2 DEF Acts, Turned, NoneFails

LEMMA ProtectedFollows ==
  ASSUME NEW x \in Sim, NEW i \in Targets
  PROVE  /\ Follows(x, Protected(x, i)) /\ Protected(x, i).m.target = x.m.target
         /\ Protected(x, i).m.status = x.m.status
  <1>1. Follows(x, x)
    BY SimFields DEF Follows
  <1>2. CASE 1 \in Targets /\ Protected(x, i) = MoveStop(x, Desired(i))
    <2>1. Desired(i) \in Int
      BY <1>2, ShadowAssumption DEF Desired
    <2>2. MoveStop(x, Desired(i)).m.status = x.m.status
      BY SimFields, RefusedFollows DEF MoveStop, ModifyStop, Record
    <2> QED BY <1>2, <2>1, <2>2, MoveStopFollows
  <1>3. CASE Protected(x, i) = x
    BY <1>1, <1>3
  <1> QED BY <1>2, <1>3 DEF Protected

LEMMA PartIsInt == ASSUME NEW m \in Record, NEW pct \in 1..99 PROVE Part(m, pct) \in Int
  <1>1. m.remaining \in Int /\ pct \in Int
    BY ShadowAssumption DEF Record
  <1>2. m.remaining * pct \in Int
    BY <1>1
  <1> QED BY <1>2 DEF Part

LEMMA HalfFollows ==
  ASSUME NEW x \in Sim, NEW pct \in Percents
  PROVE  Follows(x, Half(x, pct)) /\ Half(x, pct).m.target = x.m.target
  <1>1. Part(x.m, pct) \in Int
    BY SimFields, PartIsInt, ShadowAssumption
  <1> QED BY <1>1, CloseVolumeFollows DEF Half

(* What a guru message does.                                               *)
LEMMA AppliedActs ==
  ASSUME NEW x \in Sim, NEW u \in Updates
  PROVE  Acts(x, Applied(x, Request[u]))
  <1> DEFINE req == Request[u]
  <1>0. Follows(x, x) /\ \A y \in Sim : Acts(x, y) => y \in Sim
    BY SimFields DEF Follows
  <1>1. \/ req \in [action : {"MOVE_STOP"}, stop : Stops]
        \/ req \in [action : {"PARTIAL_CLOSE", "PARTIAL_CLOSE_AND_BREAK_EVEN"}, percent : Percents]
        \/ req \in [action : {"TARGET_HIT"}, target : Targets]
        \/ req \in [action : {"MOVE_BREAK_EVEN", "CLOSE", "HOLD"}]
    BY ShadowAssumption
  <1> HIDE DEF req
  <1>2. CASE req \in [action : {"MOVE_STOP"}, stop : Stops]
    <2>1. req.action = "MOVE_STOP" /\ req.stop \in Int
      BY <1>2, ShadowAssumption
    <2>2. Applied(x, req) = MoveStop(x, req.stop)
      BY <2>1 DEF Applied
    <2> QED BY <2>1, <2>2, MoveStopFollows, SameTargets DEF req
  <1>3. CASE req \in [action : {"PARTIAL_CLOSE", "PARTIAL_CLOSE_AND_BREAK_EVEN"}, percent : Percents]
    <2> DEFINE h == Half(x, req.percent)
    <2>1. Follows(x, h) /\ h.m.target = x.m.target /\ h \in Sim
      BY <1>3, HalfFollows DEF Follows
    <2>2. Acts(x, h)
      BY <2>1, SameTargets
    <2>3. Entry \in Int
      BY ShadowAssumption
    <2>4. Acts(x, MoveStop(h, Entry))
      BY <2>1, <2>2, <2>3, MoveStopFollows, ActsThen
    <2>5. Applied(x, req) \in {h, MoveStop(h, Entry)}
      <3>1. CASE req.action = "PARTIAL_CLOSE"
        BY <3>1 DEF Applied
      <3>2. CASE req.action = "PARTIAL_CLOSE_AND_BREAK_EVEN"
        BY <3>2 DEF Applied
      <3> QED BY <1>3, <3>1, <3>2
    <2> QED BY <2>2, <2>4, <2>5 DEF req
  <1>4. CASE req \in [action : {"TARGET_HIT"}, target : Targets]
    <2> DEFINE h == Hit(x, req.target)
    <2>1. req.action = "TARGET_HIT" /\ req.target \in Targets
      BY <1>4
    <2>2. Applied(x, req) = IF x.m.target[req.target] # "WAITING" THEN Refused(x)
                            ELSE IF h.ok THEN Protected(h, req.target) ELSE h
      BY <2>1 DEF Applied
    <2>3. CASE x.m.target[req.target] # "WAITING"
      BY <2>2, <2>3, RefusedFollows, SameTargets DEF req
    <2>4. CASE x.m.target[req.target] = "WAITING"
      <3>1. Acts(x, h)
        BY <2>1, <2>4, HitActs
      <3>2. h \in Sim
        BY <3>1 DEF Acts, Follows
      <3> HIDE DEF h
      <3>3. Acts(x, Protected(h, req.target))
        BY <2>1, <3>1, <3>2, ProtectedFollows, ActsThen
      <3> QED BY <2>2, <2>4, <3>1, <3>3 DEF req
    <2> QED BY <2>3, <2>4
  <1>5. CASE req \in [action : {"MOVE_BREAK_EVEN", "CLOSE", "HOLD"}]
    <2>1. Applied(x, req) \in {MoveStop(x, Entry), CloseAll(x), x}
      <3>1. CASE req.action = "MOVE_BREAK_EVEN"
        BY <3>1 DEF Applied
      <3>2. CASE req.action = "CLOSE"
        BY <3>2 DEF Applied
      <3>3. CASE req.action = "HOLD"
        BY <3>3 DEF Applied
      <3> QED BY <1>5, <3>1, <3>2, <3>3
    <2>2. Entry \in Int
      BY ShadowAssumption
    <2> QED BY <1>0, <2>1, <2>2, MoveStopFollows, CloseAllFollows, SameTargets DEF req
  <1> QED BY <1>1, <1>2, <1>3, <1>4, <1>5

-----------------------------------------------------------------------------
(* What makes the rest inductive: a session works on a copy of a row that  *)
(* was OPEN, only ever advanced; the row is still what was read as long as *)
(* the session has its lock.  An OPEN row has something left, and a target *)
(* that waits has a volume.                                                *)
Works(x) == x.pc \notin {"idle", "priced"}
Sound(m) ==
  /\ m.status = "OPEN" => m.remaining > 0
  /\ \A k \in Targets : m.target[k] = "WAITING" => Alloc[k] > 0
Advanced(w, m) ==
  /\ Shut(m) /\ m.remaining <= w.remaining /\ w.stop <= m.stop
  /\ Turned(w.target, m.target)
CopyOK(x, r) ==
  /\ x.was.status = "OPEN" /\ Sound(x.was) /\ Advanced(x.was, x.m)
  /\ x.pc \in {"locked", "monitor"} => x.m.status = "OPEN"
  /\ x.pc \in {"locked", "guru"} => x.m = x.was
  /\ x.pc \in {"locked", "monitor", "commit"} => x.was = r
PInv ==
  /\ TypeOK /\ Sound(row)
  /\ \A s \in Sessions : Works(sess[s]) => CopyOK(sess[s], row)

LEMMA OpenedFields ==
  /\ Opened \in Record /\ Idle \in Session /\ Sound(Opened) /\ Idle.pc = "idle"
  /\ Absent \in Book
  <1>1. [i \in Targets |-> IF Alloc[i] = 0 THEN "MERGED" ELSE "WAITING"]
          \in [Targets -> {"WAITING", "EXECUTED", "FAILED", "MERGED"}]
    OBVIOUS
  <1>2. Opened \in Record /\ Absent \in Book
    BY <1>1, ShadowAssumption DEF Opened, Record, Absent, Book
  <1>3. Sound(Opened)
    BY ShadowAssumption DEF Opened, Sound
  <1> QED BY <1>2, <1>3 DEF Idle, Session

LEMMA InitPInv == Init => PInv
  <1> SUFFICES ASSUME Init PROVE PInv
    OBVIOUS
  <1>1. \A s \in Sessions : sess[s] = Idle /\ sess[s].pc = "idle"
    BY OpenedFields DEF Init
  <1>2. book \in [Processes -> Book]
    <2>1. PICK p \in {Proc[s] : s \in Sessions \ Handlers} :
            book = [q \in Processes |-> IF q = p THEN [vol |-> Volume, stop |-> Stop] ELSE Absent]
      BY DEF Init
    <2>2. [vol |-> Volume, stop |-> Stop] \in Book
      BY ShadowAssumption DEF Book
    <2> QED BY <2>1, <2>2, OpenedFields
  <1>3. TypeOK
    <2>1. sess \in [Sessions -> Session] /\ row \in Record
      BY OpenedFields DEF Init
    <2>2. execs \in [Targets -> Nat] /\ price \in [Processes -> Prices \union {Entry}]
      BY DEF Init
    <2>4. MaxFaults \in Nat
      BY ShadowAssumption
    <2>5. /\ seen = {} /\ edited = {} /\ overlap = FALSE /\ lock = Free /\ faults = 0
      BY DEF Init
    <2>6. faults \in 0..MaxFaults
      BY <2>4, <2>5
    <2>7. /\ seen \subseteq Updates /\ edited \subseteq seen /\ overlap \in BOOLEAN
          /\ lock \in Sessions \union {Free}
      BY <2>5
    <2>3. \A s \in Sessions : sess[s].pc \in {"locked", "monitor", "commit"} => lock = s
      BY <1>1
    <2> QED BY <1>2, <2>1, <2>2, <2>3, <2>6, <2>7 DEF TypeOK, Book
  <1> QED BY <1>1, <1>3, OpenedFields DEF PInv, Works, Init

(* Facts about a session.                                                  *)
LEMMA SessionFields ==
  ASSUME PInv, NEW s \in Sessions
  PROVE  /\ sess[s] \in Session /\ sess[s].m \in Record /\ sess[s].was \in Record
         /\ row \in Record /\ Proc[s] \in Processes /\ book[Proc[s]] \in Book
         /\ DOMAIN sess = Sessions /\ DOMAIN book = Processes
         /\ sess[s].pc \in {"locked", "monitor", "commit"} => lock = s
         /\ Works(sess[s]) => CopyOK(sess[s], row)
  BY DEF PInv, TypeOK, Session, Processes, Book

LEMMA RestoredFields ==
  ASSUME NEW b \in Book, NEW m \in Record
  PROVE  /\ Restored(b, m) \in Book
         /\ (b.vol = 0 \/ m.remaining <= b.vol) => m.remaining <= Restored(b, m).vol
         /\ m.remaining > 0 => Restored(b, m).vol > 0
  <1>1. m.remaining \in 0..Volume /\ m.stop \in Int /\ b.vol \in 0..Volume
    BY DEF Record, Book
  <1>2. CASE b.vol > 0
    BY <1>1, <1>2, ShadowAssumption DEF Restored
  <1>3. CASE ~(b.vol > 0)
    <2>1. Restored(b, m) = [vol |-> m.remaining, stop |-> m.stop]
      BY <1>3 DEF Restored
    <2> QED BY <1>1, <2>1, ShadowAssumption DEF Book
  <1> QED BY <1>2, <1>3

(* A session goes on as x; the row stays.                                  *)
LEMMA PStep ==
  ASSUME PInv, NEW s \in Sessions, NEW x \in Session, sess' = [sess EXCEPT ![s] = x],
         book' \in [Processes -> Book], price' \in [Processes -> Prices \union {Entry}],
         UNCHANGED <<row, execs, seen, edited, overlap>>, faults' \in 0..MaxFaults,
         \/ lock' = lock
         \/ lock = s /\ lock' = Free
         \/ lock = Free /\ lock' = s,
         x.pc \in {"locked", "monitor", "commit"} => lock' = s,
         Works(x) => CopyOK(x, row)
  PROVE  PInv'
  <1>1. /\ sess'[s] = x /\ sess' \in [Sessions -> Session]
        /\ \A t \in Sessions \ {s} : sess'[t] = sess[t]
    BY DEF PInv, TypeOK
  <1>2. \A t \in Sessions : sess'[t].pc \in {"locked", "monitor", "commit"} => lock' = t
    <2> TAKE t \in Sessions
    <2>1. CASE t = s
      BY <1>1, <2>1
    <2>2. CASE t # s
      <3>1. sess'[t].pc \in {"locked", "monitor", "commit"} => lock = t
        BY <1>1, <2>2 DEF PInv, TypeOK
      <3>2. t # Free
        BY ShadowAssumption
      <3> QED BY <2>2, <3>1, <3>2
    <2> QED BY <2>1, <2>2
  <1>3. lock' \in Sessions \union {Free}
    BY DEF PInv, TypeOK
  <1>4. TypeOK'
    BY <1>1, <1>2, <1>3 DEF PInv, TypeOK, Book
  <1>5. \A t \in Sessions : Works(sess[t])' => CopyOK(sess[t], row)'
    <2> TAKE t \in Sessions
    <2>1. CASE t = s
      BY <1>1, <2>1 DEF Works, CopyOK, Sound
    <2>2. CASE t # s
      BY <1>1, <2>2 DEF PInv, Works, CopyOK, Sound
    <2> QED BY <2>1, <2>2
  <1>6. Sound(row)'
    BY DEF PInv, Sound
  <1> QED BY <1>4, <1>5, <1>6 DEF PInv

(* A session begins: its copy is the row.                                  *)
Begins(s, x) ==
  /\ x \in Session /\ sess' = [sess EXCEPT ![s] = x] /\ ~Works(sess[s])
  /\ x.was = row /\ x.m = row /\ row.status = "OPEN"
  /\ UNCHANGED <<db, price, faults>>
  /\ \/ x.pc = "locked" /\ lock = Free /\ lock' = s /\ book' = book
     \/ x.pc = "guru" /\ s \notin Handlers /\ lock' = lock /\ book' = book
     \/ /\ x.pc = "monitor" /\ lock = Free /\ lock' = s
        /\ book' = [book EXCEPT ![Proc[s]] = Restored(@, row)]

LEMMA BeginEffect ==
  ASSUME PInv, NEW s \in Sessions, RequestLock(s) \/ Reconcile(s) \/ GuruReads(s)
  PROVE  \E x : Begins(s, x)
  <1>1. row \in Record
    BY DEF PInv, TypeOK
  <1>2. CASE RequestLock(s)
    <2> DEFINE x == [pc |-> "locked", was |-> row, m |-> row, upd |-> {}]
    <2>1. x \in Session /\ x.pc = "locked" /\ x.was = row /\ x.m = row
      BY <1>1 DEF Session
    <2>2. sess' = [sess EXCEPT ![s] = x]
      BY <1>2 DEF RequestLock, Become, Locked
    <2>3. book' = book /\ price' = price /\ db' = db /\ faults' = faults
      BY <1>2 DEF RequestLock, mem
    <2> HIDE DEF x
    <2> QED BY <1>2, <2>1, <2>2, <2>3 DEF RequestLock, At, Works, Begins
  <1>3. CASE Reconcile(s)
    <2> DEFINE x == [Locked(s) EXCEPT !.pc = "monitor"]
    <2>1. x = [pc |-> "monitor", was |-> row, m |-> row, upd |-> {}]
      BY DEF Locked
    <2>2. x \in Session /\ x.pc = "monitor" /\ x.was = row /\ x.m = row
      BY <1>1, <2>1 DEF Session
    <2>3. sess' = [sess EXCEPT ![s] = x]
      BY <1>3 DEF Reconcile, Become
    <2> HIDE DEF x
    <2> QED BY <1>3, <2>2, <2>3 DEF Reconcile, Keep, MayReconcile, At, Works, Begins
  <1>4. CASE GuruReads(s)
    <2>1. PICK u \in Updates : Become(s, [pc |-> "guru", was |-> row, m |-> row, upd |-> {u}])
      BY <1>4 DEF GuruReads
    <2> DEFINE x == [pc |-> "guru", was |-> row, m |-> row, upd |-> {u}]
    <2>2. x \in Session /\ x.pc = "guru" /\ x.was = row /\ x.m = row
      BY <1>1 DEF Session
    <2>3. sess' = [sess EXCEPT ![s] = x]
      BY <2>1 DEF Become
    <2>4. book' = book /\ price' = price /\ db' = db /\ faults' = faults /\ lock' = lock
      BY <1>4 DEF GuruReads, mem
    <2> HIDE DEF x
    <2> QED BY <1>4, <2>2, <2>3, <2>4 DEF GuruReads, At, Works, Begins
  <1> QED BY <1>2, <1>3, <1>4

LEMMA BeginKeeps ==
  ASSUME PInv, NEW s \in Sessions, NEW x, Begins(s, x) PROVE PInv'
  <1>1. row \in Record /\ Sound(row) /\ row.status = "OPEN" /\ row.remaining \in Nat
        /\ row.stop \in Int
    BY ShadowAssumption DEF PInv, TypeOK, Record, Begins
  <1>2. CopyOK(x, row)
    BY <1>1 DEF Begins, CopyOK, Advanced, Turned, Shut, Sound
  <1>3. book' \in [Processes -> Book]
    <2>1. book \in [Processes -> Book] /\ book[Proc[s]] \in Book
      BY SessionFields DEF PInv, TypeOK, Book
    <2>2. Restored(book[Proc[s]], row) \in Book
      BY <1>1, <2>1, RestoredFields
    <2> QED BY <2>1, <2>2 DEF Begins
  <1>4. /\ UNCHANGED <<row, execs, seen, edited, overlap>> /\ faults' \in 0..MaxFaults
        /\ price' \in [Processes -> Prices \union {Entry}]
    BY DEF Begins, db, PInv, TypeOK
  <1> QED BY <1>2, <1>3, <1>4, PStep DEF Begins

LEMMA StateIsSim ==
  ASSUME PInv, NEW s \in Sessions, NEW m \in Record
  PROVE  /\ State(s, m) \in Sim /\ State(s, m).m = m /\ State(s, m).b = book[Proc[s]]
         /\ [State(s, m) EXCEPT !.b = Restored(@, m)] \in Sim
         /\ [State(s, m) EXCEPT !.b = Restored(@, m)].m = m
         /\ [State(s, m) EXCEPT !.b = Restored(@, m)].b = Restored(book[Proc[s]], m)
  BY SessionFields, RestoredFields DEF State, Sim

(* A handler's answer.                                                     *)
LEMMA RefusedKeeps ==
  ASSUME NEW x \in Sim, NEW n \in Int,
         NEW y \in {Refused(x), CloseAll(x), CloseVolume(x, n), ModifyStop(x, n)}, y.ok = FALSE
  PROVE  y.b = x.b /\ y.m = x.m
  <1>1. CloseAll(x).ok = FALSE => CloseAll(x) = Refused(x)
    BY DEF CloseAll
  <1>2. CloseVolume(x, n).ok = FALSE => CloseVolume(x, n) = Refused(x)
    BY <1>1 DEF CloseVolume
  <1>3. ModifyStop(x, n).ok = FALSE => ModifyStop(x, n) = Refused(x)
    BY DEF ModifyStop
  <1>4. y = Refused(x)
    BY <1>1, <1>2, <1>3
  <1> QED BY <1>4, RefusedFollows

LEMMA HandlerEffect ==
  ASSUME PInv, NEW s \in Sessions, PartialClose(s) \/ ClosePosition(s) \/ SetStop(s)
  PROVE  /\ sess[s].pc = "locked"
         /\ \E x, y : /\ x \in Sim /\ Acts(x, y) /\ x.m = sess[s].m /\ Answer(s, y)
                      /\ y.ok = TRUE => x.b = Restored(book[Proc[s]], sess[s].m)
                      /\ y.ok = FALSE => /\ y.b = x.b
                                         /\ x.b \in {book[Proc[s]], Restored(book[Proc[s]], sess[s].m)}
  <1> DEFINE m == sess[s].m
             st == Start(s)
             y0 == State(s, m)
  <1>0. sess[s].pc = "locked" /\ m \in Record
    BY SessionFields DEF PartialClose, ClosePosition, SetStop, At
  <1>1. /\ st \in Sim /\ st.m = m /\ st.b = Restored(book[Proc[s]], m)
        /\ y0 \in Sim /\ y0.m = m /\ y0.b = book[Proc[s]]
    BY <1>0, StateIsSim DEF Start
  <1>2. CASE PartialClose(s)
    <2>1. PICK pct \in Percents :
            LET vol == Part(sess[s].m, pct) IN
            Answer(s, IF vol < 1 \/ vol >= sess[s].m.remaining THEN Refused(Start(s)) ELSE CloseVolume(Start(s), vol))
      BY <1>2 DEF PartialClose
    <2> DEFINE vol == Part(m, pct)
    <2>2. vol \in Int
      BY <1>0, PartIsInt, ShadowAssumption
    <2>3. PICK y \in {Refused(st), CloseVolume(st, vol)} : Answer(s, y)
      BY <2>1
    <2> HIDE DEF st, y0, vol, m
    <2>4. Acts(st, y)
      BY <1>1, <2>2, RefusedFollows, CloseVolumeFollows, SameTargets
    <2>5. y.ok = FALSE => y.b = st.b
      BY <1>1, <2>2, RefusedKeeps
    <2> QED BY <1>0, <1>1, <2>3, <2>4, <2>5 DEF m
  <1>3. CASE ClosePosition(s)
    <2>1. Answer(s, CloseAll(st))
      BY <1>3 DEF ClosePosition
    <2> HIDE DEF st, y0, m
    <2>4. Acts(st, CloseAll(st))
      BY <1>1, CloseAllFollows, SameTargets
    <2>5. CloseAll(st).ok = FALSE => CloseAll(st).b = st.b
      <3> 0 \in Int
        OBVIOUS
      <3> QED BY <1>1, RefusedKeeps
    <2> QED BY <1>0, <1>1, <2>1, <2>4, <2>5 DEF m
  <1>4. CASE SetStop(s)
    <2>1. PICK to \in Stops : Answer(s, StopAnswer(s, to))
      BY <1>4 DEF SetStop
    <2>2. to \in Int /\ m.stop \in Int
      BY <1>0, ShadowAssumption DEF Record
    <2>3. CASE to < m.stop
      <3>1. StopAnswer(s, to) = Refused(y0)
        BY <2>3 DEF StopAnswer
      <3> HIDE DEF st, y0, m
      <3>2. Acts(y0, Refused(y0)) /\ Refused(y0).ok = FALSE /\ Refused(y0).b = y0.b
        BY <1>1, RefusedFollows, SameTargets
      <3> QED BY <1>0, <1>1, <2>1, <3>1, <3>2 DEF m
    <2>4. CASE ~(to < m.stop)
      <3>1. StopAnswer(s, to) = ModifyStop(st, to)
        BY <2>4 DEF StopAnswer
      <3>2. st.m.stop <= to
        BY <1>1, <2>2, <2>4
      <3> HIDE DEF st, y0, m
      <3>3. Acts(st, ModifyStop(st, to))
        BY <1>1, <2>2, <3>2, ModifyStopFollows, SameTargets
      <3>4. ModifyStop(st, to).ok = FALSE => ModifyStop(st, to).b = st.b
        BY <1>1, <2>2, RefusedKeeps
      <3> QED BY <1>0, <1>1, <2>1, <3>1, <3>3, <3>4 DEF m
    <2> QED BY <2>3, <2>4
  <1> QED BY <1>2, <1>3, <1>4

(* What a call makes of a copy that was advanced from w.                   *)
LEMMA CallAdvances ==
  ASSUME NEW w \in Record, NEW x \in Sim, NEW y, Acts(x, y), Advanced(w, x.m)
  PROVE  Advanced(w, y.m) /\ y \in Sim /\ y.m \in Record /\ y.b \in Book
  <1>1. y \in Sim
    BY DEF Acts, Follows
  <1>2. w.remaining \in Nat /\ w.stop \in Int
    BY ShadowAssumption DEF Record
  <1>3. Shut(y.m) /\ y.m.remaining <= w.remaining /\ w.stop <= y.m.stop
    BY <1>1, <1>2, SimFields DEF Acts, Follows, Advanced
  <1>4. Turned(w.target, y.m.target)
    BY DEF Acts, Advanced, Turned
  <1> QED BY <1>1, <1>3, <1>4, SimFields DEF Advanced

LEMMA BookKept ==
  ASSUME PInv, NEW s \in Sessions, NEW b \in Book, book' = [book EXCEPT ![Proc[s]] = b]
  PROVE  book' \in [Processes -> Book]
  BY DEF PInv, TypeOK, Book

LEMMA HandlerKeeps ==
  ASSUME PInv, NEW s \in Sessions, PartialClose(s) \/ ClosePosition(s) \/ SetStop(s)
  PROVE  PInv'
  <1>1. PICK x, y : /\ x \in Sim /\ Acts(x, y) /\ x.m = sess[s].m /\ Answer(s, y)
    BY HandlerEffect
  <1>2. /\ sess[s].pc = "locked" /\ CopyOK(sess[s], row) /\ lock = s
        /\ sess[s] \in Session /\ sess[s].was \in Record
    BY HandlerEffect, SessionFields DEF Works
  <1>3. Advanced(sess[s].was, y.m) /\ y \in Sim /\ y.m \in Record /\ y.b \in Book
    BY <1>1, <1>2, CallAdvances DEF CopyOK
  <1>4. /\ book' \in [Processes -> Book] /\ price' \in [Processes -> Prices \union {Entry}]
        /\ UNCHANGED <<row, execs, seen, edited, overlap>> /\ faults' \in 0..MaxFaults
    BY <1>1, <1>3, BookKept DEF Answer, Keep, db, PInv, TypeOK
  <1>5. CASE y.ok = TRUE
    <2> DEFINE z == [sess[s] EXCEPT !.pc = "commit", !.m = y.m]
    <2>1. z \in Session /\ z.pc = "commit" /\ z.m = y.m /\ z.was = sess[s].was
      BY <1>2, <1>3 DEF Session
    <2>2. sess' = [sess EXCEPT ![s] = z] /\ lock' = lock
      BY <1>1, <1>5 DEF Answer, Become
    <2> HIDE DEF z
    <2>3. CopyOK(z, row)
      BY <1>2, <1>3, <2>1 DEF CopyOK
    <2> QED BY <1>2, <1>4, <2>1, <2>2, <2>3, PStep
  <1>6. CASE y.ok = FALSE
    <2>1. sess' = [sess EXCEPT ![s] = Idle] /\ lock' = Free
      BY <1>1, <1>6 DEF Answer, Become
    <2> QED BY <1>2, <1>4, <2>1, OpenedFields, PStep DEF Works
  <1>7. y.ok \in BOOLEAN
    BY <1>3, SimFields
  <1> QED BY <1>5, <1>6, <1>7

(* A target is taken in the monitor's loop.                                *)
LEMMA TakeEffect ==
  ASSUME PInv, NEW s \in Sessions, TakeTarget(s)
  PROVE  /\ sess[s].pc = "monitor"
         /\ \E y, pc : /\ Acts(State(s, sess[s].m), y) /\ book' = [book EXCEPT ![Proc[s]] = y.b]
                       /\ sess' = [sess EXCEPT ![s] = [sess[s] EXCEPT !.m = y.m, !.pc = pc]]
                       /\ pc = "commit" \/ (pc = "monitor" /\ y.m.status = "OPEN")
  <1> DEFINE st == State(s, sess[s].m)
  <1>1. sess[s].pc = "monitor" /\ st \in Sim /\ st.m = sess[s].m
    BY SessionFields, StateIsSim DEF TakeTarget, At
  <1>2. PICK i \in Due(s) :
           LET x == Hit(State(s, sess[s].m), i)
               y == IF x.ok THEN Protected(x, i) ELSE x
           IN /\ Keep(s, y.b)
              /\ Become(s, [sess[s] EXCEPT !.m = y.m,
                              !.pc = IF x.ok /\ x.m.status = "OPEN" THEN "monitor" ELSE "commit"])
    BY DEF TakeTarget
  <1> DEFINE x == Hit(st, i)
             y == IF x.ok THEN Protected(x, i) ELSE x
             pc == IF x.ok /\ x.m.status = "OPEN" THEN "monitor" ELSE "commit"
  <1>3. /\ book' = [book EXCEPT ![Proc[s]] = y.b]
        /\ sess' = [sess EXCEPT ![s] = [sess[s] EXCEPT !.m = y.m, !.pc = pc]]
    BY <1>2 DEF Keep, Become
  <1>4. i \in Targets /\ st.m.target[i] = "WAITING"
    BY <1>1, <1>2 DEF Due
  <1> HIDE DEF st
  <1>5. Acts(st, x) /\ x \in Sim /\ x.ok \in BOOLEAN
    BY <1>1, <1>4, HitActs DEF Acts, Follows
  <1> HIDE DEF x
  <1>6. /\ Acts(st, Protected(x, i)) /\ Protected(x, i).m.status = x.m.status
    BY <1>1, <1>4, <1>5, ProtectedFollows, ActsThen
  <1>7. Acts(st, y) /\ (pc = "commit" \/ (pc = "monitor" /\ y.m.status = "OPEN"))
    BY <1>5, <1>6
  <1> HIDE DEF y, pc
  <1> QED BY <1>1, <1>3, <1>7 DEF st

LEMMA TakeKeeps ==
  ASSUME PInv, NEW s \in Sessions, TakeTarget(s) PROVE PInv'
  <1>1. PICK y, pc :
          /\ Acts(State(s, sess[s].m), y) /\ book' = [book EXCEPT ![Proc[s]] = y.b]
          /\ sess' = [sess EXCEPT ![s] = [sess[s] EXCEPT !.m = y.m, !.pc = pc]]
          /\ pc = "commit" \/ (pc = "monitor" /\ y.m.status = "OPEN")
    BY TakeEffect
  <1>2. /\ sess[s].pc = "monitor" /\ CopyOK(sess[s], row) /\ lock = s
        /\ sess[s] \in Session /\ sess[s].was \in Record /\ sess[s].m \in Record
    BY TakeEffect, SessionFields DEF Works
  <1>3. Advanced(sess[s].was, y.m) /\ y.m \in Record /\ y.b \in Book
    <2> DEFINE st == State(s, sess[s].m)
    <2>1. st \in Sim /\ st.m = sess[s].m
      BY <1>2, StateIsSim
    <2>2. Advanced(sess[s].was, st.m)
      BY <1>2, <2>1 DEF CopyOK
    <2>3. Acts(st, y)
      BY <1>1
    <2> HIDE DEF st
    <2> QED BY <1>2, <2>1, <2>2, <2>3, CallAdvances
  <1>4. /\ book' \in [Processes -> Book] /\ price' \in [Processes -> Prices \union {Entry}]
        /\ UNCHANGED <<row, execs, seen, edited, overlap, lock>> /\ faults' \in 0..MaxFaults
    BY <1>1, <1>3, BookKept DEF TakeTarget, db, PInv, TypeOK
  <1> DEFINE z == [sess[s] EXCEPT !.m = y.m, !.pc = pc]
  <1>5. z \in Session /\ z.pc = pc /\ z.m = y.m /\ z.was = sess[s].was
    BY <1>1, <1>2, <1>3 DEF Session
  <1>6. sess' = [sess EXCEPT ![s] = z]
    BY <1>1
  <1> HIDE DEF z
  <1>7. CopyOK(z, row)
    BY <1>1, <1>2, <1>3, <1>5 DEF CopyOK
  <1> QED BY <1>2, <1>4, <1>5, <1>6, <1>7, PStep

(* A guru message is applied: the copy has the targets of now.             *)
Answers(s, x, y) ==
  /\ x \in Sim /\ Acts(x, y) /\ x.m = [sess[s].m EXCEPT !.target = row.target]
  /\ x.b = Restored(book[Proc[s]], x.m) /\ x.m \in Record
  /\ book' = [book EXCEPT ![Proc[s]] = y.b]
  /\ sess' = [sess EXCEPT ![s] = [sess[s] EXCEPT !.pc = "write", !.was = x.m, !.m = y.m]]

LEMMA GuruEffect ==
  ASSUME PInv, NEW s \in Sessions, GuruActs(s)
  PROVE  sess[s].pc = "guru" /\ \E x, y : Answers(s, x, y)
  <1> DEFINE now == [sess[s].m EXCEPT !.target = row.target]
             x == [State(s, now) EXCEPT !.b = Restored(@, now)]
  <1>1. /\ sess[s].pc = "guru" /\ sess[s].m = sess[s].was /\ sess[s] \in Session
        /\ sess[s].m \in Record
    BY SessionFields DEF GuruActs, At, Works, CopyOK
  <1>2. now \in Record
    BY <1>1, SessionFields DEF Record
  <1>3. x \in Sim /\ x.m = now /\ x.b = Restored(book[Proc[s]], now)
    BY <1>2, StateIsSim
  <1>4. PICK u \in Updates :
          /\ Keep(s, Applied(x, Request[u]).b)
          /\ Become(s, [sess[s] EXCEPT !.pc = "write", !.was.target = row.target,
                                       !.m = Applied(x, Request[u]).m])
    <2>1. sess[s].upd \subseteq Updates
      BY <1>1 DEF Session
    <2> QED BY <2>1 DEF GuruActs
  <1>5. [sess[s].was EXCEPT !.target = row.target] = now
    BY <1>1
  <1> HIDE DEF x, now
  <1> DEFINE y == Applied(x, Request[u])
  <1>6. Acts(x, y)
    BY <1>3, AppliedActs
  <1> HIDE DEF y
  <1>7. sess' = [sess EXCEPT ![s] = [sess[s] EXCEPT !.pc = "write", !.was = now, !.m = y.m]]
    BY <1>1, <1>4, <1>5 DEF Become, y, Session
  <1>8. book' = [book EXCEPT ![Proc[s]] = y.b]
    BY <1>4 DEF Keep, y
  <1>9. /\ x.m = [sess[s].m EXCEPT !.target = row.target] /\ x.m \in Record
        /\ x.b = Restored(book[Proc[s]], x.m)
        /\ sess' = [sess EXCEPT ![s] = [sess[s] EXCEPT !.pc = "write", !.was = x.m, !.m = y.m]]
    BY <1>2, <1>3, <1>7 DEF now
  <1>10. Answers(s, x, y)
    BY <1>3, <1>6, <1>8, <1>9 DEF Answers
  <1> QED BY <1>1, <1>10

LEMMA SelfAdvanced ==
  ASSUME NEW w \in Record, Sound(w), w.status = "OPEN" PROVE Advanced(w, w)
  <1>1. w.remaining \in Nat /\ w.stop \in Int
    BY ShadowAssumption DEF Record
  <1> QED BY <1>1 DEF Advanced, Sound, Shut, Turned

LEMMA GuruKeeps ==
  ASSUME PInv, NEW s \in Sessions, GuruActs(s) PROVE PInv'
  <1>0. PICK x, y : Answers(s, x, y)
    BY GuruEffect
  <1>1. /\ x \in Sim /\ Acts(x, y) /\ x.m = [sess[s].m EXCEPT !.target = row.target]
        /\ x.m \in Record /\ book' = [book EXCEPT ![Proc[s]] = y.b]
        /\ sess' = [sess EXCEPT ![s] = [sess[s] EXCEPT !.pc = "write", !.was = x.m, !.m = y.m]]
    BY <1>0 DEF Answers
  <1>2. /\ sess[s].pc = "guru" /\ CopyOK(sess[s], row) /\ sess[s] \in Session
        /\ sess[s].m \in Record /\ Sound(row)
    BY GuruEffect, SessionFields DEF Works, PInv
  <1>3. Sound(x.m) /\ x.m.status = "OPEN"
    BY <1>1, <1>2 DEF Sound, CopyOK, Record
  <1>4. Advanced(x.m, y.m) /\ y.m \in Record /\ y.b \in Book
    BY <1>1, <1>3, SelfAdvanced, CallAdvances
  <1>5. /\ book' \in [Processes -> Book] /\ price' \in [Processes -> Prices \union {Entry}]
        /\ UNCHANGED <<row, execs, seen, edited, overlap, lock>> /\ faults' \in 0..MaxFaults
    BY <1>1, <1>4, BookKept DEF GuruActs, db, PInv, TypeOK
  <1> DEFINE z == [sess[s] EXCEPT !.pc = "write", !.was = x.m, !.m = y.m]
  <1>6. z \in Session /\ z.pc = "write" /\ z.m = y.m /\ z.was = x.m
    BY <1>1, <1>2, <1>4 DEF Session
  <1>7. sess' = [sess EXCEPT ![s] = z]
    BY <1>1
  <1> HIDE DEF z
  <1>8. CopyOK(z, row)
    BY <1>3, <1>4, <1>6 DEF CopyOK
  <1> QED BY <1>5, <1>6, <1>7, <1>8, PStep

(* The steps of a session that call nothing and store nothing.             *)
LEMMA PlainKeeps ==
  ASSUME PInv, NEW s \in Sessions, ShadowPrice(s) \/ Skip(s) \/ Monitored(s) PROVE PInv'
  <1>1. /\ UNCHANGED <<row, execs, seen, edited, overlap, lock, faults, book>>
        /\ book \in [Processes -> Book] /\ faults \in 0..MaxFaults
    BY DEF ShadowPrice, Skip, Monitored, db, mem, PInv, TypeOK, Book
  <1>2. price' \in [Processes -> Prices \union {Entry}]
    BY DEF ShadowPrice, Skip, Monitored, mem, PInv, TypeOK
  <1>3. CASE ShadowPrice(s) \/ Skip(s)
    <2> DEFINE z == [Idle EXCEPT !.pc = "priced"]
    <2>1. z \in Session /\ z.pc = "priced"
      BY OpenedFields DEF Session
    <2>2. sess' = [sess EXCEPT ![s] = z] \/ sess' = [sess EXCEPT ![s] = Idle]
      BY <1>3 DEF ShadowPrice, Skip, Become
    <2> HIDE DEF z
    <2> QED BY <1>1, <1>2, <2>1, <2>2, OpenedFields, PStep DEF Works
  <1>4. CASE Monitored(s)
    <2> DEFINE z == [sess[s] EXCEPT !.pc = "commit"]
    <2>1. sess[s].pc = "monitor" /\ CopyOK(sess[s], row) /\ lock = s /\ sess[s] \in Session
      BY <1>4, SessionFields DEF Monitored, At, Works
    <2>2. z \in Session /\ z.pc = "commit" /\ z.m = sess[s].m /\ z.was = sess[s].was
      BY <2>1 DEF Session
    <2>3. sess' = [sess EXCEPT ![s] = z]
      BY <1>4 DEF Monitored, Become
    <2> HIDE DEF z
    <2>4. CopyOK(z, row)
      BY <2>1, <2>2 DEF CopyOK
    <2> QED BY <1>1, <1>2, <2>1, <2>2, <2>3, <2>4, PStep
  <1> QED BY <1>3, <1>4

-----------------------------------------------------------------------------
(* What a write does to the row: no target waits again, a closed row stays *)
(* closed, and a write of what was read puts the copy in its place.        *)
LEMMA StoreEffect ==
  ASSUME PInv, NEW s \in Sessions, Works(sess[s]), Store(s)
  PROVE  /\ row' \in Record /\ Sound(row)' /\ execs' \in [Targets -> Nat]
         /\ row.status = "CLOSED" => row'.status = "CLOSED"
         /\ row = sess[s].was => row' = sess[s].m
  <1> DEFINE w == sess[s].was
             m == sess[s].m
             new == Written(row, w, m)
  <1>1. /\ w \in Record /\ m \in Record /\ row \in Record /\ w.status = "OPEN" /\ Sound(w)
        /\ Advanced(w, m) /\ Sound(row) /\ execs \in [Targets -> Nat]
    BY SessionFields DEF CopyOK, PInv, TypeOK
  <1>2. row' = new
    BY DEF Store
  <1> HIDE DEF w, m
  <1>3. /\ new.status = Column(row.status, w.status, m.status)
        /\ new.remaining = Column(row.remaining, w.remaining, m.remaining)
        /\ new.stop = Column(row.stop, w.stop, m.stop)
        /\ new.target = [i \in Targets |-> Column(row.target[i], w.target[i], m.target[i])]
        /\ new = [status |-> new.status, remaining |-> new.remaining, stop |-> new.stop,
                  target |-> new.target]
    BY DEF Written
  <1>4. /\ new.status \in {row.status, m.status} /\ new.remaining \in {row.remaining, m.remaining}
        /\ new.stop \in {row.stop, m.stop}
        /\ \A i \in Targets : new.target[i] \in {row.target[i], m.target[i]}
    BY <1>3 DEF Column
  <1>5. new.target \in [Targets -> {"WAITING", "EXECUTED", "FAILED", "MERGED"}]
    BY <1>1, <1>3 DEF Column, Record
  <1> HIDE DEF new
  <1>6. new \in Record
    BY <1>1, <1>3, <1>4, <1>5 DEF Record
  <1>7. Sound(new)
    <2>1. new.status = "OPEN" => new.remaining > 0
      <3> SUFFICES ASSUME new.status = "OPEN" PROVE new.remaining > 0
        OBVIOUS
      <3>1. m.status = "OPEN" /\ row.status = "OPEN"
        BY <1>1, <1>3 DEF Column, Record
      <3>2. row.remaining > 0 /\ m.remaining > 0
        BY <1>1, <3>1, ShadowAssumption DEF Sound, Advanced, Shut, Record
      <3> QED BY <1>4, <3>2
    <2>2. \A k \in Targets : m.target[k] = "WAITING" => Alloc[k] > 0
      BY <1>1 DEF Advanced, Turned, Sound
    <2>3. \A k \in Targets : new.target[k] = "WAITING" => Alloc[k] > 0
      BY <1>1, <1>4, <2>2 DEF Sound
    <2> QED BY <2>1, <2>3 DEF Sound
  <1>8. row.status = "CLOSED" => new.status = "CLOSED"
    BY <1>1, <1>3 DEF Column, Record
  <1>9. ASSUME row = w PROVE new = m
    <2>1. /\ new.status = m.status /\ new.remaining = m.remaining /\ new.stop = m.stop
          /\ \A i \in Targets : new.target[i] = m.target[i]
      BY <1>3, <1>9 DEF Column
    <2>2. new.target = m.target
      BY <1>1, <1>5, <2>1 DEF Record
    <2>3. m = [status |-> m.status, remaining |-> m.remaining, stop |-> m.stop, target |-> m.target]
      BY <1>1 DEF Record
    <2> QED BY <1>3, <2>1, <2>2, <2>3
  <1>10. execs' \in [Targets -> Nat]
    BY <1>1 DEF Store
  <1>11. Sound(row)'
    BY <1>2, <1>7 DEF Sound
  <1> QED BY <1>2, <1>6, <1>8, <1>9, <1>10, <1>11 DEF w, m

LEMMA Storing ==
  ASSUME PInv, NEW s \in Sessions, Commit(s) \/ GuruWrites(s)
  PROVE  /\ Works(sess[s]) /\ Store(s) /\ sess' = [sess EXCEPT ![s] = Idle] /\ lock' = Free
         /\ lock = s \/ lock = Free
         /\ Commit(s) => row = sess[s].was /\ overlap' = overlap
         /\ GuruWrites(s) => At(s, "write") /\ overlap' = (overlap \/ Stale(s))
         /\ UNCHANGED <<book, price, faults>>
         /\ sess'[s] = Idle /\ \A t \in Sessions \ {s} : sess'[t] = sess[t]
  <1>1. /\ Store(s) /\ sess' = [sess EXCEPT ![s] = Idle]
        /\ UNCHANGED <<book, price, faults>>
    BY DEF Commit, GuruWrites, Become, mem
  <1>2. sess'[s] = Idle /\ \A t \in Sessions \ {s} : sess'[t] = sess[t]
    BY <1>1, SessionFields
  <1>3. CASE Commit(s)
    <2>1. sess[s].pc = "commit" /\ lock' = Free /\ overlap' = overlap
      BY <1>3 DEF Commit, At
    <2>2. Works(sess[s])
      BY <2>1 DEF Works
    <2>3. lock = s /\ row = sess[s].was
      BY <2>1, <2>2, SessionFields DEF CopyOK
    <2>4. ~GuruWrites(s)
      BY <2>1 DEF GuruWrites, At
    <2> QED BY <1>1, <1>2, <2>1, <2>2, <2>3, <2>4
  <1>4. CASE GuruWrites(s)
    <2>1. sess[s].pc = "write" /\ lock = Free /\ lock' = Free /\ overlap' = (overlap \/ Stale(s))
      BY <1>4 DEF GuruWrites, At
    <2>2. Works(sess[s])
      BY <2>1 DEF Works
    <2>3. ~Commit(s)
      BY <2>1 DEF Commit, At
    <2> QED BY <1>1, <1>2, <2>1, <2>2, <2>3 DEF At
  <1> QED BY <1>3, <1>4

LEMMA GuruRecords ==
  ASSUME PInv, NEW s \in Sessions, NEW u \in Updates, Recorded(u)
  PROVE  seen' \subseteq Updates /\ edited' \subseteq seen'
  BY DEF PInv, TypeOK, Recorded

LEMMA StoringKeeps ==
  ASSUME PInv, NEW s \in Sessions, Commit(s) \/ GuruWrites(s) PROVE PInv'
  <1>1. /\ Works(sess[s]) /\ Store(s) /\ lock' = Free /\ (lock = s \/ lock = Free)
        /\ UNCHANGED <<book, price, faults>> /\ sess' = [sess EXCEPT ![s] = Idle]
        /\ sess'[s] = Idle /\ \A t \in Sessions \ {s} : sess'[t] = sess[t]
    BY Storing
  <1>2. row' \in Record /\ Sound(row)' /\ execs' \in [Targets -> Nat]
    BY <1>1, StoreEffect
  <1>3. seen' \subseteq Updates /\ edited' \subseteq seen' /\ overlap' \in BOOLEAN
    <2>1. CASE Commit(s)
      BY <2>1 DEF Commit, PInv, TypeOK
    <2>2. CASE GuruWrites(s)
      <3>1. PICK u \in sess[s].upd : Recorded(u)
        BY <2>2 DEF GuruWrites
      <3>2. u \in Updates
        BY <3>1, SessionFields DEF Session
      <3>3. overlap' \in BOOLEAN
        BY <2>2 DEF GuruWrites, PInv, TypeOK
      <3> QED BY <3>1, <3>2, <3>3, GuruRecords
    <2> QED BY <2>1, <2>2
  <1>7. sess' \in [Sessions -> Session]
    BY <1>1, OpenedFields DEF PInv, TypeOK
  <1>4. \A t \in Sessions : sess'[t].pc \notin {"locked", "monitor", "commit"}
    <2> TAKE t \in Sessions
    <2>1. CASE t = s
      BY <1>1, <2>1, OpenedFields
    <2>2. CASE t # s
      <3>1. lock # t
        BY <1>1, <2>2, ShadowAssumption
      <3> QED BY <1>1, <2>2, <3>1 DEF PInv, TypeOK
    <2> QED BY <2>1, <2>2
  <1>5. TypeOK'
    BY <1>1, <1>2, <1>3, <1>4, <1>7 DEF PInv, TypeOK
  <1>6. \A t \in Sessions : Works(sess[t])' => CopyOK(sess[t], row)'
    <2> SUFFICES ASSUME NEW t \in Sessions, Works(sess'[t]) PROVE CopyOK(sess'[t], row')
      BY DEF Works, CopyOK, Sound
    <2>1. t # s
      BY <1>1, OpenedFields DEF Works
    <2>2. sess'[t] = sess[t] /\ CopyOK(sess[t], row)
      BY <1>1, <2>1 DEF PInv
    <2> QED BY <1>4, <2>2 DEF CopyOK
  <1> QED BY <1>2, <1>5, <1>6 DEF PInv

LEMMA TooLateKeeps ==
  ASSUME PInv, NEW s \in Sessions, GuruTooLate(s) PROVE PInv'
  <1>1. PICK u \in Updates : Recorded(u)
    BY DEF GuruTooLate
  <1>2. seen' \subseteq Updates /\ edited' \subseteq seen'
    BY <1>1, GuruRecords
  <1>3. UNCHANGED <<row, execs, overlap, lock, book, price, sess, faults>>
    BY DEF GuruTooLate, mem
  <1>4. TypeOK'
    BY <1>2, <1>3 DEF PInv, TypeOK
  <1> QED BY <1>3, <1>4 DEF PInv, Works, CopyOK, Sound

LEMMA RollbackKeeps ==
  ASSUME PInv, NEW s \in Sessions, Rollback(s) PROVE PInv'
  <1>1. /\ sess' = [sess EXCEPT ![s] = Idle] /\ lock' = IF lock = s THEN Free ELSE lock
        /\ UNCHANGED <<row, execs, seen, edited, overlap, book, price>>
    BY DEF Rollback, Become, db, mem
  <1>2. faults' \in 0..MaxFaults
    BY ShadowAssumption DEF Rollback, PInv, TypeOK
  <1>3. book' \in [Processes -> Book] /\ price' \in [Processes -> Prices \union {Entry}]
    BY <1>1 DEF PInv, TypeOK, Book
  <1>4. lock' = lock \/ (lock = s /\ lock' = Free)
    BY <1>1
  <1> QED BY <1>1, <1>2, <1>3, <1>4, OpenedFields, PStep DEF Works

LEMMA RestartKeeps ==
  ASSUME PInv, NEW p \in Processes, Restart(p) PROVE PInv'
  <1>1. /\ \A t \in Sessions : sess'[t] = IF Proc[t] = p THEN Idle ELSE sess[t]
        /\ sess' \in [Sessions -> Session]
    BY OpenedFields DEF Restart, PInv, TypeOK
  <1>2. /\ UNCHANGED <<row, execs, seen, edited, overlap>>
        /\ lock' = IF lock \in Sessions /\ Proc[lock] = p THEN Free ELSE lock
    BY DEF Restart, db
  <1>3. faults' \in 0..MaxFaults
    BY ShadowAssumption DEF Restart, PInv, TypeOK
  <1>4. book' \in [Processes -> Book]
    BY OpenedFields DEF Restart, PInv, TypeOK, Book
  <1>5. price' \in [Processes -> Prices \union {Entry}]
    BY DEF Restart, PInv, TypeOK
  <1>6. \A t \in Sessions : sess'[t].pc \in {"locked", "monitor", "commit"} => lock' = t
    <2> SUFFICES ASSUME NEW t \in Sessions, sess'[t].pc \in {"locked", "monitor", "commit"}
                 PROVE  lock' = t
      OBVIOUS
    <2>1. Proc[t] # p /\ sess'[t] = sess[t]
      BY <1>1, OpenedFields
    <2>2. lock = t
      BY <2>1 DEF PInv, TypeOK
    <2> QED BY <1>2, <2>1, <2>2
  <1>7. TypeOK'
    BY <1>1, <1>2, <1>3, <1>4, <1>5, <1>6 DEF PInv, TypeOK, Book
  <1>8. \A t \in Sessions : Works(sess[t])' => CopyOK(sess[t], row)'
    <2> SUFFICES ASSUME NEW t \in Sessions, Works(sess'[t]) PROVE CopyOK(sess'[t], row')
      BY DEF Works, CopyOK, Sound
    <2>1. sess'[t] = sess[t]
      BY <1>1, OpenedFields DEF Works
    <2> QED BY <1>2, <2>1 DEF PInv
  <1> QED BY <1>2, <1>7, <1>8 DEF PInv, Sound

LEMMA NextKeepsPInv == PInv /\ [Next]_vars => PInv'
  <1> SUFFICES ASSUME PInv, [Next]_vars PROVE PInv'
    OBVIOUS
  <1>1. CASE UNCHANGED vars
    BY <1>1 DEF vars, db, mem, PInv, TypeOK, Works, CopyOK, Sound
  <1>2. ASSUME NEW s \in Sessions, HandlerStep(s) PROVE PInv'
    <2>1. CASE RequestLock(s)
      BY <2>1, BeginEffect, BeginKeeps
    <2>2. CASE PartialClose(s) \/ ClosePosition(s) \/ SetStop(s)
      BY <2>2, HandlerKeeps
    <2>3. CASE ShadowPrice(s)
      BY <2>3, PlainKeeps
    <2> QED BY <1>2, <2>1, <2>2, <2>3 DEF HandlerStep
  <1>3. ASSUME NEW s \in Sessions, RunStep(s) PROVE PInv'
    <2>1. CASE Reconcile(s)
      BY <2>1, BeginEffect, BeginKeeps
    <2>2. CASE Skip(s) \/ Monitored(s)
      BY <2>2, PlainKeeps
    <2>3. CASE TakeTarget(s)
      BY <2>3, TakeKeeps
    <2>4. CASE Commit(s)
      BY <2>4, StoringKeeps
    <2> QED BY <1>3, <2>1, <2>2, <2>3, <2>4 DEF RunStep
  <1>4. ASSUME NEW s \in Sessions, GuruStep(s) PROVE PInv'
    <2>1. CASE GuruReads(s)
      BY <2>1, BeginEffect, BeginKeeps
    <2>2. CASE GuruTooLate(s)
      BY <2>2, TooLateKeeps
    <2>3. CASE GuruActs(s)
      BY <2>3, GuruKeeps
    <2>4. CASE GuruWrites(s)
      BY <2>4, StoringKeeps
    <2> QED BY <1>4, <2>1, <2>2, <2>3, <2>4 DEF GuruStep
  <1> QED BY <1>1, <1>2, <1>3, <1>4, RollbackKeeps, RestartKeeps DEF Next

(* The row, the copies, the locks and the books always have the shapes the *)
(* model gives them, and whoever works under the lock has it.              *)
THEOREM TypeCorrect == Spec => []TypeOK
  <1>1. PInv => TypeOK
    BY DEF PInv
  <1> QED BY <1>1, InitPInv, NextKeepsPInv, PTL DEF Spec

(* Which steps write the row, and what is known of them.                   *)
LEMMA WritersOnly ==
  ASSUME Next, row' # row \/ execs' # execs
  PROVE  \E s \in Sessions : Commit(s) \/ GuruWrites(s)
  <1>1. \A p \in Processes : ~Restart(p)
    BY DEF Restart, db
  <1>2. \A s \in Sessions : ~Rollback(s) /\ ~HandlerStep(s)
    BY DEF Rollback, HandlerStep, RequestLock, PartialClose, ClosePosition, SetStop, Answer,
           ShadowPrice, db
  <1>3. \A s \in Sessions : ~Reconcile(s) /\ ~Skip(s) /\ ~TakeTarget(s) /\ ~Monitored(s)
    BY DEF Reconcile, Skip, TakeTarget, Monitored, db
  <1>4. \A s \in Sessions : ~GuruReads(s) /\ ~GuruTooLate(s) /\ ~GuruActs(s)
    BY DEF GuruReads, GuruTooLate, GuruActs, db
  <1> QED BY <1>1, <1>2, <1>3, <1>4 DEF Next, RunStep, GuruStep

(* A CLOSED position stays CLOSED whatever a session that read it before   *)
(* still writes: every copy was loaded OPEN, and an UPDATE leaves out the  *)
(* status that it did not change (api/stubs.py, workers/pipeline.py).      *)
THEOREM ClosedStaysClosed == Spec => ClosedIsFinal
  <1>1. ASSUME PInv, [Next]_vars, row.status = "CLOSED" PROVE row'.status = "CLOSED"
    <2>1. CASE row' = row
      BY <1>1, <2>1
    <2>2. CASE row' # row
      <3>1. PICK s \in Sessions : Commit(s) \/ GuruWrites(s)
        BY <1>1, <2>2, WritersOnly DEF vars, db
      <3> QED BY <1>1, <3>1, Storing, StoreEffect
    <2> QED BY <2>1, <2>2
  <1>2. PInv /\ [Next]_vars => [row.status = "CLOSED" => row'.status = "CLOSED"]_vars
    BY <1>1
  <1> QED BY <1>2, InitPInv, NextKeepsPInv, PTL DEF Spec, ClosedIsFinal

(* Every step but a guru update's write over a row that it had not read is *)
(* a step of PositionLife: volume is only taken out, the stop is only      *)
(* tightened, and the row is CLOSED exactly when nothing remains.          *)
THEOREM LockedWritersLoseNothing == Spec => OnlyGurusOverwrite
  <1> DEFINE Clean == \A s \in Sessions : ~Overwrites(s)
  <1>1. ASSUME PInv, [Next]_vars, Clean PROVE [Life!Next]_(Life!life)
    <2>1. CASE row' = row
      BY <2>1 DEF Life!life
    <2>2. CASE row' # row
      <3>1. PICK s \in Sessions : Commit(s) \/ GuruWrites(s)
        BY <1>1, <2>2, WritersOnly DEF vars, db
      <3>2. /\ Works(sess[s]) /\ Store(s) /\ sess'[s].pc = "idle"
            /\ Commit(s) => row = sess[s].was
            /\ GuruWrites(s) => At(s, "write")
        BY <1>1, <3>1, Storing, OpenedFields
      <3>3. row = sess[s].was
        BY <1>1, <3>1, <3>2 DEF Overwrites, Stale
      <3>4. row' = sess[s].m
        BY <1>1, <3>2, <3>3, StoreEffect
      <3>5. /\ row.status = "OPEN" /\ Advanced(row, row') /\ row' \in Record /\ row \in Record
        BY <1>1, <3>2, <3>3, <3>4, SessionFields DEF CopyOK
      <3>6. Life!Next
        BY <3>5, ShadowAssumption DEF Life!Next, Advanced, Shut, Record
      <3> QED BY <3>6
    <2> QED BY <2>1, <2>2
  <1>2. PInv /\ [Next]_vars => [Clean => [Life!Next]_(Life!life)]_vars
    BY <1>1
  <1> QED BY <1>2, InitPInv, NextKeepsPInv, PTL DEF Spec, OnlyGurusOverwrite

-----------------------------------------------------------------------------
(* As long as no update overwrote the row, its targets and the journal     *)
(* agree.                                                                  *)
XInv ==
  /\ PInv
  /\ ~overlap => \A i \in Targets : /\ execs[i] <= 1
                                    /\ row.target[i] # "EXECUTED" => execs[i] = 0

LEMMA CleanWrite ==
  ASSUME PInv, NEW s \in Sessions, Commit(s) \/ GuruWrites(s), ~overlap'
  PROVE  /\ ~overlap /\ row = sess[s].was /\ row' = sess[s].m /\ Works(sess[s])
         /\ CopyOK(sess[s], row) /\ Store(s)
  <1>1. Works(sess[s]) /\ Store(s) /\ ~overlap
    BY Storing
  <1>2. row = sess[s].was
    BY Storing DEF Stale
  <1> QED BY <1>1, <1>2, StoreEffect, SessionFields

LEMMA OverlapStays ==
  ASSUME PInv, [Next]_vars, ~overlap'
  PROVE  ~overlap
  <1>1. ASSUME NEW s \in Sessions, GuruWrites(s) PROVE ~overlap
    BY <1>1, CleanWrite
  <1>2. CASE UNCHANGED overlap
    BY <1>2
  <1>3. ASSUME NEW s \in Sessions, HandlerStep(s) \/ RunStep(s) PROVE UNCHANGED overlap
    BY <1>3 DEF HandlerStep, RequestLock, PartialClose, ClosePosition, SetStop, Answer, ShadowPrice,
                RunStep, Reconcile, Skip, TakeTarget, Monitored, Commit, db
  <1>4. ASSUME NEW s \in Sessions, GuruReads(s) \/ GuruTooLate(s) \/ GuruActs(s) \/ Rollback(s)
        PROVE  UNCHANGED overlap
    BY <1>4 DEF GuruReads, GuruTooLate, GuruActs, Rollback, db
  <1>5. ASSUME NEW p \in Processes, Restart(p) PROVE UNCHANGED overlap
    BY <1>5 DEF Restart, db
  <1> QED BY <1>1, <1>2, <1>3, <1>4, <1>5 DEF Next, GuruStep, vars, db

LEMMA NextKeepsXInv == XInv /\ [Next]_vars => XInv'
  <1> SUFFICES ASSUME XInv, [Next]_vars PROVE XInv'
    OBVIOUS
  <1>1. PInv /\ PInv'
    BY NextKeepsPInv DEF XInv
  <1>2. ASSUME ~overlap', NEW i \in Targets
        PROVE  /\ execs'[i] <= 1
               /\ row'.target[i] # "EXECUTED" => execs'[i] = 0
    <2>1. ~overlap /\ execs[i] <= 1
      BY <1>1, <1>2, OverlapStays DEF XInv
    <2>2. row.target[i] # "EXECUTED" => execs[i] = 0
      BY <2>1 DEF XInv
    <2>3. CASE row' = row /\ execs' = execs
      BY <2>1, <2>2, <2>3
    <2>4. CASE ~(row' = row /\ execs' = execs)
      <3>1. PICK s \in Sessions : Commit(s) \/ GuruWrites(s)
        BY <2>4, WritersOnly DEF vars, db
      <3>2. /\ row = sess[s].was /\ row' = sess[s].m /\ CopyOK(sess[s], row) /\ Store(s)
        BY <1>1, <1>2, <3>1, CleanWrite
      <3>3. /\ row'.target[i] = row.target[i] \/ row'.target[i] \in {"EXECUTED", "FAILED"}
            /\ row.target[i] = "EXECUTED" => row'.target[i] = "EXECUTED"
        BY <3>2 DEF CopyOK, Advanced, Turned
      <3>4. execs'[i] = IF row'.target[i] = "EXECUTED" /\ row.target[i] # "EXECUTED"
                        THEN execs[i] + 1 ELSE execs[i]
        BY <3>2 DEF Store, Newly
      <3> QED BY <2>1, <2>2, <3>3, <3>4
    <2> QED BY <2>3, <2>4
  <1> QED BY <1>1, <1>2 DEF XInv

(* If no update overwrote the row, the journal has each target executed at *)
(* most once: two reconcile runs, or a run and a TARGET_HIT message, never *)
(* both take it (monitoring/service.py, FOR UPDATE SKIP LOCKED).           *)
THEOREM TargetsExecuteOnce == Spec => []ExecutedOnce
  <1>1. Init => XInv
    <2> SUFFICES ASSUME Init PROVE XInv
      OBVIOUS
    <2>1. \A i \in Targets : execs[i] = 0
      BY DEF Init
    <2> QED BY <2>1, InitPInv DEF XInv
  <1>2. XInv => ExecutedOnce
    BY DEF XInv, ExecutedOnce
  <1> QED BY <1>1, <1>2, NextKeepsXInv, PTL DEF Spec

-----------------------------------------------------------------------------
(* Why a target is not given up as long as nothing was rolled back or      *)
(* overwritten: the book of a process never has less than the row, if it   *)
(* has anything, except while the process's own session has taken from it  *)
(* what it is about to commit; and then it has what the session's copy     *)
(* has.  A worker's process runs one job at a time (workers/queue.py).     *)
OneJobEach ==
  \A s \in Sessions, t \in Sessions : Proc[s] = Proc[t] /\ s \notin Handlers => s = t

Clean == ~overlap /\ faults = 0
Kept(t) == \A i \in Targets : t[i] # "FAILED"
Covers(b, m) == m.remaining <= b.vol
Apart(b, m) == b.vol = 0 \/ Covers(b, m)
Backs(x, b) ==
  /\ Kept(x.m.target)
  /\ x.pc \in {"locked", "guru"} => Apart(b, x.m)
  /\ x.pc \in {"monitor", "write", "commit"} => Covers(b, x.m)
Busy(p) == \E s \in Sessions : Proc[s] = p /\ Works(sess[s])
Ample ==
  /\ Kept(row.target)
  /\ \A s \in Handlers : sess[s].pc \notin {"guru", "write"}
  /\ \A s \in Sessions : Works(sess[s]) => Backs(sess[s], book[Proc[s]])
  /\ \A p \in Processes : ~Busy(p) => Apart(book[p], row)
GInv == PInv /\ (Clean => Ample)

LEMMA Alone ==
  ASSUME OneJobEach, PInv, Ample, NEW s \in Sessions,
         s \notin Handlers \/ lock = Free \/ sess[s].pc \in {"locked", "monitor", "commit"},
         NEW t \in Sessions, t # s, Proc[t] = Proc[s]
  PROVE  ~Works(sess[t])
  <1> SUFFICES ASSUME Works(sess[t]) PROVE FALSE
    OBVIOUS
  <1>1. s \in Handlers /\ t \in Handlers
    BY DEF OneJobEach
  <1>2. sess[t].pc \in {"locked", "monitor", "commit"}
    <2>1. sess[t].pc \in {"idle", "locked", "priced", "monitor", "guru", "write", "commit"}
      BY SessionFields DEF Session
    <2> QED BY <1>1, <2>1 DEF Works, Ample
  <1>3. lock = t
    BY <1>2 DEF PInv, TypeOK
  <1>4. lock # s /\ lock # Free
    BY <1>3, ShadowAssumption
  <1> QED BY <1>1, <1>4 DEF PInv, TypeOK

(* A session that is alone in its process goes on as x, with book b.       *)
LEMMA AmpleStep ==
  ASSUME OneJobEach, PInv, PInv', Ample, NEW s \in Sessions, NEW x, NEW b,
         s \notin Handlers \/ lock = Free \/ sess[s].pc \in {"locked", "monitor", "commit"},
         sess' = [sess EXCEPT ![s] = x], book' = [book EXCEPT ![Proc[s]] = b],
         Kept(row'.target), row'.remaining <= row.remaining,
         s \in Handlers => x.pc \notin {"guru", "write"},
         Works(x) => Backs(x, b), ~Works(x) => Apart(b, row')
  PROVE  Ample'
  <1>1. /\ sess'[s] = x /\ book'[Proc[s]] = b
        /\ \A t \in Sessions \ {s} : sess'[t] = sess[t]
        /\ \A q \in Processes \ {Proc[s]} : book'[q] = book[q]
    BY SessionFields
  <1>2. \A h \in Handlers : sess'[h].pc \notin {"guru", "write"}
    BY <1>1, ShadowAssumption DEF Ample
  <1>3. ASSUME NEW t \in Sessions, Works(sess'[t]) PROVE Backs(sess'[t], book'[Proc[t]])
    <2>1. CASE t = s
      BY <1>1, <1>3, <2>1
    <2>2. CASE t # s
      <3>1. Works(sess[t]) /\ sess'[t] = sess[t] /\ Proc[t] \in Processes
        BY <1>1, <1>3, <2>2, SessionFields
      <3>2. Proc[t] # Proc[s]
        BY <2>2, <3>1, Alone
      <3> QED BY <1>1, <3>1, <3>2 DEF Ample
    <2> QED BY <2>1, <2>2
  <1>4. ASSUME NEW p \in Processes, \A t \in Sessions : Proc[t] = p => ~Works(sess'[t])
        PROVE  Apart(book'[p], row')
    <2>1. CASE p = Proc[s]
      BY <1>1, <1>4, <2>1
    <2>2. CASE p # Proc[s]
      <3>1. Apart(book[p], row) /\ book'[p] = book[p]
        BY <1>1, <1>4, <2>2 DEF Ample, Busy
      <3>2. /\ row.remaining \in Nat /\ row'.remaining \in Nat /\ book[p].vol \in Nat
        BY ShadowAssumption DEF PInv, TypeOK, Record, Book
      <3> QED BY <3>1, <3>2 DEF Apart, Covers
    <2> QED BY <2>1, <2>2
  <1>5. Kept(row.target)'
    BY DEF Kept
  <1>6. \A t \in Sessions : Works(sess[t])' => Backs(sess[t], book[Proc[t]])'
    BY <1>3 DEF Works, Backs, Kept, Apart, Covers
  <1>7. \A p \in Processes : ~Busy(p)' => Apart(book[p], row)'
    BY <1>4 DEF Busy, Works, Apart, Covers
  <1> QED BY <1>2, <1>5, <1>6, <1>7 DEF Ample

LEMMA QuietKeepsAmple ==
  ASSUME Ample, UNCHANGED <<row, book>>,
         \A t \in Sessions : \/ sess'[t] = sess[t]
                             \/ ~Works(sess[t]) /\ ~Works(sess'[t])
  PROVE  Ample'
  <1>1. \A t \in Sessions : Works(sess'[t]) = Works(sess[t])
    BY DEF Works
  <1>2. \A h \in Handlers : sess'[h].pc \notin {"guru", "write"}
    BY ShadowAssumption DEF Ample, Works
  <1>3. \A t \in Sessions : Works(sess[t])' => Backs(sess[t], book[Proc[t]])'
    BY <1>1 DEF Ample, Works, Backs, Kept, Apart, Covers
  <1>4. \A p \in Processes : ~Busy(p)' => Apart(book[p], row)'
    BY <1>1 DEF Ample, Busy, Works, Apart, Covers
  <1>5. Kept(row.target)'
    BY DEF Ample, Kept
  <1> QED BY <1>2, <1>3, <1>4, <1>5 DEF Ample

(* What the book has after the position was restored.                      *)
LEMMA RestoredBacks ==
  ASSUME NEW b \in Book, NEW m \in Record, Apart(b, m)
  PROVE  Covers(Restored(b, m), m) /\ (m.remaining > 0 => Restored(b, m).vol > 0)
  BY RestoredFields DEF Apart, Covers

LEMMA ActsBacks ==
  ASSUME NEW x, NEW y, Acts(x, y), x.m.status = "OPEN", x.b.vol > 0, Covers(x.b, x.m),
         Kept(x.m.target), \A k \in Targets : x.m.target[k] = "WAITING" => Alloc[k] > 0
  PROVE  Kept(y.m.target) /\ Covers(y.b, y.m)
  BY DEF Acts, Follows, Fit, NoneFails, Backed, Kept, Covers

LEMMA BeginAmple ==
  ASSUME OneJobEach, PInv, PInv', Ample, NEW s \in Sessions, NEW x, Begins(s, x) PROVE Ample'
  <1>1. s \notin Handlers \/ lock = Free
    BY DEF Begins
  <1>2. ~Busy(Proc[s])
    <2> SUFFICES ASSUME NEW t \in Sessions, Proc[t] = Proc[s], Works(sess[t]) PROVE FALSE
      BY DEF Busy
    <2>1. t # s
      BY DEF Begins
    <2> QED BY <1>1, <2>1, Alone
  <1>3. Apart(book[Proc[s]], row) /\ row \in Record /\ book[Proc[s]] \in Book
    BY <1>2, SessionFields DEF Ample
  <1>4. /\ sess' = [sess EXCEPT ![s] = x] /\ row' = row /\ x.m = row
        /\ row'.remaining <= row.remaining /\ Kept(row.target) /\ Kept(row'.target)
    BY <1>3, ShadowAssumption DEF Begins, db, Ample, Record
  <1>5. CASE x.pc \in {"locked", "guru"} /\ book' = book
    <2> DEFINE b == book[Proc[s]]
    <2>1. book' = [book EXCEPT ![Proc[s]] = b]
      BY <1>5 DEF PInv, TypeOK
    <2>2. Works(x) /\ Backs(x, b) /\ (s \in Handlers => x.pc \notin {"guru", "write"})
      BY <1>3, <1>4, <1>5 DEF Works, Backs, Begins
    <2> HIDE DEF b
    <2> QED BY <1>1, <1>4, <2>1, <2>2, AmpleStep
  <1>6. CASE x.pc = "monitor" /\ book' = [book EXCEPT ![Proc[s]] = Restored(@, row)]
    <2> DEFINE b == Restored(book[Proc[s]], row)
    <2>1. book' = [book EXCEPT ![Proc[s]] = b]
      BY <1>6
    <2>2. Covers(b, row)
      BY <1>3, RestoredBacks
    <2> HIDE DEF b
    <2>3. Works(x) /\ Backs(x, b) /\ x.pc \notin {"guru", "write"}
      BY <1>4, <1>6, <2>2 DEF Works, Backs
    <2> QED BY <1>1, <1>4, <2>1, <2>3, AmpleStep
  <1> QED BY <1>5, <1>6 DEF Begins

LEMMA HandlerAmple ==
  ASSUME OneJobEach, PInv, PInv', Ample, NEW s \in Sessions,
         PartialClose(s) \/ ClosePosition(s) \/ SetStop(s)
  PROVE  Ample'
  <1> DEFINE m == sess[s].m
             c == book[Proc[s]]
  <1>1. PICK x, y : /\ x \in Sim /\ Acts(x, y) /\ x.m = m /\ Answer(s, y)
                    /\ y.ok = TRUE => x.b = Restored(c, m)
                    /\ y.ok = FALSE => y.b = x.b /\ x.b \in {c, Restored(c, m)}
    BY HandlerEffect
  <1>2. /\ sess[s].pc = "locked" /\ CopyOK(sess[s], row) /\ Works(sess[s])
        /\ m \in Record /\ c \in Book
    BY HandlerEffect, SessionFields DEF Works
  <1>3. /\ m = row /\ m.status = "OPEN" /\ m.remaining > 0 /\ Sound(m)
        /\ Apart(c, m) /\ Kept(m.target)
    BY <1>2 DEF CopyOK, Sound, Ample, Backs
  <1>4. Covers(Restored(c, m), m) /\ Restored(c, m).vol > 0
    BY <1>2, <1>3, RestoredBacks
  <1>5. row' = row /\ row'.remaining <= row.remaining /\ Kept(row'.target)
    BY <1>1, <1>2, <1>3, ShadowAssumption DEF Answer, db, Record
  <1>6. book' = [book EXCEPT ![Proc[s]] = y.b] /\ y.ok \in BOOLEAN
    BY <1>1 DEF Answer, Keep, Acts, Follows, Sim
  <1> HIDE DEF c
  <1>7. CASE y.ok = TRUE
    <2> DEFINE z == [sess[s] EXCEPT !.pc = "commit", !.m = y.m]
    <2>1. sess' = [sess EXCEPT ![s] = z] /\ z.pc = "commit" /\ z.m = y.m
      BY <1>1, <1>7, SessionFields DEF Answer, Become, Session
    <2>2. \A k \in Targets : x.m.target[k] = "WAITING" => Alloc[k] > 0
      BY <1>1, <1>3 DEF Sound
    <2>3. Kept(y.m.target) /\ Covers(y.b, y.m)
      BY <1>1, <1>3, <1>4, <1>7, <2>2, ActsBacks
    <2> HIDE DEF z
    <2>4. Works(z) /\ Backs(z, y.b) /\ z.pc \notin {"guru", "write"}
      BY <2>1, <2>3 DEF Works, Backs
    <2> QED BY <1>2, <1>5, <1>6, <2>1, <2>4, AmpleStep
  <1>8. CASE y.ok = FALSE
    <2>1. sess' = [sess EXCEPT ![s] = Idle]
      BY <1>1, <1>8 DEF Answer, Become
    <2>2. Apart(y.b, row')
      BY <1>1, <1>3, <1>4, <1>5, <1>8 DEF Apart
    <2>3. ~Works(Idle) /\ Idle.pc \notin {"guru", "write"}
      BY OpenedFields DEF Works
    <2> QED BY <1>2, <1>5, <1>6, <2>1, <2>2, <2>3, AmpleStep
  <1> QED BY <1>6, <1>7, <1>8

LEMMA MonitorAmple ==
  ASSUME OneJobEach, PInv, PInv', Ample, NEW s \in Sessions, TakeTarget(s) \/ Monitored(s)
  PROVE  Ample'
  <1>1. sess[s].pc = "monitor" /\ row' = row
    BY DEF TakeTarget, Monitored, At, db
  <1>2. /\ CopyOK(sess[s], row) /\ Backs(sess[s], book[Proc[s]]) /\ sess[s] \in Session
        /\ sess[s].m \in Record /\ row \in Record /\ Kept(row.target)
    BY <1>1, SessionFields DEF Works, Ample
  <1>3. row'.remaining <= row.remaining /\ Kept(row'.target)
    BY <1>1, <1>2, ShadowAssumption DEF Record
  <1>4. CASE TakeTarget(s)
    <2>1. PICK y, pc :
            /\ Acts(State(s, sess[s].m), y) /\ book' = [book EXCEPT ![Proc[s]] = y.b]
            /\ sess' = [sess EXCEPT ![s] = [sess[s] EXCEPT !.m = y.m, !.pc = pc]]
            /\ pc = "commit" \/ (pc = "monitor" /\ y.m.status = "OPEN")
      BY <1>4, TakeEffect
    <2> DEFINE st == State(s, sess[s].m)
               z == [sess[s] EXCEPT !.m = y.m, !.pc = pc]
    <2>2. /\ st.m = sess[s].m /\ st.b = book[Proc[s]] /\ st.b \in Book
      BY <1>2, StateIsSim, SessionFields
    <2>3. /\ st.m.status = "OPEN" /\ Covers(st.b, st.m) /\ Kept(st.m.target)
          /\ st.m.remaining > 0
          /\ \A k \in Targets : st.m.target[k] = "WAITING" => Alloc[k] > 0
      <3>1. st.m.status = "OPEN" /\ Covers(st.b, st.m) /\ Kept(st.m.target)
        BY <1>1, <1>2, <2>2 DEF CopyOK, Backs
      <3>2. st.m.remaining > 0
        BY <1>2, <2>2, <3>1, ShadowAssumption DEF CopyOK, Advanced, Shut, Record
      <3>3. \A k \in Targets : st.m.target[k] = "WAITING" => Alloc[k] > 0
        BY <1>2, <2>2 DEF CopyOK, Advanced, Turned, Sound
      <3> QED BY <3>1, <3>2, <3>3
    <2>4. st.b.vol > 0
      BY <1>2, <2>2, <2>3, ShadowAssumption DEF Covers, Book, Record
    <2>5. Acts(st, y)
      BY <2>1
    <2> HIDE DEF st
    <2>6. Kept(y.m.target) /\ Covers(y.b, y.m)
      BY <2>3, <2>4, <2>5, ActsBacks
    <2>7. z.pc = pc /\ z.m = y.m /\ sess' = [sess EXCEPT ![s] = z]
      BY <1>2, <2>1 DEF Session
    <2> HIDE DEF z
    <2>8. Works(z) /\ Backs(z, y.b) /\ z.pc \notin {"guru", "write"}
      BY <2>1, <2>6, <2>7 DEF Works, Backs
    <2> QED BY <1>1, <1>3, <2>1, <2>7, <2>8, AmpleStep
  <1>5. CASE Monitored(s)
    <2> DEFINE z == [sess[s] EXCEPT !.pc = "commit"]
               b == book[Proc[s]]
    <2>1. z.pc = "commit" /\ z.m = sess[s].m /\ sess' = [sess EXCEPT ![s] = z]
      BY <1>2, <1>5 DEF Monitored, Become, Session
    <2>2. book' = [book EXCEPT ![Proc[s]] = b]
      BY <1>5 DEF Monitored, mem, PInv, TypeOK
    <2> HIDE DEF z
    <2>3. Works(z) /\ Backs(z, b) /\ z.pc \notin {"guru", "write"}
      BY <1>1, <1>2, <2>1 DEF Works, Backs
    <2> HIDE DEF b
    <2> QED BY <1>1, <1>3, <2>1, <2>2, <2>3, AmpleStep
  <1> QED BY <1>4, <1>5

LEMMA GuruAmple ==
  ASSUME OneJobEach, PInv, PInv', Ample, NEW s \in Sessions, GuruActs(s) PROVE Ample'
  <1>1. PICK x, y : Answers(s, x, y)
    BY GuruEffect
  <1>2. /\ sess[s].pc = "guru" /\ CopyOK(sess[s], row) /\ Backs(sess[s], book[Proc[s]])
        /\ sess[s] \in Session /\ sess[s].m \in Record /\ row \in Record /\ Sound(row)
        /\ book[Proc[s]] \in Book /\ Kept(row.target)
    BY GuruEffect, SessionFields DEF Works, Ample, PInv
  <1>3. row' = row /\ row'.remaining <= row.remaining /\ Kept(row'.target)
    BY <1>2, ShadowAssumption DEF GuruActs, db, Record
  <1>4. s \notin Handlers
    BY <1>2 DEF Ample
  <1>5. /\ x.m.status = "OPEN" /\ x.m.remaining = sess[s].m.remaining
        /\ x.m.remaining > 0 /\ x.m.target = row.target /\ x.m \in Record
    BY <1>1, <1>2 DEF Answers, CopyOK, Sound, Record
  <1>6. Apart(book[Proc[s]], x.m)
    BY <1>2, <1>5 DEF Backs, Apart, Covers
  <1>7. x.b.vol > 0 /\ Covers(x.b, x.m)
    BY <1>1, <1>2, <1>5, <1>6, RestoredBacks DEF Answers
  <1>8. Kept(x.m.target) /\ \A k \in Targets : x.m.target[k] = "WAITING" => Alloc[k] > 0
    BY <1>2, <1>5 DEF Sound
  <1>9. Kept(y.m.target) /\ Covers(y.b, y.m)
    BY <1>1, <1>5, <1>7, <1>8, ActsBacks DEF Answers
  <1> DEFINE z == [sess[s] EXCEPT !.pc = "write", !.was = x.m, !.m = y.m]
  <1>10. z.pc = "write" /\ z.m = y.m
    BY <1>2 DEF Session
  <1>11. sess' = [sess EXCEPT ![s] = z] /\ book' = [book EXCEPT ![Proc[s]] = y.b]
    BY <1>1 DEF Answers
  <1> HIDE DEF z
  <1>12. Works(z) /\ Backs(z, y.b)
    BY <1>9, <1>10 DEF Works, Backs
  <1> QED BY <1>3, <1>4, <1>11, <1>12, AmpleStep

LEMMA StoringAmple ==
  ASSUME OneJobEach, PInv, PInv', Ample, ~overlap', NEW s \in Sessions, Commit(s) \/ GuruWrites(s)
  PROVE  Ample'
  <1>1. /\ row = sess[s].was /\ row' = sess[s].m /\ Works(sess[s]) /\ CopyOK(sess[s], row)
        /\ Backs(sess[s], book[Proc[s]])
    BY CleanWrite DEF Ample
  <1>2. /\ sess' = [sess EXCEPT ![s] = Idle] /\ ~Works(Idle) /\ Idle.pc \notin {"guru", "write"}
    BY Storing, OpenedFields DEF Works
  <1>3. /\ sess[s].pc \in {"commit", "write"}
        /\ s \notin Handlers \/ sess[s].pc \in {"locked", "monitor", "commit"}
    BY DEF Commit, GuruWrites, At, Ample
  <1> DEFINE b == book[Proc[s]]
  <1>4. book' = [book EXCEPT ![Proc[s]] = b]
    BY Storing DEF PInv, TypeOK
  <1>5. Kept(row'.target) /\ row'.remaining <= row.remaining /\ Apart(b, row')
    BY <1>1, <1>3 DEF Backs, CopyOK, Advanced, Apart
  <1> HIDE DEF b
  <1> QED BY <1>2, <1>3, <1>4, <1>5, AmpleStep

LEMMA CleanBefore ==
  ASSUME PInv, [Next]_vars, Clean' PROVE Clean
  <1>1. ~overlap /\ faults' = 0 /\ faults \in Nat
    BY OverlapStays, ShadowAssumption DEF Clean, PInv, TypeOK
  <1>2. faults' = faults \/ faults' = faults + 1
    <2>1. ASSUME NEW s \in Sessions, HandlerStep(s) \/ RunStep(s) PROVE faults' = faults
      BY <2>1 DEF HandlerStep, RequestLock, PartialClose, ClosePosition, SetStop, Answer, ShadowPrice,
                  RunStep, Reconcile, Skip, TakeTarget, Monitored, Commit
    <2>2. ASSUME NEW s \in Sessions, GuruStep(s) PROVE faults' = faults
      BY <2>2 DEF GuruStep, GuruReads, GuruTooLate, GuruActs, GuruWrites
    <2>3. ASSUME NEW s \in Sessions, Rollback(s) PROVE faults' = faults + 1
      BY <2>3 DEF Rollback
    <2>4. ASSUME NEW p \in Processes, Restart(p) PROVE faults' = faults + 1
      BY <2>4 DEF Restart
    <2> QED BY <2>1, <2>2, <2>3, <2>4 DEF Next, vars
  <1> QED BY <1>1, <1>2 DEF Clean

LEMMA NextKeepsGInv ==
  ASSUME OneJobEach, GInv, [Next]_vars PROVE GInv'
  <1>1. PInv /\ PInv'
    BY NextKeepsPInv DEF GInv
  <1> SUFFICES ASSUME Clean' PROVE Ample'
    BY <1>1 DEF GInv
  <1>2. Clean /\ Ample /\ ~overlap' /\ faults' = faults
    BY <1>1, CleanBefore DEF GInv, Clean
  <1>3. ASSUME NEW s \in Sessions, HandlerStep(s) PROVE Ample'
    <2>1. CASE RequestLock(s)
      BY <1>1, <1>2, <2>1, BeginEffect, BeginAmple
    <2>2. CASE PartialClose(s) \/ ClosePosition(s) \/ SetStop(s)
      BY <1>1, <1>2, <2>2, HandlerAmple
    <2>3. CASE ShadowPrice(s)
      <3>1. /\ UNCHANGED <<row, book>> /\ ~Works(sess[s])
            /\ sess' = [sess EXCEPT ![s] = [Idle EXCEPT !.pc = "priced"]]
        BY <2>3 DEF ShadowPrice, db, At, Become, Works
      <3>2. ~Works([Idle EXCEPT !.pc = "priced"])
        BY DEF Works, Idle
      <3>3. \A t \in Sessions : sess'[t] = sess[t] \/ (~Works(sess[t]) /\ ~Works(sess'[t]))
        BY <1>1, <3>1, <3>2, SessionFields
      <3> QED BY <1>2, <3>1, <3>3, QuietKeepsAmple
    <2> QED BY <1>3, <2>1, <2>2, <2>3 DEF HandlerStep
  <1>4. ASSUME NEW s \in Sessions, RunStep(s) PROVE Ample'
    <2>1. CASE Reconcile(s)
      BY <1>1, <1>2, <2>1, BeginEffect, BeginAmple
    <2>2. CASE Skip(s)
      <3>1. /\ UNCHANGED <<row, book>> /\ ~Works(sess[s]) /\ sess' = [sess EXCEPT ![s] = Idle]
        BY <2>2 DEF Skip, db, mem, At, Become, Works
      <3>2. ~Works(Idle)
        BY OpenedFields DEF Works
      <3>3. \A t \in Sessions : sess'[t] = sess[t] \/ (~Works(sess[t]) /\ ~Works(sess'[t]))
        BY <1>1, <3>1, <3>2, SessionFields
      <3> QED BY <1>2, <3>1, <3>3, QuietKeepsAmple
    <2>3. CASE TakeTarget(s) \/ Monitored(s)
      BY <1>1, <1>2, <2>3, MonitorAmple
    <2>4. CASE Commit(s)
      BY <1>1, <1>2, <2>4, StoringAmple
    <2> QED BY <1>4, <2>1, <2>2, <2>3, <2>4 DEF RunStep
  <1>5. ASSUME NEW s \in Sessions, GuruStep(s) PROVE Ample'
    <2>1. CASE GuruReads(s)
      BY <1>1, <1>2, <2>1, BeginEffect, BeginAmple
    <2>2. CASE GuruTooLate(s)
      BY <1>2, <2>2, QuietKeepsAmple DEF GuruTooLate, mem
    <2>3. CASE GuruActs(s)
      BY <1>1, <1>2, <2>3, GuruAmple
    <2>4. CASE GuruWrites(s)
      BY <1>1, <1>2, <2>4, StoringAmple
    <2> QED BY <1>5, <2>1, <2>2, <2>3, <2>4 DEF GuruStep
  <1>6. ASSUME NEW s \in Sessions, Rollback(s) PROVE FALSE
    BY <1>1, <1>2, <1>6, ShadowAssumption DEF Rollback, PInv, TypeOK
  <1>7. ASSUME NEW p \in Processes, Restart(p) PROVE FALSE
    BY <1>1, <1>2, <1>7, ShadowAssumption DEF Restart, PInv, TypeOK
  <1>8. CASE UNCHANGED vars
    BY <1>2, <1>8, QuietKeepsAmple DEF vars, db, mem
  <1> QED BY <1>3, <1>4, <1>5, <1>6, <1>7, <1>8 DEF Next

LEMMA InitGInv == Init => GInv
  <1> SUFFICES ASSUME Init PROVE GInv
    OBVIOUS
  <1>1. \A s \in Sessions : sess[s] = Idle /\ ~Works(sess[s]) /\ sess[s].pc \notin {"guru", "write"}
    BY OpenedFields DEF Init, Works
  <1>2. row = Opened /\ Opened.remaining = Volume /\ Kept(row.target)
    BY DEF Init, Opened, Kept
  <1>3. \A p \in Processes : book[p].vol = 0 \/ book[p].vol = Volume
    BY DEF Init, Absent
  <1>4. \A p \in Processes : Apart(book[p], row)
    BY <1>2, <1>3, ShadowAssumption DEF Apart, Covers
  <1> QED BY <1>1, <1>2, <1>4, InitPInv, ShadowAssumption DEF GInv, Ample

(* Where a worker's process runs one job at a time, a target is given up   *)
(* only after a rollback or an overwriting update: the simulations that    *)
(* the processes keep apart (brokers/mock.py) refuse no close by           *)
(* themselves.                                                             *)
THEOREM GivenUpOnlyForCause ==
  ASSUME OneJobEach PROVE Spec => []GivenUpForCause
  <1>1. GInv => GivenUpForCause
    <2> SUFFICES ASSUME GInv, ~overlap, ~(faults > 0) PROVE \A i \in Targets : row.target[i] # "FAILED"
      BY DEF GivenUpForCause
    <2>1. faults = 0
      BY ShadowAssumption DEF GInv, PInv, TypeOK
    <2> QED BY <2>1 DEF GInv, Clean, Ample, Kept
  <1>2. GInv /\ [Next]_vars => GInv'
    BY NextKeepsGInv
  <1> QED BY <1>1, <1>2, InitGInv, PTL DEF Spec
=============================================================================
