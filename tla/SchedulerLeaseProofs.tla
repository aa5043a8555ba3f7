------------------------ MODULE SchedulerLeaseProofs ------------------------
(***************************************************************************)
(* The scheduler's lease for any number of processes, any lease time, and  *)
(* any number of deaths, stalls and lost keys.                             *)
(***************************************************************************)
EXTENDS SchedulerLease, TLAPS

Phases == {"acquire", "startup", "backoff", "sleep", "renew", "round", "down"}
Process == [pc : Phases, life : Nat, held : BOOLEAN, elapsed : Nat, after : Nat]

(* A token is used by one life of one process, and each death costs a fault.*)
LivesCounted ==
  \A w \in Workers : wk[w].life <= faults /\ (At(w, "down") => wk[w].life < faults)

(* Once deposed a process has a renewal ahead of it before any enqueue.    *)
RenewalAhead ==
  \A w \in Workers : wk[w].after > 0 => ~Owns(w) /\ wk[w].pc \notin {"startup", "round"}

(* Among prompt processes a believer's lease is as fresh as its last sleep.*)
LeaseFresh ==
  stalls = 0 /\ lost = 0 =>
    \A w \in Workers :
      Believes(w) => Owns(w) /\ (ttl >= TTL \/ (At(w, "renew") /\ ttl + 1 >= TTL))

Shaped == wk \in [Workers -> Process] /\ TypeOK /\ LivesCounted
IInv == Shaped /\ DeposedStops /\ RenewalAhead /\ LeaseFresh

LEMMA InitIInv == Init => IInv
  <1> SUFFICES ASSUME Init PROVE IInv
    OBVIOUS
  <1>1. \A w \in Workers :
          /\ wk[w].pc = "acquire" /\ wk[w].life = 0 /\ ~wk[w].held
          /\ wk[w].elapsed = 0 /\ wk[w].after = 0
    BY DEF Init, Started
  <1>2. Shaped
    <2>1. Started(0) \in Process
      BY DEF Started, Process, Phases
    <2>2. wk \in [Workers -> Process]
      BY <2>1 DEF Init
    <2>3. key = NoOne /\ ttl = 0 /\ stalls = 0 /\ faults = 0 /\ lost = 0
      BY DEF Init
    <2>8. asked \in BOOLEAN
      BY DEF Init
    <2>4. 0 \in 0..MaxFaults /\ 0 \in 0..MaxStalls /\ 0 \in 0..TTL /\ 0 \in 0..Every
      BY LeaseAssumption
    <2>5. \A w \in Workers :
            wk[w].pc \in {"startup", "sleep", "renew", "round"} <=> wk[w].held
      BY <1>1
    <2>6. TypeOK
      BY <1>1, <2>3, <2>8, <2>4, <2>5 DEF TypeOK
    <2>7. LivesCounted
      <3>1. 0 <= faults
        BY <2>3
      <3>2. \A w \in Workers : wk[w].life = 0 /\ ~At(w, "down")
        BY <1>1 DEF At
      <3> QED BY <3>1, <3>2, Zenon DEF LivesCounted
    <2> QED BY <2>2, <2>6, <2>7 DEF Shaped
  <1>3. DeposedStops /\ RenewalAhead /\ LeaseFresh
    BY <1>1 DEF DeposedStops, RenewalAhead, LeaseFresh, Believes
  <1> QED BY <1>2, <1>3 DEF IInv

-----------------------------------------------------------------------------
(* A step of process w that leaves it as x.                                *)
LEMMA ShapedStep ==
  ASSUME Shaped, NEW w \in Workers, NEW x \in Process, wk' = [wk EXCEPT ![w] = x],
         x.life \in 0..MaxFaults, x.elapsed \in 0..Every,
         x.pc \in {"startup", "sleep", "renew", "round"} <=> x.held,
         x.life <= faults', x.pc = "down" => x.life < faults',
         faults' \in faults..MaxFaults, lost' = lost, stalls' = stalls, asked' \in BOOLEAN,
         key' \in (Workers \X (0..MaxFaults)) \union {NoOne}, ttl' \in 0..TTL,
         ttl' = 0 <=> key' = NoOne
  PROVE  Shaped'
  <1>1. wk'[w] = x /\ \A v \in Workers \ {w} : wk'[v] = wk[v]
    BY DEF Shaped
  <1>2. wk' \in [Workers -> Process]
    BY DEF Shaped
  <1>3. TypeOK'
    <2>1. \A v \in Workers :
            /\ wk'[v].pc \in {"acquire", "startup", "backoff", "sleep", "renew", "round", "down"}
            /\ wk'[v].life \in 0..MaxFaults /\ wk'[v].elapsed \in 0..Every /\ wk'[v].after \in Nat
            /\ wk'[v].pc \in {"startup", "sleep", "renew", "round"} <=> wk'[v].held
      BY <1>1 DEF Shaped, TypeOK, Process, Phases
    <2> QED BY <2>1, LeaseAssumption DEF Shaped, TypeOK
  <1>4. LivesCounted'
    <2>1. faults \in Nat /\ faults' \in Nat /\ faults <= faults'
      BY LeaseAssumption DEF Shaped, TypeOK
    <2>2. \A v \in Workers : wk[v].life \in Nat
      BY DEF Shaped, Process
    <2> QED BY <1>1, <2>1, <2>2 DEF Shaped, LivesCounted, At
  <1> QED BY <1>2, <1>3, <1>4 DEF Shaped

LEMMA TokenKinds ==
  ASSUME Shaped, NEW w \in Workers
  PROVE  /\ Token(w) \in Workers \X (0..MaxFaults) /\ Token(w) # NoOne
         /\ \A v \in Workers : Token(v) = Token(w) => v = w
  BY LeaseAssumption DEF Shaped, TypeOK, Token

(* The same step, for the rest of the invariant: whoever else owns the     *)
(* lease keeps it as it is.                                                *)
LEMMA RestStep ==
  ASSUME IInv, NEW w \in Workers, NEW x \in Process, wk' = [wk EXCEPT ![w] = x],
         stalls' = stalls, lost' = lost,
         \A v \in Workers \ {w} : key = Token(v) => key' = key /\ ttl' = ttl,
         \A v \in Workers \ {w} : key' = Token(v) => key = Token(v),
         x.after <= 1, x.after > 0 => key' # <<w, x.life>> /\ x.pc \notin {"startup", "round"},
         stalls = 0 /\ lost = 0 /\ x.held /\ x.pc # "down"
           => key' = <<w, x.life>> /\ (ttl' >= TTL \/ (x.pc = "renew" /\ ttl' + 1 >= TTL))
  PROVE  DeposedStops' /\ RenewalAhead' /\ LeaseFresh'
  <1>1. wk'[w] = x /\ \A v \in Workers \ {w} : wk'[v] = wk[v]
    BY DEF IInv, Shaped
  <1>2. DeposedStops'
    BY <1>1 DEF IInv, DeposedStops
  <1>3. RenewalAhead'
    BY <1>1 DEF IInv, RenewalAhead, Owns, Token
  <1>4. LeaseFresh'
    BY <1>1 DEF IInv, LeaseFresh, Believes, Owns, Token, At
  <1> QED BY <1>2, <1>3, <1>4

-----------------------------------------------------------------------------
LEMMA AcquireKeeps == ASSUME IInv, NEW w \in Workers, Acquire(w) PROVE IInv'
  <1>1. CASE key = NoOne
    <2> DEFINE x == [wk[w] EXCEPT !.held = TRUE, !.pc = "startup", !.elapsed = Every, !.after = 0]
    <2>1. wk' = [wk EXCEPT ![w] = x] /\ key' = Token(w) /\ ttl' = TTL
      BY <1>1 DEF Acquire, IInv, Shaped, Process
    <2>2. x \in Process /\ x.pc = "startup" /\ x.after = 0 /\ x.held /\ x.elapsed = Every
          /\ x.life = wk[w].life
      BY LeaseAssumption DEF IInv, Shaped, Process, Phases
    <2> HIDE DEF x
    <2>3. Shaped'
      BY <1>1, <2>1, <2>2, ShapedStep, TokenKinds, LeaseAssumption
      DEF Acquire, IInv, Shaped, TypeOK, LivesCounted, At
    <2>4. DeposedStops' /\ RenewalAhead' /\ LeaseFresh'
      <3>1. \A v \in Workers \ {w} : key # Token(v) /\ key' # Token(v)
        BY <1>1, <2>1, TokenKinds DEF IInv
      <3>2. key' = <<w, x.life>> /\ ttl' >= TTL
        BY <2>1, <2>2, LeaseAssumption DEF Token
      <3>3. stalls' = stalls /\ lost' = lost
        BY DEF Acquire
      <3>4. x.after <= 1 /\ ~(x.after > 0)
        BY <2>2
      <3> QED BY <2>1, <2>2, <3>1, <3>2, <3>3, <3>4, RestStep
    <2> QED BY <2>3, <2>4 DEF IInv
  <1>2. CASE key # NoOne
    <2> DEFINE x == [wk[w] EXCEPT !.held = FALSE, !.pc = "backoff"]
    <2>1. wk' = [wk EXCEPT ![w] = x] /\ key' = key /\ ttl' = ttl
      BY <1>2 DEF Acquire, IInv, Shaped, Process
    <2>2. x \in Process /\ x.pc = "backoff" /\ x.after = wk[w].after /\ ~x.held
          /\ x.elapsed = wk[w].elapsed /\ x.life = wk[w].life
      BY DEF IInv, Shaped, Process, Phases
    <2> HIDE DEF x
    <2>3. Shaped'
      BY <2>1, <2>2, ShapedStep, LeaseAssumption
      DEF Acquire, IInv, Shaped, TypeOK, LivesCounted, At
    <2>4. DeposedStops' /\ RenewalAhead' /\ LeaseFresh'
      BY <2>1, <2>2, RestStep DEF Acquire, IInv, DeposedStops, RenewalAhead, Owns, Token
    <2> QED BY <2>3, <2>4 DEF IInv
  <1> QED BY <1>1, <1>2

LEMMA StartupKeeps == ASSUME IInv, NEW w \in Workers, Startup(w) PROVE IInv'
  <1> DEFINE x == [wk[w] EXCEPT !.pc = "sleep", !.after = Enqueued(w)]
  <1>1. wk[w] \in Process /\ wk[w].pc = "startup" /\ wk[w].after = 0 /\ wk[w].held
    BY DEF IInv, Shaped, TypeOK, RenewalAhead, Process, Startup, At
  <1>2. (Owns(w) /\ Enqueued(w) = 0) \/ (~Owns(w) /\ Enqueued(w) = 1)
    BY <1>1 DEF Enqueued
  <1>3. x \in Process /\ x.pc = "sleep" /\ x.held /\ x.elapsed = wk[w].elapsed
        /\ x.life = wk[w].life /\ x.after = Enqueued(w)
    <2>1. Enqueued(w) \in Nat
      BY <1>2
    <2> QED BY <1>1, <2>1 DEF Process, Phases
  <1>4. wk' = [wk EXCEPT ![w] = x]
    BY DEF Startup, IInv, Shaped, Process
  <1> HIDE DEF x
  <1>5. key' = key /\ ttl' = ttl /\ stalls' = stalls /\ lost' = lost /\ faults' = faults
        /\ asked' \in BOOLEAN
    BY DEF Startup
  <1>6. Shaped'
    <2>1. Shaped /\ wk[w].life <= faults /\ wk[w].life \in 0..MaxFaults
          /\ wk[w].elapsed \in 0..Every /\ faults' \in faults..MaxFaults
          /\ key' \in (Workers \X (0..MaxFaults)) \union {NoOne} /\ ttl' \in 0..TTL
          /\ (ttl' = 0 <=> key' = NoOne)
      BY <1>5, LeaseAssumption DEF IInv, Shaped, TypeOK, LivesCounted
    <2> QED BY <1>3, <1>4, <1>5, <2>1, ShapedStep
  <1>7. DeposedStops' /\ RenewalAhead' /\ LeaseFresh'
    <2>1. stalls = 0 /\ lost = 0 => Owns(w) /\ ttl >= TTL
      BY <1>1 DEF IInv, LeaseFresh, Believes, At
    <2>2. x.after <= 1 /\ (x.after > 0 => key' # <<w, x.life>>)
      BY <1>2, <1>3, <1>5 DEF Owns, Token
    <2>3. Owns(w) => key' = <<w, x.life>>
      BY <1>3, <1>5 DEF Owns, Token
    <2> QED BY <1>3, <1>4, <1>5, <2>1, <2>2, <2>3, RestStep
  <1> QED BY <1>6, <1>7 DEF IInv

LEMMA RenewKeeps == ASSUME IInv, NEW w \in Workers, Renew(w) PROVE IInv'
  <1> DEFINE x == [wk[w] EXCEPT !.held = Owns(w),
                                !.pc = IF Owns(w) THEN "round" ELSE "acquire"]
  <1>1. wk[w] \in Process /\ wk[w].after <= 1 /\ (wk[w].after > 0 => ~Owns(w))
    BY DEF IInv, Shaped, RenewalAhead, DeposedStops
  <1>2. Owns(w) \in BOOLEAN
    BY DEF Owns
  <1>3. x \in Process /\ x.pc = (IF Owns(w) THEN "round" ELSE "acquire") /\ x.held = Owns(w)
        /\ x.elapsed = wk[w].elapsed /\ x.life = wk[w].life /\ x.after = wk[w].after
    BY <1>1, <1>2 DEF Process, Phases
  <1>4. wk' = [wk EXCEPT ![w] = x]
    BY DEF Renew, IInv, Shaped, Process
  <1> HIDE DEF x
  <1>5. key' = key /\ stalls' = stalls /\ lost' = lost /\ faults' = faults /\ asked' = asked
    BY DEF Renew
  <1>6. CASE Owns(w)
    <2>1. x.pc = "round" /\ x.held /\ ttl' = TTL /\ key # NoOne /\ key' = <<w, x.life>>
      BY <1>3, <1>5, <1>6, TokenKinds DEF IInv, Renew, Owns, Token
    <2>2. Shaped'
      BY <1>3, <1>4, <1>5, <2>1, ShapedStep, LeaseAssumption
      DEF IInv, Shaped, TypeOK, LivesCounted, At
    <2>3. \A v \in Workers \ {w} : key # Token(v)
      BY <1>6, TokenKinds DEF IInv, Owns
    <2>4. DeposedStops' /\ RenewalAhead' /\ LeaseFresh'
      <3>1. x.after <= 1 /\ ~(x.after > 0) /\ ttl' >= TTL
        BY <1>1, <1>3, <1>6, <2>1, LeaseAssumption DEF Process
      <3> QED BY <1>3, <1>4, <1>5, <2>1, <2>3, <3>1, RestStep
    <2> QED BY <2>2, <2>4 DEF IInv
  <1>7. CASE ~Owns(w)
    <2>1. x.pc = "acquire" /\ ~x.held /\ ttl' = ttl /\ key' # <<w, x.life>>
      BY <1>3, <1>5, <1>7 DEF Renew, Owns, Token
    <2>2. Shaped'
      BY <1>3, <1>4, <1>5, <2>1, ShapedStep, LeaseAssumption
      DEF IInv, Shaped, TypeOK, LivesCounted, At
    <2>3. DeposedStops' /\ RenewalAhead' /\ LeaseFresh'
      BY <1>1, <1>3, <1>4, <1>5, <2>1, RestStep
    <2> QED BY <2>2, <2>3 DEF IInv
  <1> QED BY <1>6, <1>7

LEMMA RoundKeeps == ASSUME IInv, NEW w \in Workers, Round(w) PROVE IInv'
  <1> DEFINE due == wk[w].elapsed + 1 >= Every
             x == [wk[w] EXCEPT !.pc = "sleep", !.elapsed = IF due THEN 0 ELSE @ + 1,
                                !.after = Enqueued(w)]
  <1>1. wk[w] \in Process /\ wk[w].pc = "round" /\ wk[w].after = 0 /\ wk[w].held
    BY DEF IInv, Shaped, TypeOK, RenewalAhead, Process, Round, At
  <1>2. (Owns(w) /\ Enqueued(w) = 0) \/ (~Owns(w) /\ Enqueued(w) = 1)
    BY <1>1 DEF Enqueued
  <1>3. (IF due THEN 0 ELSE wk[w].elapsed + 1) \in 0..Every
    BY <1>1, LeaseAssumption DEF Process
  <1>4. x \in Process /\ x.pc = "sleep" /\ x.held /\ x.elapsed \in 0..Every
        /\ x.life = wk[w].life /\ x.after = Enqueued(w)
    <2>1. Enqueued(w) \in Nat
      BY <1>2
    <2> DEFINE e == IF due THEN 0 ELSE wk[w].elapsed + 1
    <2>2. x = [wk[w] EXCEPT !.pc = "sleep", !.elapsed = e, !.after = Enqueued(w)]
      OBVIOUS
    <2>3. e \in 0..Every /\ e \in Nat
      BY <1>3, LeaseAssumption
    <2> HIDE DEF e
    <2> QED BY <1>1, <2>1, <2>2, <2>3 DEF Process, Phases
  <1>5. wk' = [wk EXCEPT ![w] = x]
    BY DEF Round, IInv, Shaped, Process
  <1> HIDE DEF due, x
  <1>6. key' = key /\ ttl' = ttl /\ stalls' = stalls /\ lost' = lost /\ faults' = faults
        /\ asked' \in BOOLEAN
    BY DEF Round, IInv, Shaped, TypeOK
  <1>7. Shaped'
    <2>1. Shaped /\ wk[w].life <= faults /\ wk[w].life \in 0..MaxFaults
          /\ wk[w].elapsed \in 0..Every /\ faults' \in faults..MaxFaults
          /\ key' \in (Workers \X (0..MaxFaults)) \union {NoOne} /\ ttl' \in 0..TTL
          /\ (ttl' = 0 <=> key' = NoOne)
      BY <1>6, LeaseAssumption DEF IInv, Shaped, TypeOK, LivesCounted
    <2> QED BY <1>4, <1>5, <1>6, <2>1, ShapedStep
  <1>8. DeposedStops' /\ RenewalAhead' /\ LeaseFresh'
    <2>1. stalls = 0 /\ lost = 0 => Owns(w) /\ ttl >= TTL
      BY <1>1 DEF IInv, LeaseFresh, Believes, At
    <2>2. x.after <= 1 /\ (x.after > 0 => key' # <<w, x.life>>)
      BY <1>2, <1>4, <1>6 DEF Owns, Token
    <2>3. Owns(w) => key' = <<w, x.life>>
      BY <1>4, <1>6 DEF Owns, Token
    <2> QED BY <1>4, <1>5, <1>6, <2>1, <2>2, <2>3, RestStep
  <1> QED BY <1>7, <1>8 DEF IInv

-----------------------------------------------------------------------------
LEMMA DeathKeeps == ASSUME IInv, NEW w \in Workers, Abort(w) \/ Crash(w) PROVE IInv'
  <1> DEFINE x == Down(w)
  <1>1. wk' = [wk EXCEPT ![w] = x] /\ faults < MaxFaults /\ faults' = faults + 1
        /\ stalls' = stalls /\ lost' = lost /\ asked' = asked
    BY DEF Abort, Crash
  <1>2. (key' = key /\ ttl' = ttl) \/ (Owns(w) /\ key' = NoOne /\ ttl' = 0)
    BY DEF Abort, Crash
  <1>3. wk[w].life \in Nat
    BY DEF IInv, Shaped, Process
  <1>4. x \in Process /\ x.pc = "down" /\ x.life = wk[w].life /\ ~x.held /\ x.elapsed = 0
        /\ x.after = 0
    BY <1>3 DEF Down, Started, Process, Phases
  <1> HIDE DEF x
  <1>5. Shaped'
    <2>1. Shaped /\ wk[w].life < faults' /\ wk[w].life \in 0..MaxFaults
          /\ faults' \in faults..MaxFaults /\ 0 \in 0..Every /\ asked' \in BOOLEAN
      BY <1>1, LeaseAssumption DEF IInv, Shaped, TypeOK, LivesCounted
    <2>2. key' \in (Workers \X (0..MaxFaults)) \union {NoOne} /\ ttl' \in 0..TTL
          /\ (ttl' = 0 <=> key' = NoOne)
      BY <1>2, LeaseAssumption DEF IInv, Shaped, TypeOK
    <2>3. wk[w].life <= faults'
      BY <2>1, <1>1, LeaseAssumption DEF IInv, Shaped, TypeOK
    <2> QED BY <1>1, <1>4, <2>1, <2>2, <2>3, ShapedStep
  <1>6. DeposedStops' /\ RenewalAhead' /\ LeaseFresh'
    <2>1. \A v \in Workers \ {w} : Owns(w) => key # Token(v)
      BY TokenKinds DEF IInv, Owns
    <2>2. \A v \in Workers : Token(v) # NoOne
      BY TokenKinds DEF IInv
    <2>3. \A v \in Workers \ {w} : key = Token(v) => key' = key /\ ttl' = ttl
      BY <1>2, <2>1
    <2>4. \A v \in Workers \ {w} : key' = Token(v) => key = Token(v)
      BY <1>2, <2>2
    <2>5. x.after <= 1 /\ ~(x.after > 0)
      BY <1>4
    <2>6. stalls' = stalls /\ lost' = lost /\ wk' = [wk EXCEPT ![w] = x]
      BY <1>1
    <2>7. x \in Process /\ ~x.held
      BY <1>4
    <2> QED BY <2>3, <2>4, <2>5, <2>6, <2>7, RestStep
  <1> QED BY <1>5, <1>6 DEF IInv

LEMMA RestartKeeps == ASSUME IInv, NEW w \in Workers, Restart(w) PROVE IInv'
  <1> DEFINE x == Started(wk[w].life + 1)
  <1>1. wk' = [wk EXCEPT ![w] = x] /\ UNCHANGED <<key, ttl, asked, stalls, faults, lost>>
    BY DEF Restart
  <1>2. wk[w].life \in Nat /\ wk[w].life < faults
    BY DEF Restart, IInv, Shaped, Process, LivesCounted
  <1>3. x \in Process /\ x.pc = "acquire" /\ x.life = wk[w].life + 1 /\ ~x.held
        /\ x.elapsed = 0 /\ x.after = 0
    BY <1>2 DEF Started, Process, Phases
  <1> HIDE DEF x
  <1>4. Shaped'
    <2>1. x.life <= faults' /\ x.life \in 0..MaxFaults
          /\ faults' \in faults..MaxFaults /\ 0 \in 0..Every
      BY <1>1, <1>2, <1>3, LeaseAssumption DEF IInv, Shaped, TypeOK
    <2>2. asked' \in BOOLEAN /\ key' \in (Workers \X (0..MaxFaults)) \union {NoOne}
          /\ ttl' \in 0..TTL /\ (ttl' = 0 <=> key' = NoOne)
      BY <1>1 DEF IInv, Shaped, TypeOK
    <2> QED BY <1>1, <1>3, <2>1, <2>2, ShapedStep DEF IInv
  <1>5. DeposedStops' /\ RenewalAhead' /\ LeaseFresh'
    <2>1. key' = key /\ ttl' = ttl /\ stalls' = stalls /\ lost' = lost
      BY <1>1
    <2>2. x.after <= 1 /\ ~(x.after > 0)
      BY <1>3
    <2> QED BY <1>1, <1>3, <2>1, <2>2, RestStep
  <1> QED BY <1>4, <1>5 DEF IInv

-----------------------------------------------------------------------------
LEMMA LoseKeyKeeps == ASSUME IInv, LoseKey PROVE IInv'
  <1>1. key' = NoOne /\ ttl' = 0 /\ faults < MaxFaults /\ faults' = faults + 1
        /\ lost' = lost + 1 /\ wk' = wk /\ asked' = asked /\ stalls' = stalls
    BY DEF LoseKey
  <1>2. TypeOK'
    BY <1>1, LeaseAssumption DEF IInv, Shaped, TypeOK
  <1>3. LivesCounted'
    BY <1>1, LeaseAssumption DEF IInv, Shaped, TypeOK, LivesCounted, Process, At
  <1>4. DeposedStops'
    BY <1>1 DEF IInv, DeposedStops
  <1>5. RenewalAhead'
    <2>1. \A w \in Workers : Token(w) # NoOne
      BY TokenKinds DEF IInv
    <2> QED BY <1>1, <2>1 DEF IInv, RenewalAhead, Owns, Token
  <1>6. LeaseFresh'
    BY <1>1 DEF IInv, Shaped, TypeOK, LeaseFresh
  <1> QED BY <1>1, <1>2, <1>3, <1>4, <1>5, <1>6 DEF IInv, Shaped

LEMMA TickKeeps == ASSUME IInv, Tick PROVE IInv'
  <1>1. key' = (IF ttl <= 1 THEN NoOne ELSE key) /\ ttl' = (IF ttl = 0 THEN 0 ELSE ttl - 1)
        /\ asked' = asked /\ faults' = faults /\ lost' = lost
    BY DEF Tick
  <1>2. \A w \in Workers :
          /\ wk'[w].life = wk[w].life /\ wk'[w].held = wk[w].held
          /\ wk'[w].elapsed = wk[w].elapsed /\ wk'[w].after = wk[w].after
          /\ wk'[w].pc = CASE wk[w].pc = "sleep" -> "renew"
                            [] wk[w].pc = "backoff" -> "acquire"
                            [] OTHER -> wk[w].pc
    BY DEF Tick, IInv, Shaped, Process
  <1>3. wk' \in [Workers -> Process]
    BY DEF Tick, IInv, Shaped, Process, Phases
  <1>4. TypeOK'
    <2>1. key' \in (Workers \X (0..MaxFaults)) \union {NoOne} /\ ttl' \in 0..TTL
          /\ (ttl' = 0 <=> key' = NoOne)
      BY <1>1, LeaseAssumption DEF IInv, Shaped, TypeOK
    <2>2. stalls' \in 0..MaxStalls
      BY LeaseAssumption DEF Tick, IInv, Shaped, TypeOK
    <2>3. \A w \in Workers :
            /\ wk'[w].pc \in {"acquire", "startup", "backoff", "sleep", "renew", "round", "down"}
            /\ wk'[w].life \in 0..MaxFaults /\ wk'[w].elapsed \in 0..Every /\ wk'[w].after \in Nat
            /\ wk'[w].pc \in {"startup", "sleep", "renew", "round"} <=> wk'[w].held
      BY <1>2 DEF IInv, Shaped, TypeOK
    <2> QED BY <1>1, <2>1, <2>2, <2>3 DEF IInv, Shaped, TypeOK
  <1>5. LivesCounted'
    BY <1>1, <1>2 DEF IInv, Shaped, LivesCounted, At
  <1>6. DeposedStops'
    BY <1>2 DEF IInv, DeposedStops
  <1>7. RenewalAhead'
    <2>1. \A w \in Workers : Owns(w)' => Owns(w)
      BY <1>1, <1>2, TokenKinds DEF IInv, Owns, Token
    <2> QED BY <1>2, <2>1 DEF IInv, RenewalAhead
  <1>8. LeaseFresh'
    <2> SUFFICES ASSUME stalls' = 0, lost' = 0, NEW w \in Workers, Believes(w)'
                 PROVE  Owns(w)' /\ At(w, "renew")' /\ ttl' + 1 >= TTL
      BY DEF LeaseFresh
    <2>1. stalls = 0 /\ lost = 0 /\ wk[w].pc \in {"sleep", "backoff", "down"}
      BY <1>1 DEF Tick, Asleep, IInv, Shaped, TypeOK
    <2>2. wk[w].pc = "sleep" /\ Believes(w)
      BY <1>2, <2>1 DEF IInv, Shaped, TypeOK, Believes, At
    <2>3. Owns(w) /\ ttl >= TTL
      BY <2>1, <2>2 DEF IInv, LeaseFresh, At
    <2>4. key' = key /\ ttl' = ttl - 1
      BY <1>1, <2>3, LeaseAssumption DEF IInv, Shaped, TypeOK
    <2>5. ttl' + 1 >= TTL
      BY <2>3, <2>4, LeaseAssumption DEF IInv, Shaped, TypeOK
    <2> QED BY <1>2, <2>2, <2>3, <2>4, <2>5 DEF Owns, Token, At
  <1> QED BY <1>3, <1>4, <1>5, <1>6, <1>7, <1>8 DEF IInv, Shaped

-----------------------------------------------------------------------------
LEMMA NextKeepsIInv == IInv /\ [Next]_vars => IInv'
  <1> SUFFICES ASSUME IInv, [Next]_vars PROVE IInv'
    OBVIOUS
  <1>1. ASSUME NEW w \in Workers, Step(w) \/ Abort(w) \/ Crash(w) PROVE IInv'
    BY <1>1, AcquireKeeps, StartupKeeps, RenewKeeps, RoundKeeps, RestartKeeps, DeathKeeps
    DEF Step
  <1>2. CASE UNCHANGED vars
    BY <1>2 DEF vars, IInv, Shaped, TypeOK, LivesCounted, DeposedStops, RenewalAhead,
                LeaseFresh, Believes, Owns, Token, At
  <1> QED BY <1>1, <1>2, TickKeeps, LoseKeyKeeps DEF Next

LEMMA Invariance == Spec => []IInv
  BY InitIInv, NextKeepsIInv, PTL DEF Spec

(* The types of the model, in particular: a process is at a point of the   *)
(* leader's loop exactly as long as it believes in its lease.              *)
THEOREM TypeCorrect == Spec => []TypeOK
  <1>1. IInv => TypeOK
    BY DEF IInv, Shaped
  <1> QED BY <1>1, Invariance, PTL

(* scheduled_jobs of a process that lost the lease finishes at most the    *)
(* round it was in, however long it was paused.                            *)
THEOREM DeposedAreStopped == Spec => []DeposedStops
  <1>1. IInv => DeposedStops
    BY DEF IInv
  <1> QED BY <1>1, Invariance, PTL

(* Among prompt processes, and while Redis keeps its keys, at most the     *)
(* owner of the lease schedules jobs.                                      *)
THEOREM OnlyScheduler == Spec => []SoleScheduler
  <1>1. IInv => SoleScheduler
    BY DEF IInv, LeaseFresh, SoleScheduler
  <1> QED BY <1>1, Invariance, PTL

LEMMA AbortIsOwn ==
  ASSUME IInv, NEW v \in Workers, Abort(v), key' # key, NEW w \in Workers, Owns(w)
  PROVE  wk'[w] # wk[w]
  <1>1. Owns(v)
    BY DEF Abort
  <1>2. v = w
    BY <1>1, TokenKinds DEF IInv, Owns
  <1>3. wk'[w].pc = "down" /\ wk[w].pc # "down"
    BY <1>2 DEF Abort, Believes, At, Down, Started, IInv, Shaped
  <1> QED BY <1>3

(* Neither the takeover nor the release of one process ends a lease that   *)
(* another one still holds.                                                *)
THEOREM LeaseIsRespected == Spec => LeaseRespected
  <1>1. ASSUME IInv, [Next]_vars, NEW w \in Workers, Owns(w), ttl > 1, key' # key
        PROVE  wk'[w] # wk[w] \/ lost' # lost
    <2>1. CASE Tick
      BY <1>1, <2>1 DEF Tick, IInv, Shaped, TypeOK
    <2>2. CASE LoseKey
      BY <2>2, <1>1, LeaseAssumption DEF LoseKey, IInv, Shaped, TypeOK
    <2>3. ASSUME NEW v \in Workers, Step(v) \/ Crash(v) PROVE key' = key
      <3>1. key # NoOne
        BY <1>1, TokenKinds DEF IInv, Owns
      <3> QED BY <2>3, <3>1 DEF Step, Crash, Acquire, Startup, Renew, Round, Restart
    <2>4. ASSUME NEW v \in Workers, Abort(v) PROVE wk'[w] # wk[w]
      BY <1>1, <2>4, AbortIsOwn
    <2>5. CASE UNCHANGED vars
      BY <1>1, <2>5 DEF vars
    <2> QED BY <1>1, <2>1, <2>2, <2>3, <2>4, <2>5 DEF Next
  <1>2. IInv /\ [Next]_vars =>
          [\A w \in Workers :
             Owns(w) /\ ttl > 1 /\ key' # key => wk'[w] # wk[w] \/ lost' # lost]_vars
    BY <1>1
  <1> QED BY <1>2, Invariance, PTL DEF Spec, LeaseRespected
=============================================================================
