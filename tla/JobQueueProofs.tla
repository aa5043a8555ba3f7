--------------------------- MODULE JobQueueProofs ---------------------------
(***************************************************************************)
(* JobQueue's safety for any number of entries, workers and crashes: the   *)
(* type invariant, no job lost, the refinement of AtLeastOnce, and how     *)
(* often a job may run.                                                    *)
(***************************************************************************)
EXTENDS JobQueue, FiniteSetTheorems, TLAPS

(* What a worker holds in hand was delivered, and it reaches the           *)
(* acknowledgement only through a completed handler or an unknown kind.    *)
AckJustified ==
  \A w \in Workers :
    /\ pc[w] \in {"run", "ack"} => cur[w] \in 1..delivered
    /\ pc[w] = "ack" => runs[cur[w]] > 0 \/ cur[w] \in Unknown

IInv == TypeOK /\ NoJobLost /\ AckJustified

LEMMA InitIInv == Init => IInv
  BY QueueAssumption DEF Init, IInv, TypeOK, NoJobLost, AckJustified, Retired, Jobs

-----------------------------------------------------------------------------
(* One lemma per action of the loop, each for the whole of IInv.           *)

LEMMA ClaimKeeps == ASSUME IInv, NEW w \in Workers, Claim(w) PROVE IInv'
  <1> USE QueueAssumption DEF IInv, Jobs
  <1>1. PICK S \in ClaimReply :
          /\ batch' = [batch EXCEPT ![w] = S]
          /\ idle' = idle \ S
          /\ pc' = [pc EXCEPT ![w] = IF S = {} THEN "read" ELSE "next"]
    BY DEF Claim
  <1>2. S \subseteq 1..delivered
    BY <1>1 DEF ClaimReply, TypeOK
  <1>3. TypeOK'
    BY <1>1, <1>2 DEF Claim, TypeOK
  <1>4. NoJobLost'
    BY DEF Claim, NoJobLost, Retired
  <1>5. AckJustified'
    BY <1>1 DEF Claim, AckJustified, TypeOK
  <1> QED BY <1>3, <1>4, <1>5

LEMMA ReadKeeps == ASSUME IInv, NEW w \in Workers, Read(w) PROVE IInv'
  <1> USE QueueAssumption DEF IInv, Jobs
  <1>1. TypeOK'
    BY DEF Read, TypeOK
  <1>2. NoJobLost'
    BY DEF Read, NoJobLost, Retired, TypeOK
  <1>3. AckJustified'
    BY DEF Read, AckJustified, TypeOK
  <1> QED BY <1>1, <1>2, <1>3

LEMMA StartKeeps == ASSUME IInv, NEW w \in Workers, Start(w) PROVE IInv'
  <1> USE QueueAssumption DEF IInv, Jobs
  <1>1. PICK j \in batch[w] :
          /\ cur' = [cur EXCEPT ![w] = j]
          /\ batch' = [batch EXCEPT ![w] = @ \ {j}]
          /\ pc' = [pc EXCEPT ![w] = IF j \in Unknown THEN "ack" ELSE "run"]
    BY DEF Start
  <1>2. j \in 1..delivered /\ j \in 0..Last
    BY <1>1 DEF TypeOK
  <1>3. TypeOK'
    BY <1>1, <1>2 DEF Start, TypeOK, stream
  <1>4. NoJobLost'
    BY DEF Start, NoJobLost, Retired, stream
  <1>5. AckJustified'
    BY <1>1, <1>2 DEF Start, AckJustified, TypeOK, stream
  <1> QED BY <1>3, <1>4, <1>5

LEMMA FinishKeeps == ASSUME IInv, NEW w \in Workers, Finish(w) PROVE IInv'
  <1> USE QueueAssumption DEF IInv, Jobs
  <1>1. cur[w] \in Jobs
    BY DEF Finish, AckJustified, TypeOK
  <1>2. \A j \in Jobs : runs'[j] = IF j = cur[w] THEN runs[j] + 1 ELSE runs[j]
    BY <1>1 DEF Finish, TypeOK
  <1>3. TypeOK'
    BY <1>1 DEF Finish, TypeOK, stream
  <1>4. NoJobLost'
    BY <1>2 DEF Finish, NoJobLost, Retired, TypeOK, stream
  <1>5. AckJustified'
    BY <1>1, <1>2 DEF Finish, AckJustified, TypeOK, stream
  <1> QED BY <1>3, <1>4, <1>5

LEMMA AckKeeps == ASSUME IInv, NEW w \in Workers, Ack(w) PROVE IInv'
  <1> USE QueueAssumption DEF IInv, Jobs
  <1>1. TypeOK'
    BY DEF Ack, Proceed, TypeOK
  <1>2. NoJobLost'
    BY DEF Ack, NoJobLost, AckJustified, Retired, TypeOK
  <1>3. AckJustified'
    BY DEF Ack, Proceed, AckJustified, TypeOK
  <1> QED BY <1>1, <1>2, <1>3

(* The steps that move neither the stream's group nor the run counts.      *)
LEMMA QuietKeeps ==
  ASSUME IInv, NEW w \in Workers,
         ReadTimeout(w) \/ Fail(w) \/ Crash(w) \/ Restart(w)
  PROVE  IInv'
  <1> USE QueueAssumption DEF IInv, Jobs
  <1>1. TypeOK'
    <2>1. CASE ReadTimeout(w)
      BY <2>1 DEF ReadTimeout, TypeOK, stream
    <2>2. CASE Fail(w)
      BY <2>2 DEF Fail, Proceed, TypeOK, stream
    <2>3. CASE Crash(w)
      BY <2>3 DEF Crash, TypeOK, stream
    <2>4. CASE Restart(w)
      BY <2>4 DEF Restart, TypeOK, stream
    <2> QED BY <2>1, <2>2, <2>3, <2>4
  <1>2. NoJobLost'
    BY DEF ReadTimeout, Fail, Crash, Restart, NoJobLost, Retired, stream
  <1>3. AckJustified'
    BY DEF ReadTimeout, Fail, Crash, Restart, Proceed, AckJustified, TypeOK, stream
  <1> QED BY <1>1, <1>2, <1>3

LEMMA NextKeeps == IInv /\ [Next]_vars => IInv'
  <1> SUFFICES ASSUME IInv, [Next]_vars PROVE IInv'
    OBVIOUS
  <1>1. CASE Enqueue
    BY <1>1, QueueAssumption
    DEF Enqueue, IInv, TypeOK, NoJobLost, AckJustified, Retired, Jobs
  <1>2. ASSUME NEW j \in Jobs, BecomesIdle(j) PROVE IInv'
    BY <1>2, QueueAssumption
    DEF BecomesIdle, IInv, TypeOK, NoJobLost, AckJustified, Retired, Jobs
  <1>3. ASSUME NEW w \in Workers, Step(w) PROVE IInv'
    BY <1>3, ClaimKeeps, ReadKeeps, StartKeeps, FinishKeeps, AckKeeps, QuietKeeps DEF Step
  <1>4. CASE UNCHANGED vars
    BY <1>4 DEF vars, IInv, TypeOK, NoJobLost, AckJustified, Retired, Jobs
  <1> QED BY <1>1, <1>2, <1>3, <1>4 DEF Next

(* IInv is inductive.                                                      *)
LEMMA Inductive == Spec => []IInv
  BY InitIInv, NextKeeps, PTL DEF Spec

-----------------------------------------------------------------------------
(* The variables keep their types: in particular the pending list and the  *)
(* workers' local lists only ever hold entries the group has delivered.    *)
THEOREM TypeCorrect == Spec => []TypeOK
  <1>1. IInv => TypeOK
    BY DEF IInv
  <1> QED BY <1>1, Inductive, PTL

(* No job leaves the pending list before a handler completed for it.       *)
THEOREM NoJobIsLost == Spec => []NoJobLost
  <1>1. IInv => NoJobLost
    BY DEF IInv
  <1> QED BY <1>1, Inductive, PTL

-----------------------------------------------------------------------------
(* Each step of the queue is an Accept, a Perform, a Retire or a stutter.  *)
LEMMA StepRefines ==
  ASSUME IInv, [Next]_vars PROVE [Promise!Next]_(Promise!vars)
  <1> USE QueueAssumption DEF Jobs, Retired
  <1>1. CASE Enqueue
    <2>1. last + 1 \in 1..Last /\ last + 1 \notin 1..last /\ 1..last' = (1..last) \union {last + 1}
      BY <1>1 DEF Enqueue, IInv, TypeOK
    <2>2. Retired' = Retired
      BY <1>1 DEF Enqueue
    <2>3. Promise!Accept(last + 1)
      BY <1>1, <2>1, <2>2 DEF Enqueue, Promise!Accept
    <2> QED BY <2>1, <2>3 DEF Promise!Next
  <1>2. ASSUME NEW j \in Jobs, BecomesIdle(j) PROVE UNCHANGED Promise!vars
    BY <1>2 DEF BecomesIdle, Promise!vars
  <1>3. ASSUME NEW w \in Workers, Finish(w) PROVE Promise!Next
    <2>1. cur[w] \in 1..last /\ cur[w] \in Jobs
      BY <1>3 DEF Finish, IInv, AckJustified, TypeOK
    <2>2. Promise!Perform(cur[w])
      BY <1>3, <2>1 DEF Finish, Promise!Perform, stream
    <2> QED BY <2>1, <2>2 DEF Promise!Next
  <1>4. ASSUME NEW w \in Workers, Ack(w) PROVE Promise!Next
    <2>1. cur[w] \in 1..last /\ cur[w] \in Jobs /\ cur[w] <= delivered
      BY <1>4 DEF Ack, IInv, AckJustified, TypeOK
    <2>2. runs[cur[w]] > 0 \/ cur[w] \in Unknown
      BY <1>4 DEF Ack, IInv, AckJustified
    <2>3. Retired' = Retired \union {cur[w]}
      BY <1>4, <2>1 DEF Ack, IInv, TypeOK
    <2>4. Promise!Retire(cur[w])
      BY <1>4, <2>1, <2>2, <2>3 DEF Ack, Promise!Retire
    <2>5. \E j \in Jobs : Promise!Retire(j)
      BY <2>1, <2>4 DEF Promise!Retire
    <2> QED BY <2>5 DEF Promise!Next
  <1>5. ASSUME NEW w \in Workers, Read(w) PROVE UNCHANGED Promise!vars
    <2>1. Retired' = Retired
      BY <1>5 DEF Read, IInv, TypeOK
    <2> QED BY <1>5, <2>1 DEF Read, Promise!vars
  <1>6. ASSUME NEW w \in Workers,
               Claim(w) \/ ReadTimeout(w) \/ Start(w) \/ Fail(w) \/ Crash(w) \/ Restart(w)
        PROVE  UNCHANGED Promise!vars
    BY <1>6 DEF Claim, ReadTimeout, Start, Fail, Crash, Restart, Promise!vars, stream
  <1>7. CASE UNCHANGED vars
    BY <1>7 DEF vars, Promise!vars
  <1> QED BY <1>1, <1>2, <1>3, <1>4, <1>5, <1>6, <1>7 DEF Next, Step

(* The stream, its group and the workers' loops implement the promise of   *)
(* at-least-once execution that the handlers are written against.          *)
THEOREM Refinement == Spec => ImplementsAtLeastOnce
  <1>1. Init => Promise!Init
    BY QueueAssumption DEF Init, Promise!Init, Retired, Jobs
  <1>2. IInv /\ [Next]_vars => [Promise!Next]_(Promise!vars)
    BY StepRefines
  <1> QED BY <1>1, <1>2, Inductive, PTL DEF Spec, ImplementsAtLeastOnce, Promise!Spec

-----------------------------------------------------------------------------
(* Who may still run an entry, and who has run it and not acknowledged it. *)
Held(j) == {w \in Workers : j \in batch[w] \/ (pc[w] = "run" /\ cur[w] = j)}
Done(j) == {w \in Workers : pc[w] = "ack" /\ cur[w] = j}
Apart == \A w \in Workers : pc[w] \in {"run", "ack"} => cur[w] \notin batch[w]

(* As long as an entry is pending, each of its runs has a worker about to  *)
(* acknowledge it or one that died first; once it is acknowledged nobody   *)
(* is handed it again, and those who hold it run it once more at most.     *)
Counted(j) ==
  /\ j > delivered => runs[j] = 0
  /\ j \in pending => runs[j] <= Cardinality(Done(j)) + crashes
  /\ j \in Retired => runs[j] + Cardinality(Held(j)) <= Cardinality(Workers) + crashes
CInv == Apart /\ \A j \in Jobs : Counted(j)

LEMMA SetsFinite ==
  ASSUME NEW j
  PROVE  /\ IsFiniteSet(Held(j)) /\ Cardinality(Held(j)) \in Nat
         /\ IsFiniteSet(Done(j)) /\ Cardinality(Done(j)) \in Nat
         /\ Cardinality(Held(j)) <= Cardinality(Workers)
         /\ Cardinality(Done(j)) <= Cardinality(Workers)
         /\ Cardinality(Workers) \in Nat
  <1>1. Held(j) \subseteq Workers /\ Done(j) \subseteq Workers
    BY DEF Held, Done
  <1> QED BY <1>1, QueueAssumption, FS_Subset, FS_CardinalityType

LEMMA Disjoint ==
  ASSUME Apart, NEW j
  PROVE  Cardinality(Held(j)) + Cardinality(Done(j)) <= Cardinality(Workers)
  <1>1. Held(j) \cap Done(j) = {} /\ Held(j) \union Done(j) \subseteq Workers
    BY DEF Apart, Held, Done
  <1>2. Cardinality(Held(j) \union Done(j))
          = Cardinality(Held(j)) + Cardinality(Done(j)) - Cardinality(Held(j) \cap Done(j))
    BY SetsFinite, FS_Union
  <1>3. Cardinality(Held(j) \cap Done(j)) = 0
    BY <1>1, FS_EmptySet
  <1>4. Cardinality(Held(j) \union Done(j)) <= Cardinality(Workers)
    BY <1>1, QueueAssumption, FS_Subset
  <1> QED BY <1>2, <1>3, <1>4, SetsFinite

LEMMA CountsTyped ==
  ASSUME IInv, NEW j \in Jobs
  PROVE  /\ runs[j] \in Nat /\ crashes \in Nat /\ delivered \in Nat /\ j \in Nat
         /\ pending \subseteq 1..delivered
  BY QueueAssumption DEF IInv, TypeOK, Jobs

(* A step that runs nothing and hands an entry to nobody.                  *)
LEMMA CountStays ==
  ASSUME IInv, NEW j \in Jobs, Counted(j), runs'[j] = runs[j], crashes' = crashes,
         pending' = pending, delivered' = delivered, Done(j) \subseteq Done(j)',
         j \in pending \/ Held(j)' \subseteq Held(j)
  PROVE  Counted(j)'
  <1>1. j \in pending' => runs'[j] <= Cardinality(Done(j)') + crashes'
    <2>1. IsFiniteSet(Done(j)')
      BY QueueAssumption, FS_Subset DEF Done
    <2>2. Cardinality(Done(j)) <= Cardinality(Done(j)') /\ Cardinality(Done(j)') \in Nat
      BY <2>1, FS_Subset, FS_CardinalityType
    <2> QED BY <2>2, SetsFinite, CountsTyped DEF Counted
  <1>2. j \in Retired' => runs'[j] + Cardinality(Held(j)') <= Cardinality(Workers) + crashes'
    <2> SUFFICES ASSUME j \in Retired' PROVE runs[j] + Cardinality(Held(j)') <= Cardinality(Workers) + crashes
      OBVIOUS
    <2>1. j \in Retired /\ Held(j)' \subseteq Held(j)
      BY DEF Retired
    <2>2. Cardinality(Held(j)') <= Cardinality(Held(j)) /\ Cardinality(Held(j)') \in Nat
      BY <2>1, SetsFinite, FS_Subset, FS_CardinalityType
    <2> QED BY <2>1, <2>2, SetsFinite, CountsTyped DEF Counted
  <1> QED BY <1>1, <1>2 DEF Counted

LEMMA ClaimCounts ==
  ASSUME IInv, CInv, NEW w \in Workers, Claim(w) PROVE CInv'
  <1>1. PICK S \in SUBSET idle :
          /\ batch' = [batch EXCEPT ![w] = S]
          /\ pc' = [pc EXCEPT ![w] = IF S = {} THEN "read" ELSE "next"]
    BY DEF Claim, ClaimReply
  <1>2. pc[w] = "poll" /\ S \subseteq pending /\ UNCHANGED <<last, delivered, pending, cur, runs, crashes>>
    BY DEF Claim, IInv, TypeOK
  <1>3. pc'[w] \in {"read", "next"} /\ batch'[w] = S
        /\ \A v \in Workers \ {w} : pc'[v] = pc[v] /\ batch'[v] = batch[v]
    BY <1>1 DEF IInv, TypeOK
  <1>4. Apart'
    BY <1>2, <1>3 DEF CInv, Apart
  <1>5. ASSUME NEW j \in Jobs PROVE Counted(j)'
    <2>1. Done(j) \subseteq Done(j)'
      BY <1>2, <1>3 DEF Done
    <2>2. j \in pending \/ Held(j)' \subseteq Held(j)
      BY <1>2, <1>3 DEF Held
    <2> QED BY <1>2, <2>1, <2>2, CountStays DEF CInv
  <1> QED BY <1>4, <1>5 DEF CInv

LEMMA ReadCounts ==
  ASSUME IInv, CInv, NEW w \in Workers, Read(w) PROVE CInv'
  <1>1. /\ pc[w] = "read" /\ delivered' = delivered + 1 /\ pending' = pending \union {delivered + 1}
        /\ UNCHANGED <<cur, runs, crashes>>
    BY DEF Read
  <1>2. /\ pc'[w] = "next" /\ batch'[w] = {delivered + 1}
        /\ \A v \in Workers \ {w} : pc'[v] = pc[v] /\ batch'[v] = batch[v]
    BY DEF Read, IInv, TypeOK
  <1>3. Apart'
    BY <1>1, <1>2 DEF CInv, Apart
  <1>4. ASSUME NEW j \in Jobs PROVE Counted(j)'
    <2>1. CASE j = delivered + 1
      <3>1. runs[j] = 0 /\ j \in pending' /\ ~(j > delivered')
        BY <1>1, <2>1, CountsTyped DEF CInv, Counted
      <3>2. IsFiniteSet(Done(j)')
        BY QueueAssumption, FS_Subset DEF Done
      <3>3. Cardinality(Done(j)') \in Nat
        BY <3>2, FS_CardinalityType
      <3> QED BY <1>1, <3>1, <3>3, CountsTyped DEF Counted, Retired
    <2>2. CASE j # delivered + 1
      <3>1. Done(j)' = Done(j) /\ Held(j)' \subseteq Held(j)
        BY <1>1, <1>2, <2>2 DEF Done, Held
      <3>2. Cardinality(Held(j)') <= Cardinality(Held(j)) /\ Cardinality(Held(j)') \in Nat
        BY <3>1, SetsFinite, FS_Subset, FS_CardinalityType
      <3>3. (j \in Retired') = (j \in Retired) /\ (j \in pending') = (j \in pending)
        BY <1>1, <2>2, CountsTyped DEF Retired
      <3>4. j > delivered' => j > delivered
        BY <1>1, CountsTyped
      <3> QED BY <1>1, <3>1, <3>2, <3>3, <3>4, SetsFinite, CountsTyped DEF CInv, Counted
    <2> QED BY <2>1, <2>2
  <1> QED BY <1>3, <1>4 DEF CInv

LEMMA StartCounts ==
  ASSUME IInv, CInv, NEW w \in Workers, Start(w) PROVE CInv'
  <1>1. PICK i \in batch[w] :
          /\ cur' = [cur EXCEPT ![w] = i]
          /\ batch' = [batch EXCEPT ![w] = @ \ {i}]
          /\ pc' = [pc EXCEPT ![w] = IF i \in Unknown THEN "ack" ELSE "run"]
    BY DEF Start
  <1>2. pc[w] = "next" /\ UNCHANGED <<delivered, pending, runs, crashes>>
    BY DEF Start, stream
  <1>3. /\ pc'[w] \in {"ack", "run"} /\ cur'[w] = i /\ batch'[w] = batch[w] \ {i}
        /\ \A v \in Workers \ {w} : pc'[v] = pc[v] /\ batch'[v] = batch[v] /\ cur'[v] = cur[v]
    BY <1>1 DEF IInv, TypeOK
  <1>4. Apart'
    BY <1>3 DEF CInv, Apart
  <1>5. ASSUME NEW j \in Jobs PROVE Counted(j)'
    <2>1. Done(j) \subseteq Done(j)' /\ Held(j)' \subseteq Held(j)
      BY <1>1, <1>2, <1>3 DEF Done, Held
    <2> QED BY <1>2, <2>1, CountStays DEF CInv
  <1> QED BY <1>4, <1>5 DEF CInv

LEMMA FinishCounts ==
  ASSUME IInv, CInv, NEW w \in Workers, Finish(w) PROVE CInv'
  <1>1. /\ pc[w] = "run" /\ runs' = [runs EXCEPT ![cur[w]] = @ + 1]
        /\ UNCHANGED <<delivered, pending, cur, batch, crashes>>
    BY DEF Finish, stream
  <1>2. pc'[w] = "ack" /\ \A v \in Workers \ {w} : pc'[v] = pc[v]
    BY DEF Finish, IInv, TypeOK
  <1>3. Apart'
    BY <1>1, <1>2 DEF CInv, Apart
  <1>4. cur[w] \in Jobs /\ cur[w] <= delivered
    BY <1>1 DEF IInv, TypeOK, AckJustified, Jobs
  <1>5. ASSUME NEW j \in Jobs PROVE Counted(j)'
    <2>1. CASE j # cur[w]
      <3>1. runs'[j] = runs[j]
        BY <1>1, <2>1 DEF IInv, TypeOK
      <3>2. Done(j) \subseteq Done(j)' /\ Held(j)' \subseteq Held(j)
        BY <1>1, <1>2, <2>1 DEF Done, Held
      <3> QED BY <1>1, <3>1, <3>2, CountStays DEF CInv
    <2>2. CASE j = cur[w]
      <3>1. runs'[j] = runs[j] + 1 /\ ~(j > delivered')
        BY <1>1, <1>4, <2>2, CountsTyped DEF IInv, TypeOK
      <3>2. Done(j)' = Done(j) \union {w} /\ w \notin Done(j)
        BY <1>1, <1>2, <2>2 DEF Done
      <3>3. Cardinality(Done(j)') = Cardinality(Done(j)) + 1
        BY <3>2, SetsFinite, FS_AddElement
      <3>4. w \in Held(j) /\ Held(j)' \subseteq Held(j) \ {w}
        BY <1>1, <1>2, <2>2 DEF Held, CInv, Apart
      <3>5. Cardinality(Held(j) \ {w}) = Cardinality(Held(j)) - 1 /\ IsFiniteSet(Held(j) \ {w})
        BY <3>4, SetsFinite, FS_RemoveElement
      <3>6. Cardinality(Held(j)') <= Cardinality(Held(j)) - 1 /\ Cardinality(Held(j)') \in Nat
        BY <3>4, <3>5, FS_Subset, FS_CardinalityType
      <3>7. j \in pending' => runs'[j] <= Cardinality(Done(j)') + crashes'
        BY <1>1, <3>1, <3>3, SetsFinite, CountsTyped DEF CInv, Counted
      <3>8. j \in Retired' => runs'[j] + Cardinality(Held(j)') <= Cardinality(Workers) + crashes'
        BY <1>1, <3>1, <3>6, SetsFinite, CountsTyped DEF CInv, Counted, Retired
      <3> QED BY <3>1, <3>7, <3>8 DEF Counted
    <2> QED BY <2>1, <2>2
  <1> QED BY <1>3, <1>5 DEF CInv

LEMMA AckCounts ==
  ASSUME IInv, CInv, NEW w \in Workers, Ack(w) PROVE CInv'
  <1>1. /\ pc[w] = "ack" /\ pending' = pending \ {cur[w]}
        /\ UNCHANGED <<delivered, cur, batch, runs, crashes>>
    BY DEF Ack
  <1>2. pc'[w] \in {"poll", "next"} /\ \A v \in Workers \ {w} : pc'[v] = pc[v]
    BY DEF Ack, Proceed, IInv, TypeOK
  <1>3. Apart'
    BY <1>1, <1>2 DEF CInv, Apart
  <1>4. ASSUME NEW j \in Jobs PROVE Counted(j)'
    <2>1. Held(j)' \subseteq Held(j)
      BY <1>1, <1>2 DEF Held
    <2>2. Cardinality(Held(j)') <= Cardinality(Held(j)) /\ Cardinality(Held(j)') \in Nat
      BY <2>1, SetsFinite, FS_Subset, FS_CardinalityType
    <2>3. CASE j # cur[w]
      <3>1. Done(j)' = Done(j)
        BY <1>1, <1>2, <2>3 DEF Done
      <3>2. (j \in pending') = (j \in pending) /\ (j \in Retired') = (j \in Retired)
        BY <1>1, <2>3 DEF Retired
      <3> QED BY <1>1, <2>2, <3>1, <3>2, SetsFinite, CountsTyped DEF CInv, Counted
    <2>4. CASE j = cur[w]
      <3>1. j \notin pending' /\ j <= delivered
        BY <1>1, <2>4 DEF IInv, AckJustified
      <3>2. runs[j] + Cardinality(Held(j)) <= Cardinality(Workers) + crashes
        <4>1. CASE j \in pending
          <5>1. Cardinality(Held(j)) + Cardinality(Done(j)) <= Cardinality(Workers)
            BY Disjoint DEF CInv
          <5>2. runs[j] <= Cardinality(Done(j)) + crashes
            BY <4>1 DEF CInv, Counted
          <5> QED BY <5>1, <5>2, SetsFinite, CountsTyped
        <4>2. CASE j \notin pending
          BY <3>1, <4>2 DEF CInv, Counted, Retired
        <4> QED BY <4>1, <4>2
      <3>3. runs[j] + Cardinality(Held(j)') <= Cardinality(Workers) + crashes
        BY <2>2, <3>2, SetsFinite, CountsTyped
      <3> QED BY <1>1, <3>1, <3>3, CountsTyped DEF Counted
    <2> QED BY <2>3, <2>4
  <1> QED BY <1>3, <1>4 DEF CInv

LEMMA CrashCounts ==
  ASSUME IInv, CInv, NEW w \in Workers, Crash(w) PROVE CInv'
  <1>1. crashes' = crashes + 1 /\ UNCHANGED <<delivered, pending, cur, runs>>
    BY DEF Crash, stream
  <1>2. /\ pc'[w] = "down" /\ batch'[w] = {}
        /\ \A v \in Workers \ {w} : pc'[v] = pc[v] /\ batch'[v] = batch[v]
    BY DEF Crash, IInv, TypeOK
  <1>3. Apart'
    BY <1>1, <1>2 DEF CInv, Apart
  <1>4. ASSUME NEW j \in Jobs PROVE Counted(j)'
    <2>1. Held(j)' \subseteq Held(j) /\ Done(j) \subseteq Done(j)' \union {w}
      BY <1>1, <1>2 DEF Held, Done
    <2>2. Cardinality(Held(j)') <= Cardinality(Held(j)) /\ Cardinality(Held(j)') \in Nat
      BY <2>1, SetsFinite, FS_Subset, FS_CardinalityType
    <2>3. IsFiniteSet(Done(j)')
      BY QueueAssumption, FS_Subset DEF Done
    <2>4. Cardinality(Done(j)') \in Nat
      BY <2>3, FS_CardinalityType
    <2>5. /\ IsFiniteSet(Done(j)' \union {w})
          /\ Cardinality(Done(j)' \union {w}) <= Cardinality(Done(j)') + 1
      BY <2>3, <2>4, FS_AddElement
    <2>6. Cardinality(Done(j)) <= Cardinality(Done(j)' \union {w})
          /\ Cardinality(Done(j)' \union {w}) \in Nat
      BY <2>1, <2>5, FS_Subset, FS_CardinalityType
    <2>7. Cardinality(Done(j)) <= Cardinality(Done(j)') + 1
      BY <2>4, <2>5, <2>6, SetsFinite
    <2>8. (j \in Retired') = (j \in Retired)
      BY <1>1 DEF Retired
    <2> QED BY <1>1, <2>2, <2>4, <2>7, <2>8, SetsFinite, CountsTyped DEF CInv, Counted
  <1> QED BY <1>3, <1>4 DEF CInv

LEMMA NextCounts == ASSUME IInv, CInv, [Next]_vars PROVE CInv'
  <1>1. CASE Enqueue \/ (\E j \in Jobs : BecomesIdle(j)) \/ UNCHANGED vars
    <2>1. UNCHANGED <<delivered, pending, pc, cur, batch, runs, crashes>>
      BY <1>1 DEF Enqueue, BecomesIdle, vars
    <2> QED BY <2>1 DEF CInv, Apart, Counted, Held, Done, Retired
  <1>2. ASSUME NEW w \in Workers, ReadTimeout(w) \/ Fail(w) \/ Restart(w) PROVE CInv'
    <2>1. UNCHANGED <<delivered, pending, cur, batch, runs, crashes>>
      BY <1>2 DEF ReadTimeout, Fail, Restart, stream
    <2>2. /\ pc[w] # "ack" /\ pc'[w] \notin {"run", "ack"}
          /\ \A v \in Workers \ {w} : pc'[v] = pc[v]
      BY <1>2 DEF ReadTimeout, Fail, Restart, Proceed, IInv, TypeOK
    <2>3. Apart'
      BY <2>1, <2>2 DEF CInv, Apart
    <2>4. ASSUME NEW j \in Jobs PROVE Counted(j)'
      <3>1. Done(j) \subseteq Done(j)' /\ Held(j)' \subseteq Held(j)
        BY <2>1, <2>2 DEF Done, Held
      <3> QED BY <2>1, <3>1, CountStays DEF CInv
    <2> QED BY <2>3, <2>4 DEF CInv
  <1> QED BY <1>1, <1>2, ClaimCounts, ReadCounts, StartCounts, FinishCounts, AckCounts, CrashCounts
          DEF Next, Step

LEMMA InitCounts == Init => CInv
  <1> SUFFICES ASSUME Init PROVE CInv
    OBVIOUS
  <1>1. Apart
    BY DEF Init, Apart
  <1>2. ASSUME NEW j \in Jobs PROVE Counted(j)
    BY QueueAssumption DEF Init, Counted, Retired, Jobs
  <1> QED BY <1>1, <1>2 DEF CInv

(* For any number of workers, entries and deaths: a job's handler completes*)
(* at most once per worker and once more per process death, because every  *)
(* completed run is about to be acknowledged or died with its process, and *)
(* an acknowledged entry is never handed out again.                        *)
THEOREM CopiesAreBounded == Spec => []CopiesBounded
  <1>1. IInv /\ CInv => CopiesBounded
    <2> SUFFICES ASSUME IInv, CInv, NEW j \in Jobs
                 PROVE  runs[j] <= Cardinality(Workers) + crashes
      BY DEF CopiesBounded
    <2>1. CASE j > delivered
      BY <2>1, SetsFinite, CountsTyped DEF CInv, Counted
    <2>2. CASE j \in pending
      BY <2>2, SetsFinite, CountsTyped DEF CInv, Counted
    <2>3. CASE j \in Retired
      BY <2>3, SetsFinite, CountsTyped DEF CInv, Counted
    <2> QED BY <2>1, <2>2, <2>3, CountsTyped DEF Retired
  <1>2. IInv /\ CInv /\ [Next]_vars => CInv'
    BY NextCounts
  <1> QED BY InitCounts, Inductive, <1>1, <1>2, PTL DEF Spec
=============================================================================
