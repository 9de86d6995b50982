--------------------------- MODULE ScanPortsProofs ---------------------------
(***************************************************************************)
(* Proofs about ScanPorts for any number of ports and slots.  The channel  *)
(* sem holds one value per goroutine between its Acquire and its Release,  *)
(* the wait group counts the goroutines that are started and not over, and *)
(* a verdict is there exactly from its Answer on.                          *)
(***************************************************************************)
EXTENDS ScanPorts, FiniteSetTheorems, TLAPS

States  == {"unborn", "queued", "dialing", "release", "done", "ended"}
Holding == {"dialing", "release"}
Running == {"queued", "dialing", "release", "done"}
In(S)   == {j \in Jobs : pc[j] \in S}

Types ==
    /\ spawned \in 0..N
    /\ pc \in [Jobs -> States]
    /\ verdict \in [Jobs -> Verdicts \cup {NoVerdict}]
    /\ cancelled \in BOOLEAN /\ returned \in BOOLEAN

Started  == \A j \in Jobs : pc[j] = "unborn" <=> j > spawned
Slots    == sem = Cardinality(In(Holding)) /\ sem <= MaxScans
Waited   == pending = Cardinality(In(Running))
Answered == \A j \in Jobs : verdict[j] = NoVerdict <=> pc[j] \in {"unborn", "queued", "dialing"}
Over     == returned => \A j \in Jobs : pc[j] = "ended"

ScanInv == Types /\ Started /\ Slots /\ Waited /\ Answered /\ Over

----------------------------------------------------------------------------
LEMMA InFinite ==
    ASSUME NEW S
    PROVE  /\ IsFiniteSet(In(S)) /\ Cardinality(In(S)) \in 0..N
<1>1. N \in Nat
  BY ScanAssumption
<1>2. IsFiniteSet(Jobs) /\ Cardinality(Jobs) = N
  BY <1>1, FS_Interval DEF Jobs
<1>3. IsFiniteSet(In(S)) /\ Cardinality(In(S)) <= N
  BY <1>2, FS_Subset DEF In
<1> QED
  BY <1>1, <1>3, FS_CardinalityType

(* When one goroutine moves, a set of states gains it, loses it or keeps   *)
(* as many as it has.                                                      *)
LEMMA Moved ==
    ASSUME NEW j \in Jobs, NEW to \in States, NEW S,
           pc \in [Jobs -> States], pc' = [pc EXCEPT ![j] = to]
    PROVE  Cardinality(In(S)') =
               IF pc[j] \notin S /\ to \in S THEN Cardinality(In(S)) + 1
               ELSE IF pc[j] \in S /\ to \notin S THEN Cardinality(In(S)) - 1
               ELSE Cardinality(In(S))
<1>1. CASE pc[j] \notin S /\ to \in S
  <2>1. In(S)' = In(S) \cup {j} /\ j \notin In(S)
    BY <1>1 DEF In
  <2> QED
    BY <1>1, <2>1, InFinite, FS_AddElement
<1>2. CASE pc[j] \in S /\ to \notin S
  <2>1. In(S)' = In(S) \ {j} /\ j \in In(S)
    BY <1>2 DEF In
  <2> QED
    BY <1>2, <2>1, InFinite, FS_RemoveElement
<1>3. CASE pc[j] \in S <=> to \in S
  <2>1. In(S)' = In(S)
    BY <1>3 DEF In
  <2> QED
    BY <1>3, <2>1
<1> QED
  BY <1>1, <1>2, <1>3

----------------------------------------------------------------------------
LEMMA ScanInit == Init => ScanInv
<1> SUFFICES ASSUME Init PROVE ScanInv
  OBVIOUS
<1>1. In(Holding) = {} /\ In(Running) = {}
  BY DEF Init, In, Holding, Running
<1>2. Slots /\ Waited
  BY <1>1, FS_EmptySet, ScanAssumption DEF Slots, Waited, Init
<1>3. spawned = 0 /\ returned = FALSE /\ cancelled = FALSE
      /\ \A j \in Jobs : pc[j] = "unborn" /\ verdict[j] = NoVerdict
  BY DEF Init
<1>4. Types
  <2>1. 0 \in 0..N
    BY ScanAssumption
  <2>2. pc \in [Jobs -> States]
    BY DEF Init, States
  <2>3. verdict \in [Jobs -> Verdicts \cup {NoVerdict}]
    BY DEF Init
  <2> QED
    BY <1>3, <2>1, <2>2, <2>3 DEF Types
<1>5. Started
  BY <1>3, ScanAssumption DEF Started, Jobs
<1>6. Answered /\ Over
  BY <1>3 DEF Answered, Over
<1> QED
  BY <1>2, <1>4, <1>5, <1>6 DEF ScanInv

LEMMA SpawnStep == ScanInv /\ Spawn => ScanInv'
<1> SUFFICES ASSUME ScanInv, Spawn PROVE ScanInv'
  OBVIOUS
<1> DEFINE j == spawned + 1
<1>1. j \in Jobs /\ pc[j] = "unborn"
  BY ScanAssumption DEF ScanInv, Types, Started, Spawn, Jobs
<1>2. pc' = [pc EXCEPT ![j] = "queued"] /\ pc \in [Jobs -> States]
  BY DEF Spawn, ScanInv, Types
<1>3. Cardinality(In(Holding)') = Cardinality(In(Holding))
  BY <1>1, <1>2, Moved DEF States, Holding
<1>4. Cardinality(In(Running)') = Cardinality(In(Running)) + 1
  <2>1. "queued" \in States /\ pc[j] \notin Running /\ "queued" \in Running
    BY <1>1 DEF States, Running
  <2> HIDE DEF j
  <2> QED
    BY <1>1, <1>2, <2>1, Moved
<1>5. Slots' /\ Waited'
  <2>1. Slots'
    BY <1>3, <1>4 DEF Spawn, ScanInv, Slots
  <2>2. Waited'
    BY <1>3, <1>4 DEF Spawn, ScanInv, Waited
  <2> QED
    BY <2>1, <2>2
<1>6. Types' /\ Answered' /\ Over'
  BY <1>1, <1>2, ScanAssumption DEF Spawn, ScanInv, Types, Answered, Over, States
<1>7. Started'
  BY <1>1, <1>2, ScanAssumption DEF Spawn, ScanInv, Types, Started, Jobs
<1> QED
  BY <1>5, <1>6, <1>7 DEF ScanInv

LEMMA AcquireStep == ASSUME NEW j \in Jobs PROVE ScanInv /\ Acquire(j) => ScanInv'
<1> SUFFICES ASSUME ScanInv, Acquire(j) PROVE ScanInv'
  OBVIOUS
<1>1. pc' = [pc EXCEPT ![j] = "dialing"] /\ pc[j] = "queued" /\ pc \in [Jobs -> States]
  BY DEF Acquire, ScanInv, Types
<1>2. Cardinality(In(Holding)') = Cardinality(In(Holding)) + 1
  BY <1>1, Moved DEF States, Holding
<1>3. Cardinality(In(Running)') = Cardinality(In(Running))
  BY <1>1, Moved DEF States, Running
<1>4. sem \in Nat
  BY InFinite DEF ScanInv, Slots
<1>5. Slots' /\ Waited'
  <2>1. Slots'
    BY <1>2, <1>3, <1>4, ScanAssumption DEF Acquire, ScanInv, Slots
  <2>2. Waited'
    BY <1>2, <1>3, <1>4, ScanAssumption DEF Acquire, ScanInv, Waited
  <2> QED
    BY <2>1, <2>2
<1>6. Types' /\ Started' /\ Answered' /\ Over'
  BY <1>1 DEF Acquire, ScanInv, Types, Started, Answered, Over, States
<1> QED
  BY <1>5, <1>6 DEF ScanInv

LEMMA AnswerStep ==
    ASSUME NEW j \in Jobs, NEW v \in Verdicts PROVE ScanInv /\ Answer(j, v) => ScanInv'
<1> SUFFICES ASSUME ScanInv, Answer(j, v) PROVE ScanInv'
  OBVIOUS
<1>1. pc' = [pc EXCEPT ![j] = "release"] /\ pc[j] = "dialing" /\ pc \in [Jobs -> States]
  BY DEF Answer, ScanInv, Types
<1>2. Cardinality(In(Holding)') = Cardinality(In(Holding))
  BY <1>1, Moved DEF States, Holding
<1>3. Cardinality(In(Running)') = Cardinality(In(Running))
  BY <1>1, Moved DEF States, Running
<1>4. Slots' /\ Waited'
  <2>1. Slots'
    BY <1>2, <1>3 DEF Answer, ScanInv, Slots
  <2>2. Waited'
    BY <1>2, <1>3 DEF Answer, ScanInv, Waited
  <2> QED
    BY <2>1, <2>2
<1>5. Types' /\ Started' /\ Over'
  BY <1>1 DEF Answer, ScanInv, Types, Started, Over, States
<1>6. Answered'
  BY <1>1 DEF Answer, ScanInv, Types, Answered, Verdicts, Errors, NoVerdict
<1> QED
  BY <1>4, <1>5, <1>6 DEF ScanInv

LEMMA ReleaseStep == ASSUME NEW j \in Jobs PROVE ScanInv /\ Release(j) => ScanInv'
<1> SUFFICES ASSUME ScanInv, Release(j) PROVE ScanInv'
  OBVIOUS
<1>1. pc' = [pc EXCEPT ![j] = "done"] /\ pc[j] = "release" /\ pc \in [Jobs -> States]
  BY DEF Release, ScanInv, Types
<1>2. Cardinality(In(Holding)') = Cardinality(In(Holding)) - 1
  BY <1>1, Moved DEF States, Holding
<1>3. Cardinality(In(Running)') = Cardinality(In(Running))
  BY <1>1, Moved DEF States, Running
<1>4. sem \in Nat
  BY InFinite DEF ScanInv, Slots
<1>5. Slots' /\ Waited'
  <2>1. Slots'
    BY <1>2, <1>3, <1>4, ScanAssumption DEF Release, ScanInv, Slots
  <2>2. Waited'
    BY <1>2, <1>3, <1>4, ScanAssumption DEF Release, ScanInv, Waited
  <2> QED
    BY <2>1, <2>2
<1>6. Types' /\ Started' /\ Answered' /\ Over'
  BY <1>1 DEF Release, ScanInv, Types, Started, Answered, Over, States
<1> QED
  BY <1>5, <1>6 DEF ScanInv

LEMMA DoneStep == ASSUME NEW j \in Jobs PROVE ScanInv /\ Done(j) => ScanInv'
<1> SUFFICES ASSUME ScanInv, Done(j) PROVE ScanInv'
  OBVIOUS
<1>1. pc' = [pc EXCEPT ![j] = "ended"] /\ pc[j] = "done" /\ pc \in [Jobs -> States]
  BY DEF Done, ScanInv, Types
<1>2. Cardinality(In(Holding)') = Cardinality(In(Holding))
  BY <1>1, Moved DEF States, Holding
<1>3. Cardinality(In(Running)') = Cardinality(In(Running)) - 1
  <2>1. "ended" \in States /\ pc[j] \in Running /\ "ended" \notin Running
    BY <1>1 DEF States, Running
  <2> QED
    BY <1>1, <2>1, Moved
<1>4. Slots' /\ Waited'
  <2>1. Slots'
    BY <1>2, <1>3 DEF Done, ScanInv, Slots
  <2>2. Waited'
    BY <1>2, <1>3 DEF Done, ScanInv, Waited
  <2> QED
    BY <2>1, <2>2
<1>5. Types' /\ Started' /\ Answered' /\ Over'
  BY <1>1 DEF Done, ScanInv, Types, Started, Answered, Over, States
<1> QED
  BY <1>4, <1>5 DEF ScanInv

(* The wait group is empty and the loop over: every goroutine has ended.   *)
LEMMA AllEnded == ScanInv /\ spawned = N /\ pending = 0 => \A j \in Jobs : pc[j] = "ended"
<1> SUFFICES ASSUME ScanInv, spawned = N, pending = 0, NEW j \in Jobs PROVE pc[j] = "ended"
  OBVIOUS
<1>1. In(Running) = {}
  BY InFinite, FS_EmptySet DEF ScanInv, Waited
<1>2. pc[j] \notin Running
  BY <1>1 DEF In
<1>3. pc[j] # "unborn"
  BY ScanAssumption DEF ScanInv, Started, Jobs
<1> QED
  BY <1>2, <1>3 DEF ScanInv, Types, States, Running

LEMMA ScanStep == ScanInv /\ [Next]_vars => ScanInv'
<1> SUFFICES ASSUME ScanInv, [Next]_vars PROVE ScanInv'
  OBVIOUS
<1>1. CASE Spawn
  BY <1>1, SpawnStep
<1>2. CASE Return
  BY <1>2, AllEnded DEF Return, ScanInv, Types, Started, Slots, Waited, Answered, Over, In
<1>3. CASE Cancel
  BY <1>3 DEF Cancel, ScanInv, Types, Started, Slots, Waited, Answered, Over, In
<1>4. ASSUME NEW j \in Jobs, Worker(j) \/ Dialed(j) \/ GivesUp(j) PROVE ScanInv'
  <2>1. CASE \E v \in Verdicts : Answer(j, v)
    BY <2>1, AnswerStep
  <2> QED
    BY <1>4, <2>1, AcquireStep, ReleaseStep, DoneStep
       DEF Worker, Dialed, GivesUp, TimesOut, Verdicts, Errors
<1>5. CASE UNCHANGED vars
  BY <1>5 DEF vars, ScanInv, Types, Started, Slots, Waited, Answered, Over, In
<1> QED
  BY <1>1, <1>2, <1>3, <1>4, <1>5 DEF Next, Terminated

LEMMA ScanCorrect == Spec => []ScanInv
BY ScanInit, ScanStep, PTL DEF Spec

----------------------------------------------------------------------------
(* The type invariant of the scan: the semaphore never holds more values   *)
(* than it has capacity for, the wait group never more than there are      *)
(* ports, and neither goes below zero.                                     *)
THEOREM TypeCorrect == Spec => []TypeOK
<1>1. ScanInv => TypeOK
  <2> SUFFICES ASSUME ScanInv PROVE TypeOK
    OBVIOUS
  <2>1. sem \in 0..MaxScans /\ pending \in 0..N
    BY InFinite, ScanAssumption DEF ScanInv, Slots, Waited
  <2> QED
    BY <2>1 DEF ScanInv, Types, TypeOK, States
<1> QED
  BY <1>1, ScanCorrect, PTL

(* No more dials than slots, for any number of ports and goroutines.       *)
THEOREM DialsCorrect == Spec => []DialsLimited
<1>1. ScanInv => DialsLimited
  <2> SUFFICES ASSUME ScanInv PROVE DialsLimited
    OBVIOUS
  <2> DEFINE Dialing == {j \in Jobs : pc[j] = "dialing"}
  <2>1. Dialing \subseteq In(Holding)
    BY DEF In, Holding
  <2>2. IsFiniteSet(Dialing) /\ Cardinality(Dialing) <= Cardinality(In(Holding))
    BY <2>1, InFinite, FS_Subset
  <2>3. Cardinality(Dialing) \in Nat /\ Cardinality(In(Holding)) \in Nat
    BY <2>2, InFinite, FS_CardinalityType
  <2> QED
    BY <2>2, <2>3, ScanAssumption DEF DialsLimited, ScanInv, Slots
<1> QED
  BY <1>1, ScanCorrect, PTL

(* When ScanPorts returns, and its caller closes the dialer, every         *)
(* goroutine it started is over.                                           *)
THEOREM NobodyCorrect == Spec => []NobodyLeftBehind
<1>1. ScanInv => NobodyLeftBehind
  BY DEF ScanInv, Over, NobodyLeftBehind
<1> QED
  BY <1>1, ScanCorrect, PTL

(* ScanPorts implements the abstract scan: each port's verdict is written  *)
(* once, by its own goroutine, and all are there when the results are      *)
(* returned.                                                               *)
THEOREM ScanImplements == Spec => Implements
<1> USE DEF Abstract!Probe, Abstract!Return, Abstract!Next, Abstract!vars
<1>1. Init => Abstract!Init
  BY DEF Init, Abstract!Init
<1>2. ScanInv /\ [Next]_vars => [Abstract!Next]_(Abstract!vars)
  <2> SUFFICES ASSUME ScanInv, [Next]_vars PROVE [Abstract!Next]_(Abstract!vars)
    OBVIOUS
  <2>1. CASE Return
    <3>1. \A j \in Jobs : pc[j] = "ended"
      BY <2>1, AllEnded DEF Return
    <3> QED
      BY <2>1, <3>1 DEF Return, ScanInv, Answered
  <2>2. ASSUME NEW j \in Jobs, NEW v \in Verdicts, Answer(j, v) PROVE Abstract!Probe(j)
    <3>1. pc[j] = "dialing"
      BY <2>2 DEF Answer
    <3>2. ~returned /\ verdict[j] = NoVerdict
      BY <3>1 DEF ScanInv, Over, Answered
    <3> QED
      BY <2>2, <3>2 DEF Answer
  <2>3. ASSUME NEW j \in Jobs, Worker(j) \/ Dialed(j) \/ GivesUp(j)
        PROVE  [Abstract!Next]_(Abstract!vars)
    <3>1. CASE \E v \in Verdicts : Answer(j, v)
      BY <2>2, <3>1
    <3>2. CASE Acquire(j) \/ Release(j) \/ Done(j)
      BY <3>2 DEF Acquire, Release, Done
    <3> QED
      BY <2>3, <3>1, <3>2 DEF Worker, Dialed, GivesUp, TimesOut, Verdicts, Errors
  <2>4. CASE Spawn \/ Cancel \/ UNCHANGED vars
    BY <2>4 DEF Spawn, Cancel, vars
  <2> QED
    BY <2>1, <2>3, <2>4 DEF Next, Terminated
<1> QED
  BY <1>1, <1>2, ScanCorrect, PTL DEF Spec, Implements, Abstract!Spec

----------------------------------------------------------------------------
(* What is left of ScanReturns without fairness: until the scan returns    *)
(* somebody can move, and the scan has only so many steps.                 *)

(* The loop, some goroutine or the caller can take a step that waits for   *)
(* nothing but the dial's own timeout.                                     *)
Ready ==
    \/ spawned < N
    \/ \E j \in Jobs : \/ pc[j] = "queued" /\ sem < MaxScans
                       \/ pc[j] \in {"dialing", "release", "done"}
    \/ spawned = N /\ pending = 0 /\ ~returned

(* Somebody can go on until ScanPorts has returned.                        *)
NeverStuck == ~returned => Ready

(* The semaphore cannot wedge the scan, however few its slots are: who     *)
(* waits for one finds it free or held by a goroutine that can move.       *)
THEOREM ProgressCorrect == Spec => []NeverStuck
<1>1. ScanInv => NeverStuck
  <2> SUFFICES ASSUME ScanInv, ~returned, ~Ready PROVE FALSE
    BY DEF NeverStuck
  <2>1. In(Holding) = {}
    BY DEF Ready, In, Holding
  <2>2. sem < MaxScans
    BY <2>1, FS_EmptySet, ScanAssumption DEF ScanInv, Slots
  <2>3. In(Running) # {}
    <3>1. spawned = N /\ pending # 0
      BY ScanAssumption DEF Ready, ScanInv, Types
    <3> QED
      BY <3>1, FS_EmptySet DEF ScanInv, Waited
  <2>4. PICK j \in Jobs : pc[j] \in Running
    BY <2>3 DEF In
  <2> QED
    BY <2>2, <2>4 DEF Ready, Running
<1> QED
  BY <1>1, ScanCorrect, PTL

(* The steps that are still to come: five of each goroutine, the return    *)
(* and the cancellation.                                                   *)
Stage(s) ==
    CASE s = "unborn" -> 0 [] s = "queued" -> 1 [] s = "dialing" -> 2
      [] s = "release" -> 3 [] s = "done" -> 4 [] s = "ended" -> 5
StepsAhead ==
    {p \in Jobs \X (1..5) : Stage(pc[p[1]]) < p[2]}
    \cup {p \in {0} \X (1..2) : (p[2] = 1 /\ ~returned) \/ (p[2] = 2 /\ ~cancelled)}

(* No step is taken twice: each strikes one off those that are ahead.      *)
CountsDown ==
    [][ /\ Cardinality(StepsAhead) \in 0..(5 * N + 2)
        /\ Cardinality(StepsAhead') \in 0..(Cardinality(StepsAhead) - 1) ]_vars

LEMMA AheadFinite ==
    IsFiniteSet(StepsAhead) /\ Cardinality(StepsAhead) \in 0..(5 * N + 2)
<1> DEFINE A == Jobs \X (1..5)
           B == {0} \X (1..2)
<1>1. IsFiniteSet(A) /\ Cardinality(A) = 5 * N
  <2>1. IsFiniteSet(Jobs) /\ Cardinality(Jobs) = N
    BY ScanAssumption, FS_Interval DEF Jobs
  <2>2. IsFiniteSet(1..5) /\ Cardinality(1..5) = 5
    <3>1. 1 \in Int /\ 5 \in Int
      OBVIOUS
    <3>2. IsFiniteSet(1..5) /\ Cardinality(1..5) = IF 1 > 5 THEN 0 ELSE 5 - 1 + 1
      BY <3>1, FS_Interval, Zenon
    <3> QED
      BY <3>2
  <2>3. IsFiniteSet(A) /\ Cardinality(A) = N * 5
    BY <2>1, <2>2, FS_Product
  <2> QED
    BY <2>3, ScanAssumption
<1>2. IsFiniteSet(B) /\ Cardinality(B) = 2
  <2>1. IsFiniteSet({0}) /\ Cardinality({0}) = 1
    BY FS_Singleton
  <2>2. IsFiniteSet(1..2) /\ Cardinality(1..2) = 2
    <3>1. 1 \in Int /\ 2 \in Int
      OBVIOUS
    <3>2. IsFiniteSet(1..2) /\ Cardinality(1..2) = IF 1 > 2 THEN 0 ELSE 2 - 1 + 1
      BY <3>1, FS_Interval, Zenon
    <3> QED
      BY <3>2
  <2>3. IsFiniteSet(B) /\ Cardinality(B) = 1 * 2
    BY <2>1, <2>2, FS_Product
  <2> QED
    BY <2>3
<1> HIDE DEF A, B
<1>3. IsFiniteSet(A \cup B) /\ Cardinality(A \cup B) = 5 * N + 2 - Cardinality(A \cap B)
  BY <1>1, <1>2, FS_Union
<1>4. Cardinality(A \cap B) \in Nat
  <2>1. IsFiniteSet(A \cap B)
    BY <1>1, FS_Subset
  <2> QED
    BY <2>1, FS_CardinalityType
<1>5. StepsAhead \in SUBSET (A \cup B)
  BY DEF StepsAhead, A, B
<1>6. IsFiniteSet(StepsAhead) /\ Cardinality(StepsAhead) <= Cardinality(A \cup B)
  BY <1>3, <1>5, FS_Subset
<1>7. Cardinality(StepsAhead) \in Nat
  BY <1>6, FS_CardinalityType
<1> QED
  BY <1>3, <1>4, <1>6, <1>7, ScanAssumption

LEMMA AheadShrinks ==
    ASSUME StepsAhead' \subseteq StepsAhead, NEW p \in StepsAhead, p \notin StepsAhead'
    PROVE  Cardinality(StepsAhead') \in 0..(Cardinality(StepsAhead) - 1)
<1>1. IsFiniteSet(StepsAhead') /\ Cardinality(StepsAhead') <= Cardinality(StepsAhead)
      /\ (Cardinality(StepsAhead) = Cardinality(StepsAhead') => StepsAhead = StepsAhead')
  BY AheadFinite, FS_Subset
<1>2. Cardinality(StepsAhead') \in Nat /\ Cardinality(StepsAhead) \in Nat
  BY <1>1, AheadFinite, FS_CardinalityType
<1> QED
  BY <1>1, <1>2

(* A goroutine that moves on takes one of its steps.                       *)
LEMMA StepTaken ==
    ASSUME ScanInv, NEW j \in Jobs, NEW to \in States, Stage(pc[j]) < Stage(to),
           pc' = [pc EXCEPT ![j] = to], UNCHANGED <<returned, cancelled>>
    PROVE  Cardinality(StepsAhead') \in 0..(Cardinality(StepsAhead) - 1)
<1> DEFINE k == Stage(to)
<1>1. \A s \in States : Stage(s) \in 0..5
  BY DEF States, Stage
<1>2. k \in 1..5 /\ Stage(pc[j]) < k /\ pc'[j] = to
  BY <1>1 DEF ScanInv, Types
<1>3. \A i \in Jobs : Stage(pc[i]) \in 0..5 /\ Stage(pc'[i]) \in 0..5
                      /\ Stage(pc[i]) <= Stage(pc'[i])
  BY <1>1, <1>2 DEF ScanInv, Types
<1> HIDE DEF k
<1>4. StepsAhead' \subseteq StepsAhead
  <2> SUFFICES ASSUME NEW p \in Jobs \X (1..5), Stage(pc'[p[1]]) < p[2]
               PROVE  Stage(pc[p[1]]) < p[2]
    BY DEF StepsAhead
  <2>1. p[1] \in Jobs /\ p[2] \in 1..5
    OBVIOUS
  <2> QED
    BY <1>3, <2>1
<1>5. <<j, k>> \in StepsAhead
  BY <1>2 DEF StepsAhead
<1>6. <<j, k>> \notin StepsAhead'
  <2>1. ~(Stage(pc'[j]) < k) /\ j # 0
    BY <1>1, <1>2 DEF k, Jobs
  <2> QED
    BY <2>1 DEF StepsAhead
<1> QED
  BY <1>4, <1>5, <1>6, AheadShrinks

(* Every step of the scan is one of the at most 5N + 2 it can take: no     *)
(* goroutine waits in a loop, retries or is started twice.  So no schedule *)
(* can keep the scan from returning.                                       *)
THEOREM StepsCorrect == Spec => CountsDown
<1>1. ScanInv /\ [Next]_vars =>
        [/\ Cardinality(StepsAhead) \in 0..(5 * N + 2)
         /\ Cardinality(StepsAhead') \in 0..(Cardinality(StepsAhead) - 1)]_vars
  <2> SUFFICES ASSUME ScanInv, Next, ~ UNCHANGED vars
               PROVE  Cardinality(StepsAhead') \in 0..(Cardinality(StepsAhead) - 1)
    BY AheadFinite
  <2>1. CASE Spawn
    <3>1. spawned + 1 \in Jobs /\ pc[spawned + 1] = "unborn"
      BY <2>1, ScanAssumption DEF ScanInv, Types, Started, Spawn, Jobs
    <3>2. Stage("unborn") < Stage("queued") /\ "queued" \in States
      BY DEF Stage, States
    <3> QED
      BY <2>1, <3>1, <3>2, StepTaken DEF Spawn
  <2>2. ASSUME NEW j \in Jobs, Worker(j) \/ Dialed(j) \/ GivesUp(j)
        PROVE  Cardinality(StepsAhead') \in 0..(Cardinality(StepsAhead) - 1)
    <3>1. \E to \in States : /\ pc' = [pc EXCEPT ![j] = to] /\ Stage(pc[j]) < Stage(to)
                             /\ UNCHANGED <<returned, cancelled>>
      BY <2>2 DEF Worker, Dialed, GivesUp, TimesOut, Acquire, Answer, Release, Done, Stage, States
    <3> QED
      BY <3>1, StepTaken
  <2>3. CASE Return
    <3>1. StepsAhead' \subseteq StepsAhead
      BY <2>3 DEF Return, StepsAhead
    <3>2. <<0, 1>> \in StepsAhead /\ <<0, 1>> \notin StepsAhead'
      BY <2>3 DEF Return, StepsAhead, Jobs
    <3> QED
      BY <3>1, <3>2, AheadShrinks
  <2>4. CASE Cancel
    <3>1. StepsAhead' \subseteq StepsAhead
      BY <2>4 DEF Cancel, StepsAhead
    <3>2. <<0, 2>> \in StepsAhead /\ <<0, 2>> \notin StepsAhead'
      BY <2>4 DEF Cancel, StepsAhead, Jobs
    <3> QED
      BY <3>1, <3>2, AheadShrinks
  <2> QED
    BY <2>1, <2>2, <2>3, <2>4 DEF Next, Terminated
<1> QED
  BY <1>1, ScanCorrect, PTL DEF Spec, CountsDown

=============================================================================
