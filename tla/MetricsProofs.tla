---------------------------- MODULE MetricsProofs ----------------------------
(***************************************************************************)
(* Theorems about Metrics, for any number of connections, reconnections    *)
(* and errors.                                                             *)
(***************************************************************************)
EXTENDS Metrics, FiniteSetTheorems, TLAPS

States == {"none", "accepted", "dial", "failed", "received", "closing", "ended"}
In(S)  == {h \in Conns : hs[h] \in S}

(* The connections that active, total and bytesIn - bytesOut stand for.    *)
IsActive == {"accepted", "dial", "failed", "received", "closing"}
IsTotal  == {"dial", "failed", "received", "closing", "ended"}

Fields == {"active", "total", "bytesIn", "bytesOut", "reconnects", "errors", "lastError"}

Types ==
    /\ active \in Nat /\ total \in Nat /\ bytesIn \in Nat /\ bytesOut \in Nat
    /\ reconnects \in Nat /\ errors \in Nat /\ lastError \in Nat
    /\ acc \in {"accept", "opened", "failed", "reconnect", "attempt", "attempted", "exited"}
    /\ hs \in [Conns -> States]
    /\ number \in [Goroutines -> Nat]
    /\ snap \in [Fields -> Nat]

(* Each counter is the number of connections in certain states, whatever   *)
(* the order in which the goroutines count.                                *)
Tally ==
    /\ active = Cardinality(In(IsActive))
    /\ total = Cardinality(In(IsTotal))
    /\ bytesIn = bytesOut + Cardinality(In({"received"}))
    /\ Cardinality(In({"accepted"})) = IF acc = "opened" THEN 1 ELSE 0

(* A message bears the number of an error that was counted before, and     *)
(* each reconnection was preceded by an error of its own.                  *)
ErrorsFirst ==
    /\ \A g \in Goroutines : number[g] <= errors
    /\ lastError <= errors
    /\ reconnects + (IF acc \in {"failed", "reconnect"} THEN 1 ELSE 0) <= errors

(* What a snapshot under way has loaded so far.                            *)
Loaded ==
    /\ pc \in {"active", "total", "bytesIn", "bytesOut", "reconnects", "errors"}
           => snap.lastError <= errors
    /\ pc = "total" => snap.active <= total + 1
    /\ pc \in {"bytesIn", "bytesOut", "reconnects", "errors", "unlock"}
           => snap.active <= snap.total + 1
    /\ pc = "errors" => snap.reconnects <= errors
    /\ pc = "unlock" => snap.lastError <= snap.errors /\ snap.reconnects <= snap.errors

MetricsInv == Types /\ Tally /\ ErrorsFirst /\ Loaded

----------------------------------------------------------------------------
LEMMA InFinite == ASSUME NEW S PROVE IsFiniteSet(In(S)) /\ Cardinality(In(S)) \in Nat
<1>1. IsFiniteSet(In(S))
  BY MetricsAssumption, FS_Subset DEF In
<1> QED
  BY <1>1, FS_CardinalityType

(* When one connection moves, a set of states gains it, loses it or keeps  *)
(* as many as it has.                                                      *)
Gain(S, from, to) == (IF to \in S THEN 1 ELSE 0) - (IF from \in S THEN 1 ELSE 0)

LEMMA ConnMoved ==
    ASSUME Types, NEW h \in Conns, NEW to \in States, NEW S, hs' = [hs EXCEPT ![h] = to]
    PROVE  Cardinality(In(S))' = Cardinality(In(S)) + Gain(S, hs[h], to)
<1>0. hs \in [Conns -> States]
  BY DEF Types
<1>1. CASE hs[h] \notin S /\ to \in S
  <2>1. In(S)' = In(S) \cup {h} /\ h \notin In(S)
    BY <1>0, <1>1 DEF In
  <2>2. Cardinality(In(S)') = Cardinality(In(S)) + 1
    BY <2>1, InFinite, FS_AddElement
  <2> QED
    BY <1>1, <2>2, InFinite DEF Gain
<1>2. CASE hs[h] \in S /\ to \notin S
  <2>1. In(S)' = In(S) \ {h} /\ h \in In(S)
    BY <1>0, <1>2 DEF In
  <2>2. Cardinality(In(S)') = Cardinality(In(S)) - 1
    BY <2>1, InFinite, FS_RemoveElement
  <2> QED
    BY <1>2, <2>2, InFinite DEF Gain
<1>3. CASE hs[h] \in S <=> to \in S
  <2>1. In(S)' = In(S)
    BY <1>0, <1>3 DEF In
  <2> QED
    BY <1>3, <2>1, InFinite DEF Gain
<1> QED
  BY <1>1, <1>2, <1>3

LEMMA DisjointUnion ==
    ASSUME NEW T, NEW A, IsFiniteSet(T), IsFiniteSet(A), T \cap A = {}
    PROVE  /\ IsFiniteSet(T \cup A)
           /\ Cardinality(T \cup A) = Cardinality(T) + Cardinality(A)
<1>1. Cardinality(T) \in Nat /\ Cardinality(A) \in Nat
  BY FS_CardinalityType
<1>2. Cardinality(T \cup A) = Cardinality(T) + Cardinality(A) - Cardinality(T \cap A)
  BY FS_Union
<1>3. Cardinality(T \cap A) = 0
  BY FS_EmptySet
<1> QED
  BY <1>1, <1>2, <1>3, FS_Union

(* At any moment at most one connection is active and not in the total.    *)
LEMMA ActiveBound == MetricsInv => active <= total + 1
<1> SUFFICES ASSUME MetricsInv PROVE active <= total + 1
  OBVIOUS
<1> DEFINE T == In(IsTotal)  A == In({"accepted"})
<1>1. In(IsActive) \subseteq T \cup A
  BY DEF In, IsActive, IsTotal
<1>2. IsFiniteSet(T) /\ IsFiniteSet(A) /\ T \cap A = {}
  BY InFinite DEF In, IsTotal
<1>3. IsFiniteSet(T \cup A) /\ Cardinality(T \cup A) = Cardinality(T) + Cardinality(A)
  <2> HIDE DEF T, A
  <2> QED
    BY <1>2, DisjointUnion
<1>4. Cardinality(In(IsActive)) <= Cardinality(T) + Cardinality(A)
  BY <1>1, <1>3, FS_Subset
<1>5. Cardinality(A) \in {0, 1}
  BY DEF MetricsInv, Tally
<1> QED
  BY <1>4, <1>5, InFinite DEF MetricsInv, Tally

LEMMA MetricsInit == Init => MetricsInv
<1> SUFFICES ASSUME Init PROVE MetricsInv
  OBVIOUS
<1>1. Types
  BY DEF Init, Types, States, Nothing, Fields
<1>2. \A S : "none" \notin S => Cardinality(In(S)) = 0
  <2> SUFFICES ASSUME NEW S, "none" \notin S PROVE Cardinality(In(S)) = 0
    OBVIOUS
  <2>1. In(S) = {}
    BY DEF Init, In
  <2> QED
    BY <2>1, FS_EmptySet
<1>3. Tally
  BY <1>2 DEF Init, Tally, IsActive, IsTotal
<1> QED
  BY <1>1, <1>3 DEF Init, MetricsInv, ErrorsFirst, Loaded

(* Counting goes up, except for active: a snapshot under way stays sound.  *)
LEMMA LoadedKept ==
    ASSUME MetricsInv, UNCHANGED <<pc, snap>>, Types',
           errors' >= errors, total' >= total
    PROVE  Loaded'
<1>1. snap.lastError \in Nat /\ snap.active \in Nat /\ snap.reconnects \in Nat
  BY DEF MetricsInv, Types, Fields
<1> QED
  BY <1>1 DEF MetricsInv, Types, Loaded

(* A connection moves, acceptLoop perhaps with it, and the counters follow. *)
Moves(h, from, to) == h \in Conns /\ hs[h] = from /\ hs' = [hs EXCEPT ![h] = to]
OpenedBy(a) == IF a = "opened" THEN 1 ELSE 0

LEMMA TallyMoves ==
    ASSUME MetricsInv, NEW h, NEW from, NEW to \in States, Moves(h, from, to),
           active' = active + Gain(IsActive, from, to),
           total' = total + Gain(IsTotal, from, to),
           bytesIn' - bytesOut' = bytesIn - bytesOut + Gain({"received"}, from, to),
           OpenedBy(acc') = OpenedBy(acc) + Gain({"accepted"}, from, to),
           bytesIn' \in Nat, bytesOut' \in Nat
    PROVE  Tally'
<1> USE DEF MetricsInv, Moves
<1>1. /\ active' = Cardinality(In(IsActive))'
      /\ total' = Cardinality(In(IsTotal))'
  BY ConnMoved DEF Tally
<1>2. bytesIn' = bytesOut' + Cardinality(In({"received"}))'
  <2>1. Cardinality(In({"received"}))' = Cardinality(In({"received"})) + Gain({"received"}, from, to)
    BY ConnMoved
  <2>2. bytesIn - bytesOut = Cardinality(In({"received"}))
    BY InFinite DEF Tally, Types
  <2>3. Gain({"received"}, from, to) \in Int
    BY DEF Gain
  <2> QED
    BY <2>1, <2>2, <2>3, InFinite DEF Types
<1>3. Cardinality(In({"accepted"}))' = OpenedBy(acc')
  BY ConnMoved DEF Tally, OpenedBy
<1> QED
  BY <1>1, <1>2, <1>3 DEF Tally, OpenedBy

LEMMA TallyKept ==
    ASSUME MetricsInv, UNCHANGED <<active, total, bytesIn, bytesOut, hs>>,
           OpenedBy(acc') = OpenedBy(acc)
    PROVE  Tally'
BY DEF MetricsInv, Tally, OpenedBy, In

(* The two halves of RecordError.                                          *)
LEMMA ErrorCounted ==
    ASSUME MetricsInv, NEW g \in Goroutines, CountError(g),
           acc' = acc \/ (acc = "accept" /\ acc' = "failed") \/ acc' = "attempted"
    PROVE  ErrorsFirst'
<1> USE DEF MetricsInv, Types
<1>1. errors' = errors + 1 /\ number' = [number EXCEPT ![g] = errors + 1]
      /\ UNCHANGED <<lastError, reconnects>>
  BY DEF CountError
<1>2. \A f \in Goroutines : number'[f] <= errors'
  BY <1>1 DEF ErrorsFirst
<1> QED
  BY <1>1, <1>2 DEF ErrorsFirst

LEMMA ErrorStored ==
    ASSUME MetricsInv, NEW g \in Goroutines, StoreError(g),
           acc' = acc \/ (acc = "failed" /\ acc' = "reconnect") \/ acc' \in {"attempt", "exited"}
    PROVE  ErrorsFirst'
<1> USE DEF MetricsInv, Types
<1>1. number' = [number EXCEPT ![g] = 0] /\ lastError' = number[g]
      /\ UNCHANGED <<errors, reconnects>>
  BY DEF StoreError, counters
<1> QED
  BY <1>1 DEF ErrorsFirst

LEMMA ErrorTypes ==
    ASSUME Types, NEW g \in Goroutines, CountError(g) \/ StoreError(g)
    PROVE  /\ errors' \in Nat /\ errors' >= errors /\ lastError' \in Nat
           /\ number' \in [Goroutines -> Nat]
           /\ UNCHANGED <<active, total, bytesIn, bytesOut, reconnects, pc, snap>>
BY DEF Types, CountError, StoreError, counters, reader

----------------------------------------------------------------------------
(* What each move of a connection changes in the four tallies.             *)
Gains(from, to, a, t, r, o) ==
    /\ Gain(IsActive, from, to) = a /\ Gain(IsTotal, from, to) = t
    /\ Gain({"received"}, from, to) = r /\ Gain({"accepted"}, from, to) = o

LEMMA GainsAre ==
    /\ Gains("none", "accepted", 1, 0, 0, 1)
    /\ Gains("accepted", "dial", 0, 1, 0, 0 - 1)
    /\ Gains("dial", "failed", 0, 0, 0, 0)
    /\ Gains("failed", "closing", 0, 0, 0, 0)
    /\ Gains("dial", "received", 0, 0, 1, 0)
    /\ Gains("received", "closing", 0, 0, 0 - 1, 0)
    /\ Gains("closing", "ended", 0 - 1, 0, 0, 0)
BY DEF Gains, Gain, IsActive, IsTotal

LEMMA TallySettled ==
    ASSUME MetricsInv, NEW h, NEW from, NEW to \in States, Moves(h, from, to),
           NEW a \in Int, NEW t \in Int, NEW r \in Int, NEW o \in Int,
           Gains(from, to, a, t, r, o),
           active' = active + a, total' = total + t,
           bytesIn' - bytesOut' = bytesIn - bytesOut + r,
           bytesIn' \in Nat, bytesOut' \in Nat,
           OpenedBy(acc') = OpenedBy(acc) + o
    PROVE  Tally'
BY TallyMoves DEF Gains

LEMMA HandlerStep == ASSUME MetricsInv, NEW h \in Conns, Handler(h) PROVE MetricsInv'
<1> USE DEF HandlerGoto
<1>0. Types /\ ErrorsFirst /\ h \in Goroutines
  BY DEF MetricsInv, Goroutines
<1>1. CASE HandlerFails(h) \/ HandlerRecorded(h)
  <2>1. /\ acc' = acc
        /\ \/ Moves(h, "dial", "failed") /\ CountError(h)
           \/ Moves(h, "failed", "closing") /\ StoreError(h)
    BY <1>1 DEF HandlerFails, HandlerRecorded, Moves
  <2>2. /\ errors' >= errors
        /\ UNCHANGED <<active, total, bytesIn, bytesOut, reconnects, pc, snap>>
    BY <1>0, <2>1, ErrorTypes
  <2>3. Types'
    BY <1>0, <2>1, <2>2, ErrorTypes DEF Types, Moves, States
  <2>4. Tally'
    <3>1. /\ active' = active + 0 /\ total' = total + 0
          /\ bytesIn' - bytesOut' = bytesIn - bytesOut + 0
          /\ OpenedBy(acc') = OpenedBy(acc) + 0
      BY <1>0, <2>1, <2>2 DEF Types, OpenedBy
    <3>2. bytesIn' \in Nat /\ bytesOut' \in Nat /\ "failed" \in States /\ "closing" \in States
      BY <2>3 DEF Types, States
    <3> QED
      BY <2>1, <3>1, <3>2, GainsAre, TallySettled
  <2>5. ErrorsFirst'
    BY <1>0, <2>1, ErrorCounted, ErrorStored
  <2>6. Loaded'
    BY <1>0, <2>2, <2>3, LoadedKept DEF Types
  <2> QED
    BY <2>3, <2>4, <2>5, <2>6 DEF MetricsInv
<1>2. CASE HandlerReceived(h) \/ HandlerSent(h) \/ HandlerCloses(h)
  <2>1. /\ UNCHANGED <<acc, total, reconnects, errors, lastError, number, reader>>
        /\ \/ /\ Moves(h, "dial", "received")
              /\ bytesIn' = bytesIn + 1 /\ UNCHANGED <<active, bytesOut>>
           \/ /\ Moves(h, "received", "closing")
              /\ bytesOut' = bytesOut + 1 /\ UNCHANGED <<active, bytesIn>>
           \/ /\ Moves(h, "closing", "ended")
              /\ active' = active - 1 /\ UNCHANGED <<bytesIn, bytesOut>>
    BY <1>2 DEF HandlerReceived, HandlerSent, HandlerCloses, Moves
  <2>2. bytesIn' \in Nat /\ bytesOut' \in Nat /\ hs' \in [Conns -> States]
    BY <1>0, <2>1 DEF Types, Moves, States
  <2>3. Tally'
    <3>1. /\ total' = total + 0 /\ OpenedBy(acc') = OpenedBy(acc) + 0
          /\ "received" \in States /\ "closing" \in States /\ "ended" \in States
      BY <1>0, <2>1 DEF Types, OpenedBy, States
    <3>2. CASE Moves(h, "dial", "received") /\ bytesIn' = bytesIn + 1
               /\ UNCHANGED <<active, bytesOut>>
      <4>1. active' = active + 0 /\ bytesIn' - bytesOut' = bytesIn - bytesOut + 1
        BY <1>0, <3>2 DEF Types
      <4> QED
        BY <2>2, <3>1, <3>2, <4>1, GainsAre, TallySettled
    <3>3. CASE Moves(h, "received", "closing") /\ bytesOut' = bytesOut + 1
               /\ UNCHANGED <<active, bytesIn>>
      <4>1. active' = active + 0 /\ bytesIn' - bytesOut' = bytesIn - bytesOut + (0 - 1)
        BY <1>0, <3>3 DEF Types
      <4> QED
        BY <2>2, <3>1, <3>3, <4>1, GainsAre, TallySettled
    <3>4. CASE Moves(h, "closing", "ended") /\ active' = active - 1
               /\ UNCHANGED <<bytesIn, bytesOut>>
      <4>1. active' = active + (0 - 1) /\ bytesIn' - bytesOut' = bytesIn - bytesOut + 0
        BY <1>0, <3>4 DEF Types
      <4> QED
        BY <2>2, <3>1, <3>4, <4>1, GainsAre, TallySettled
    <3> QED
      BY <2>1, <3>2, <3>3, <3>4
  <2>4. Types'
    <3>1. active' \in Nat
      <4>1. IsFiniteSet(In(IsActive)')
        BY MetricsAssumption, FS_Subset DEF In
      <4> QED
        BY <2>3, <4>1, FS_CardinalityType DEF Tally
    <3> QED
      BY <1>0, <2>1, <2>2, <3>1 DEF Types, reader
  <2>5. ErrorsFirst'
    BY <1>0, <2>1 DEF ErrorsFirst
  <2>6. Loaded'
    BY <1>0, <2>1, <2>4, LoadedKept DEF Types, reader
  <2> QED
    BY <2>3, <2>4, <2>5, <2>6 DEF MetricsInv
<1> QED
  BY <1>1, <1>2 DEF Handler

(* ConnectionOpened is two steps, and a connection is accepted in between. *)
LEMMA OpenStep == ASSUME MetricsInv, NEW h \in Conns, AccOpened(h) \/ AccCounted(h)
                  PROVE  MetricsInv'
<1>0. Types /\ ErrorsFirst
  BY DEF MetricsInv
<1>1. /\ UNCHANGED <<bytesIn, bytesOut, reconnects, errors, lastError, number, reader>>
      /\ \/ /\ Moves(h, "none", "accepted") /\ acc = "accept" /\ acc' = "opened"
            /\ active' = active + 1 /\ total' = total
         \/ /\ Moves(h, "accepted", "dial") /\ acc = "opened" /\ acc' = "accept"
            /\ active' = active /\ total' = total + 1
  BY DEF AccOpened, AccCounted, AccGoto, Moves
<1>2. Types'
  BY <1>0, <1>1 DEF Types, Moves, States, reader
<1>3. Tally'
  <2>1. /\ bytesIn' - bytesOut' = bytesIn - bytesOut + 0
        /\ bytesIn' \in Nat /\ bytesOut' \in Nat
        /\ "accepted" \in States /\ "dial" \in States
    BY <1>0, <1>1 DEF Types, States
  <2>2. CASE Moves(h, "none", "accepted") /\ acc = "accept" /\ acc' = "opened"
             /\ active' = active + 1 /\ total' = total
    <3>1. total' = total + 0 /\ OpenedBy(acc') = OpenedBy(acc) + 1
      BY <1>0, <2>2 DEF Types, OpenedBy
    <3> QED
      BY <2>1, <2>2, <3>1, GainsAre, TallySettled
  <2>3. CASE Moves(h, "accepted", "dial") /\ acc = "opened" /\ acc' = "accept"
             /\ active' = active /\ total' = total + 1
    <3>1. active' = active + 0 /\ OpenedBy(acc') = OpenedBy(acc) + (0 - 1)
      BY <1>0, <2>3 DEF Types, OpenedBy
    <3> QED
      BY <2>1, <2>3, <3>1, GainsAre, TallySettled
  <2> QED
    BY <1>1, <2>2, <2>3
<1>4. ErrorsFirst'
  BY <1>0, <1>1 DEF ErrorsFirst
<1>5. Loaded'
  BY <1>0, <1>1, <1>2, LoadedKept DEF Types, reader
<1> QED
  BY <1>2, <1>3, <1>4, <1>5 DEF MetricsInv

(* acceptLoop and the keepalive loop record errors; reconnect is counted   *)
(* when the error before it has been.                                      *)
LEMMA LoopStep ==
    ASSUME MetricsInv,
           \/ AccFails \/ AccRecorded \/ AccReconnects \/ AccAttemptFails
           \/ AccAttemptRecorded \/ AccReconnected \/ AccExits \/ KeepFails \/ KeepRecorded
    PROVE  MetricsInv'
<1> USE DEF AccGoto, KeepGoto
<1>0. Types /\ ErrorsFirst /\ "acceptLoop" \in Goroutines /\ "keepalive" \in Goroutines
  BY DEF MetricsInv, Goroutines
<1>1. CASE AccFails \/ AccRecorded \/ AccAttemptFails \/ AccAttemptRecorded
           \/ KeepFails \/ KeepRecorded
  <2>1. /\ hs' = hs
        /\ acc' \in {"accept", "failed", "reconnect", "attempt", "attempted", "exited"}
              \/ acc' = acc
        /\ OpenedBy(acc') = OpenedBy(acc)
        /\ \E g \in {"acceptLoop", "keepalive"} :
              \/ /\ CountError(g)
                 /\ acc' = acc \/ (acc = "accept" /\ acc' = "failed") \/ acc' = "attempted"
              \/ /\ StoreError(g)
                 /\ acc' = acc \/ (acc = "failed" /\ acc' = "reconnect")
                        \/ acc' \in {"attempt", "exited"}
    BY <1>1 DEF AccFails, AccRecorded, AccAttemptFails, AccAttemptRecorded, KeepFails,
          KeepRecorded, OpenedBy
  <2>2. PICK g \in Goroutines :
              \/ /\ CountError(g)
                 /\ acc' = acc \/ (acc = "accept" /\ acc' = "failed") \/ acc' = "attempted"
              \/ /\ StoreError(g)
                 /\ acc' = acc \/ (acc = "failed" /\ acc' = "reconnect")
                        \/ acc' \in {"attempt", "exited"}
    BY <1>0, <2>1
  <2>3. /\ errors' >= errors
        /\ UNCHANGED <<active, total, bytesIn, bytesOut, reconnects, pc, snap>>
    BY <1>0, <2>2, ErrorTypes
  <2>4. Types'
    BY <1>0, <2>1, <2>2, <2>3, ErrorTypes DEF Types
  <2>5. Tally'
    BY <2>1, <2>3, TallyKept
  <2>6. ErrorsFirst'
    BY <2>2, ErrorCounted, ErrorStored
  <2>7. Loaded'
    BY <1>0, <2>3, <2>4, LoadedKept DEF Types
  <2> QED
    BY <2>4, <2>5, <2>6, <2>7 DEF MetricsInv
<1>2. CASE AccReconnects \/ AccReconnected \/ AccExits
  <2>1. /\ UNCHANGED <<active, total, bytesIn, bytesOut, errors, lastError, hs, number, reader>>
        /\ \/ acc = "reconnect" /\ acc' = "attempt" /\ reconnects' = reconnects + 1
           \/ acc = "attempt" /\ acc' = "accept" /\ reconnects' = reconnects
           \/ acc \in {"accept", "attempt"} /\ acc' = "exited" /\ reconnects' = reconnects
    BY <1>2 DEF AccReconnects, AccReconnected, AccExits, counters
  <2>2. Types'
    BY <1>0, <2>1 DEF Types, reader
  <2>3. Tally'
    BY <2>1, TallyKept DEF OpenedBy
  <2>4. ErrorsFirst'
    BY <1>0, <2>1 DEF ErrorsFirst, Types
  <2>5. Loaded'
    BY <1>0, <2>1, <2>2, LoadedKept DEF Types, reader
  <2> QED
    BY <2>2, <2>3, <2>4, <2>5 DEF MetricsInv
<1> QED
  BY <1>1, <1>2

(* Snapshot: what it has loaded was true of the counters when it did.      *)
LEMMA SnapStep == ASSUME MetricsInv, SnapLocks \/ Loads \/ SnapUnlocks PROVE MetricsInv'
<1>0. Types /\ Tally /\ ErrorsFirst /\ Loaded /\ active <= total + 1
  BY ActiveBound DEF MetricsInv
<1>1. UNCHANGED <<counters, lastError, actors>>
  BY DEF SnapLocks, Loads, Load, SnapUnlocks
<1>2. Tally' /\ ErrorsFirst'
  BY <1>0, <1>1 DEF Tally, ErrorsFirst, In, counters, actors
<1>3. ASSUME snap' \in [Fields -> Nat] PROVE Types'
  BY <1>0, <1>1, <1>3 DEF Types, counters, actors
<1>4. CASE SnapLocks
  <2>1. pc' = "active" /\ snap' = [Nothing EXCEPT !.lastError = lastError]
    BY <1>4 DEF SnapLocks
  <2>2. snap' \in [Fields -> Nat] /\ snap'.lastError = lastError
    BY <1>0, <2>1 DEF Nothing, Fields, Types
  <2>3. Loaded'
    BY <1>0, <1>1, <2>1, <2>2 DEF Loaded, ErrorsFirst, counters
  <2> QED
    BY <1>2, <1>3, <2>2, <2>3 DEF MetricsInv
<1>5. CASE SnapUnlocks
  <2>1. pc' = "idle" /\ snap' = Nothing
    BY <1>5 DEF SnapUnlocks
  <2>2. snap' \in [Fields -> Nat]
    BY <2>1 DEF Nothing, Fields
  <2>3. Loaded'
    BY <2>1 DEF Loaded
  <2> QED
    BY <1>2, <1>3, <2>2, <2>3 DEF MetricsInv
<1>6. CASE Loads
  <2>1. \/ pc = "active" /\ pc' = "total" /\ snap' = [snap EXCEPT !["active"] = active]
        \/ pc = "total" /\ pc' = "bytesIn" /\ snap' = [snap EXCEPT !["total"] = total]
        \/ pc = "bytesIn" /\ pc' = "bytesOut" /\ snap' = [snap EXCEPT !["bytesIn"] = bytesIn]
        \/ pc = "bytesOut" /\ pc' = "reconnects" /\ snap' = [snap EXCEPT !["bytesOut"] = bytesOut]
        \/ pc = "reconnects" /\ pc' = "errors" /\ snap' = [snap EXCEPT !["reconnects"] = reconnects]
        \/ pc = "errors" /\ pc' = "unlock" /\ snap' = [snap EXCEPT !["errors"] = errors]
    BY <1>6 DEF Loads, Load
  <2>2. snap \in [Fields -> Nat] /\ snap' \in [Fields -> Nat]
    BY <1>0, <2>1 DEF Types, Fields
  <2>3. reconnects <= errors
    BY <1>0 DEF ErrorsFirst, Types
  <2>4. Loaded'
    BY <1>0, <1>1, <2>1, <2>2, <2>3 DEF Loaded, Types, Fields, counters
  <2> QED
    BY <1>2, <1>3, <2>2, <2>4 DEF MetricsInv
<1> QED
  BY <1>4, <1>5, <1>6

LEMMA MetricsStutter == MetricsInv /\ UNCHANGED vars => MetricsInv'
BY DEF MetricsInv, Types, Tally, In, ErrorsFirst, Loaded, vars, counters, actors, reader

LEMMA MetricsStep == MetricsInv /\ [Next]_vars => MetricsInv'
BY HandlerStep, OpenStep, LoopStep, SnapStep, MetricsStutter DEF Next

(* A snapshot is put together while everybody goes on counting, and still  *)
(* fits together: it shows no message of an error it does not count, no    *)
(* reconnection without its failure, and at most one connection that is    *)
(* active and not in the total.                                            *)
THEOREM SnapshotCorrect == Spec => []SnapshotSound
<1>1. MetricsInv => SnapshotSound
  <2> SUFFICES ASSUME MetricsInv, pc = "unlock"
               PROVE  /\ snap.lastError <= snap.errors
                      /\ snap.reconnects <= snap.errors
                      /\ snap.active \in 0..(snap.total + 1)
    BY DEF SnapshotSound
  <2>1. snap.active \in Nat /\ snap.total \in Nat
    BY DEF MetricsInv, Types, Fields
  <2> QED
    BY <2>1 DEF MetricsInv, Loaded
<1> QED
  BY <1>1, MetricsInit, MetricsStep, PTL DEF Spec

(* When every connection has ended, the counters agree with each other and *)
(* with what happened: no path of a handler forgets or repeats a count.    *)
THEOREM CountsCorrect == Spec => []CountsSettle
<1>1. MetricsInv => CountsSettle
  <2> SUFFICES ASSUME MetricsInv, \A h \in Conns : hs[h] \in {"none", "ended"}
               PROVE  /\ active = 0 /\ bytesIn = bytesOut
                      /\ total = Cardinality({h \in Conns : hs[h] = "ended"})
    BY DEF CountsSettle
  <2>1. In(IsActive) = {} /\ In({"received"}) = {}
    BY DEF In, IsActive
  <2>2. In(IsTotal) = {h \in Conns : hs[h] = "ended"}
    BY DEF In, IsTotal
  <2>3. bytesIn = bytesOut + 0
    BY <2>1, FS_EmptySet DEF MetricsInv, Tally
  <2> QED
    BY <2>1, <2>2, <2>3, FS_EmptySet DEF MetricsInv, Tally, Types
<1> QED
  BY <1>1, MetricsInit, MetricsStep, PTL DEF Spec

=============================================================================
