------------------------------- MODULE Metrics -------------------------------
(***************************************************************************)
(* internal/metrics/metrics.go as the reverse tunnel uses it: acceptLoop,  *)
(* the handlers of forwarded connections and a keepalive loop count while  *)
(* somebody takes snapshots.  Every counter is atomic by itself; the last  *)
(* error is under c.mu, which a snapshot holds for reading while it loads  *)
(* the counters one after the other.                                       *)
(*                                                                         *)
(* An error message is the number its RecordError got from errorsTotal;    *)
(* times (start, last error, last health check) are left out.              *)
(***************************************************************************)
EXTENDS Naturals, FiniteSets

CONSTANTS
    Conns,          \* bound: forwarded connections, each accepted once
    MaxReconnects,  \* bound: reconnections
    MaxErrors       \* bound: acceptLoop records an error only below it

ASSUME MetricsAssumption ==
    /\ IsFiniteSet(Conns) /\ MaxReconnects \in Nat /\ MaxErrors \in Nat

VARIABLES
    active, total,       \* connectionsActive, connectionsTotal
    bytesIn, bytesOut,   \* in units of what one connection transfers
    reconnects,          \* tunnelReconnects
    errors,              \* errorsTotal
    lastError,           \* lastError with lastErrorMsg, 0 for none
    reading,             \* c.mu is held for reading
    acc,                 \* where acceptLoop is
    hs,                  \* where each connection and its handler is
    keep,                \* where the keepalive loop is
    number,              \* the number of the RecordError each goroutine is in
    pc, snap             \* where Snapshot is; its local s

counters == <<active, total, bytesIn, bytesOut, reconnects, errors>>
actors   == <<acc, hs, keep, number>>
reader   == <<reading, pc, snap>>
vars     == <<counters, lastError, actors, reader>>

Goroutines == {"acceptLoop", "keepalive"} \cup Conns

Nothing == [active |-> 0, total |-> 0, bytesIn |-> 0, bytesOut |-> 0,
            reconnects |-> 0, errors |-> 0, lastError |-> 0]

Init ==
    /\ active = 0 /\ total = 0 /\ bytesIn = 0 /\ bytesOut = 0
    /\ reconnects = 0 /\ errors = 0 /\ lastError = 0
    /\ acc = "accept" /\ hs = [h \in Conns |-> "none"]
    /\ keep = "idle"
    /\ number = [g \in Goroutines |-> 0]
    /\ reading = FALSE /\ pc = "idle" /\ snap = Nothing

----------------------------------------------------------------------------
(* RecordError, by goroutine g: first the counter, then the message.       *)

CountError(g) ==
    /\ errors' = errors + 1
    /\ number' = [number EXCEPT ![g] = errors + 1]
    /\ UNCHANGED <<active, total, bytesIn, bytesOut, reconnects, lastError, reader>>

StoreError(g) ==
    /\ ~reading
    /\ lastError' = number[g]
    /\ number' = [number EXCEPT ![g] = 0]
    /\ UNCHANGED <<counters, reader>>

----------------------------------------------------------------------------
(* acceptLoop.                                                             *)

AccGoto(from, to) ==
    acc = from /\ acc' = to /\ UNCHANGED keep

(* ConnectionOpened, in its two steps; the handler is spawned after both.  *)
AccOpened(h) ==
    /\ hs[h] = "none" /\ hs' = [hs EXCEPT ![h] = "accepted"]
    /\ AccGoto("accept", "opened")
    /\ active' = active + 1
    /\ UNCHANGED <<total, bytesIn, bytesOut, reconnects, errors, lastError, number, reader>>
AccCounted(h) ==
    /\ hs[h] = "accepted" /\ hs' = [hs EXCEPT ![h] = "dial"]
    /\ AccGoto("opened", "accept")
    /\ total' = total + 1
    /\ UNCHANGED <<active, bytesIn, bytesOut, reconnects, errors, lastError, number, reader>>

(* Accept fails; with AutoReconnect, reconnect begins. *)
AccFails ==
    /\ AccGoto("accept", "failed")
    /\ reconnects < MaxReconnects /\ errors < MaxErrors
    /\ CountError("acceptLoop") /\ UNCHANGED hs
AccRecorded ==
    /\ \E next \in {"reconnect", "exited"} : AccGoto("failed", next)
    /\ StoreError("acceptLoop") /\ UNCHANGED hs

(* No listener any more, or a cancelled context: the loop ends uncounted. *)
AccExits ==
    /\ \E from \in {"accept", "attempt"} : AccGoto(from, "exited")
    /\ UNCHANGED <<counters, lastError, hs, number, reader>>

AccReconnects ==
    /\ AccGoto("reconnect", "attempt")
    /\ reconnects' = reconnects + 1
    /\ UNCHANGED <<active, total, bytesIn, bytesOut, errors, lastError, hs, number, reader>>

(* An attempt fails, and the next one follows; the last one ends the loop. *)
AccAttemptFails ==
    /\ AccGoto("attempt", "attempted")
    /\ errors < MaxErrors
    /\ CountError("acceptLoop") /\ UNCHANGED hs
AccAttemptRecorded ==
    /\ \E next \in {"attempt", "exited"} : AccGoto("attempted", next)
    /\ StoreError("acceptLoop") /\ UNCHANGED hs
AccReconnected ==
    /\ AccGoto("attempt", "accept")
    /\ UNCHANGED <<counters, lastError, hs, number, reader>>

----------------------------------------------------------------------------
(* handleConnection h.                                                     *)

HandlerGoto(h, from, to) ==
    hs[h] = from /\ hs' = [hs EXCEPT ![h] = to] /\ UNCHANGED <<acc, keep>>

HandlerFails(h) == HandlerGoto(h, "dial", "failed") /\ CountError(h)

(* Mutant: the error path leaves without ConnectionClosed. *)
MutHandlerRecorded(h) == HandlerGoto(h, "failed", "ended") /\ StoreError(h)
HandlerRecorded(h) == HandlerGoto(h, "failed", "closing") /\ StoreError(h)

HandlerReceived(h) ==
    /\ HandlerGoto(h, "dial", "received")
    /\ bytesIn' = bytesIn + 1
    /\ UNCHANGED <<active, total, bytesOut, reconnects, errors, lastError, number, reader>>
HandlerSent(h) ==
    /\ HandlerGoto(h, "received", "closing")
    /\ bytesOut' = bytesOut + 1
    /\ UNCHANGED <<active, total, bytesIn, reconnects, errors, lastError, number, reader>>

(* The deferred ConnectionClosed. *)
HandlerCloses(h) ==
    /\ HandlerGoto(h, "closing", "ended")
    /\ active' = active - 1
    /\ UNCHANGED <<total, bytesIn, bytesOut, reconnects, errors, lastError, number, reader>>

Handler(h) ==
    \/ HandlerFails(h) \/ HandlerRecorded(h) \/ HandlerReceived(h)
    \/ HandlerSent(h) \/ HandlerCloses(h)

----------------------------------------------------------------------------
(* keepaliveLoop: a failed request.                                        *)

KeepGoto(from, to) ==
    keep = from /\ keep' = to /\ UNCHANGED <<acc, hs>>

KeepFails == KeepGoto("idle", "failed") /\ CountError("keepalive")
KeepRecorded == KeepGoto("failed", "ended") /\ StoreError("keepalive")

----------------------------------------------------------------------------
(* Snapshot.                                                               *)

SnapLocks ==
    /\ pc = "idle" /\ pc' = "active"
    /\ reading' = TRUE
    /\ snap' = [Nothing EXCEPT !.lastError = lastError]
    /\ UNCHANGED <<counters, lastError, actors>>

Load(field, value, next) ==
    /\ pc = field /\ pc' = next
    /\ snap' = [snap EXCEPT ![field] = value]
    /\ UNCHANGED <<counters, lastError, actors, reading>>

(* Mutant: the total is loaded before the active ones. *)
MutLoads ==
    \/ Load("active", total, "total") \/ Load("total", active, "bytesIn")
    \/ Load("bytesIn", bytesIn, "bytesOut") \/ Load("bytesOut", bytesOut, "reconnects")
    \/ Load("reconnects", reconnects, "errors") \/ Load("errors", errors, "unlock")

(* The loads, in the order of the composite literal.                       *)
Loads ==
    \/ Load("active", active, "total") \/ Load("total", total, "bytesIn")
    \/ Load("bytesIn", bytesIn, "bytesOut") \/ Load("bytesOut", bytesOut, "reconnects")
    \/ Load("reconnects", reconnects, "errors") \/ Load("errors", errors, "unlock")

SnapUnlocks ==
    /\ pc = "unlock" /\ pc' = "idle"
    /\ reading' = FALSE
    /\ snap' = Nothing
    /\ UNCHANGED <<counters, lastError, actors>>

Next ==
    \/ \E h \in Conns : AccOpened(h) \/ AccCounted(h) \/ Handler(h)
    \/ AccFails \/ AccRecorded \/ AccExits \/ AccReconnects
    \/ AccAttemptFails \/ AccAttemptRecorded \/ AccReconnected
    \/ KeepFails \/ KeepRecorded
    \/ SnapLocks \/ Loads \/ SnapUnlocks

Spec == Init /\ [][Next]_vars

----------------------------------------------------------------------------
(* A snapshot is not a point in time, but what it shows fits together: an  *)
(* error whose message it shows is in its count, and so is the failure     *)
(* that came before each reconnection it counts; at most the connection    *)
(* that was being opened is active and not in the total.                   *)
SnapshotSound ==
    pc = "unlock" =>
        /\ snap.lastError <= snap.errors
        /\ snap.reconnects <= snap.errors
        /\ snap.active \in 0..(snap.total + 1)

(* Once every connection that was opened has ended, however it ended and   *)
(* whatever raced with it, none is counted as active, every one is in the  *)
(* total and those that were bridged are in both byte counts.              *)
CountsSettle ==
    (\A h \in Conns : hs[h] \in {"none", "ended"}) =>
        /\ active = 0 /\ bytesIn = bytesOut
        /\ total = Cardinality({h \in Conns : hs[h] = "ended"})

=============================================================================
