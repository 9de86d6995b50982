------------------------------ MODULE ScanPorts ------------------------------
(***************************************************************************)
(* ScanMode and ScanPorts (internal/core/scan.go): one goroutine per port, *)
(* a buffered channel as a semaphore around the dial, one place in the     *)
(* results slice each, and a WaitGroup the caller waits for.               *)
(***************************************************************************)
EXTENDS Naturals, FiniteSets

CONSTANTS
    N,          \* ports to scan; a job is an index into the port list
    MaxScans    \* DefaultMaxConcurrentScans, the capacity of sem

ASSUME ScanAssumption == N \in Nat \ {0} /\ MaxScans \in Nat \ {0}

Jobs == 1..N
Errors == {"refused", "timeout", "cancelled"}
Verdicts == {"open"} \cup Errors
NoVerdict == "none"

VARIABLES
    spawned,    \* goroutines the loop has started: jobs 1..spawned
    pc,         \* where each one is
    sem,        \* values in the semaphore channel
    verdict,    \* results[idx]
    pending,    \* the WaitGroup's counter
    cancelled,  \* the context given to Run is done
    returned    \* ScanPorts has returned; the dialer is closed next

vars == <<spawned, pc, sem, verdict, pending, cancelled, returned>>

Init ==
    /\ spawned = 0 /\ sem = 0 /\ pending = 0
    /\ pc = [j \in Jobs |-> "unborn"]
    /\ verdict = [j \in Jobs |-> NoVerdict]
    /\ cancelled = FALSE /\ returned = FALSE

----------------------------------------------------------------------------
(* The loop: wg.Add(1), go func(idx, p) *)

(* Mutant: wg.Add is left to the goroutine. *)
MutSpawn ==
    /\ spawned < N
    /\ spawned' = spawned + 1
    /\ pc' = [pc EXCEPT ![spawned + 1] = "queued"]
    /\ UNCHANGED <<pending, sem, verdict, cancelled, returned>>
Spawn ==
    /\ spawned < N
    /\ spawned' = spawned + 1
    /\ pending' = pending + 1
    /\ pc' = [pc EXCEPT ![spawned + 1] = "queued"]
    /\ UNCHANGED <<sem, verdict, cancelled, returned>>

(* Mutant: the semaphore is taken for the cleanup only. *)
MutAcquire(j) ==
    /\ pc[j] = "queued"
    /\ pc' = [pc EXCEPT ![j] = "dialing"]
    /\ sem' = IF sem < MaxScans THEN sem + 1 ELSE sem
    /\ UNCHANGED <<spawned, verdict, pending, cancelled, returned>>
(* sem <- struct{}{}; the timeout of the dial starts after it. *)
Acquire(j) ==
    /\ pc[j] = "queued" /\ sem < MaxScans
    /\ sem' = sem + 1
    /\ pc' = [pc EXCEPT ![j] = "dialing"]
    /\ UNCHANGED <<spawned, verdict, pending, cancelled, returned>>

(* Mutant: the verdict goes where the loop variable points now. *)
MutAnswer(j, v) ==
    /\ pc[j] = "dialing"
    /\ verdict' = [verdict EXCEPT ![spawned] = v]
    /\ pc' = [pc EXCEPT ![j] = "release"]
    /\ UNCHANGED <<spawned, sem, pending, cancelled, returned>>
(* The dial ends and its verdict is stored; an open port's conn is closed. *)
Answer(j, v) ==
    /\ pc[j] = "dialing"
    /\ verdict' = [verdict EXCEPT ![j] = v]
    /\ pc' = [pc EXCEPT ![j] = "release"]
    /\ UNCHANGED <<spawned, sem, pending, cancelled, returned>>

(* Mutant: only a successful dial gives its slot back. *)
MutRelease(j) ==
    /\ pc[j] = "release"
    /\ sem' = IF verdict[j] = "open" THEN sem - 1 ELSE sem
    /\ pc' = [pc EXCEPT ![j] = "done"]
    /\ UNCHANGED <<spawned, verdict, pending, cancelled, returned>>
(* The deferred receive from sem, then the deferred wg.Done. *)
Release(j) ==
    /\ pc[j] = "release"
    /\ sem' = sem - 1
    /\ pc' = [pc EXCEPT ![j] = "done"]
    /\ UNCHANGED <<spawned, verdict, pending, cancelled, returned>>
Done(j) ==
    /\ pc[j] = "done"
    /\ pending' = pending - 1
    /\ pc' = [pc EXCEPT ![j] = "ended"]
    /\ UNCHANGED <<spawned, sem, verdict, cancelled, returned>>

(* wg.Wait and return; only once the loop is over. *)
Return ==
    /\ spawned = N /\ pending = 0 /\ ~returned
    /\ returned' = TRUE
    /\ UNCHANGED <<spawned, pc, sem, verdict, pending, cancelled>>

----------------------------------------------------------------------------
(* How a dial can end: the target answers or refuses, the per-port timeout *)
(* passes, or the context is cancelled.                                    *)
Dialed(j)    == \E v \in {"open", "refused"} : Answer(j, v)
TimesOut(j)  == Answer(j, "timeout")
GivesUp(j)   == cancelled /\ Answer(j, "cancelled")
Cancel ==
    /\ ~cancelled /\ cancelled' = TRUE
    /\ UNCHANGED <<spawned, pc, sem, verdict, pending, returned>>

Terminated == returned /\ UNCHANGED vars

Worker(j) == Acquire(j) \/ TimesOut(j) \/ Release(j) \/ Done(j)
Next ==
    \/ Spawn \/ Return \/ Cancel
    \/ \E j \in Jobs : Worker(j) \/ Dialed(j) \/ GivesUp(j)
    \/ Terminated

Spec == Init /\ [][Next]_vars

(* Goroutines run and a dial's timeout fires.  Weak fairness is enough for *)
(* the semaphore: every slot is given back, so a waiting job is scheduled  *)
(* for good once the others are done.                                      *)
FairSpec ==
    /\ Spec /\ WF_vars(Spawn) /\ WF_vars(Return)
    /\ \A j \in Jobs : WF_vars(Worker(j))

----------------------------------------------------------------------------
(* Type invariant of the scan. *)
TypeOK ==
    /\ spawned \in 0..N /\ sem \in 0..MaxScans /\ pending \in 0..N
    /\ pc \in [Jobs -> {"unborn", "queued", "dialing", "release", "done", "ended"}]
    /\ verdict \in [Jobs -> Verdicts \cup {NoVerdict}]
    /\ cancelled \in BOOLEAN /\ returned \in BOOLEAN

(* No more than MaxScans dials are in flight, whatever the goroutines do:  *)
(* the sockets a scan holds are bounded.                                   *)
DialsLimited == Cardinality({j \in Jobs : pc[j] = "dialing"}) <= MaxScans

(* ScanMode closes the dialer when ScanPorts returns: no goroutine is left *)
(* that could still dial through it or write to the results.               *)
NobodyLeftBehind == returned => \A j \in Jobs : pc[j] = "ended"

(* The scan ends, with fewer slots than ports and with failing dials, too. *)
ScanReturns == <>returned

(* ScanPorts implements the abstract scan: each verdict is written once,   *)
(* in its own place, and never after the results were returned.            *)
Abstract == INSTANCE Scan WITH Jobs <- Jobs, Verdicts <- Verdicts, NoVerdict <- NoVerdict,
                               verdict <- verdict, returned <- returned
Implements == Abstract!Spec

=============================================================================
