--------------------------- MODULE CircuitBreaker ---------------------------
(***************************************************************************)
(* internal/retry/circuit_breaker.go: a breaker shared by concurrent       *)
(* callers of Execute.  beforeRequest and afterRequest each run under      *)
(* cb.mu, fn runs outside it, so the result of a call may arrive in a      *)
(* state of the breaker that is not the one it was admitted in.            *)
(***************************************************************************)
EXTENDS Naturals, FiniteSets

CONSTANTS
    Callers,       \* goroutines that call Execute
    MaxFailures,   \* cb.maxFailures, defaulted to a positive value
    HalfOpenMax,   \* cb.halfOpenMax, likewise
    ResetTimeout,  \* cb.resetTimeout, in ticks of the clock
    CountCap       \* bound: the counters are not followed beyond this

ASSUME BreakerAssumption ==
    /\ MaxFailures \in Nat \ {0} /\ HalfOpenMax \in Nat \ {0}
    /\ ResetTimeout \in Nat \ {0}
    /\ CountCap \in Nat /\ CountCap >= MaxFailures /\ CountCap >= HalfOpenMax

VARIABLES
    state, failures, successes,  \* the fields of CircuitBreaker
    age,       \* time since lastFailure, followed up to ResetTimeout + 1
    call,      \* per caller: not in Execute, or in fn
    up,        \* the protected service works
    failRun    \* history: failed results in a row, of any caller

vars == <<state, failures, successes, age, call, up, failRun>>

(* A counter is only ever compared with a threshold below CountCap. *)
Bump(n) == IF n < CountCap THEN n + 1 ELSE n

Init ==
    /\ state = "closed" /\ failures = 0 /\ successes = 0
    /\ age = ResetTimeout + 1
    /\ call = [c \in Callers |-> "none"]
    /\ up = TRUE
    /\ failRun = 0

(* Mutant: an expired open circuit lets calls through but stays open. *)
MutAdmit(c) ==
    /\ call[c] = "none"
    /\ state = "open" => age > ResetTimeout
    /\ call' = [call EXCEPT ![c] = "fn"]
    /\ UNCHANGED <<state, failures, successes, age, up, failRun>>

(* Execute: beforeRequest admits the call; an open circuit whose timeout   *)
(* has passed goes half-open.  A rejected call changes nothing.            *)
Admit(c) ==
    /\ call[c] = "none"
    /\ \/ state \in {"closed", "half-open"} /\ UNCHANGED state
       \/ state = "open" /\ age > ResetTimeout /\ state' = "half-open"
    /\ call' = [call EXCEPT ![c] = "fn"]
    /\ UNCHANGED <<failures, successes, age, up, failRun>>

(* Mutant: the failure that reaches the threshold does not trip. *)
MutFailed(c) ==
    /\ call[c] = "fn" /\ ~up
    /\ call' = [call EXCEPT ![c] = "none"]
    /\ failures' = Bump(failures) /\ successes' = 0 /\ age' = 0
    /\ state' = IF state = "half-open" \/ failures' > MaxFailures THEN "open" ELSE state
    /\ failRun' = Bump(failRun)
    /\ UNCHANGED up

(* fn failed: afterRequest(err). *)
Failed(c) ==
    /\ call[c] = "fn" /\ ~up
    /\ call' = [call EXCEPT ![c] = "none"]
    /\ failures' = Bump(failures) /\ successes' = 0 /\ age' = 0
    /\ state' = IF state = "half-open" \/ failures' >= MaxFailures THEN "open" ELSE state
    /\ failRun' = Bump(failRun)
    /\ UNCHANGED up

(* Mutant: a success does not clear the failures of a closed circuit. *)
MutSucceeded(c) ==
    /\ call[c] = "fn" /\ up
    /\ call' = [call EXCEPT ![c] = "none"]
    /\ successes' = Bump(successes)
    /\ LET closes == state = "half-open" /\ successes' >= HalfOpenMax IN
           /\ state' = IF closes THEN "closed" ELSE state
           /\ failures' = IF closes THEN 0 ELSE failures
    /\ failRun' = 0
    /\ UNCHANGED <<age, up>>

(* fn succeeded: afterRequest(nil).  The success counts whatever state the *)
(* call was admitted in.                                                   *)
Succeeded(c) ==
    /\ call[c] = "fn" /\ up
    /\ call' = [call EXCEPT ![c] = "none"]
    /\ successes' = Bump(successes)
    /\ LET closes == state = "half-open" /\ successes' >= HalfOpenMax IN
           /\ state' = IF closes THEN "closed" ELSE state
           /\ failures' = IF closes \/ state = "closed" THEN 0 ELSE failures
    /\ failRun' = 0
    /\ UNCHANGED <<age, up>>

Reset ==
    /\ state' = "closed" /\ failures' = 0 /\ successes' = 0
    /\ UNCHANGED <<age, call, up, failRun>>

Tick ==
    /\ age <= ResetTimeout /\ age' = age + 1
    /\ UNCHANGED <<state, failures, successes, call, up, failRun>>

(* The service breaks or recovers. *)
Toggle ==
    /\ up' = ~up
    /\ UNCHANGED <<state, failures, successes, age, call, failRun>>

Next ==
    \/ \E c \in Callers : Admit(c) \/ Failed(c) \/ Succeeded(c)
    \/ Reset \/ Tick \/ Toggle

Spec == Init /\ [][Next]_vars

(* fn returns, time passes, and some caller keeps calling. *)
FairSpec ==
    /\ Spec /\ WF_vars(Tick)
    /\ \A c \in Callers : WF_vars(Failed(c) \/ Succeeded(c)) /\ WF_vars(Admit(c))

----------------------------------------------------------------------------
(* Type invariant of the breaker. *)
TypeOK ==
    /\ state \in {"closed", "open", "half-open"}
    /\ failures \in 0..CountCap /\ successes \in 0..CountCap
    /\ age \in 0..(ResetTimeout + 1)
    /\ call \in [Callers -> {"none", "fn"}]
    /\ up \in BOOLEAN
    /\ failRun \in 0..CountCap

(* The circuit is closed exactly while the failure count is below the      *)
(* threshold, whatever late results come in: a closed circuit always trips *)
(* at the threshold, a circuit that is not closed never hides a low count. *)
ClosedBelowThreshold == state = "closed" <=> failures < MaxFailures

(* A closed circuit opens only after MaxFailures failed results in a row,  *)
(* counted over all callers in the order the results came in.              *)
TripsOnFailureRun ==
    [][ state = "closed" /\ state' = "open" => failRun' >= MaxFailures ]_vars

(* Once the service stays healthy and is called, the circuit closes and    *)
(* stays closed, whatever state the failures left it in.                   *)
Recovers == <>[]up => <>[](state = "closed")

=============================================================================
