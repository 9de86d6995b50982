------------------------------- MODULE Backoff -------------------------------
(***************************************************************************)
(* internal/retry/backoff.go: one call of Backoff.Do, which runs an        *)
(* operation fn until it succeeds, fails permanently, uses up its attempts *)
(* or its context is cancelled, with growing and jittered delays between.  *)
(* Time is counted in milliseconds; multipliers are whole, 0 standing for  *)
(* every value that is not positive.                                       *)
(***************************************************************************)
EXTENDS Naturals

CONSTANTS
    Backoffs,        \* the Backoff values considered:
                     \* [initial, max, mult, attempts, jitter]
    DefaultInitial,  \* Do's delay when InitialDelay is 0
    DefaultMax       \* likewise for MaxDelay

ASSUME BackoffAssumption ==
    /\ Backoffs \subseteq [initial : Nat, max : Nat, mult : Nat,
                           attempts : Nat, jitter : BOOLEAN]
    /\ DefaultInitial \in Nat \ {0} /\ DefaultMax \in Nat \ {0}

(* What fn returns: nil, an error, or one marked with Permanent: as it is, *)
(* behind another error (%w), or as a part of errors.Join.                 *)
Marked   == {"permanent", "wrapped", "joined"}
Outcomes == {"nil", "error"} \cup Marked

VARIABLES
    b,          \* the Backoff
    attempt,    \* Do's local variables
    delay,
    wait,
    pc,         \* fn runs, the select waits, or Do has returned
    last,       \* what fn returned last
    result,     \* what Do returned
    cancelled   \* ctx is done

doVars == <<b, attempt, delay, wait, pc, last, result, cancelled>>

Lesser(m, n)  == IF m < n THEN m ELSE n
Greater(m, n) == IF m < n THEN n ELSE m

Initial    == IF b.initial = 0 THEN DefaultInitial ELSE b.initial
MaxDelay   == IF b.max = 0 THEN DefaultMax ELSE b.max
Multiplier == IF b.mult = 0 THEN 2 ELSE b.mult

DoInit ==
    /\ b \in Backoffs
    /\ attempt = 1 /\ delay = Initial /\ wait = 0
    /\ pc = "fn" /\ last = "nil" /\ result = "none"
    /\ cancelled = FALSE

Returns(r) == pc' = "returned" /\ result' = r /\ UNCHANGED <<b, attempt, delay, wait>>

(* addJitter: 25 % either way, and at least a millisecond.                 *)
Jittered(d) == {Greater(w, 1) : w \in ((3 * d) \div 4)..((5 * d) \div 4)}

----------------------------------------------------------------------------
(* fn returns.                                                             *)

Succeeds ==
    /\ pc = "fn" /\ last' = "nil"
    /\ Returns("nil") /\ UNCHANGED cancelled

(* errors.Unwrap(err) of the error as fn returned it: the inner error of a *)
(* marked one, the mark itself if that was wrapped, nil for a joined one.  *)
Unwrap(e) == IF e = "permanent" THEN "inner" ELSE IF e = "wrapped" THEN "mark" ELSE "nil"

(* Mutant: only the outermost error is asked whether it is permanent. *)
MutIsPermanent(e) == e = "permanent"
IsPermanent(e) == e \in Marked

FailsForGood ==
    /\ pc = "fn" /\ last' \in {e \in Outcomes : IsPermanent(e)}
    /\ Returns(Unwrap(last')) /\ UNCHANGED cancelled

BudgetSpent == b.attempts > 0 /\ attempt >= b.attempts

GivesUp ==
    /\ pc = "fn" /\ last' \in {e \in Outcomes \ {"nil"} : ~IsPermanent(e)}
    /\ BudgetSpent
    /\ Returns("exhausted") /\ UNCHANGED cancelled

Waits ==
    /\ pc = "fn" /\ last' \in {e \in Outcomes \ {"nil"} : ~IsPermanent(e)}
    /\ ~BudgetSpent
    /\ wait' \in IF b.jitter THEN Jittered(delay) ELSE {delay}
    /\ pc' = "select"
    /\ UNCHANGED <<b, attempt, delay, result, cancelled>>

----------------------------------------------------------------------------
(* The select.                                                             *)

(* Mutant: the cap is applied before the delay is scaled. *)
MutNextDelay(d) == Lesser(d, MaxDelay) * Multiplier
NextDelay(d) == Lesser(d * Multiplier, MaxDelay)

(* Bound: the attempts of an unlimited Backoff, which are compared with    *)
(* nothing, are not counted any more once the delay has stopped changing.  *)
NextAttempt ==
    IF b.attempts = 0 /\ NextDelay(delay) = delay THEN attempt ELSE attempt + 1

TimerFires ==
    /\ pc = "select" /\ pc' = "fn"
    /\ attempt' = NextAttempt
    /\ delay' = NextDelay(delay)
    /\ UNCHANGED <<b, wait, last, result, cancelled>>

(* Mutant: the select is left, not the loop. *)
MutInterrupted ==
    /\ pc = "select" /\ cancelled
    /\ pc' = "fn" /\ attempt' = NextAttempt
    /\ delay' = NextDelay(delay)
    /\ UNCHANGED <<b, wait, last, result, cancelled>>
Interrupted ==
    /\ pc = "select" /\ cancelled
    /\ Returns("cancelled")
    /\ UNCHANGED <<last, cancelled>>

Cancel ==
    /\ ~cancelled /\ cancelled' = TRUE
    /\ UNCHANGED <<b, attempt, delay, wait, pc, last, result>>

Terminated == pc = "returned" /\ UNCHANGED doVars

Operation == Succeeds \/ FailsForGood \/ GivesUp \/ Waits
DoNext == Operation \/ TimerFires \/ Interrupted \/ Cancel \/ Terminated

DoSpec == DoInit /\ [][DoNext]_doVars

(* fn returns, timers fire, and a select that again and again finds its    *)
(* context done takes that case in the end.                                *)
FairDo ==
    DoSpec /\ WF_doVars(Operation) /\ WF_doVars(TimerFires) /\ SF_doVars(Interrupted)

----------------------------------------------------------------------------
(* What Do returns tells what happened: nil only after a success (or an    *)
(* error joined with others, which is lost), a used-up budget only after   *)
(* exactly MaxAttempts attempts, a cancellation only of a failing          *)
(* operation; and a permanent error is not retried, however it is wrapped. *)
HonestResult ==
    /\ last \in Marked => pc = "returned"
    /\ pc = "returned" =>
         /\ result = "nil" => last \in {"nil", "joined"}
         /\ result \in {"inner", "mark"} => last \in Marked
         /\ result = "exhausted" => last = "error" /\ attempt = b.attempts
         /\ result = "cancelled" => last = "error" /\ cancelled

(* m to the power of n.                                                    *)
Power(m) == LET p[n \in Nat] == IF n = 0 THEN 1 ELSE m * p[n - 1] IN p

(* The n-th wait is the initial delay scaled n - 1 times and capped, give  *)
(* or take the jitter; the first one is not capped.                        *)
Ideal(n) ==
    IF n = 1 THEN Initial
    ELSE Lesser(Initial * Power(Multiplier)[n - 1], MaxDelay)
WaitsAreExponential ==
    pc = "select" =>
        IF b.jitter
        THEN \/ 4 * wait \in (3 * Ideal(attempt) - 3)..(5 * Ideal(attempt))
             \/ wait = 1
        ELSE wait = Ideal(attempt)

(* A limited Backoff, and a cancelled one, returns.                        *)
DoReturns == (cancelled \/ b.attempts > 0) ~> pc = "returned"

=============================================================================
