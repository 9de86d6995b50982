---------------------------- MODULE RetryProofs ----------------------------
(***************************************************************************)
(* Theorems about the package internal/retry: the breaker, for any number  *)
(* of concurrent callers and any thresholds, and Backoff.Do, for any       *)
(* delays, multipliers and attempts.                                       *)
(***************************************************************************)
EXTENDS CircuitBreaker, Backoff, WellFoundedInduction, TLAPS

(* A counter never passes its bound, and still reaches every threshold.    *)
LEMMA BumpFacts ==
    ASSUME NEW n \in 0..CountCap
    PROVE  /\ Bump(n) \in 0..CountCap
           /\ \A m \in 0..CountCap : n >= m => Bump(n) >= m
           /\ \A m \in 0..CountCap : Bump(n) < m => n < m /\ Bump(n) = n + 1
BY BreakerAssumption DEF Bump, BreakerAssumption

(* What makes "closed below the threshold" and "opens on a run of          *)
(* failures" inductive: while the circuit is closed the failures it has    *)
(* counted came in a row.                                                  *)
RunCoversCount == state = "closed" => failRun >= failures

BreakerInv == TypeOK /\ ClosedBelowThreshold /\ RunCoversCount

LEMMA BreakerInit == Init => BreakerInv
BY BreakerAssumption
DEF Init, BreakerInv, TypeOK, ClosedBelowThreshold, RunCoversCount, BreakerAssumption

LEMMA BreakerTypeStep == TypeOK /\ [Next]_vars => TypeOK'
<1> SUFFICES ASSUME TypeOK, [Next]_vars PROVE TypeOK'
  OBVIOUS
<1> USE BreakerAssumption DEF TypeOK, BreakerAssumption
<1>1. ASSUME NEW c \in Callers, Admit(c) PROVE TypeOK'
  BY <1>1 DEF Admit
<1>2. ASSUME NEW c \in Callers, Failed(c) PROVE TypeOK'
  BY <1>2, BumpFacts DEF Failed
<1>3. ASSUME NEW c \in Callers, Succeeded(c) PROVE TypeOK'
  BY <1>3, BumpFacts DEF Succeeded
<1>4. CASE Reset BY <1>4 DEF Reset
<1>5. CASE Tick BY <1>5 DEF Tick
<1>6. CASE Toggle BY <1>6 DEF Toggle
<1>7. CASE UNCHANGED vars BY <1>7 DEF vars
<1> QED
  BY <1>1, <1>2, <1>3, <1>4, <1>5, <1>6, <1>7 DEF Next

LEMMA BreakerStep == BreakerInv /\ [Next]_vars => BreakerInv'
<1> SUFFICES ASSUME BreakerInv, [Next]_vars, TypeOK'
             PROVE  ClosedBelowThreshold' /\ RunCoversCount'
  BY BreakerTypeStep DEF BreakerInv
<1> USE BreakerAssumption DEF BreakerInv, TypeOK, ClosedBelowThreshold, RunCoversCount,
        BreakerAssumption
<1>1. ASSUME NEW c \in Callers, Admit(c) PROVE ClosedBelowThreshold' /\ RunCoversCount'
  BY <1>1 DEF Admit
<1>2. ASSUME NEW c \in Callers, Failed(c) PROVE ClosedBelowThreshold' /\ RunCoversCount'
  BY <1>2 DEF Failed, Bump
<1>3. ASSUME NEW c \in Callers, Succeeded(c) PROVE ClosedBelowThreshold' /\ RunCoversCount'
  BY <1>3 DEF Succeeded
<1>4. CASE Reset BY <1>4 DEF Reset
<1>5. CASE Tick BY <1>5 DEF Tick
<1>6. CASE Toggle BY <1>6 DEF Toggle
<1>7. CASE UNCHANGED vars BY <1>7 DEF vars
<1> QED
  BY <1>1, <1>2, <1>3, <1>4, <1>5, <1>6, <1>7 DEF Next

(* A closed circuit always has fewer failures than the threshold and any   *)
(* other circuit has reached it: for any interleaving of callers, late     *)
(* results and Reset.                                                      *)
THEOREM ThresholdCorrect == Spec => []ClosedBelowThreshold
<1>1. BreakerInv => ClosedBelowThreshold
  BY DEF BreakerInv
<1> QED
  BY <1>1, BreakerInit, BreakerStep, PTL DEF Spec

(* The circuit opens from closed only when the last MaxFailures results,   *)
(* of all callers together, were failures.                                 *)
THEOREM TripCorrect == Spec => TripsOnFailureRun
<1>1. BreakerInv /\ [Next]_vars =>
        [state = "closed" /\ state' = "open" => failRun' >= MaxFailures]_vars
  <2> SUFFICES ASSUME BreakerInv, Next, state = "closed", state' = "open"
               PROVE  failRun' >= MaxFailures
    OBVIOUS
  <2>1. PICK c \in Callers : Failed(c)
    BY DEF Next, Admit, Succeeded, Reset, Tick, Toggle
  <2> QED
    BY <2>1, BreakerAssumption
    DEF Failed, Bump, BreakerInv, TypeOK, RunCoversCount, BreakerAssumption
<1> QED
  BY <1>1, BreakerInit, BreakerStep, PTL DEF Spec, TripsOnFailureRun

----------------------------------------------------------------------------
(* Backoff.Do.                                                             *)

(* Induction over the numbers, in the form the least counterexample gives  *)
(* it.                                                                     *)
LEMMA NatOrder ==
    \E R : IsWellFoundedOn(R, Nat) /\ \A x, y \in Nat : y < x => <<y, x>> \in R
<1>1. \A x, y \in Nat : y < x => <<y, x>> \in OpToRel(<, Nat)
  BY SMT DEF OpToRel
<1> QED
  BY <1>1, NatLessThanWellFounded, Zenon

LEMMA LeastElement ==
    ASSUME NEW T \in SUBSET Nat, T # {}
    PROVE  \E x \in T : \A y \in T : x <= y
<1>1. PICK R : IsWellFoundedOn(R, Nat) /\ \A x, y \in Nat : y < x => <<y, x>> \in R
  BY NatOrder
<1>2. PICK x \in T : \A y \in T : ~(<<y, x>> \in R)
  BY <1>1, WFMin, Zenon
<1>3. \A y \in T : y \in Nat /\ x \in Nat
  BY Zenon
<1>4. \A y \in T : ~(y < x)
  BY <1>1, <1>2, <1>3, Zenon
<1>5. \A y \in T : x <= y
  BY <1>3, <1>4
<1> QED
  BY <1>5

(* The powers of m up to the n-th.                                         *)
Powers(m, n, f) ==
    /\ f \in [0..n -> Nat] /\ f[0] = 1
    /\ \A i \in 1..n : f[i] = m * f[i - 1]

LEMMA PowersExist ==
    ASSUME NEW m \in Nat PROVE \A n \in Nat : \E f : Powers(m, n, f)
<1> DEFINE T == {n \in Nat : ~ \E f : Powers(m, n, f)}
<1> SUFFICES ASSUME T # {} PROVE FALSE
  OBVIOUS
<1>1. PICK n \in T : \A k \in T : n <= k
  BY LeastElement
<1>2. n # 0
  <2>1. Powers(m, 0, [i \in 0..0 |-> 1])
    BY DEF Powers
  <2> QED
    BY <1>1, <2>1
<1>3. PICK f : Powers(m, n - 1, f)
  BY <1>1, <1>2
<1> DEFINE g == [i \in 0..n |-> IF i = n THEN m * f[n - 1] ELSE f[i]]
<1>4. Powers(m, n, g)
  <2>1. n \in Nat \ {0}
    BY <1>1, <1>2
  <2>2. g \in [0..n -> Nat]
    BY <1>3, <2>1 DEF Powers
  <2>3. g[0] = 1
    BY <1>3, <2>1 DEF Powers
  <2>4. ASSUME NEW i \in 1..n PROVE g[i] = m * g[i - 1]
    <3>1. i \in 0..n /\ i - 1 \in 0..n /\ i - 1 # n
      BY <2>1, <2>4
    <3>2. g[i - 1] = f[i - 1]
      BY <3>1
    <3>3. CASE i = n
      BY <3>1, <3>2, <3>3
    <3>4. CASE i # n
      BY <1>3, <2>1, <3>1, <3>2, <3>4 DEF Powers
    <3> QED
      BY <3>3, <3>4
  <2> HIDE DEF g
  <2> QED
    BY <2>2, <2>3, <2>4 DEF Powers
<1> QED
  BY <1>1, <1>4

LEMMA PowersAgree ==
    ASSUME NEW m \in Nat, NEW n \in Nat, NEW k \in Nat, k <= n,
           NEW f, NEW g, Powers(m, n, f), Powers(m, k, g)
    PROVE  f[k] = g[k]
<1> DEFINE T == {i \in 0..k : f[i] # g[i]}
<1> SUFFICES ASSUME T # {} PROVE FALSE
  OBVIOUS
<1>0. T \in SUBSET Nat
  OBVIOUS
<1>1. PICK i \in T : \A j \in T : i <= j
  BY <1>0, LeastElement, Zenon
<1>2. i # 0
  BY <1>1 DEF Powers
<1>3. i \in 1..n /\ i \in 1..k /\ i - 1 \in 0..k /\ i - 1 \notin T
  BY <1>1, <1>2
<1>4. f[i - 1] = g[i - 1]
  BY <1>3
<1> QED
  BY <1>1, <1>3, <1>4 DEF Powers

(* Power is what its recursive definition says.                            *)
LEMMA PowerDef ==
    ASSUME NEW m \in Nat
    PROVE  /\ Power(m) \in [Nat -> Nat]
           /\ Power(m)[0] = 1
           /\ \A n \in Nat : Power(m)[n + 1] = m * Power(m)[n]
<1> DEFINE Some(n) == CHOOSE f : Powers(m, n, f)
           F == [n \in Nat |-> Some(n)[n]]
           Body(p) == [n \in Nat |-> IF n = 0 THEN 1 ELSE m * p[n - 1]]
<1>1. \A n \in Nat : Powers(m, n, Some(n))
  BY PowersExist
<1> HIDE DEF Some
<1>2. F \in [Nat -> Nat]
  BY <1>1 DEF Powers
<1>3. F[0] = 1
  BY <1>1 DEF Powers
<1>4. ASSUME NEW n \in Nat PROVE F[n + 1] = m * F[n]
  <2>1. Some(n + 1)[n] = Some(n)[n]
    BY <1>1, PowersAgree
  <2>2. Some(n + 1)[n + 1] = m * Some(n + 1)[n]
    BY <1>1 DEF Powers
  <2> QED
    BY <2>1, <2>2
<1> HIDE DEF F
<1>5. F = Body(F)
  <2>1. \A n \in Nat : F[n] = IF n = 0 THEN 1 ELSE m * F[n - 1]
    <3> SUFFICES ASSUME NEW n \in Nat, n # 0 PROVE F[n] = m * F[n - 1]
      BY <1>3
    <3>1. n - 1 \in Nat /\ (n - 1) + 1 = n
      OBVIOUS
    <3> QED
      BY <1>4, <3>1
  <2> QED
    BY <1>2, <2>1
<1> DEFINE P == Power(m)
<1>6. P = CHOOSE p : p = Body(p)
  BY DEF Power
<1>7. P = Body(P)
  <2> HIDE DEF Body, P
  <2> QED
    BY <1>5, <1>6
<1>8. \A n \in Nat : P[n] = IF n = 0 THEN 1 ELSE m * P[n - 1]
  <2> HIDE DEF P
  <2> QED
    BY <1>7
<1>9. P = F
  <2> HIDE DEF P
  <2> DEFINE T == {n \in Nat : P[n] # F[n]}
  <2>1. T = {}
    <3> SUFFICES ASSUME T # {} PROVE FALSE
      OBVIOUS
    <3>1. PICK n \in T : \A k \in T : n <= k
      BY LeastElement
    <3>2. n # 0
      BY <1>3, <1>8, <3>1
    <3>3. n - 1 \in Nat /\ n - 1 \notin T /\ (n - 1) + 1 = n
      BY <3>1, <3>2
    <3>4. P[n] = m * P[n - 1] /\ F[n] = m * F[n - 1]
      BY <1>4, <1>8, <3>1, <3>2, <3>3
    <3> QED
      BY <3>1, <3>3, <3>4
  <2>2. DOMAIN P = Nat /\ P = [n \in Nat |-> P[n]]
    BY <1>7
  <2>3. F = [n \in Nat |-> F[n]]
    BY <1>2
  <2> HIDE DEF T
  <2>4. \A n \in Nat : P[n] = F[n]
    BY <2>1 DEF T
  <2> QED
    BY <2>2, <2>3, <2>4
<1> QED
  BY <1>2, <1>3, <1>4, <1>9

----------------------------------------------------------------------------
LEMMA Parameters ==
    ASSUME b \in Backoffs
    PROVE  /\ Initial \in Nat \ {0} /\ MaxDelay \in Nat \ {0}
           /\ Multiplier \in Nat \ {0}
           /\ b.attempts \in Nat
BY BackoffAssumption DEF BackoffAssumption, Initial, MaxDelay, Multiplier

LEMMA Products ==
    ASSUME NEW x \in Nat, NEW y \in Nat, NEW z \in Nat \ {0}
    PROVE  /\ x * y \in Nat /\ x * z >= x
           /\ x * (z * y) = (x * y) * z
BY SMTT(30)

(* Scaling a capped delay and capping again is capping the scaled delay.   *)
LEMMA CapsCommute ==
    ASSUME NEW x \in Nat, NEW c \in Nat, NEW m \in Nat \ {0}
    PROVE  Lesser(Lesser(x, c) * m, c) = Lesser(x * m, c)
<1>1. x * m \in Nat /\ x * m >= x /\ c * m \in Nat /\ c * m >= c
  BY Products
<1>2. CASE x < c
  BY <1>2 DEF Lesser
<1>3. CASE ~(x < c)
  <2> DEFINE xm == x * m
             cm == c * m
  <2>1. Lesser(x, c) = c
    BY <1>3 DEF Lesser
  <2>2. xm \in Nat /\ xm >= c /\ cm \in Nat /\ cm >= c
    BY <1>1, <1>3
  <2> HIDE DEF xm, cm
  <2>3. Lesser(cm, c) = c /\ Lesser(xm, c) = c
    BY <2>2 DEF Lesser
  <2> QED
    BY <2>1, <2>3 DEF xm, cm
<1> QED
  BY <1>2, <1>3

(* The delay that follows the n-th of the schedule is the next one.        *)
LEMMA NextIdeal ==
    ASSUME b \in Backoffs, NEW n \in Nat \ {0}
    PROVE  /\ Ideal(n) \in Nat
           /\ NextDelay(Ideal(n)) = Ideal(n + 1)
<1> DEFINE I == Initial
           C == MaxDelay
           M == Multiplier
           P == Power(M)
<1>1. I \in Nat /\ C \in Nat /\ M \in Nat \ {0}
  BY Parameters
<1>2. P \in [Nat -> Nat] /\ P[0] = 1 /\ \A i \in Nat : P[i + 1] = M * P[i]
  BY <1>1, PowerDef
<1>3. Ideal(1) = I /\ \A i \in Nat \ {0, 1} : Ideal(i) = Lesser(I * P[i - 1], C)
  BY DEF Ideal
<1>4. \A d : NextDelay(d) = Lesser(d * M, C)
  BY DEF NextDelay
<1> HIDE DEF I, C, M, P
<1>5. n - 1 \in Nat /\ n + 1 \in Nat \ {0, 1} /\ (n - 1) + 1 = n /\ (n + 1) - 1 = n
  OBVIOUS
<1>6. P[n] = M * P[n - 1] /\ P[n - 1] \in Nat /\ P[n] \in Nat
  BY <1>2, <1>5
<1>7. Ideal(n + 1) = Lesser((I * P[n - 1]) * M, C) /\ I * P[n - 1] \in Nat
  BY <1>1, <1>3, <1>5, <1>6, Products
<1>8. CASE n = 1
  <2>1. I * P[n - 1] = I
    BY <1>1, <1>2, <1>8
  <2> QED
    BY <1>1, <1>3, <1>4, <1>7, <1>8, <2>1
<1>9. CASE n # 1
  <2>1. Ideal(n) = Lesser(I * P[n - 1], C)
    BY <1>3, <1>9
  <2>2. Ideal(n) \in Nat
    BY <1>1, <1>7, <2>1 DEF Lesser
  <2>3. Lesser(Lesser(I * P[n - 1], C) * M, C) = Lesser((I * P[n - 1]) * M, C)
    BY <1>1, <1>7, CapsCommute
  <2> QED
    BY <1>4, <1>7, <2>1, <2>2, <2>3
<1> QED
  BY <1>8, <1>9

(* A schedule that repeats a delay repeats it for good: what the model     *)
(* leaves out, when it stops counting the attempts of an unlimited         *)
(* Backoff, are waits like the last one it counts.                         *)
LEMMA ScheduleSettles ==
    ASSUME b \in Backoffs, NEW n \in Nat \ {0},
           NextDelay(Ideal(n)) = Ideal(n)
    PROVE  \A m \in Nat : m >= n => Ideal(m) = Ideal(n)
<1> DEFINE Id(m) == Ideal(m)
           T == {m \in Nat : m >= n /\ Id(m) # Id(n)}
<1> SUFFICES ASSUME T # {} PROVE FALSE
  OBVIOUS
<1>1. PICK m \in T : \A k \in T : m <= k
  BY LeastElement, Zenon
<1>2. m \in Nat /\ m >= n /\ m # n /\ Id(m) # Id(n)
  BY <1>1
<1>3. m - 1 \in Nat \ {0} /\ m - 1 >= n /\ (m - 1) + 1 = m /\ m - 1 \notin T
  BY <1>1, <1>2
<1>4. Id(m - 1) = Id(n)
  BY <1>3
<1>5. NextDelay(Id(m - 1)) = Id(m)
  BY <1>3, NextIdeal
<1> QED
  BY <1>2, <1>4, <1>5

----------------------------------------------------------------------------
(* The waits are jittered delays; the delays follow the schedule; the      *)
(* attempts stay within the budget; and Do waits only after an error.      *)
Typed ==
    /\ b \in Backoffs /\ attempt \in Nat \ {0}
    /\ pc \in {"fn", "select", "returned"}
    /\ last \in Outcomes
OnSchedule   == delay = Ideal(attempt)
WithinBudget == b.attempts > 0 => attempt <= b.attempts
Waiting ==
    pc = "select" =>
        /\ last = "error" /\ ~BudgetSpent
        /\ wait \in IF b.jitter THEN Jittered(delay) ELSE {delay}
BackoffInv == Typed /\ OnSchedule /\ WithinBudget /\ Waiting /\ HonestResult

LEMMA BackoffInit == DoInit => BackoffInv
<1> SUFFICES ASSUME DoInit PROVE BackoffInv
  OBVIOUS
<1>1. Typed
  BY DEF DoInit, Typed, Outcomes
<1>2. OnSchedule
  BY DEF DoInit, OnSchedule, Ideal
<1>3. WithinBudget
  BY Parameters DEF DoInit, WithinBudget
<1>4. Waiting /\ HonestResult
  BY DEF DoInit, Waiting, HonestResult, Marked
<1> QED
  BY <1>1, <1>2, <1>3, <1>4 DEF BackoffInv

LEMMA ReturnsKeeps ==
    ASSUME BackoffInv, NEW r, Returns(r), last' \in Outcomes
    PROVE  Typed' /\ OnSchedule' /\ WithinBudget' /\ Waiting'
BY DEF BackoffInv, Returns, Typed, OnSchedule, WithinBudget, Waiting, Ideal,
       Initial, Multiplier, MaxDelay

LEMMA BackoffStep == BackoffInv /\ [DoNext]_doVars => BackoffInv'
<1> SUFFICES ASSUME BackoffInv, [DoNext]_doVars PROVE BackoffInv'
  OBVIOUS
<1>1. CASE Succeeds
  <2>1. last' \in Outcomes /\ Returns("nil")
    BY <1>1 DEF Succeeds, Outcomes
  <2>2. HonestResult'
    BY <1>1 DEF Succeeds, Returns, HonestResult, Marked
  <2> QED
    BY <2>1, <2>2, ReturnsKeeps DEF BackoffInv
<1>2. CASE FailsForGood
  <2>1. last' \in Marked /\ last' \in Outcomes /\ Returns(Unwrap(last'))
    BY <1>2 DEF FailsForGood, IsPermanent
  <2>2. HonestResult'
    BY <2>1 DEF Returns, HonestResult, Marked, Unwrap
  <2> QED
    BY <2>1, <2>2, ReturnsKeeps DEF BackoffInv
<1>3. CASE GivesUp
  <2>1. last' = "error" /\ last' \in Outcomes /\ Returns("exhausted")
    BY <1>3 DEF GivesUp, IsPermanent, Outcomes, Marked
  <2>2. attempt = b.attempts
    BY <1>3, Parameters
    DEF GivesUp, BudgetSpent, BackoffInv, WithinBudget, Typed
  <2>3. HonestResult'
    BY <2>1, <2>2 DEF Returns, HonestResult, Marked
  <2> QED
    BY <2>1, <2>3, ReturnsKeeps DEF BackoffInv
<1>4. CASE Waits
  <2>1. last' = "error" /\ last' \in Outcomes
    BY <1>4 DEF Waits, IsPermanent, Outcomes, Marked
  <2>2. UNCHANGED <<b, attempt, delay>> /\ pc' = "select"
    BY <1>4 DEF Waits
  <2>3. Typed' /\ WithinBudget'
    BY <2>1, <2>2 DEF BackoffInv, Typed, WithinBudget
  <2>4. OnSchedule'
    BY <2>2 DEF BackoffInv, OnSchedule, Ideal, Initial, Multiplier, MaxDelay
  <2>5. Waiting'
    BY <1>4, <2>1, <2>2 DEF Waits, Waiting, BudgetSpent
  <2>6. HonestResult'
    BY <2>1, <2>2 DEF HonestResult, Marked
  <2> QED
    BY <2>3, <2>4, <2>5, <2>6 DEF BackoffInv
<1>5. CASE TimerFires
  <2>1. pc = "select" /\ last = "error" /\ last' = last /\ b' = b /\ b \in Backoffs
        /\ pc' = "fn" /\ attempt \in Nat \ {0} /\ delay = Ideal(attempt)
    BY <1>5 DEF TimerFires, BackoffInv, Waiting, Typed, OnSchedule
  <2>2. attempt' \in Nat \ {0} /\ delay' = Ideal(attempt')
    <3>1. attempt' = NextAttempt /\ delay' = NextDelay(delay)
      BY <1>5 DEF TimerFires
    <3>2. CASE b.attempts = 0 /\ NextDelay(delay) = delay
      BY <2>1, <3>1, <3>2 DEF NextAttempt
    <3>3. CASE ~(b.attempts = 0 /\ NextDelay(delay) = delay)
      <4>1. attempt' = attempt + 1
        BY <3>1, <3>3 DEF NextAttempt
      <4>2. delay' = Ideal(attempt + 1)
        BY <2>1, <3>1, NextIdeal
      <4> QED
        BY <2>1, <4>1, <4>2
    <3> QED
      BY <3>2, <3>3
  <2>3. Ideal(attempt)' = Ideal(attempt')
    BY <2>1 DEF Ideal, Initial, Multiplier, MaxDelay
  <2>4. WithinBudget'
    <3>1. b.attempts \in Nat /\ attempt' \in {attempt, attempt + 1}
      BY <1>5, <2>1, Parameters DEF TimerFires, NextAttempt
    <3>2. ~BudgetSpent
      BY <2>1 DEF BackoffInv, Waiting
    <3> QED
      BY <2>1, <3>1, <3>2 DEF WithinBudget, BudgetSpent
  <2>5. Typed' /\ OnSchedule' /\ Waiting'
    BY <2>1, <2>2, <2>3 DEF BackoffInv, Typed, OnSchedule, Waiting
  <2>6. HonestResult'
    BY <2>1 DEF HonestResult, Marked
  <2> QED
    BY <2>4, <2>5, <2>6 DEF BackoffInv
<1>6. CASE Interrupted
  <2>1. last' = "error" /\ last' \in Outcomes /\ Returns("cancelled") /\ cancelled'
    BY <1>6 DEF Interrupted, BackoffInv, Typed, Waiting
  <2>2. HonestResult'
    BY <2>1 DEF Returns, HonestResult, Marked
  <2> QED
    BY <2>1, <2>2, ReturnsKeeps DEF BackoffInv
<1>7. CASE Cancel \/ Terminated \/ UNCHANGED doVars
  <2>1. UNCHANGED <<b, attempt, delay, wait, pc, last, result>> /\ (cancelled => cancelled')
    BY <1>7 DEF Cancel, Terminated, doVars
  <2>2. Typed' /\ OnSchedule' /\ WithinBudget' /\ Waiting'
    BY <2>1 DEF BackoffInv, Typed, OnSchedule, WithinBudget, Waiting, Ideal, Initial,
                Multiplier, MaxDelay, BudgetSpent
  <2>3. HonestResult'
    BY <2>1 DEF BackoffInv, HonestResult
  <2> QED
    BY <2>2, <2>3 DEF BackoffInv
<1> QED
  BY <1>1, <1>2, <1>3, <1>4, <1>5, <1>6, <1>7 DEF DoNext, Operation

(* What Do returns tells what happened, for any budget: a used-up one only *)
(* after exactly MaxAttempts attempts, a permanent error after the first   *)
(* attempt that met it, nil only after a success or a joined error.        *)
THEOREM HonestCorrect == DoSpec => []HonestResult
<1>1. BackoffInv => HonestResult
  BY DEF BackoffInv
<1> QED
  BY <1>1, BackoffInit, BackoffStep, PTL DEF DoSpec

(* Each wait is the scaled and capped delay, give or take the jitter, for  *)
(* all delays, caps and multipliers and for any number of attempts.        *)
THEOREM WaitsCorrect == DoSpec => []WaitsAreExponential
<1>1. BackoffInv => WaitsAreExponential
  <2> SUFFICES ASSUME BackoffInv, pc = "select"
               PROVE  IF b.jitter
                      THEN \/ 4 * wait \in (3 * Ideal(attempt) - 3)..(5 * Ideal(attempt))
                           \/ wait = 1
                      ELSE wait = Ideal(attempt)
    BY DEF WaitsAreExponential
  <2> DEFINE d == Ideal(attempt)
  <2>1. d \in Nat /\ delay = d
    BY NextIdeal DEF BackoffInv, Typed, OnSchedule
  <2>2. wait \in IF b.jitter THEN Jittered(d) ELSE {d}
    BY <2>1 DEF BackoffInv, Waiting
  <2> HIDE DEF d
  <2>3. ASSUME wait \in Jittered(d), wait # 1
        PROVE  4 * wait \in (3 * d - 3)..(5 * d)
    <3>1. PICK w \in ((3 * d) \div 4)..((5 * d) \div 4) : wait = Greater(w, 1)
      BY <2>3 DEF Jittered
    <3>2. wait = w /\ w \in Int
      BY <2>1, <2>3, <3>1 DEF Greater
    <3>3. 4 * ((3 * d) \div 4) >= 3 * d - 3 /\ 4 * ((5 * d) \div 4) <= 5 * d
      BY <2>1
    <3> QED
      BY <2>1, <3>1, <3>2, <3>3
  <2> QED
    BY <2>2, <2>3 DEF d
<1> QED
  BY <1>1, BackoffInit, BackoffStep, PTL DEF DoSpec

=============================================================================
