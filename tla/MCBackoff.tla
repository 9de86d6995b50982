----------------------------- MODULE MCBackoff -----------------------------
(* The Backoff values TLC checks: zero values, each default, a cap below   *)
(* and above the initial delay, growth by one, two and three, unlimited.   *)
EXTENDS Backoff

Chosen ==
    [initial : {0, 4, 40}, max : {0, 30}, mult : {0, 1, 3},
     attempts : {0, 1, 4}, jitter : BOOLEAN]

ASSUME PowerIsExponent == \A m \in 1..4, n \in 0..6 : Power(m)[n] = m ^ n
=============================================================================
