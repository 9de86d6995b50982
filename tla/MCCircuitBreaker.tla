-------------------------- MODULE MCCircuitBreaker --------------------------
(* The instance of CircuitBreaker that TLC checks. *)
EXTENDS CircuitBreaker

CONSTANTS g1, g2, g3
ThreeCallers == {g1, g2, g3}
=============================================================================
