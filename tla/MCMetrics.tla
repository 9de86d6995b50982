----------------------------- MODULE MCMetrics -----------------------------
(* The instance of Metrics that TLC checks. *)
EXTENDS Metrics

CONSTANTS c1, c2
TwoConns == {c1, c2}
=============================================================================
