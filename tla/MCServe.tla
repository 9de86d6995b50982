------------------------------ MODULE MCServe ------------------------------
(* The instance of Serve that TLC checks. *)
EXTENDS Serve

CONSTANTS c1, c2
TwoConns == {c1, c2}
=============================================================================
