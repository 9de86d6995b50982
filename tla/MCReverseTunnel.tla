-------------------------- MODULE MCReverseTunnel --------------------------
(* Small instances of ReverseTunnel for TLC. *)
EXTENDS ReverseTunnel

CONSTANTS c1, c2

NoConn   == {}
OneConn  == {c1}
TwoConns == {c1, c2}
=============================================================================
