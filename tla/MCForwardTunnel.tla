-------------------------- MODULE MCForwardTunnel --------------------------
(* Small instances of ForwardTunnel for TLC. *)
EXTENDS ForwardTunnel

CONSTANTS d1, d2
TwoCallers == {d1, d2}
=============================================================================
