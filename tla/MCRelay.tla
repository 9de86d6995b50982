------------------------------ MODULE MCRelay ------------------------------
(* The instances of Relay that TLC checks; all constants come from the cfg. *)
EXTENDS Relay
=============================================================================
