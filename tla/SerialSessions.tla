--------------------------- MODULE SerialSessions ---------------------------
(***************************************************************************)
(* What both SSH tunnels promise about their connection to the gateway:    *)
(* sessions come one after the other, each is opened only when the one     *)
(* before it is gone for good, and a tunnel that has ended has none.       *)
(* ReverseTunnel and ForwardTunnel implement it.                           *)
(***************************************************************************)
EXTENDS Naturals

VARIABLES live,   \* the SSH sessions that are open
          last,   \* the number of the last one opened
          ended   \* the tunnel is over

vars == <<live, last, ended>>

Init == live = {} /\ last = 0 /\ ended = FALSE

(* Connect or reconnect. *)
Open ==
    /\ ~ended /\ live = {}
    /\ last' = last + 1 /\ live' = {last + 1}
    /\ UNCHANGED ended

(* A session is closed, refused or lost. *)
Lose ==
    /\ live # {} /\ live' = {}
    /\ UNCHANGED <<last, ended>>

(* The tunnel ends, and closes what it still has. *)
End ==
    /\ ~ended /\ ended' = TRUE
    /\ live' = {}
    /\ UNCHANGED last

Next == Open \/ Lose \/ End

Spec == Init /\ [][Next]_vars

=============================================================================
