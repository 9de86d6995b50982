-------------------------------- MODULE Scan --------------------------------
(***************************************************************************)
(* What a port scan promises: every port is probed once, each probe leaves *)
(* its verdict in its own place, and the scan returns with all of them.    *)
(* ScanPorts implements it with a goroutine per port and a semaphore.      *)
(***************************************************************************)
CONSTANTS Jobs, Verdicts, NoVerdict

VARIABLES verdict,  \* the results slice
          returned  \* ScanPorts has returned it

vars == <<verdict, returned>>

Init == verdict = [j \in Jobs |-> NoVerdict] /\ returned = FALSE

Probe(j) ==
    /\ ~returned /\ verdict[j] = NoVerdict
    /\ \E v \in Verdicts : verdict' = [verdict EXCEPT ![j] = v]
    /\ UNCHANGED returned

Return ==
    /\ ~returned /\ \A j \in Jobs : verdict[j] # NoVerdict
    /\ returned' = TRUE
    /\ UNCHANGED verdict

Next == Return \/ \E j \in Jobs : Probe(j)

Spec == Init /\ [][Next]_vars

=============================================================================
