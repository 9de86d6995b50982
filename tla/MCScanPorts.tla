---------------------------- MODULE MCScanPorts ----------------------------
(* The instance of ScanPorts that TLC checks; all constants come from the *)
(* cfg.                                                                    *)
EXTENDS ScanPorts
=============================================================================
