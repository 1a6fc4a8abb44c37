--------------------------- MODULE MCMonitorSession ---------------------------
(***************************************************************************)
(* Instances of MonitorSession for TLC.                                    *)
(***************************************************************************)
EXTENDS MonitorSession
=============================================================================
