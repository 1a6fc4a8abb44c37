---------------------------- MODULE MCMonitorAgent ----------------------------
(***************************************************************************)
(* Instances of MonitorAgent for TLC.                                      *)
(***************************************************************************)
EXTENDS MonitorAgent
=============================================================================
