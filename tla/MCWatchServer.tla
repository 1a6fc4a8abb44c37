----------------------------- MODULE MCWatchServer -----------------------------
(***************************************************************************)
(* Instances of WatchServer for TLC: one server is a frontend.             *)
(***************************************************************************)
EXTENDS WatchServer
=============================================================================
