---------------------------- MODULE MCSignalCall ----------------------------
(* Values for the constants of SignalCall: every policy and transport. *)
EXTENDS SignalCall

MCPolicies   == {"latest", "queue", "parallel", "drop"}
MCTransports == {"http", "ws", "live"}
=============================================================================
