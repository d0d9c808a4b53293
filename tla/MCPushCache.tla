---------------------------- MODULE MCPushCache ----------------------------
(* Model values for PushCache. *)
EXTENDS PushCache

CONSTANTS p1, p2, f1
=============================================================================
