----------------------------- MODULE MCPushHub -----------------------------
(* Bounds for PushHub: the ratio of StaleAfter to MaxSilence is the code's,  *)
(* 180 s to 300 s.                                                           *)
EXTENDS PushHub

CONSTANTS p1, p2, b1

MCCapacity   == 2
MCStaleAfter == 1
MCMaxSilence == 2
=============================================================================
