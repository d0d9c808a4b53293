------------------------------ MODULE MCRealtime ------------------------------
(* Two pages on one channel. *)
EXTENDS Realtime
===============================================================================
