----------------------------- MODULE MCHotReload -----------------------------
(* Model values for HotReload. *)
EXTENDS HotReload

CONSTANTS index, theme, b1, b2, loop
=============================================================================
