----------------------------- MODULE MCCollection -----------------------------
(* Two pages on a table of one row; what a page brings in is cleaned. *)
EXTENDS Collection

MCStart == << [id |-> 1, val |-> "x"] >>

MCSanitized == [v \in Vals |-> IF v = "raw" THEN "clean" ELSE v]

MCFirst == [p \in Pages |-> IF p = "a" THEN 1 ELSE 2]

\* The pages are alike at the start: which of them has the one trouble makes no difference.
MCMaxTroubles == [p \in Pages |-> IF p = "b" THEN 1 ELSE 0]
===============================================================================
