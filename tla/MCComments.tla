------------------------------ MODULE MCComments ------------------------------
(* Two browsers, an agent and a client of the socket on three inline comments, *)
(* two of them in one file.                                                    *)
EXTENDS Comments

MCFileOf == [i \in Inline |-> IF i = "i3" THEN "f2" ELSE "f1"]
===============================================================================
