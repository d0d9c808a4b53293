----------------------------- MODULE MCSourceEdit -----------------------------
(* Two browsers on a file of three lines, two of which declare the same property. *)
EXTENDS SourceEdit

MCStart == << [key |-> "size", val |-> "x"],
              [key |-> "tint", val |-> "x"],
              [key |-> "size", val |-> "x"] >>
MCRailSets == {{"span"}, {"span", "named", "content", "motion"}}
===============================================================================
