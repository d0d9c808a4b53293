------------------------------ MODULE SerialEdit ------------------------------
(***************************************************************************)
(* What the write rails of a source file promise (the comment on           *)
(* source_write_lock, sync/handlers.rs 19-32): there is one ordering point *)
(* for every write, so the file goes from one text to the next by one      *)
(* edit at a time, and an edit touches the line it addresses and no other. *)
(* What the developer's own editor saves is not an edit of a rail.         *)
(***************************************************************************)
EXTENDS Naturals, Sequences

CONSTANTS Keys,   \* property names
          Vals    \* values of a property

VARIABLES text,   \* the lines of the file, each [key, val]
          writes, \* edits that were accepted and written
          saves   \* how often the developer has saved the file

Lines == [key : Keys, val : Vals]

Init == text \in Seq(Lines) /\ writes = 0 /\ saves = 0

\* An accepted edit: one line gets another value, everything else stays.
Edit ==
  /\ \E i \in DOMAIN text : \E v \in Vals :
        text' = [j \in DOMAIN text |->
                   IF j = i THEN [key |-> text[i].key, val |-> v] ELSE text[j]]
  /\ writes' = writes + 1
  /\ saves' = saves

\* The developer saves whatever the editor holds.
Save == text' \in Seq(Lines) /\ saves' = saves + 1 /\ writes' = writes

Next == Edit \/ Save

Spec == Init /\ [][Next]_<<text, writes, saves>>
===============================================================================
