------------------------------ MODULE SourceEdit ------------------------------
(***************************************************************************)
(* The write rails of one .st file (sync/handlers.rs): edit messages of    *)
(* several dev-server clients, each handled by the receive task of its own *)
(* connection.                                                             *)
(*                                                                         *)
(*   span    EditAst with __invoke_span: under source_write_lock, with     *)
(*           __expect_hash and __expect_span_text checked against what the *)
(*           client was shown                                              *)
(*   named   EditToken, EditAst on a directive: the first declaration of   *)
(*           the name, no lock, no guard                                   *)
(*   content EditAst with __content: addressed by a data-st-id, which      *)
(*           hashes the place it was shown at; no lock, no guard           *)
(*   motion  EditToken with motion: addressed by the number of the         *)
(*           occurrence the client was shown, no lock, no guard            *)
(*                                                                         *)
(* A file is a sequence of lines [key, val]; its hash is the sequence.     *)
(* std::fs::write is two steps: the file is truncated when it is opened    *)
(* and filled from its start afterwards, over what another writer may have *)
(* put there in between. What the patch looks like in bytes (quotes,       *)
(* braces, sanitising) is left out.                                        *)
(***************************************************************************)
EXTENDS Integers, Sequences, FiniteSets

CONSTANTS Clients,      \* browsers with an open dev socket
          Keys, Vals,   \* property names and values
          Start,        \* the file at the start
          RailSets,     \* the sets of rails the pages of a session may use
          Guards,       \* the guards a span edit carries, of {"hash", "text"}
          SavesInGaps,  \* the developer may save in the middle of an edit
          MaxEdits,     \* bound of a run: edit messages
          MaxSaves,     \* bound of a run: saves of the developer
          None          \* nobody

Lines == [key : Keys, val : Vals]
Docs  == Seq(Lines)

\* The ways of handle_edit_ast_inner and handle_edit_token to a write.
AllRails == {"span", "named", "content", "motion"}

\* A span and a data-st-id say where the text is; the others count declarations.
Placed == {"span", "content"}

ASSUME SourceAssumption ==
  /\ None \notin Clients
  /\ Keys # {} /\ Vals # {}
  /\ Start \in Docs
  /\ RailSets \subseteq SUBSET AllRails
  /\ SavesInGaps \in BOOLEAN
  /\ MaxEdits \in Nat /\ MaxSaves \in Nat

Ops == [rail : AllRails, at : Nat, key : Keys, val : Vals, seen : Docs]

VARIABLES file,    \* the lines on disk
          lock,    \* source_write_lock: the client whose task holds it, or None
          rails,   \* the rails used in this session
          shown,   \* per client: the file as its page was given it
          pc,      \* per client: where the task that handles its edit is
          op,      \* per client: the edit message being handled
          base,    \* per client: what the task read
          new,     \* per client: what it is going to write
          raced,   \* per client: the file changed under it since it was read
          writes,  \* edits written so far
          edits,   \* edit messages sent so far
          saves    \* saves of the developer so far

vars == <<file, lock, rails, shown, pc, op, base, new, raced, writes, edits, saves>>
jobs == <<op, base, new>>

NoOp == [rail |-> "named", at |-> 0, seen |-> <<>>,
         key |-> CHOOSE k \in Keys : TRUE, val |-> CHOOSE v \in Vals : TRUE]

Init ==
  /\ file = Start
  /\ lock = None
  /\ rails \in RailSets
  /\ shown = [c \in Clients |-> Start]
  /\ pc = [c \in Clients |-> "idle"]
  /\ op = [c \in Clients |-> NoOp]
  /\ base = [c \in Clients |-> <<>>]
  /\ new = [c \in Clients |-> <<>>]
  /\ raced = [c \in Clients |-> FALSE]
  /\ writes = 0
  /\ edits = 0
  /\ saves = 0

-----------------------------------------------------------------------------
(* What an edit addresses, and what it makes of a text.                    *)

\* The n-th line (from 0) that declares k, as the scans of edit_motion_param and
\* handle_edit_token find it.
Before(d, k, i) == Cardinality({j \in 1..(i - 1) : d[j].key = k})

Occurrence(d, k, n) == {i \in DOMAIN d : d[i].key = k /\ Before(d, k, i) = n}

\* The line an edit addresses in d. A place that does not hold it is refused.
Addressed(o, d) ==
  IF o.rail \in Placed THEN {i \in DOMAIN d : i = o.at /\ d[i].key = o.key}
                     ELSE Occurrence(d, o.key, o.at)

\* __expect_hash: the file is the one the client was shown.
HashHolds(o, d) == "hash" \in Guards => d = o.seen

\* __expect_span_text: the bytes at the span are the ones the client was shown.
SpanTextHolds(o, d) ==
  "text" \in Guards => /\ o.at \in DOMAIN d /\ o.at \in DOMAIN o.seen
                       /\ d[o.at] = o.seen[o.at]

\* A plausible bug: the guards are not compared.
AcceptsUnguarded(o, d) == Addressed(o, d) # {}

Accepts(o, d) ==
  /\ Addressed(o, d) # {}
  /\ o.rail = "span" => HashHolds(o, d) /\ SpanTextHolds(o, d)

\* A plausible bug: every declaration of the property is replaced.
PatchedEverywhere(o, d) ==
  [i \in DOMAIN d |-> IF d[i].key = o.key THEN [key |-> d[i].key, val |-> o.val] ELSE d[i]]

Patched(o, d) ==
  [i \in DOMAIN d |-> IF i \in Addressed(o, d) THEN [key |-> d[i].key, val |-> o.val] ELSE d[i]]

\* A text written from the start of a file that holds f already.
Overlay(t, f) == IF Len(f) <= Len(t) THEN t ELSE t \o SubSeq(f, Len(t) + 1, Len(f))

Locked(c) == op[c].rail = "span"

InTransaction(c) == pc[c] \in {"opening", "writing"}

\* The others whose reading of the file is no longer what is on disk.
RacedBy(c) == [d \in Clients |-> raced[d] \/ (d # c /\ InTransaction(d))]

-----------------------------------------------------------------------------
(* Clients and the developer.                                              *)

\* The page is loaded, or its structure projected again.
Look(c) ==
  /\ pc[c] = "idle"
  /\ shown' = [shown EXCEPT ![c] = file]
  /\ UNCHANGED <<file, lock, rails, pc, jobs, raced, writes, edits, saves>>

\* A message more than the bound (of the model only).
SendUncounted(c) ==
  /\ pc[c] = "idle"
  /\ \E k \in Keys, v \in Vals :
       op' = [op EXCEPT ![c] = [rail |-> "named", key |-> k, val |-> v, seen |-> shown[c], at |-> 0]]
  /\ pc' = [pc EXCEPT ![c] = "reading"]
  /\ edits' = edits + 1
  /\ UNCHANGED <<file, lock, rails, shown, base, new, raced, writes, saves>>

\* The client addresses a line it was shown.
Send(c) ==
  /\ pc[c] = "idle"
  /\ edits < MaxEdits
  /\ \E r \in rails, i \in DOMAIN shown[c], v \in Vals :
       LET k == shown[c][i].key
           n == Before(shown[c], k, i)
       IN op' = [op EXCEPT ![c] =
                   [rail |-> r, key |-> k, val |-> v, seen |-> shown[c],
                    at |-> IF r \in Placed THEN i ELSE IF r = "motion" THEN n ELSE 0]]
  /\ pc' = [pc EXCEPT ![c] = IF op'[c].rail = "span" THEN "locking" ELSE "reading"]
  /\ edits' = edits + 1
  /\ UNCHANGED <<file, lock, rails, shown, base, new, raced, writes, saves>>

\* What the developer may have made of the text: a value, a line more, a line less.
Revised(d) ==
  {[d EXCEPT ![i].val = v] : i \in DOMAIN d, v \in Vals}
  \cup {Append(d, l) : l \in {m \in Lines : Len(d) < Len(Start)}}
  \cup {Tail(d) : e \in {1} \cap DOMAIN d}

Save ==
  /\ saves < MaxSaves
  /\ SavesInGaps \/ \A c \in Clients : ~InTransaction(c)
  /\ file' \in Revised(file)
  /\ raced' = RacedBy(None)
  /\ saves' = saves + 1
  /\ UNCHANGED <<lock, rails, shown, pc, jobs, writes, edits>>

-----------------------------------------------------------------------------
(* The handler.                                                            *)

\* A plausible bug: a lock of its own for every connection excludes nobody.
LockOwn(c) ==
  /\ pc[c] = "locking"
  /\ lock' = c
  /\ pc' = [pc EXCEPT ![c] = "reading"]
  /\ UNCHANGED <<file, rails, shown, jobs, raced, writes, edits, saves>>

\* source_write_lock().lock()
Lock(c) ==
  /\ pc[c] = "locking"
  /\ lock = None
  /\ lock' = c
  /\ pc' = [pc EXCEPT ![c] = "reading"]
  /\ UNCHANGED <<file, rails, shown, jobs, raced, writes, edits, saves>>

\* A plausible bug: a refusal returns without giving the lock back.
UnlockedAfterWrite(c) == IF lock = c /\ pc[c] = "writing" THEN None ELSE lock

Unlocked(c) == IF lock = c THEN None ELSE lock

\* read_to_string, the guards and the patch, up to the write or the refusal.
Read(c) ==
  /\ pc[c] = "reading"
  /\ base' = [base EXCEPT ![c] = file]
  /\ raced' = [raced EXCEPT ![c] = FALSE]
  /\ \/ /\ Accepts(op[c], file)
        /\ new' = [new EXCEPT ![c] = Patched(op[c], file)]
        /\ pc' = [pc EXCEPT ![c] = "opening"]
        /\ UNCHANGED lock
     \/ /\ ~Accepts(op[c], file)
        /\ pc' = [pc EXCEPT ![c] = "rejected"]
        /\ lock' = Unlocked(c)
        /\ UNCHANGED new
  /\ UNCHANGED <<file, rails, shown, op, writes, edits, saves>>

\* std::fs::write opens the file, which empties it.
Open(c) ==
  /\ pc[c] = "opening"
  /\ file' = <<>>
  /\ pc' = [pc EXCEPT ![c] = "writing"]
  /\ raced' = RacedBy(c)
  /\ UNCHANGED <<lock, rails, shown, jobs, writes, edits, saves>>

\* The text is written; the guard goes out of scope when the branch returns.
Write(c) ==
  /\ pc[c] = "writing"
  /\ file' = Overlay(new[c], file)
  /\ writes' = writes + 1
  /\ pc' = [pc EXCEPT ![c] = "acked"]
  /\ lock' = Unlocked(c)
  /\ raced' = RacedBy(c)
  /\ UNCHANGED <<rails, shown, jobs, edits, saves>>

\* handle_client_message sends the Ack or the Reject; what the handler held is gone.
Answer(c) ==
  /\ pc[c] \in {"acked", "rejected"}
  /\ pc' = [pc EXCEPT ![c] = "idle"]
  /\ op' = [op EXCEPT ![c] = NoOp]
  /\ base' = [base EXCEPT ![c] = <<>>]
  /\ new' = [new EXCEPT ![c] = <<>>]
  /\ raced' = [raced EXCEPT ![c] = FALSE]
  /\ UNCHANGED <<file, lock, rails, shown, writes, edits, saves>>

Handle(c) == Lock(c) \/ Read(c) \/ Open(c) \/ Write(c) \/ Answer(c)

Next == (\E c \in Clients : Look(c) \/ Send(c) \/ Handle(c)) \/ Save

\* A handler is a task of the server and takes its next step; clients owe nothing.
Spec == Init /\ [][Next]_vars /\ \A c \in Clients : WF_vars(Handle(c))

-----------------------------------------------------------------------------
(* Properties.                                                             *)

\* The text the rails have agreed on: what was read by the job that has the file open
\* (nobody has agreed to the emptied file), or what is on disk.
Content == IF \E c \in Clients : pc[c] = "writing"
           THEN base[CHOOSE c \in Clients : pc[c] = "writing"]
           ELSE file

Serial == INSTANCE SerialEdit WITH text <- Content

\* The types of the state; the lock belongs to the task that is between Lock and Write.
TypeOK ==
  /\ file \in Docs
  /\ lock \in Clients \cup {None}
  /\ rails \in RailSets
  /\ shown \in [Clients -> Docs]
  /\ pc \in [Clients -> {"idle", "locking", "reading", "opening", "writing", "acked", "rejected"}]
  /\ op \in [Clients -> Ops]
  /\ base \in [Clients -> Docs]
  /\ new \in [Clients -> Docs]
  /\ raced \in [Clients -> BOOLEAN]
  /\ writes \in Nat
  /\ edits \in 0..MaxEdits
  /\ saves \in 0..MaxSaves

\* A session whose pages write through the locked rail only, with a developer who does
\* not save in the milliseconds of an edit.
Undisturbed == rails = {"span"} /\ ~SavesInGaps

\* In an undisturbed session an edit that passed its guards is about to replace exactly
\* the text its user was shown, although pages were projected, edited and saved since
\* (the guards of __invoke_span and the lock they are checked under).
ShownIsWhatIsEdited ==
  Undisturbed =>
    \A c \in Clients : pc[c] = "opening" =>
      /\ "hash" \in Guards \/ "text" \in Guards =>
           op[c].at \in DOMAIN file /\ file[op[c].at] = op[c].seen[op[c].at]
      /\ "hash" \in Guards => file = op[c].seen

\* In an undisturbed session the file goes from text to text by one edit at a time: no
\* edit is lost, doubled or mixed with another's (source_write_lock orders them).
LockedRailsAreSerial == [][Undisturbed => Serial!Next]_<<Content, writes, saves>>

\* d and e differ in the value of one line at most.
OneLineEdited(d, e) ==
  \E i \in DOMAIN d : \E v \in Vals :
    e = [j \in DOMAIN d |-> IF j = i THEN [key |-> d[i].key, val |-> v] ELSE d[j]]

\* On every rail, with any number of writers, an edit under which nobody changed the
\* file leaves the text it read with one line edited: it does not revert an earlier
\* edit and leaves no part of an older text behind.
UnracedWriteIsOneEdit ==
  [][\A c \in Clients : pc[c] = "writing" /\ pc'[c] = "acked" /\ ~raced[c]
        => OneLineEdited(base[c], file')]_vars

\* Every edit message is answered and its task goes on to the next message of its
\* client, whoever else holds or waits for the lock, refusals included.
EditsAnswered == \A c \in Clients : pc[c] # "idle" ~> pc[c] = "idle"
===============================================================================
