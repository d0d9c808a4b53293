------------------------------ MODULE Collection ------------------------------
(***************************************************************************)
(* `@data collection`: an array that dev pages edit optimistically and     *)
(* that lives in a JSON file (collection.st, source.st, dev-ws.st,         *)
(* dev-save.st and the EditJsonArray handler of sync/handlers.rs).         *)
(*                                                                         *)
(* A page keeps the array twice: `plan`, the signal its mutators plan      *)
(* against, and `view`, the registry its rows are rendered from; until     *)
(* something is published there is no plan and the registry stands in. A   *)
(* page that opens fetches the file and, on its own, opens a socket. A     *)
(* mutator changes plan and view and sends the operation with an index     *)
(* into its plan. The task of the connection reads the file, cleans what   *)
(* the operation brings, applies it, truncates, writes, answers and        *)
(* broadcasts what it wrote; dev-save puts a broadcast into the registry   *)
(* and not into the signal. Nothing orders the tasks of two connections,   *)
(* and the task of one that was left still works off what it was sent.     *)
(*                                                                         *)
(* A row is [id, val]. The file's text is a table, Empty (truncated) or    *)
(* Garbled (the end of a longer text after a shorter one). The collection  *)
(* is named as its file, or broadcasts would not reach its registry.       *)
(***************************************************************************)
EXTENDS Integers, Sequences, SequencesExt

CONSTANTS Pages,           \* dev pages that show the collection
          Conns,           \* connections the server may have
          First,           \* those of the pages at the start
          Ids, Vals,       \* identities and contents of rows
          Typed,           \* contents that pages bring in
          Sanitized,       \* per content: what sanitize_value_html leaves of it
          Start,           \* the table in the file at the start
          MaxOps,          \* bound of a run: operations
          MaxTroubles,     \* bound of a run: per page, loads and connections lost
          Empty, Garbled,  \* texts that are not a table
          None

Rows == [id : Ids, val : Vals]

ASSUME CollectionAssumption ==
  /\ Start \in Seq(Rows) /\ Typed \subseteq Vals /\ Sanitized \in [Vals -> Vals]
  /\ First \in Injection(Pages, Conns)
  /\ MaxOps \in Nat /\ MaxTroubles \in [Pages -> Nat]
  /\ Empty # Garbled /\ \A x \in {Empty, Garbled, None} : x \notin Seq(Rows)
  /\ None \notin Conns
  /\ \A n \in 1..MaxOps : /\ Len(Start) + n \in Ids
                          /\ \A i \in DOMAIN Start : Start[i].id # Len(Start) + n

VARIABLES file,        \* the text of the JSON file
          plan,        \* per page: SpacetimeLocal[name], what mutators plan on, or None
          view,        \* per page: the data registry, what @each renders
          fetch,       \* per page: how far its fetch of the file is, and the text
          pending,     \* per page: operations with a registered onReject
          conn,        \* per page: the connection of its open socket, or None
          inbox,       \* per page: messages on their way to the page
          sent,        \* per connection: messages on their way to the server
          job,         \* per connection: its handler
          ops, troubles,   \* counters of the bounds
          heard,       \* per page: numbers of its operations that were answered
          early,       \* per page: an operation was planned before the fetched text came
          foreign,     \* per page: another connection has written or told of it since the load
          tangled,     \* per page: an operation was refused after later ones were planned
          refused,     \* per page: an operation was refused
          lost,        \* per page: a message to or from it went nowhere
          overlapped   \* two handlers were at work at once

pageVars == <<plan, view, fetch, pending, conn>>
noted    == <<early, foreign, tangled, refused, lost, overlapped>>
histVars == <<heard, noted>>
counters == <<ops, troubles>>
vars == <<file, pageVars, inbox, sent, job, counters, histVars>>

Kinds == {"insert", "append", "delete", "update", "reorder"}
Operations == [n : Nat, kind : Kinds, at : Nat, to : Nat, row : Rows]
Messages == [type : {"Ack", "Reject", "Update"}, n : Nat, data : Seq(Rows)]
Jobs == [at : {"none", "open", "write", "answer"}, n : Nat, ok : BOOLEAN, next : Seq(Rows)]
Fetches == [at : {"asked", "coming", "shown", "failed"}, text : Seq(Rows)]

NoJob == [at |-> "none", n |-> 0, ok |-> FALSE, next |-> <<>>]
Fetch(at) == [at |-> at, text |-> <<>>]

\* Pages that have been opened and have heard nothing yet.
Init ==
  /\ file = Start
  /\ plan = [p \in Pages |-> Start] /\ view = [p \in Pages |-> Start]
  /\ fetch = [p \in Pages |-> Fetch("shown")]
  /\ pending = [p \in Pages |-> {}] /\ conn = First
  /\ inbox = [p \in Pages |-> <<>>]
  /\ sent = [c \in Conns |-> <<>>] /\ job = [c \in Conns |-> NoJob]
  /\ ops = 0 /\ troubles = [p \in Pages |-> 0]
  /\ heard = [p \in Pages |-> {}]
  /\ early = [p \in Pages |-> FALSE] /\ foreign = [p \in Pages |-> FALSE]
  /\ tangled = [p \in Pages |-> FALSE] /\ refused = [p \in Pages |-> FALSE]
  /\ lost = [p \in Pages |-> FALSE] /\ overlapped = FALSE

-----------------------------------------------------------------------------
(* Operations on a table. Index 0 stands for what JavaScript takes as an   *)
(* index and serde does not take as a usize (-1, "2").                     *)

Moved(t, from, to) == InsertAt(RemoveAt(t, from), to, t[from])

Positions(t) == 1..Len(t)

\* What a page may ask of its array t; an index that is out of range bails out.
Asked(t, n) ==
  LET fresh == [id : {Len(Start) + n}, val : Typed]
      Op(k, i, j, r) == [n |-> n, kind |-> k, at |-> i, to |-> j, row |-> r]
  IN {Op("insert", i, 0, r) : i \in {0, 1, Len(t) + 2}, r \in fresh}
     \cup {Op("append", Len(t) + 1, 0, r) : r \in fresh}
     \cup {Op("delete", i, 0, t[i]) : i \in Positions(t)}
     \cup {Op("update", i, 0, [t[i] EXCEPT !.val = v]) : i \in Positions(t), v \in Typed}
     \cup UNION {{Op("reorder", i, j, t[i]) : j \in Positions(t) \ {i}} : i \in Positions(t)}

Splice(t, i) == IF i = 0 THEN (IF t = <<>> THEN 1 ELSE Len(t))
                ELSE IF i > Len(t) THEN Len(t) + 1 ELSE i

\* The page's own application: Array.splice clamps.
Local(o, t) ==
  CASE o.kind = "insert"  -> InsertAt(t, Splice(t, o.at), o.row)
    [] o.kind = "append"  -> Append(t, o.row)
    [] o.kind = "delete"  -> RemoveAt(t, o.at)
    [] o.kind = "update"  -> [t EXCEPT ![o.at] = o.row]
    [] o.kind = "reorder" -> Moved(t, o.at, o.to)

\* The server's: bounds are checked, a patch sets the fields it names.
Legal(o, t) ==
  CASE o.kind = "insert"  -> o.at <= Len(t) + 1
    [] o.kind = "append"  -> TRUE
    [] o.kind = "reorder" -> o.at \in Positions(t) /\ o.to \in Positions(t)
    [] OTHER              -> o.at \in Positions(t)

\* sanitize_value_html
Cleaned(r) == [r EXCEPT !.val = Sanitized[@]]

Applied(o, t) ==
  CASE o.kind = "insert"  -> InsertAt(t, o.at, Cleaned(o.row))
    [] o.kind = "append"  -> Append(t, Cleaned(o.row))
    [] o.kind = "delete"  -> RemoveAt(t, o.at)
    [] o.kind = "update"  -> [t EXCEPT ![o.at].val = Cleaned(o.row).val]
    [] o.kind = "reorder" -> Moved(t, o.at, o.to)

Adds(o) == o.kind \in {"insert", "append"}

\* What is remembered of an operation for its undoing: the row it adds, or the row before it.
Undo(o, t) == [op |-> o, row |-> IF Adds(o) THEN o.row ELSE t[o.at]]

IndexOf(t, r) == SelectInSeq(t, LAMBDA x : x = r)
IndexOfId(t, i) == SelectInSeq(t, LAMBDA x : x.id = i)

\* A plausible bug: a refusal is reported and nothing is undone.
UndoneNever(u, t) == t

\* The inverse of a refused operation, applied to the array of the moment.
Undone(u, t) ==
  CASE Adds(u.op) ->
         LET i == IndexOf(t, u.row)
         IN IF i # 0 THEN RemoveAt(t, i)
            ELSE IF u.op.at \in Positions(t) THEN RemoveAt(t, u.op.at) ELSE t
    [] u.op.kind = "delete" -> InsertAt(t, Splice(t, u.op.at), u.row)
    [] u.op.kind = "update" ->
         LET i == IndexOfId(t, u.row.id)
         IN IF i = 0 THEN t ELSE [t EXCEPT ![i].val = u.row.val]
    [] u.op.kind = "reorder" ->
         IF u.op.to \notin Positions(t) THEN t
         ELSE InsertAt(RemoveAt(t, u.op.to), Splice(RemoveAt(t, u.op.to), u.op.at), t[u.op.to])

-----------------------------------------------------------------------------
(* The page.                                                               *)

\* read(): the signal, or the registry while the signal is not set.
Current(p) == IF plan[p] = None THEN view[p] ELSE plan[p]

Unheard(p) == {u \in pending[p] : u.op.n \notin heard[p]}

\* A mutator: plan, publish on both channels, send if the socket is open.
Mutate(p) ==
  /\ ops < MaxOps
  /\ ops' = ops + 1
  /\ \E o \in Asked(Current(p), ops + 1) :
       /\ plan' = [plan EXCEPT ![p] = Local(o, Current(p))]
       /\ view' = [view EXCEPT ![p] = plan'[p]]
       /\ IF conn[p] # None
          THEN /\ sent' = [sent EXCEPT ![conn[p]] = Append(@, o)]
               /\ pending' = [pending EXCEPT ![p] = @ \cup {Undo(o, Current(p))}]
               /\ UNCHANGED lost
          ELSE /\ lost' = [lost EXCEPT ![p] = TRUE]
               /\ UNCHANGED <<sent, pending>>
  /\ early' = [early EXCEPT ![p] = @ \/ fetch[p].at \in {"asked", "coming"}]
  /\ UNCHANGED <<file, fetch, conn, inbox, job, troubles, heard, foreign, tangled, refused,
                 overlapped>>

\* handleMessage of the bridge: a refusal is undone and its callback taken away, a broadcast
\* goes to the registry. An Ack finds no callback, since none is registered for it, and leaves
\* the one for a refusal where it is.
Deliver(p) ==
  /\ inbox[p] # <<>>
  /\ inbox' = [inbox EXCEPT ![p] = Tail(@)]
  /\ LET m == Head(inbox[p])
         called == {u \in pending[p] : m.type = "Reject" /\ u.op.n = m.n}
     IN /\ pending' = [pending EXCEPT ![p] = @ \ called]
        /\ heard' = IF m.type = "Update" THEN heard ELSE [heard EXCEPT ![p] = @ \cup {m.n}]
        /\ IF called # {}
           THEN LET u == CHOOSE x \in called : TRUE
                IN /\ plan' = [plan EXCEPT ![p] = Undone(u, Current(p))]
                   /\ view' = [view EXCEPT ![p] = plan'[p]]
                   /\ refused' = [refused EXCEPT ![p] = TRUE]
                   /\ tangled' = [tangled EXCEPT ![p] = @ \/ Unheard(p) # called]
           ELSE /\ view' = IF m.type = "Update" THEN [view EXCEPT ![p] = m.data] ELSE view
                /\ UNCHANGED <<plan, refused, tangled>>
        \* the fetched text is going to bury it
        /\ lost' = [lost EXCEPT ![p] = @ \/ (m.type = "Update" /\ fetch[p].at = "coming")]
  /\ UNCHANGED <<file, fetch, conn, sent, job, counters, early, foreign, overlapped>>

\* The page is loaded again, by its user or by a Reload; `initial` is the empty array.
Load(p) ==
  /\ troubles[p] < MaxTroubles[p]
  /\ plan' = [plan EXCEPT ![p] = None] /\ view' = [view EXCEPT ![p] = <<>>]
  /\ fetch' = [fetch EXCEPT ![p] = Fetch("asked")]
  /\ pending' = [pending EXCEPT ![p] = {}] /\ heard' = [heard EXCEPT ![p] = {}]
  /\ conn' = [conn EXCEPT ![p] = None] /\ inbox' = [inbox EXCEPT ![p] = <<>>]
  /\ troubles' = [troubles EXCEPT ![p] = @ + 1]
  /\ early' = [early EXCEPT ![p] = FALSE] /\ foreign' = [foreign EXCEPT ![p] = FALSE]
  /\ tangled' = [tangled EXCEPT ![p] = FALSE] /\ refused' = [refused EXCEPT ![p] = FALSE]
  /\ lost' = [lost EXCEPT ![p] = FALSE]
  /\ UNCHANGED <<file, sent, job, ops, overlapped>>

\* The server reads the file for the page; a text that is no table is reported there and
\* shows nothing.
Serve(p) ==
  /\ fetch[p].at = "asked"
  /\ fetch' = [fetch EXCEPT ![p] = IF file \in {Empty, Garbled} THEN Fetch("failed")
                                   ELSE [at |-> "coming", text |-> file]]
  /\ UNCHANGED <<file, plan, view, pending, conn, inbox, sent, job, counters, histVars>>

\* The fetched text is published, over whatever is there.
Arrive(p) ==
  /\ fetch[p].at = "coming"
  /\ plan' = [plan EXCEPT ![p] = fetch[p].text] /\ view' = [view EXCEPT ![p] = fetch[p].text]
  /\ fetch' = [fetch EXCEPT ![p] = Fetch("shown")]
  /\ UNCHANGED <<file, pending, conn, inbox, sent, job, counters, histVars>>

\* The socket closes; what was on its way to the page is gone.
Disconnect(p) ==
  /\ troubles[p] < MaxTroubles[p]
  /\ conn[p] # None
  /\ conn' = [conn EXCEPT ![p] = None] /\ inbox' = [inbox EXCEPT ![p] = <<>>]
  /\ lost' = [lost EXCEPT ![p] = TRUE]
  /\ troubles' = [troubles EXCEPT ![p] = @ + 1]
  /\ UNCHANGED <<file, plan, view, fetch, pending, sent, job, ops, heard, early, foreign, tangled,
                 refused, overlapped>>

Busy(c) == job[c].at # "none"

Left(c) == \A p \in Pages : conn[p] # c

\* The bridge connects, at first or again after a second; nothing is fetched or sent again.
Connect(p) ==
  /\ conn[p] = None
  /\ \E c \in Conns : /\ Left(c) /\ ~Busy(c) /\ sent[c] = <<>>
                      /\ conn' = [conn EXCEPT ![p] = c]
  /\ UNCHANGED <<file, plan, view, fetch, pending, inbox, sent, job, counters, histVars>>

-----------------------------------------------------------------------------
(* The task of a connection.                                               *)

Finished(c, n, ok, next) ==
  job' = [job EXCEPT ![c] = [at |-> IF ok THEN "open" ELSE "answer", n |-> n, ok |-> ok,
                             next |-> next]]

\* A plausible bug: a text that cannot be edited ends the handler without an answer.
ReadSilent(c) ==
  /\ ~Busy(c) /\ sent[c] # <<>>
  /\ sent' = [sent EXCEPT ![c] = Tail(@)]
  /\ LET o == Head(sent[c])
     IN IF o.at # 0 /\ file \notin {Empty, Garbled} /\ Legal(o, file)
        THEN Finished(c, o.n, TRUE, Applied(o, file))
        ELSE UNCHANGED job
  /\ overlapped' = (overlapped \/ \E d \in Conns \ {c} : Busy(d))
  /\ UNCHANGED <<file, pageVars, inbox, counters, heard, early, foreign, tangled, refused, lost>>

\* The message is parsed, the file read, the operation checked and applied.
Read(c) ==
  /\ ~Busy(c) /\ sent[c] # <<>>
  /\ Head(sent[c]).at # 0
  /\ sent' = [sent EXCEPT ![c] = Tail(@)]
  /\ LET o == Head(sent[c])
     IN IF file \notin {Empty, Garbled} /\ Legal(o, file)
        THEN Finished(c, o.n, TRUE, Applied(o, file))
        ELSE Finished(c, o.n, FALSE, <<>>)
  /\ overlapped' = (overlapped \/ \E d \in Conns \ {c} : Busy(d))
  /\ UNCHANGED <<file, pageVars, inbox, counters, heard, early, foreign, tangled, refused, lost>>

\* A message that does not parse is logged and not answered.
Ignore(c) ==
  /\ ~Busy(c) /\ sent[c] # <<>>
  /\ Head(sent[c]).at = 0
  /\ sent' = [sent EXCEPT ![c] = Tail(@)]
  /\ lost' = [p \in Pages |-> lost[p] \/ conn[p] = c]
  /\ UNCHANGED <<file, pageVars, inbox, job, counters, heard, early, foreign, tangled, refused,
                 overlapped>>

\* std::fs::write opens the file, which empties it.
Open(c) ==
  /\ job[c].at = "open"
  /\ file' = Empty
  /\ job' = [job EXCEPT ![c].at = "write"]
  /\ foreign' = [p \in Pages |-> foreign[p] \/ conn[p] # c]
  /\ UNCHANGED <<pageVars, inbox, sent, counters, heard, early, tangled, refused, lost, overlapped>>

\* It is filled from its start, over what another handler may have put there.
Write(c) ==
  /\ job[c].at = "write"
  /\ file' \in IF file = Empty THEN {job[c].next} ELSE {job[c].next, Garbled}
  /\ job' = [job EXCEPT ![c].at = "answer"]
  /\ foreign' = [p \in Pages |-> foreign[p] \/ conn[p] # c]
  /\ UNCHANGED <<pageVars, inbox, sent, counters, heard, early, tangled, refused, lost, overlapped>>

Reply(c) == <<[type |-> IF job[c].ok THEN "Ack" ELSE "Reject", n |-> job[c].n, data |-> <<>>]>>

Update(c) == IF job[c].ok THEN <<[type |-> "Update", n |-> 0, data |-> job[c].next]>> ELSE <<>>

\* A plausible bug: the page that edits is the only one to be told.
AnswerSender(c) ==
  /\ job[c].at = "answer"
  /\ job' = [job EXCEPT ![c] = NoJob]
  /\ inbox' = [p \in Pages |-> IF conn[p] = c THEN inbox[p] \o Reply(c) \o Update(c) ELSE inbox[p]]
  /\ foreign' = [p \in Pages |-> foreign[p] \/ (conn[p] # c /\ job[c].ok)]
  /\ UNCHANGED <<file, pageVars, sent, counters, heard, early, tangled, refused, lost, overlapped>>

\* The Ack or Reject to the page, then what was written to every registered socket. A page
\* that has no socket and fetched before misses it.
Answer(c) ==
  /\ job[c].at = "answer"
  /\ job' = [job EXCEPT ![c] = NoJob]
  /\ inbox' = [p \in Pages |-> IF conn[p] = None THEN inbox[p]
                               ELSE inbox[p] \o (IF conn[p] = c THEN Reply(c) ELSE <<>>)
                                             \o Update(c)]
  /\ foreign' = [p \in Pages |-> foreign[p] \/ (conn[p] # c /\ job[c].ok)]
  /\ lost' = [p \in Pages |-> lost[p] \/ (conn[p] = None /\ fetch[p].at # "asked" /\ job[c].ok)]
  /\ UNCHANGED <<file, pageVars, sent, counters, heard, early, tangled, refused, overlapped>>

\* The socket is found closed: the rest of what came over it is not read.
Hangup(c) ==
  /\ Left(c) /\ ~Busy(c) /\ sent[c] # <<>>
  /\ sent' = [sent EXCEPT ![c] = <<>>]
  /\ UNCHANGED <<file, pageVars, inbox, job, counters, histVars>>

Handle(c) == Read(c) \/ Ignore(c) \/ Open(c) \/ Write(c) \/ Answer(c)

Next == \/ \E p \in Pages : \/ Mutate(p) \/ Deliver(p) \/ Load(p) \/ Serve(p) \/ Arrive(p)
                            \/ Disconnect(p) \/ Connect(p)
        \/ \E c \in Conns : Handle(c) \/ Hangup(c)

\* Tasks of the server run and messages on an open socket arrive; nobody has to edit, to
\* load a page or to lose a connection.
Spec == /\ Init /\ [][Next]_vars
        /\ \A c \in Conns : WF_vars(Handle(c))
        /\ \A p \in Pages : WF_vars(Deliver(p))

-----------------------------------------------------------------------------
(* Properties.                                                             *)

TypeOK ==
  /\ file \in Seq(Rows) \cup {Empty, Garbled}
  /\ plan \in [Pages -> Seq(Rows) \cup {None}] /\ view \in [Pages -> Seq(Rows)]
  /\ fetch \in [Pages -> Fetches]
  /\ pending \in [Pages -> SUBSET [op : Operations, row : Rows]]
  /\ conn \in [Pages -> Conns \cup {None}]
  /\ inbox \in [Pages -> Seq(Messages)]
  /\ sent \in [Conns -> Seq(Operations)] /\ job \in [Conns -> Jobs]
  /\ ops \in 0..MaxOps /\ troubles \in [Pages -> Nat]
  /\ heard \in [Pages -> SUBSET Nat]
  /\ {early, foreign, tangled, refused, lost} \subseteq [Pages -> BOOLEAN]
  /\ overlapped \in BOOLEAN

\* The page shows what it fetched and nothing of it is on its way.
Settled(p) ==
  /\ fetch[p].at = "shown"
  /\ conn[p] # None /\ sent[conn[p]] = <<>> /\ ~Busy(conn[p])
  /\ inbox[p] = <<>> /\ Unheard(p) = {}

\* u is t, row by row, with some of its contents cleaned.
Same(t, u) ==
  /\ Len(u) = Len(t)
  /\ \A i \in DOMAIN t : u[i].id = t[i].id /\ u[i].val \in {t[i].val, Sanitized[t[i].val]}

\* A page that edits alone ends with the same rows in signal, registry and file, up to the
\* cleaning of what it brought in, through pipelined operations, broadcasts of its own earlier
\* ones and refusals that were undone before it went on (the mutators of collection.st against
\* the handler). An operation planned before the fetched text came may be buried by it.
LonePageShowsFile ==
  \A p \in Pages :
    Settled(p) /\ ~lost[p] /\ ~foreign[p] /\ ~tangled[p] /\ ~early[p] =>
      file \in Seq(Rows) /\ Same(plan[p], file) /\ Same(view[p], file)

\* When nothing is on its way any more, every page that has heard everything and had
\* nothing refused renders what is in the file, whoever edited it and however its fetch and
\* its socket raced with that, unless two handlers overlapped (the broadcast of DataUpdate to
\* all clients). A page hears everything if no broadcast fell between its fetch and its socket.
PagesAgree ==
  (\A c \in Conns : sent[c] = <<>> /\ ~Busy(c)) /\ ~overlapped =>
    \A p \in Pages : Settled(p) /\ ~lost[p] /\ ~refused[p] => view[p] = file

\* Every operation is confirmed or refused, whatever others do to the file meanwhile,
\* unless its connection closed or its message did not parse.
OpsAnswered == \A p \in Pages : []<>(Unheard(p) = {} \/ lost[p])
===============================================================================
