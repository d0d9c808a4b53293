----------------------------- MODULE EditorServer -----------------------------
(***************************************************************************)
(* The language server (src/lsp: server.rs, workspace/manager.rs,          *)
(* document.rs): open documents, their diagnostics, the usage index and    *)
(* the registry of macros that completion, hover and definitions serve.    *)
(*                                                                         *)
(* tower-lsp starts handlers in the order of the messages and polls up to  *)
(* Workers of them in ONE task: a handler runs undisturbed from an await   *)
(* to the next. Two awaits really wait: the load of the base registry (the *)
(* standard library and the project's _prelude.st, on a blocking thread),  *)
(* which runs whenever `base_loaded` is not set, and the 150 ms in which   *)
(* edits coalesce. The locks of tokio are free whenever they are asked     *)
(* for, since nobody keeps one over a real wait; a DashMap reference is    *)
(* kept over one (completion, hover and definition keep their document),   *)
(* and a write to a shard that is referenced blocks the only thread.       *)
(*                                                                         *)
(* A text is its version and the forms it defines of each macro, or does   *)
(* not parse. The workspace has one root; `initialize` is over.            *)
(***************************************************************************)
EXTENDS Integers, FiniteSets

CONSTANTS Docs,          \* documents an editor may open
          Prelude,       \* the one that is _prelude.st
          ShardOf,       \* the shard of the document store a document is in
          Macros, Forms, \* names of macros and what a macro may be defined as
          Unparsed,      \* what a text defines that does not parse
          None,          \* no form
          Drafts,        \* what the texts of an editor may define
          Workers,       \* handlers tower-lsp has in progress at most
          MaxMessages, MaxSaves   \* bounds of a run

Contents == [Macros -> Forms \cup {None}] \cup {Unparsed}
Texts    == [ver : Nat, defs : Contents]
Kinds    == {"open", "change", "query"}

\* A document that is not open.
Closed == [ver |-> 0, defs |-> Unparsed]

ASSUME EditorAssumption ==
  /\ Prelude \in Docs
  /\ None \notin Forms
  /\ Drafts \subseteq Contents
  /\ Unparsed \notin [Macros -> Forms \cup {None}]
  /\ MaxMessages \in Nat /\ MaxSaves \in Nat /\ Workers \in Nat

Messages == 1..MaxMessages

VARIABLES text,      \* per document: DocumentStore
          gen,       \* per document: diag_generation
          shown,     \* per document: the version whose diagnostics the editor shows, or 0
          indexed,   \* per document: the version in the usage index, or 0
          served,    \* per macro: the first form the registry holds
          loaded,    \* base_loaded
          prelude,   \* what _prelude.st defines on disk
          owed,      \* the editor has not been told yet that it was written
          job,       \* per message: its handler
          stuck,     \* the thread waits for a shard that one of its own handlers holds
          raced,     \* at the last invalidation a load was under way that had read before a save
          crowded,   \* per document: when its last text came an earlier one waited for a load
          n, saves   \* messages and saves so far

docs == <<text, gen, shown, indexed>>
base == <<served, loaded, prelude, owed>>
vars == <<docs, base, job, stuck, raced, crowded, n, saves>>

NoJob == [at |-> "none", kind |-> "query", doc |-> Prelude, text |-> Closed,
          read |-> Unparsed, old |-> FALSE, gen |-> 0]

\* A handler that waits for the registry before it goes on with x, as a text of d.
Loading(kind, d, x) == [at |-> "loading", kind |-> kind, doc |-> d, text |-> x,
                        read |-> Unparsed, old |-> FALSE, gen |-> 0]

\* One whose load has read c.
HasRead(j, c) == [at |-> "read", kind |-> j.kind, doc |-> j.doc, text |-> j.text,
                  read |-> c, old |-> FALSE, gen |-> 0]

\* An edit of d that waits for the typing to pause.
Sleeping(d, g) == [at |-> "sleeping", kind |-> "query", doc |-> d, text |-> Closed,
                   read |-> Unparsed, old |-> FALSE, gen |-> g]

\* What the registry serves of a text that is parsed after s: index_file appends forms.
Registered(c, s) ==
  IF c = Unparsed THEN s ELSE [m \in Macros |-> IF s[m] = None THEN c[m] ELSE s[m]]

\* A plausible bug: what was there before the reload wins.
MergedBehind(c, s) == Registered(c, s)

\* ensure_base_registry: the fresh base first, every form there was behind it.
Merged(c, s) ==
  IF c = Unparsed THEN s ELSE [m \in Macros |-> IF c[m] = None THEN s[m] ELSE c[m]]

NoForms == [m \in Macros |-> None]

Init ==
  /\ text = [d \in Docs |-> Closed]
  /\ gen = [d \in Docs |-> 0] /\ shown = [d \in Docs |-> 0] /\ indexed = [d \in Docs |-> 0]
  /\ prelude \in Contents
  /\ served = Merged(prelude, NoForms)
  /\ loaded = TRUE /\ owed = FALSE
  /\ job = [t \in Messages |-> NoJob]
  /\ stuck = FALSE /\ raced = FALSE
  /\ crowded = [d \in Docs |-> FALSE]
  /\ n = 0 /\ saves = 0

-----------------------------------------------------------------------------
(* Handlers.                                                               *)

Waiting(t) == job[t].at \in {"loading", "read"}
Running == {t \in Messages : job[t].at # "none"}

\* A handler that waits for the registry keeps a reference into d's shard.
Held(d) == \E t \in Messages : /\ Waiting(t) /\ job[t].kind = "query"
                               /\ ShardOf[job[t].doc] = ShardOf[d]

\* A text of d waits for the registry before it can be indexed.
Behind(d) == \E t \in Messages : Waiting(t) /\ job[t].kind # "query" /\ job[t].doc = d

\* The next message is taken from the wire.
Arrive ==
  /\ ~stuck
  /\ n < MaxMessages /\ n' = n + 1
  /\ Cardinality(Running) < Workers

\* A plausible bug: a text is indexed once, as files on disk are.
IndexedOnce(d, x) == IF x.defs = Unparsed \/ indexed[d] # 0 THEN indexed
                     ELSE [indexed EXCEPT ![d] = x.ver]

\* A text that does not parse leaves the index as it was; versions are not compared.
Indexed(d, x) == IF x.defs = Unparsed THEN indexed ELSE [indexed EXCEPT ![d] = x.ver]

\* A plausible bug: the generation is taken before the counter is advanced.
BumpedLate(d) == gen[d]

Bumped(d) == gen[d] + 1

\* publish_diagnostics_for: the document as it is now, nothing if it is closed.
Publish(d) == shown' = [shown EXCEPT ![d] = text'[d].ver]

\* The rest of a handler once the registry is there, with s in it.
Continue(t, kind, d, x, s) ==
  \/ /\ kind = "query"
     /\ served' = s
     /\ job' = [job EXCEPT ![t] = NoJob]
     /\ UNCHANGED <<gen, shown, indexed>>
  \/ /\ kind = "open"
     /\ served' = Registered(x.defs, s)
     /\ indexed' = Indexed(d, x)
     /\ Publish(d)
     /\ job' = [job EXCEPT ![t] = NoJob]
     /\ UNCHANGED gen
  \/ /\ kind = "change"
     /\ served' = Registered(x.defs, s)
     /\ indexed' = Indexed(d, x)
     /\ gen' = [gen EXCEPT ![d] = @ + 1]
     /\ job' = [job EXCEPT ![t] = Sleeping(d, Bumped(d))]
     /\ UNCHANGED shown

\* ensure_base_registry returns at once or spawns a load of its own.
Begin(kind, d, x, ready) ==
  IF ready THEN Continue(n', kind, d, x, served)
  ELSE /\ job' = [job EXCEPT ![n'] = Loading(kind, d, x)]
       /\ UNCHANGED <<served, gen, shown, indexed>>

Invalidate ==
  /\ loaded' = FALSE
  /\ raced' = \E t \in Messages : job[t].old

Text(d, x) == /\ text' = [text EXCEPT ![d] = x]
              /\ crowded' = [crowded EXCEPT ![d] = Behind(d)]

\* did_open
Open(d) ==
  /\ Arrive /\ ~Held(d)
  /\ text[d] = Closed
  /\ \E c \in Drafts : LET x == [ver |-> n', defs |-> c]
                       IN Text(d, x) /\ Begin("open", d, x, loaded)
  /\ UNCHANGED <<loaded, prelude, owed, stuck, raced, saves>>

\* did_change: the whole text; an edit of the prelude invalidates the registry.
Change(d) ==
  /\ Arrive /\ ~Held(d)
  /\ text[d] # Closed
  /\ IF d = Prelude THEN Invalidate ELSE UNCHANGED <<loaded, raced>>
  /\ \E c \in Drafts : LET x == [ver |-> n', defs |-> c]
                       IN Text(d, x) /\ Begin("change", d, x, loaded /\ d # Prelude)
  /\ UNCHANGED <<prelude, owed, stuck, saves>>

\* did_close
Close(d) ==
  /\ Arrive /\ ~Held(d)
  /\ text[d] # Closed
  /\ text' = [text EXCEPT ![d] = Closed]
  /\ Publish(d)
  /\ UNCHANGED <<gen, indexed, base, job, stuck, raced, crowded, saves>>

\* completion, hover, goto_definition
Query(d) ==
  /\ Arrive
  /\ text[d] # Closed
  /\ Begin("query", d, text[d], loaded)
  /\ UNCHANGED <<text, loaded, prelude, owed, stuck, raced, crowded, saves>>

\* did_open, did_change and did_close write to the document store; the thread that would
\* have to let go of the shard is the one that waits for it.
Block(d) ==
  /\ Arrive /\ Held(d)
  /\ stuck' = TRUE
  /\ UNCHANGED <<docs, base, job, raced, crowded, saves>>

\* did_change_watched_files
Watched ==
  /\ ~stuck /\ owed
  /\ owed' = FALSE
  /\ Invalidate
  /\ UNCHANGED <<docs, served, prelude, job, stuck, crowded, n, saves>>

\* The blocking thread reads the prelude.
Load(t) ==
  /\ job[t].at = "loading"
  /\ job' = [job EXCEPT ![t] = HasRead(job[t], prelude)]
  /\ UNCHANGED <<docs, base, stuck, raced, crowded, n, saves>>

\* The handler gets what was loaded, merges it, sets the latch and goes on.
Resume(t) ==
  /\ ~stuck
  /\ job[t].at = "read"
  /\ loaded' = TRUE
  /\ UNCHANGED text
  /\ Continue(t, job[t].kind, job[t].doc, job[t].text, Merged(job[t].read, served))
  /\ UNCHANGED <<prelude, owed, stuck, raced, crowded, n, saves>>

\* A plausible bug: the text is taken before the quiet period and published after it.
WakeEarlierText(t) ==
  /\ ~stuck
  /\ job[t].at = "sleeping"
  /\ shown' = IF gen[job[t].doc] = job[t].gen
              THEN [shown EXCEPT ![job[t].doc] = IF text[job[t].doc] = Closed THEN 0 ELSE t]
              ELSE shown
  /\ job' = [job EXCEPT ![t] = NoJob]
  /\ UNCHANGED <<text, gen, indexed, base, stuck, raced, crowded, n, saves>>

\* The quiet period is over: the newest publishes, a superseded one returns.
Wake(t) ==
  /\ ~stuck
  /\ job[t].at = "sleeping"
  /\ UNCHANGED text
  /\ IF gen[job[t].doc] = job[t].gen THEN Publish(job[t].doc) ELSE UNCHANGED shown
  /\ job' = [job EXCEPT ![t] = NoJob]
  /\ UNCHANGED <<gen, indexed, base, stuck, raced, crowded, n, saves>>

\* _prelude.st is written, by the editor or by another tool.
Save ==
  /\ saves < MaxSaves
  /\ prelude' \in Contents \ {prelude}
  /\ owed' = TRUE
  /\ job' = [t \in Messages |-> IF job[t].at = "read" THEN [job[t] EXCEPT !.old = TRUE]
                                                    ELSE job[t]]
  /\ saves' = saves + 1
  /\ UNCHANGED <<docs, served, loaded, stuck, raced, crowded, n>>

-----------------------------------------------------------------------------
Handle(t) == Load(t) \/ Resume(t) \/ Wake(t)

Next == \/ \E d \in Docs : Open(d) \/ Change(d) \/ Close(d) \/ Query(d) \/ Block(d)
        \/ \E t \in Messages : Handle(t)
        \/ Watched \/ Save

\* Loads end, timers fire and the task is polled; the editor owes nothing.
Spec == Init /\ [][Next]_vars /\ \A t \in Messages : WF_vars(Handle(t))

-----------------------------------------------------------------------------
(* Properties.                                                             *)

\* Nothing is under way for d.
Quiet(d) == \A t \in Running : job[t].doc # d

\* The types of the state; version and generation counters never run ahead.
TypeOK ==
  /\ text \in [Docs -> Texts]
  /\ gen \in [Docs -> Nat] /\ shown \in [Docs -> Nat] /\ indexed \in [Docs -> Nat]
  /\ served \in [Macros -> Forms \cup {None}]
  /\ loaded \in BOOLEAN /\ owed \in BOOLEAN /\ stuck \in BOOLEAN /\ raced \in BOOLEAN
  /\ prelude \in Contents
  /\ job \in [Messages -> [at : {"none", "loading", "read", "sleeping"}, kind : Kinds,
                           doc : Docs, text : Texts, read : Contents, old : BOOLEAN, gen : Nat]]
  /\ crowded \in [Docs -> BOOLEAN]
  /\ n \in 0..MaxMessages /\ saves \in 0..MaxSaves

\* Once nothing is under way for a document the editor shows the diagnostics of the text
\* it has, and none if it is closed, in whatever order the waits of its opens, changes
\* and closes ended (diag_generation and publish_diagnostics_for).
DiagnosticsCurrent == \A d \in Docs : Quiet(d) => shown[d] = text[d].ver

\* Once nothing is under way for a document that parses, the usage index holds the text
\* the editor has, unless it came while an earlier one still waited for the registry
\* (index_content compares no versions).
IndexCurrentUnlessCrowded ==
  \A d \in Docs : Quiet(d) /\ text[d].defs # Unparsed /\ ~crowded[d] => indexed[d] = text[d].ver

\* While the registry counts as loaded, every macro _prelude.st defines is served as it is
\* defined there, redefined ones included, unless a save has not been reported yet or was
\* reported while a load was under way that had read the file before it.
ServedAsDefined ==
  loaded /\ ~owed /\ ~raced /\ prelude # Unparsed =>
    \A m \in Macros : prelude[m] # None => served[m] = prelude[m]

\* The editor gets the diagnostics of every text that stays, however many edits came
\* before it, unless the thread has blocked itself.
DiagnosticsCatchUp ==
  \A d \in Docs : shown[d] # text[d].ver ~> (shown[d] = text[d].ver \/ stuck)

\* What ensure_base_registry is on a blocking thread for: "so the reactor is never stalled
\* by the first (or a cold-cache) load".
ReactorNeverStalled == ~stuck
===============================================================================
