------------------------------- MODULE HotReload -------------------------------
(***************************************************************************)
(* The dev loop of `spacetime serve`: the watcher's debounce and hash check *)
(* (watcher.rs), the task that compiles every change in turn and writes     *)
(* build-status.json (main.rs, server.rs), the two compile caches in front  *)
(* of the compiler (server.rs, compiler.rs), and the browsers that reload   *)
(* when told to (dev_server.rs), except after an edit through the server.   *)
(*                                                                         *)
(* The content of a file is a version number, a hash is the content it     *)
(* hashes, and a compile yields what it read. Time is left out: a debounce *)
(* or a suppression window ends at any moment. Files are saved, never      *)
(* removed; stat and read of a cache key are one step, and so are reading  *)
(* the imports and filling the compile cache.                              *)
(***************************************************************************)
EXTENDS Naturals, Sequences

CONSTANTS
    Entry,       \* the site's default entry
    Imports,     \* files it imports
    Browsers,
    Loop,        \* the task that owns every proactive compile
    QueueSize,   \* capacity of the watcher's broadcast channel
    MaxSaves,    \* bound: saves of files
    Reverts,     \* TRUE: a save may restore an earlier content
    Broken,      \* contents that do not parse
    None

ASSUME ReloadAssumption ==
    /\ Entry \notin Imports
    /\ Loop \notin Browsers
    /\ QueueSize \in Nat \ {0}
    /\ MaxSaves \in Nat
    /\ Reverts \in BOOLEAN

Files    == Imports \union {Entry}
Jobs     == Browsers \union {Loop}
Versions == 0..MaxSaves
Sources  == [Files -> Versions]

VARIABLES
    disk,       \* disk[f]: the content of f
    mtime,      \* modification time of the entry: the save that wrote it
    saves,      \* saves so far
    pending,    \* watcher: files with an event that waits out the debounce
    known,      \* watcher: file_hashes
    queue,      \* changes the loop has not received
    lagged,     \* the channel has overwritten a change the loop has not received
    change,     \* the change the loop is at; None: none, or the compile at boot
    build,      \* the hash the loop took of the entry; raced: it changed since
    status,     \* build-status.json, with the raced of its build
    job,        \* job[j]: where the compile of the loop, or of a tab, is
    devCache,   \* DevCompileCache, the entry page's slot
    memo,       \* CompileCache: one result by the hash of the entry
    tab,        \* tab[b]: browser b's page and socket
    editing,    \* a file an EditAst wrote whose suppression is not recorded yet
    suppressed  \* suppress_reload: files written by an EditAst just now

diskVars  == <<disk, mtime, saves>>
watchVars == <<pending, known, queue, lagged>>
loopVars  == <<change, build, status>>
jobVars   == <<job, devCache, memo>>
editVars  == <<editing, suppressed>>
vars == <<diskVars, watchVars, loopVars, jobVars, tab, editVars>>

Key    == [mtime : Versions, hash : Versions]
Out    == [code : Sources, checked : Sources]
Build  == [hash : Versions, raced : BOOLEAN]
Status == [hash : Versions, out : Out, raced : BOOLEAN]
Cached == [key : Key, out : Out]
Memo   == [src : Versions, code : Sources]

ASSUME NoneAssumption ==
    /\ None \notin Files \union Versions
    /\ None \notin Build
    /\ None \notin Status
    /\ None \notin Cached
    /\ None \notin Memo

\* A job holds what the steps before it have read.
At(step) == [step |-> step]
Job == [step : {"idle", "hash", "lookup", "announce", "ended"}]
       \union [step : {"read"}, key : Key]
       \union [step : {"compile"}, key : Key, src : Versions]
       \union [step : {"check"}, key : Key, code : Sources]
       \union [step : {"answer"}, out : Out]

\* A tab: the changes its send loop has not taken; missed: a change was
\* announced between the start of the load and the opening of the socket;
\* muted: a change was withheld from it.
Closed == [conn |-> "closed"]
Tab == {Closed}
       \union [conn : {"loading"}, missed : BOOLEAN]
       \union [conn : {"loaded"}, missed : BOOLEAN, page : Sources]
       \union [conn : {"open"}, page : Sources, inbox : Seq(Files),
               missed : BOOLEAN, muted : BOOLEAN]

IsOpen(b) == tab[b].conn = "open"

TypeOK ==
    /\ disk \in Sources
    /\ mtime \in Versions
    /\ saves \in Versions
    /\ pending \subseteq Files
    /\ known \in [Files -> Versions \union {None}]
    /\ queue \in Seq(Files)
    /\ Len(queue) <= QueueSize
    /\ lagged \in BOOLEAN
    /\ change \in Files \union {None}
    /\ build \in Build \union {None}
    /\ status \in Status \union {None}
    /\ job \in [Jobs -> Job]
    /\ devCache \in Cached \union {None}
    /\ memo \in Memo \union {None}
    /\ tab \in [Browsers -> Tab]
    /\ editing \in Files \union {None}
    /\ suppressed \subseteq Files

Original == [f \in Files |-> 0]

\* The loop starts with the compile at boot.
Init ==
    /\ disk = Original
    /\ mtime = 0
    /\ saves = 0
    /\ pending = {}
    /\ known = [f \in Files |-> None]
    /\ queue = <<>>
    /\ lagged = FALSE
    /\ change = None
    /\ build = None
    /\ status = None
    /\ job = [j \in Jobs |-> IF j = Loop THEN At("hash") ELSE At("idle")]
    /\ devCache = None
    /\ memo = None
    /\ tab = [b \in Browsers |-> Closed]
    /\ editing = None
    /\ suppressed = {}

Goto(j, state) == job' = [job EXCEPT ![j] = state]
Is(j, step)    == job[j].step = step

-----------------------------------------------------------------------------
(* Writers *)

\* The file system raises a Modify event even if the content stays the same.
Write(f, v) ==
    /\ saves < MaxSaves
    /\ saves' = saves + 1
    /\ disk' = [disk EXCEPT ![f] = v]
    /\ mtime' = IF f = Entry THEN saves + 1 ELSE mtime
    /\ pending' = pending \union {f}
    /\ build' = IF build # None /\ f = Entry /\ v # disk[Entry]
                THEN [build EXCEPT !.raced = TRUE] ELSE build
    /\ UNCHANGED <<known, queue, lagged, change, status, jobVars, tab, suppressed>>

\* External: an editor or a generator saves f.
Save(f) ==
    /\ \E v \in Versions : (Reverts \/ v \in {disk[f], saves + 1}) /\ Write(f, v)
    /\ UNCHANGED editing

\* handle_edit_ast for some client: the file is written ...
EditAst(f) ==
    /\ editing = None
    /\ editing' = f
    /\ Write(f, saves + 1)

\* ... and the suppression recorded once the client has its Ack.
RecordSuppression ==
    /\ editing # None
    /\ suppressed' = suppressed \union {editing}
    /\ editing' = None
    /\ UNCHANGED <<diskVars, watchVars, loopVars, jobVars, tab>>

Expire(f) ==
    /\ f \in suppressed
    /\ suppressed' = suppressed \ {f}
    /\ UNCHANGED <<diskVars, watchVars, loopVars, jobVars, tab, editing>>

-----------------------------------------------------------------------------
(* The watcher *)

\* Mutant: an event is dropped while the loop compiles.
EmitIfIdle(f) ==
    /\ f \in pending
    /\ pending' = pending \ {f}
    /\ known' = [known EXCEPT ![f] = disk[f]]
    /\ queue' = IF known[f] # disk[f] /\ queue = <<>> /\ Is(Loop, "idle") THEN <<f>> ELSE queue
    /\ UNCHANGED <<diskVars, lagged, loopVars, jobVars, tab, editVars>>

\* The debounce of f is over: report it unless the hash is the known one. A
\* full channel overwrites its oldest change.
Emit(f) ==
    /\ f \in pending
    /\ pending' = pending \ {f}
    /\ known' = [known EXCEPT ![f] = disk[f]]
    /\ IF known[f] = disk[f]
       THEN UNCHANGED <<queue, lagged>>
       ELSE /\ queue' = Append(IF Len(queue) = QueueSize THEN Tail(queue) ELSE queue, f)
            /\ lagged' = (lagged \/ Len(queue) = QueueSize)
    /\ UNCHANGED <<diskVars, loopVars, jobVars, tab, editVars>>

-----------------------------------------------------------------------------
(* The loop: one change after the other *)

Receive ==
    /\ Is(Loop, "idle")
    /\ ~lagged
    /\ queue # <<>>
    /\ change' = Head(queue)
    /\ queue' = Tail(queue)
    /\ Goto(Loop, At("hash"))
    /\ UNCHANGED <<diskVars, pending, known, lagged, build, status, devCache, memo, tab,
                   editVars>>

\* recv() returns Lagged: `while let Ok(change)` ends, and the loop with it.
EndLoop ==
    /\ Is(Loop, "idle")
    /\ lagged
    /\ Goto(Loop, At("ended"))
    /\ UNCHANGED <<diskVars, watchVars, loopVars, devCache, memo, tab, editVars>>

\* compile_default_entry_with_status hashes the entry before compiling.
HashEntry ==
    /\ Is(Loop, "hash")
    /\ build' = [hash |-> disk[Entry], raced |-> FALSE]
    /\ Goto(Loop, At("lookup"))
    /\ UNCHANGED <<diskVars, watchVars, change, status, devCache, memo, tab, editVars>>

\* build-status.json is replaced by a rename.
Report ==
    /\ Is(Loop, "answer")
    /\ status' = [hash |-> build.hash, out |-> job[Loop].out, raced |-> build.raced]
    /\ build' = None
    /\ Goto(Loop, At(IF change = None THEN "idle" ELSE "announce"))
    /\ UNCHANGED <<diskVars, watchVars, change, devCache, memo, tab, editVars>>

Announce ==
    /\ Is(Loop, "announce")
    /\ tab' = [b \in Browsers |->
                  CASE IsOpen(b) -> [tab[b] EXCEPT !.inbox = Append(@, change)]
                    [] tab[b].conn \in {"loading", "loaded"} -> [tab[b] EXCEPT !.missed = TRUE]
                    [] OTHER -> tab[b]]
    /\ change' = None
    /\ Goto(Loop, At("idle"))
    /\ UNCHANGED <<diskVars, watchVars, build, status, devCache, memo, editVars>>

-----------------------------------------------------------------------------
(* get_or_compile, for the loop and for the requests of a page *)

CurrentKey == [mtime |-> mtime, hash |-> disk[Entry]]

\* Mutant: whatever the cache holds for the entry is taken.
LookupAnyKey(j) ==
    /\ Is(j, "lookup")
    /\ Goto(j, IF devCache # None
               THEN [step |-> "answer", out |-> devCache.out]
               ELSE [step |-> "read", key |-> CurrentKey])
    /\ UNCHANGED <<diskVars, watchVars, loopVars, devCache, memo, tab, editVars>>

Lookup(j) ==
    /\ Is(j, "lookup")
    /\ Goto(j, IF devCache # None /\ devCache.key = CurrentKey
               THEN [step |-> "answer", out |-> devCache.out]
               ELSE [step |-> "read", key |-> CurrentKey])
    /\ UNCHANGED <<diskVars, watchVars, loopVars, devCache, memo, tab, editVars>>

ReadEntry(j) ==
    /\ Is(j, "read")
    /\ Goto(j, [step |-> "compile", key |-> job[j].key, src |-> disk[Entry]])
    /\ UNCHANGED <<diskVars, watchVars, loopVars, devCache, memo, tab, editVars>>

\* What job j compiles: the entry as it read it, the imports as they are.
Input(j) == [disk EXCEPT ![Entry] = job[j].src]

Parses(sources, files) == \A f \in files : sources[f] \notin Broken

\* Compiler::compile: the memo is keyed by the hash of the entry alone.
Compile(j) ==
    /\ Is(j, "compile") /\ Parses(Input(j), Files)
    /\ LET src  == job[j].src
           code == IF memo # None /\ memo.src = src THEN memo.code ELSE Input(j)
       IN /\ memo' = [src |-> src, code |-> code]
          /\ Goto(j, [step |-> "check", key |-> job[j].key, code |-> code])
    /\ UNCHANGED <<diskVars, watchVars, loopVars, devCache, tab, editVars>>

Store(j, key) ==
    /\ Is(j, "check") /\ Parses(disk, {Entry})
    /\ LET out == [code |-> job[j].code, checked |-> disk]
       IN /\ devCache' = [key |-> key, out |-> out]
          /\ Goto(j, [step |-> "answer", out |-> out])
    /\ UNCHANGED <<diskVars, watchVars, loopVars, memo, tab, editVars>>

\* Mutant: the result is stored under the file's key of this moment.
StoreUnderLateKey(j) == Store(j, CurrentKey)

\* The diagnostics are made from a second reading; then the result is cached.
CheckAndStore(j) == Store(j, job[j].key)

\* A parse error in the first reading, imports included, or in the second: the
\* error is the result, and nothing is cached.
Fail(j) ==
    /\ \/ Is(j, "compile") /\ ~Parses(Input(j), Files)
       \/ Is(j, "check") /\ ~Parses(disk, {Entry})
    /\ LET culprit == IF Is(j, "compile") THEN Input(j) ELSE disk
       IN Goto(j, [step |-> "answer", out |-> [code |-> culprit, checked |-> culprit]])
    /\ UNCHANGED <<diskVars, watchVars, loopVars, devCache, memo, tab, editVars>>

-----------------------------------------------------------------------------
(* Browsers *)

Load(b) ==
    /\ tab' = [tab EXCEPT ![b] = [conn |-> "loading", missed |-> FALSE]]
    /\ Goto(b, At("lookup"))
    /\ UNCHANGED <<diskVars, watchVars, loopVars, devCache, memo, editVars>>

\* External: a user opens the page, or the socket breaks, upon which the
\* page's script reloads it.
Open(b) == tab[b].conn \in {"closed", "open"} /\ Load(b)

Deliver(b) ==
    /\ Is(b, "answer")
    /\ tab[b].conn = "loading"
    /\ tab' = [tab EXCEPT ![b] = [conn |-> "loaded", missed |-> tab[b].missed,
                                  page |-> job[b].out.code]]
    /\ Goto(b, At("idle"))
    /\ UNCHANGED <<diskVars, watchVars, loopVars, devCache, memo, editVars>>

\* handle_socket subscribes to the changes from now on.
Connect(b) ==
    /\ tab[b].conn = "loaded"
    /\ tab' = [tab EXCEPT ![b] = [conn |-> "open", page |-> tab[b].page, inbox |-> <<>>,
                                  missed |-> tab[b].missed, muted |-> FALSE]]
    /\ UNCHANGED <<diskVars, watchVars, loopVars, jobVars, editVars>>

\* The send loop of b's socket: a Reload for a change that is not suppressed.
Reload(b) ==
    /\ IsOpen(b) /\ tab[b].inbox # <<>>
    /\ Head(tab[b].inbox) \notin suppressed
    /\ Load(b)

\* The map of suppressed files is the server's: it does not know who edited.
Withhold(b) ==
    /\ IsOpen(b) /\ tab[b].inbox # <<>>
    /\ Head(tab[b].inbox) \in suppressed
    /\ tab' = [tab EXCEPT ![b] = [conn |-> "open", page |-> tab[b].page,
                                  inbox |-> Tail(tab[b].inbox),
                                  missed |-> tab[b].missed, muted |-> TRUE]]
    /\ UNCHANGED <<diskVars, watchVars, loopVars, jobVars, editVars>>

-----------------------------------------------------------------------------
LoopStep == Receive \/ EndLoop \/ HashEntry \/ Report \/ Announce
JobStep(j) == Lookup(j) \/ ReadEntry(j) \/ Compile(j) \/ CheckAndStore(j) \/ Fail(j)
TabStep(b) == Deliver(b) \/ Connect(b) \/ Reload(b) \/ Withhold(b)

Next ==
    \/ LoopStep
    \/ RecordSuppression
    \/ \E f \in Files : Save(f) \/ EditAst(f) \/ Expire(f) \/ Emit(f)
    \/ \E j \in Jobs : JobStep(j)
    \/ \E b \in Browsers : Open(b) \/ TabStep(b)

SafeSpec == Init /\ [][Next]_vars

\* The loop, the watcher's timer, and each page's requests and script run;
\* writers and users owe nothing.
Spec ==
    /\ SafeSpec
    /\ WF_vars(LoopStep \/ JobStep(Loop))
    /\ \A f \in Files : WF_vars(Emit(f))
    /\ \A b \in Browsers : WF_vars(JobStep(b) \/ TabStep(b))

-----------------------------------------------------------------------------
(* Properties *)

\* "`ok` and `diagnostics` are the compile verdict for THAT content": the
\* status speaks of the content whose hash it carries ("never a false ok").
VerdictIsForHash ==
    status # None => status.out.code[Entry] = status.hash
                     /\ status.out.checked[Entry] = status.hash

\* The same for builds during which nobody changed the entry, however the
\* caches were filled, by the loop or by the request of a page.
VerdictUnlessRaced == status # None /\ ~status.raced => VerdictIsForHash

Fresh == [code |-> disk, checked |-> disk]

\* "On every watched file change, the dev server compiles the site's default
\* entry": the status comes to describe what is on disk, unless the channel
\* overflows.
BuildCatchesUp ==
    <>[](lagged \/ (status # None /\ status.out = Fresh /\ status.hash = disk[Entry]))

UpToDate(b) == IsOpen(b) => tab[b].page = disk \/ tab[b].missed \/ lagged

\* Once nobody writes any more, no browser with an open socket keeps an old
\* page: "the file watcher detects the change and sends a Reload message to
\* all clients". A change announced between the load of a page and the opening
\* of its socket is an exception, and so is one withheld after an EditAst.
BrowsersCatchUpUnlessMuted ==
    \A b \in Browsers : <>[](IsOpen(b) => UpToDate(b) \/ tab[b].muted)
=============================================================================
