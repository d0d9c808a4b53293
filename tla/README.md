# Spacetime in TLA+

Spacetime is a language for web pages: a Rust compiler, a dev server that
compiles, previews, edits and deploys a site, a JavaScript runtime and standard
library that run in the page, and an Elixir bridge to Phoenix LiveView. The
compiler is a large sequential program. What is hard to get right, and hard to
test, sits around it: pushes, edits and calls in which several tasks, timers,
browsers and a host act on the same state. This directory models those parts.

All paths below are relative to the repository (`src/` in PROJECT.json is its
root, so `src/host_push_v2.rs` is `src/src/host_push_v2.rs` there).

## 1. Inventory

| Component | State | Operations | What is hard | What makes it correct |
|---|---|---|---|---|
| Deploy push v2, in-flight slot (`src/host_push_v2.rs`) | `IN_FLIGHT`: one `InFlightPush` (prepared artifact, pending uploads, grace handle) per process | `push` (headless), `widget_start`, `widget_complete`, grace timer, `finalize_widget_push` | the lock is released over a build of seconds and between taking the slot and storing the timer handle; a silent widget; a timer racing the last report; disconnects | one push at a time; the slot is always released; nothing is committed whose blobs are missing; the progress chip settles |
| Progress hub (`src/host_push_v2.rs`) | latest frame, broadcast channel of 64 | `publish`, `subscribe`, `settle_snapshot`, SSE stream | store and send are two steps, snapshot and subscription are two steps; lag; dead producers | a stream ends up at the latest frame; a dead push is not shown as running |
| Artifact cache (`src/host_push_v2.rs`, `src/export/artifact.rs`) | three files in `.spacetime` | `prepare`, `persist_cache`, `load_cached_*`, `fingerprint`, `changed_files` | files change during the build; the cache files are written one by one; crashes | a hit pushes what the site contains; the cached manifest is one the host has |
| Signal-call primitive (`stdlib/primitives/signal.st`, `signal-handler.st`) | per signal: pending, error, inFlight, queueTail, activeCount, generation; per handler: latestGeneration | `fire`, reply, failure, timeout, retry, `cancel` | races of calls under four policies and three transports; re-entrant fires | each policy's promise; pending never hangs |
| Sync edit protocol (`src/sync/handlers.rs`, `protocol.rs`) | the source files, `source_write_lock` | JSON, array, HTML, AST, content, token, motion edits | one rail locks and checks what its client was shown, the others read, patch and write; a write truncates first; array indexes drift | an accepted edit is one edit of the text it read; guarded ones edit what was shown |
| Dev server websocket (`src/dev_server.rs`) | client registry, reload suppression map | connect, edit message, send loop | suppression is recorded after the write, for all clients, for 500 ms | an open page is not left behind what is on disk |
| File watcher (`src/watcher.rs`) | content hashes, pending events, channel of 100 | debounce, hash check, broadcast | coalescing of different event kinds; lag | a last change is reported |
| Realtime runtime (`public/runtime/realtime.js`) | subscriptions with items, pending operations and the items before them; presence | connect, subscribe, insert, update, delete, ack, reject, events, snapshot | optimistic items against rejects, other pages and a socket that closes | a page that is told everything shows the server's list |
| Collection primitive (`stdlib/primitives/data/collection.st`, `stdlib/__dev__`) | per page: the array mutators plan on and the registry that is rendered; callbacks of refused operations | append, insert, remove, move, update and their inverses; the JSON file behind them | plans race broadcasts, refusals undo by index, the file is truncated and rewritten by several tasks | pages and file end up the same |
| LiveView bridge (`elixir/spacetime_phoenix`) | pending events, ephemeral payloads | pushEvent, pushEphemeral, stream dispatch | reconnects | each reply reaches its call |
| Dev compile caches, build status (`src/server.rs`, `src/compiler.rs`, `src/main.rs`) | compiled result by mtime and hash; one result by hash; `build-status.json` | `get_or_compile`, `compile`, the loop that compiles every change | the entry is read four times, by the loop and by requests, and may be written in between | the status speaks of the content it names; it catches up with the disk |
| Comments, migrations, save (`src/comments.rs`, `mcp/tools.rs`, `migrate.rs`, `server.rs`) | `//@` headers in sources, one sidecar record per comment, `comment_write_lock` | add, update, re-anchor, dismiss, prune by pills, agents in another process and the socket | two locks, writers without one, authorisations that age | only settled comments are destroyed; no accepted reply is lost; histories are linked |
| Stdlib cache (`src/metasystem/incremental_cache.rs`) | memo by hash | get, insert | staleness | a hit equals a fresh expansion |
| LSP server and workspace (`src/lsp`) | open documents, diagnostics generations, usage index, registry of macros with its latch, dependency graph | open, change, close, watched files, completion, hover, definition | handlers overlap in one task; registry loads and a debounce are real waits; references are kept over them | diagnostics and index of the current text; the prelude served as it is; the thread never waits for itself |
| MCP sessions (`src/mcp`) | session map | tool calls | one lock | - |
| Editable kernel, JS core, compiler, export, test runner, CDP, wasm, grammars | - | - | data transformations or plain I/O | - |

Interactions that matter here: the dev server's HTTP handlers call `push` and the
`widget_*` functions; those publish on the hub; the browser's deploy chip follows
the hub over server-sent events and drives the uploads; the push reads and writes
the cache; the host (a remote service) answers init, upload and commit requests.
In the page, `@on` and `@effect` handlers fire signals, whose replies run handlers,
which may fire signals. The realtime and LiveView channels carry both. A saved file reaches the
watcher, which tells the loop, which compiles, writes the status and tells every open socket;
the pages reload through the same compile caches the loop has just filled.

PROJECT.json lists every component with its status, and every hazard at its line.

## 2. Modules

| Module | Models | Kind |
|---|---|---|
| `PushSlot` | what the in-flight slot promises | abstract specification |
| `WidgetPush` | the push state machine | detailed; implements `PushSlot` through `Slot == INSTANCE PushSlot WITH ...` |
| `WidgetPushProofs` | theorems about `WidgetPush` | proofs |
| `PushHub` | the progress hub and its streams | detailed |
| `PushCache` | the artifact cache | detailed |
| `PushProofs` | theorems about `PushHub` and `PushCache` | proofs |
| `SignalCall` | the signal-call primitive and a handler scope | detailed |
| `Realtime` | the realtime runtime on several pages | detailed |
| `RuntimeProofs` | theorems about `SignalCall` and `Realtime` | proofs |
| `HotReload`, `HotReloadProofs` | the dev loop: watcher, compile loop, caches, build status, reloads; theorems | detailed; proofs |
| `SerialEdit` | what the write rails of a source file promise: one edit at a time | abstract specification |
| `SourceEdit`, `SourceEditProofs` | the write rails of one `.st` file; theorems | detailed; implements `SerialEdit`; proofs |
| `Collection`, `CollectionProofs` | `@data collection` on several pages, the bridge and the `EditJsonArray` handler; theorems | detailed; proofs |
| `Comments`, `CommentsProofs` | comment records and headers and their four kinds of writers; theorems | detailed; proofs |
| `EditorServer`, `EditorServerProofs` | the language server; theorems | detailed; proofs |
| `MC*` | values for the constants of a run | model checking |

### WidgetPush
A push is one call of `widget_start` or, in `Headless`, of `push`. `phase[p]`
follows its task: `checked` (slot looked at), `building` (prepare and init),
`uploading` (the loop over blobs the server uploads itself), `held` (in the slot,
with the widget), `taken` and `takeover` (out of the slot, finished by a report or by
a grace timer), `committing`, `probing`. Actions are cut where the code releases
the `IN_FLIGHT` mutex or awaits the host. `tail[p]` is the end of `widget_start` after the
slot was taken: spawn the timer, then store its handle in a second critical section,
in whatever flight is in the slot by then (`AttachGrace`). `timer`, `grace` and
`tending` keep apart three things the code has under one name: the timer a push
spawned, the handle its flight holds, and the push a timer's task took over.

Abstractions: blob contents are hashes; time is the order of timers; the two
error enums are "failed". `probe_preview` ends either way, as in the code. A
commit that failed may have been applied (lost answer). `WidgetPut` and the report's
content are external: a widget may report anything, at any time, and repeatedly.

### PushHub
`publish` is two steps (`StoreFrame`, `SendFrame`); so is `subscribe` (`ReadSnapshot`,
`Join`). A frame is its number, whether its type is an active one, and its time. The channel
is the log of all frames with a cursor per stream; a stream that is more than
`Capacity` behind can only end (`RecvError::Lagged`), and the browser's EventSource
opens a new one. `Die` is a handler that is dropped or panics.

### PushCache
A hash is the number of the tree it is taken of, in the order trees are first met (`trees`), so equal
trees have equal hashes and others do not. The tree covers the source files and the cache files
(`fingerprint_rec` skips only dist, .git, node_modules and target); so writing the cache changes the
fingerprint, and of pushes that follow one another none finds its own (`SkipNeverTaken`). Overlapping ones may. One step per read,
build, commit and cache-file write, with edits between any two, failures (`Abort`), and,
with `Crashes`, a server that dies between the writes. `overlapped` is a history
variable: some push was started while another one ran. The rebuild of `prepare` for a
host that lost a blob it once had is not modelled.

### SignalCall
A call is its generation. `fire` takes it, then dispatches ':fire', and counts the call
after that; a clause that runs in the event may fire or cancel again. So calls nest like a stack: `firing` is a call
whose event the handler scope has not heard, `heard` one it has, and only the one on `Top` moves. `counted` is `activeCount` by its
members, `line` the chain of `queueTail`. `waiting` is an attempt on the wire, `doomed` one whose
controller was aborted and `replied` one whose reply was published, both with the
promise reaction still to run; a settled call stays counted until its `settle` reaction (`Uncount`). `NewTask` says that promise reactions run
before the next macrotask; a fire or a cancel may come first, since reply handlers and
user handlers run synchronously inside a task and may do either. `thrown` is a call whose payload `JSON.stringify` refused. The flags
(`pending`, `error`, `inFlight`) are the signal's, as in the code. `late` remembers
ws attempts that timed out: their replies come back without a pending entry and are
published as server pushes, which carry no generation. `reentered` and `nested` are history. Streams and ephemeral sends
have no call and are left out; so are the body template and the arm decoder.

### HotReload
One job per compile: the loop's and one for each browser that loads the page, cut where the
code reads the file (`HashEntry`, `Lookup`, `ReadEntry`, `CheckAndStore`) or locks a cache.
`job[j]` is a record with what the steps before it have read; `tab[b]` likewise goes
from closed to loading, loaded and open. A file's content is a version number, a hash is the
content it hashes, a modification time is the number of the save, so two saves never share
one. The verdict of a compile is what it was made from: the code from the first reading, the
diagnostics from the second. A content in `Broken` does not parse, which ends the compile with an error. `memo` is `CompileCache` (keyed by the entry's text alone), `devCache`
the entry's slot of `DevCompileCache`. The debounce and the 500 ms of the suppression end at any moment.
A page is one request here; its HTML, CSS and JS are three in the code. Left out: created and
removed files (always reported), vendored blobs (a constant part of the key), the
`DataUpdate` broadcasts. `raced`, `missed` and `muted` are history.

### SourceEdit
The file is a sequence of lines, a line a property and its value; what a patch looks like in bytes
is left out. A client's edit is handled by the task of its connection (`pc`): it takes the
lock on the span rail (`Lock`), reads and checks its guards (`Read`), opens the file, which empties it
(`Open`), fills it over whatever is there by then (`Write`), answers. The four rails
differ in what they address: a span and a `data-st-id` say where the text was when the client was shown
it, a name is its first declaration, a motion parameter an occurrence by number. `raced` is history: the file changed
under an edit after it read. `Content`, what a job has read while it has the file open and the file otherwise, is the
refinement mapping to `SerialEdit`. `Undisturbed` sessions use the span rail alone and the developer does not
save within an edit.

### Collection
A page has the array twice, `plan` and `view`, as in the code; as long as nothing was published there is no plan and the
registry stands in (`Current`). A page that loads fetches the file (`Load`, `Serve`, `Arrive`; `fetch` is how far that is) and
opens its socket (`Connect`) with nothing that orders the two. `conn` is the connection of its open socket. Messages and handlers belong to
connections: the task of one that was left goes on with what it has read and then hangs up. The opening of the socket and its
registration at the server are one step; a broadcast to a registered socket that the page has not opened yet lies in `inbox`. The task reads,
cleans what the operation brings (`Cleaned` is `sanitize_value_html`, `Sanitized` its effect on a content), applies it, writes in two steps, answers and
broadcasts; answer and broadcast to all pages are one step. An Ack leaves the callback in `pending`, since `collection.st` registers one for
refusals only; `heard` is what was answered, `Unheard` what was not. Index 0 stands for an index JavaScript accepts and serde does not
(`-1`, a string): such a message is not parsed and not answered. The collection is named as the basename of its file; with another name
its broadcasts would go to a registry entry nobody renders. `early`, `foreign`, `tangled`,
`refused`, `lost` and `overlapped` are history and say which promise the code does not make.

### Comments
A request is a job that reads, decides, writes or removes, each under the locks the code has at that
point; a prune goes file by file, re-reads, authorises and deletes headers under both locks. The deletion empties the file and fills it
(`Truncate`, `Fill`). A pill that dismisses or re-anchors looks for headers without the source lock and finds none in a file between the two steps
(`Torn`, `Blind`), which `touched` remembers as "torn". A record is its status, its anchor,
the pairs of its history and the replies; a reply is the number of its request; a file is its headers and the
number of the rest. Records are renamed into place and read whole. `touched[j]` collects who changed what `j`
decided on after it did, `clobbered` the comments one of whose writers had a stale record; `acked` is what was accepted. The developer
does not save a file between the two steps of its writing.

### Realtime
A socket is two queues per page, emptied when it closes. The server is not in the repository. What the model takes from how the
runtime uses it: it handles a page's messages in order, names new items, sends an event to every subscriber before it
acknowledges, rejects at will, and a snapshot is its list. A request for an item that is not shown leaves no trace on the page; it and its
serving are one step (`UpdateUnshown`, `DeleteUnshown`). Callers insert items without an id, as every caller in
the repository does. The `filter` of a delete is `Without`, which removes one item; no list holds two with
one id (`RealtimeListsAreSets`). `rolled` is history: a reject restored a copy of the list older than what came since.

### EditorServer
tower-lsp runs up to `Workers` handlers in one task, started in the order of the messages. So a handler
is a record (`job[t]`) that changes only where it really waits: for a load of the base registry on a blocking thread
(`Load` reads the prelude, `Resume` merges and goes on) and for the 150 ms of the debounce (`Wake`). `Begin` decides by the
latch `base_loaded` whether there is a wait. Completion, hover and definition keep a reference into the
document store while they wait (`Held`); the writers of the store then block the thread (`Block`), after which no handler moves. A
text is its version and the forms it defines per macro, or does not parse; `served` is the first form of each macro,
the one `get_directive` returns; one root; `initialize` is over. `raced` and
`crowded` are history. Left out: import resolution, the dependency graph, references and the scan at start.

## 3. Runs

| Run | Instance | Shows |
|---|---|---|
| `widget_push` | 2 pushes, a small and a presigned blob, 3 possible artifacts, no gaps, fairness | the chip settles, timers act on their own flight, take-overs finish; a push with a silent widget ends; the slot is given back (`PushSlot`, liveness included) |
| `widget_push_races` | 2 widget pushes and a headless one, disconnects, reports and timers in the unlocked gaps | the slot always has a timer; no blob is lost on the way to a commit |
| `push_hub` | 2 publishers, 1 browser, channel of 2, 4 frames | streams converge unless raced; stale frames stay dead |
| `push_cache` | 2 pushers, 3 pushes, 2 edits, crashes | the cache holds accepted manifests; pushes in turn push nothing stale and name every change |
| `signal_call` | 3 calls, 4 policies, 3 transports, timed or not, 1 retry, fires inside ':fire' and reply handlers, payloads that throw | the policies' promises; pending comes back; a drop signal can be fired again |
| `hot_reload` | a page without imports, 2 saves, one broken, 1 browser, channel of 1, fairness | an unraced build reports on the hashed content; status and browser end up at the disk's content |
| `source_edit` | 2 clients, 2 edits on any rail, 1 save, a file of 3 lines | guarded edits edit what was shown and are serial; on every rail an edit nobody raced is one edit; every edit is answered |
| `collection` | 2 pages, 3 connections, 2 operations, 1 page load or lost connection on one of them, a table of one row, contents that are cleaned | a page alone and pages among each other end up at the file; operations are answered |
| `comments` | 2 pills, an agent, a socket client, 2 inline comments in one file, one in another and a loose one, 2 requests, 1 save | only settled comments are destroyed, replies stay, histories are linked, no request waits for ever |
| `realtime` | 2 pages, 2 operations, 1 lost socket, 2 values | a page that is told everything shows the list; a reconnect heals |
| `editor_server` | the prelude and a page in one shard, 2 handlers, 4 messages, 1 save | diagnostics, index and prelude are current; diagnostics catch up |
| `editor_server_stalls` (violation) | the same with 4 handlers, the default of tower-lsp | the thread blocks itself on a document a completion has referenced |

Why these bounds are enough. The slot is a single cell, so two pushes give every
contest for it and a timer that outlives its push and meets another (the races run adds a
headless third); a small and a large blob give the three shapes an artifact can have (nothing for the
widget, everything, both). A channel of two with four frames lets a stream lag and
recover; two publishers give every order of stores and sends. Two pushers and three
pushes give a complete cache, a torn one and a push that reads it. Three calls let
the newest, a superseded and a re-entrant or nested call meet, and one retry gives the attempt that
is not the last. In `hot_reload` two saves and a channel of one let a save fall into every step of a
build, two changes coalesce, and the channel overflow; one browser suffices because tabs share only the
caches, which the loop fills too. Two writers and three lines, of which two declare the same name, give every order of two edits and every
wrong address. In `collection` two operations are one page pipelining or two pages meeting, and the trouble falls
anywhere; that it falls on one page (`MaxTroubles`) loses nothing, since the pages are alike at the start. Three connections give a page one to come back on while
the task of its old one still works. In `comments` the second request meets the first at any of its steps, in its own file or another one; two comments
in one file give a live one beside one whose header is being deleted. At the start the first two are resolved (`Starts`), so a request can delete what would take two to
settle. In `realtime` a second operation is needed for a reject to undo something; with three and no
closing it passes (3.5 million states). In `editor_server` four messages let an older text, a newer one and a query
wait for loads of their own; with three handlers it passes (1.07 million states, liveness included), and with
every possible text (6.1 million states, safety). `MaxFrames`, `MaxTime`, `MaxVersion`, `MaxPushes`, `MaxFires`, `MaxEdits`, `MaxOps`, `MaxTroubles`, `Starts`, `MaxRequests`, `MaxCloses`, `MaxMessages` and `MaxSaves` are bounds of
the runs and not of the code; the theorems hold for each value of them. Runs end when
the bounds are used up, hence CHECK_DEADLOCK FALSE.

Fairness. `WidgetPush!Fairness` lets each server task take its next step: every host
request has a hard timeout (`http_client`: 300 s, 10 s to connect), the probe has a number of
attempts, and tokio fires the grace timer; users, widgets and disconnects owe nothing.
`SignalCall!Spec` is fair to the rest of a `fire`, to promise reactions and to timers only: `NeverHangs` and `DropReopens` hold
because a timed attempt ends whatever the server does. `HotReload!Spec` is fair to the loop, to the
watcher's 10 ms tick, to each compile and to the page's script, which connects and reloads
by itself; saves, edits and users owe nothing, nor does a suppression have to end. `SourceEdit`, `Collection` and
`Comments` are fair to each handler, a tokio task (or an agent's tool call) that takes its next step when the lock it needs is free; weak
fairness is enough for a lock because requests are bounded, so that a waiting handler finds it free in the end (a tokio mutex is first come, first served). `Collection` and
`Realtime` are fair to the delivery on an open socket and to the reconnect timer. `EditorServer` is fair to loads,
timers and the resumption of handlers. No user, developer, client or editor owes anything.

Switches that a reader should know, each a constant:
* `Gaps`: reports and timers may fall into the stretches where the lock is free but the
  timer handle is not settled. With it `OwnTimerOnly` and `TakeoverNotAborted` fail. In practice the gap is microseconds against a grace
  window of seconds, so the other runs state what holds outside of it;
  `SlotHasTimer` and `CommitIsBacked` hold with it.
* `Disconnects`: a client that goes away drops the handler's future. It may leave the hub at
  an active frame until it goes stale, so `HubSettled` is stated without.
* `Headless`: a headless push publishes active frames and no error frame, so
  `HubSettled` is stated for widget pushes.
* `RailSets`, `SavesInGaps`: which rails the pages of a session may use, and whether the developer saves within the
  milliseconds of an edit.
* `Reverts`: an edit may bring an old content back. `ChangedIsComplete` and `NothingStaleInTurn` compare
  versions and need it off, in the run and as a hypothesis of their theorems: an
  edit made between fingerprint and build and undone after the push leaves a fingerprint
  that says "unchanged" beside a manifest with the edit. `CacheHoldsAccepted` and `SkipNeverTaken` are
  proved with it on. `HotReload` has the same switch: verdicts are
  proved with it on, while `BuildCatchesUp`, `BrowsersCatchUpUnlessMuted` and the theorems at rest need it off (section 5 says what happens otherwise).

## 4. Proofs

All theorems are checked by TLAPS for every value of the constants.

* `WidgetPushProofs`. The inductive invariant is `IndInv`: types; `SlotHasTimer`; a push takes the
  slot at most once (`ClaimedOnce`: the tail of `widget_start` has begun exactly for pushes past the slot); a
  timer's task tends only a push that left the slot and has not ended (`TendsTaken`); a
  handle stored in the wrong flight is that of a push already out of the slot
  (`StrayHandle`), which is why aborting it cannot disarm the holder; and
  `NoBlobLost`: every blob of the manifest is stored, vouched for, or on one of the two
  work lists. From it: `TypeCorrect`, `SlotNeverPoisoned`, `CommitsAreBacked`, and
  `SlotSafety`, the safety part of the refinement of `PushSlot`. With `~Gaps` and
  `~Disconnects`, `OwnInv` adds that a handle is in the flight of its own push:
  `OwnClock`, `TakeoversFinish`. With no headless pushes either: `ChipSettles`.
* `PushProofs`, the cache. `CacheInv`: a push past its commit has a manifest among the accepted ones; every hash is that of a
  tree met before, and no tree contains its own (`HashInv`); of pushes in turn only one is under way, and the cache is what that
  one hashed until it writes (`TurnInv`). Hence `CachedManifestAccepted` and `CacheTypeCorrect`, with
  reverts, crashes and overlaps, and `SkipNeverTaken`. With `~Reverts` nothing that was read is newer than the source
  (`AgeInv`), and in turn what is pushed is as new as what was hashed, which is as new as what is live; the tree named by
  `host-fingerprint.json` is as old as what is live whatever crashed or failed (`FreshInv`). Hence `PushesAreFresh` and
  `ChangedListComplete`.
* `PushProofs`, the hub. `HubInv` ties publishers, the latest frame and the channel; `StreamInv` says where a stream is: what
  it has still to yield was sent since it was opened (`SentSinceOpened`), and what it shows is a settled snapshot that is up to date
  until something newer is stored (`FromSnapshot`) or the frame it read last (`FromChannel`). Hence `TypeCorrect`, `StaleStaysDead`, `StreamsConverge`.
* `RuntimeProofs`, signal calls. `CallInv` ties the flags to the calls: generations are handed out in order and what is queued or
  under way counts (`FiredInOrder`); a pending flag is a call's that nothing has aborted (`PendingIsLive`);
  every chained call has its place in `line`, and before one that was sent nobody counts any more (`LineOrder`), which is all that keeps two queued calls apart however fires nest;
  without nesting the line is in the order fired (`LineAscends`);
  over http under `latest` the one call on the wire is the newest and `inFlight` holds its controller, until a
  handler re-enters or nests (`HeldIsNewest`); the handler knows the newest generation once it has heard of it, and late replies exist
  over ws only (`HandlerKnows`). From it `PendingSettles`, `QueueSerializes`, `LatestSupersedes`, `TypeCorrect` and, as an action property, `StaleRepliesIgnored`.
* `RuntimeProofs`, realtime lists. `RealtimeInv` (`RealtimeInvariant`: it always holds) says of each page what its two queues may hold (`Channel`); that answers are to
  operations without one and in their order (`Numbers`); that lists have each id once, own items behind one another and announced
  items new to whatever the page shows or may restore (`Lists`); that what the queue tells last of an item is what the server has (`History`). The
  core is `Synced`: page and list have the same items with the same values, except those that a message on its
  way will move or change (`Agrees`), and each item of its own is matched by one the server has yet to confirm or refuse (`Backed`); the same
  holds of each copy a refusal would restore. Removing an operation, a message or both keeps it, by a lemma per kind of message. Hence
  `RealtimeTypeCorrect`, `RealtimeListsAreSets` and `RealtimeQuietPageShowsList`, for any pages, values and number of lost sockets.
* `HotReloadProofs`. `IndInv` adds to the types that every key in use is at most as old as the
  last save (`KeysAreOld`, so the next save of the entry outdates them all); that under a key
  which still matches the file everything read is what is on disk (`CachesAreExact`); and that a build
  nobody raced has read what it hashed (`UnracedIsExact`). Hence `TypeCorrect` and
  `VerdictsMatch`, for any imports and browsers. It is the modification time in the key that
  carries the argument: with hashes alone, content restored by a later save would hit a result of the content between.
  With `~Reverts`, `Owed` says who owes what: a save of the entry that changes it gets a content the watcher does not know
  (`ContentsAreOld`), so it stays reported until the loop has taken it; then the loop owes a build, or its status is
  current (`StatusOwed`); and a tab whose load or page has anything else than what is on disk has a change coming, missed or
  withheld (`PageOwed`). Hence the state parts of the two liveness properties: `StatusCurrentAtRest` and `PagesCurrentAtRest`.
* `SourceEditProofs`. `EditInv`: the lock belongs to the span edit between `Lock` and `Write`; a job about to write has passed
  its guards and patched what it read (`JobInv`); under an unraced job the file is what it read
  (`RaceInv`); where everyone takes the lock nobody is raced (`ExclInv`). Hence `TypeCorrect`, `EditsWhatWasShown`, the action
  properties `UnracedWritesEditOneLine` and `SpanRailIsSerial`, and the refinement `SpanRailImplementsSerial`. That an accepted patch changes
  one line is a lemma about `Before` and `Occurrence`, which count declarations.
* `CollectionProofs`. A connection is one page's, and an inbox belongs to an open socket (`Wired`). Operations of a page are in order on their way,
  from what it sent (`Sent`) over its handler (`JobOf`) to its inbox, and while nothing is lost what it has not heard of is
  pending (`NumbersInv`); without overlap a handler finds in the file what it put there (`OneWriter`); when no handler is at work a
  page shows the file once it has worked through its inbox, or is going to when the text it asked for comes (`AgreeInv`, by `Owed`). Hence `PagesAgreeAtRest`. For a page alone, `LoneInv`: its plan
  is its operations on their way, one after the other, applied to the table they will meet, up to what the server cleans (`Clean`, by `Same`), or it has just been refused
  its last one, which the undo takes back exactly (`Exact`), or it went on behind a refusal (`Late`) and will be `tangled` when it hears of it;
  `OldInv` keeps ids of new rows out of every table before they are planned. Hence `LonePageHasFile`; and `TypeCorrect`.
* `CommentsProofs`. `IndInv` (a draft no writer touched has every accepted reply) gives `RepliesSurvive` and
  `HistoriesLinked`; `HeldInv` (who holds which lock, what is in hand) and `ActInv` (what a job rests on still holds, or
  it was told) with `ApartInv` (what is about to be filled back into an emptied file is no record's that is being removed, unless its remover looked into
  the empty file or was told) give the action property `DestructionsJustified`. `WaitInv` (whoever owns a lock is at a step that can be taken, or
  holds commentLock and waits for sourceLock) gives `LocksAreOrdered`: the two locks are taken in that order by everyone, so
  requests never wait for each other in a circle. Also `TypeCorrect`.
* `EditorServerProofs`. `IndInv`: what is not shown of a document is owed by a handler that carries a text of it or is the newest
  to sleep (`DiagnosticsOwed`); of a text that came alone no other text waits (`IndexOwed`); only a load marked old has read an older
  prelude (`LoadsFresh`). Hence `TypeCorrect`, `DiagnosticsMatch`, `IndexMatches`, `PreludeServed`, for any documents, shards and
  handlers in progress. `StallsBehindQueries` bounds the finding below: the server is stuck only while a query of its own
  waits for the registry with a document referenced.

Each invariant was checked with TLC on the instances above before it was proved. `TypeOK` of hub, cache, signal call, dev loop, collection,
realtime, comments and language server is proved and not repeated in a run. Every safety invariant and every action property of a passing run is
stated by a theorem. Of the refinement of `PushSlot` the safety part is proved (`SlotSafety`). Only model-checked is
liveness (`NeverWedged`, `NeverHangs`, `DropReopens`, `BuildCatchesUp`, `BrowsersCatchUpUnlessMuted`, `EditsAnswered`,
`OpsAnswered`, `RequestsAnswered`, `ReconnectHeals`, `DiagnosticsCatchUp`, the release in `SingleFlight`), which
needs ENABLED. The operators of the community modules the models use (`InsertAt`, `RemoveAt`, `SelectInSeq`) come without
theorems: what the proofs need of them is stated as lemmas.

## 5. Findings

The `findings` of PROJECT.json: completion, hover and definition keep a document referenced while they wait for
the registry, which stalls the language server for good when another message writes to that shard (`StallsBehindQueries`: nothing else does).
Seen while modelling, without a run. First what contradicts a comment or doc:
* `push` publishes active frames and returns every error without an Error frame (host_push_v2.rs:384); "the producer is
  provably dead (error paths publish; anything else = panic/kill)" (host_push_v2.rs:104);
* `fingerprint_rec` walks `.spacetime`, so writing the cache changes the fingerprint it was written under (export/artifact.rs:367), and a push
  after a push always builds (theorem `SkipNeverTaken`);
  "unchanged source + a cached manifest means init can run WITHOUT build_artifact" (host_push_v2.rs:192);
* any call that settles, and a cancel, clears the signal's one `pending` (signal.st:484); "@yields $pending - whether a
  call is in flight" (signal.st:39);
* a fire from a clause of the signal's own ':fire' event comes before the outer call is counted or chained (signal.st:529): under `drop` both are sent,
  "ignore a new call while one is in flight" (signal.st:504); under `queue` the inner one is sent first, "Chain onto the queue tail so calls run strictly in order" (signal.st:536); under `latest` over
  http the outer request, sent last, takes the controller while the inner one stays under way (`nested` in `QueueSerial`, `SoleUnlessReentered`, `NewestUnlessLate`);
* a dismissal while a header is being deleted from the same file finds the file empty and removes the record of a live comment; "Live records are
  refused" (server.rs:3765); a re-anchor takes the comment for an orphan too ("torn" in `DestroysOnlySettled`);
* the entry is hashed and read again, so a status may pair the old hash with the new verdict (server.rs:636); "`ok` and `diagnostics` are the
  compile verdict for THAT content" (docs/DEV_SERVER_README.md:202);
* both compile caches are keyed by the entry, so a change of an imported file is answered with the old result (server.rs:551); "on every
  watched file change, the dev server compiles the site's default entry" (docs/DEV_SERVER_README.md:186);
* an EditAst suppresses the Reload of every client for 500 ms (dev_server.rs:481); "the file watcher detects the change and sends a `Reload`
  message to all clients instead" (docs/DEV_SERVER_README.md:169);
* token, motion, content and directive edits take no lock, so of two acknowledged edits one may be lost (sync/handlers.rs:2133); "having
  exactly one ordering point for every write rail" (sync/handlers.rs:32): `LockedRailsAreSerial` without `Undisturbed` fails;
* a macro that `_prelude.st` no longer defines is served until the editor restarts, because a reload appends what was there before behind the fresh
  base (workspace/manager.rs:126); "the editor must serve the SAME macro set the compiler resolves" (workspace/manager.rs:137).

Then, of the parts of this project:
* `index_content` compares no versions: a text that waited for a slower load is indexed over a newer one (`crowded`);
* a prelude invalidated while a load is under way that has read the old one counts as loaded afterwards (`raced`); open
  documents get no new diagnostics when the prelude changes;
* a rejected realtime operation restores the list of its time and undoes what came since (`rolled`); an item
  inserted with an id of its own would appear twice; `onMessage('*')` handlers are never called;
* a refused collection operation is undone by index and may hit another row (`tangled`); one that does not parse, or whose
  connection closes, is never answered, and there is no timeout;
* the callback of an accepted collection operation is never taken away: an Ack looks for one in `ackCallbacks` (dev-ws.st:52) and
  only `onReject` is registered (collection.st:92);
* a page plans on what it typed while the server stores it cleaned, and a broadcast corrects the registry only; a refusal later renders the uncleaned array
  again (`Same` in `LonePageShowsFile`);
* a write told between a page's fetch and the registration of its socket, or told before the fetched text came, is not on the page
  until the next one (`lost`); an operation made before the fetched text came is buried by it although the server keeps it (`early`);
* two writers of one collection file that overlap leave either text, or the end of one behind the other (`overlapped`);
* the deletion of headers over the socket holds the source lock alone and a prune over several files may stop halfway; a stale text undoes what the
  developer saved in between; agents update records without a lock (`clobbered`);
* a push reported complete before its timer's handle was stored leaves the timer running; it may take a
  younger push from its widget (`OwnTimerOnly` fails with `Gaps`);
* a progress frame sent between the snapshot and the joining of the channel reaches a new stream
  neither way, and two publishers that store in one order and send in the other leave streams at another frame than the latest (`raced` and `InOrder` in `ConvergesUnlessRaced`);
* overlapping pushes: one may find the other's new fingerprint beside the old manifest and push the old site
  (`overlapped` in `NothingStaleInTurn`);
* the watcher reports a file whose hash is not the one it reported last (watcher.rs:186): a content that is saved, built or served, and taken
  back within the debounce of 100 ms is no change to it, and status and pages stay at the content in between (the theorems at rest
  fail with `Reverts`);
* the compile loop ends for good when the watcher's channel lags behind by more than 100 changes
  (`while let Ok`, main.rs:3111);
* a change announced between the load of a page and the opening of its socket is missed by that page;
* the watcher records hashes for modifications only: a file removed and created again, then modified to
  its earlier content, is taken for unchanged;
* the staleness rule takes 180 s of silence for death, while a request may last 300 s: a
  slow but live push is shown as idle to a browser that reloads;
* a reply handler that fires its own signal under `latest` over http loses the new call's controller when the first
  call settles, so the next fire cannot abort it (`SoleUnlessReentered` states what is left);
* the late reply of a ws attempt that timed out is accepted by handlers although newer calls were fired
  (`NewestUnlessLate` excludes it);
* `cancel` under queue, parallel or drop with `retry` counts as a failure, and the cancelled call is sent
  again;
* a payload that `JSON.stringify` refuses makes `fire` throw with the call counted and `pending` set (signal.st:427): a `drop`
  signal can never be fired again (`thrown` in `PendingNotStuck`, `NeverHangs`, `DropReopens`);
* under ws and live without `timeout`, a reply that never comes closes `queue` and `drop` for ever.

## 6. Plan

1. Done: push, hub, cache, signal call, dev loop, write rails, collection, comments, realtime, language server, with the
   theorems above.
2. Compose `SourceEdit` with `HotReload`: an accepted edit reaches every client as an update or as a reload.
3. The dependency graph of the LSP workspace (imports, invalidation of dependents), which the server does not call yet; streams
   and ephemeral sends of the signal primitive; presence.
4. Proofs to add: what `rolled`, `tangled` and `clobbered` leave standing (how much a
   page, a row or a record may differ then), and the theorems of the composition.

## 7. Not modelled

The compiler (parser, macros, analysis, emission), the static export and the grammars are
sequential data transformations over inputs no bounded model represents. The JavaScript
core and the editable kernel are synchronous DOM code. The deploy widget appears as
an external actor, the LiveView bridge as a transport. The dev HTTP surface is
argument checking. MCP sessions are calls under one lock. `EditJson` and
`EditHtml` have the shape of the unlocked rails of `SourceEdit`. Migrations and save handlers write whole files without a lock. The map covers
a small share of the repository's lines because most of them are the compiler's.
