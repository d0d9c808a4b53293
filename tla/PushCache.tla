------------------------------ MODULE PushCache ------------------------------
(***************************************************************************)
(* The rebuild-skip cache of deploy protocol v2: prepare, persist_cache    *)
(* and load_cached_* of host_push_v2.rs over fingerprint and changed_files *)
(* of export/artifact.rs. The site directory is the source files plus the  *)
(* three files persist_cache writes under .spacetime; the fingerprint      *)
(* walks both, since fingerprint_rec skips only dist, .git, node_modules   *)
(* and target.                                                             *)
(*                                                                         *)
(* A blake3 hash is a number: the trees hashed so far are numbered as they *)
(* first come up, so equal trees have equal hashes, different trees have   *)
(* different ones, and no tree holds its own.                              *)
(* A manifest is the source the build read: the export leaves .spacetime   *)
(* out. File contents are numbered in the order they are written, unless   *)
(* Reverts lets an editor bring an earlier content back. A hit skips the   *)
(* build; the rebuild of prepare for a host that lost bytes is left out,   *)
(* as the host keeps every blob here and a hit then misses none.           *)
(***************************************************************************)
EXTENDS Naturals, Sequences

CONSTANTS
    Pushers,     \* pushes: each Pusher runs one push at a time
    Files,       \* source files
    MaxVersion,  \* bound: edits of a file
    MaxPushes,   \* bound: pushes started in all
    Reverts,     \* TRUE: an edit may restore an earlier content
    Crashes,     \* TRUE: the dev server may die between any two steps
    Absent       \* content of a cache file that is not there

ASSUME CacheAssumption ==
    /\ MaxVersion \in Nat
    /\ MaxPushes \in Nat
    /\ {Reverts, Crashes} \subseteq BOOLEAN
    /\ Absent \notin Nat \union [Files -> 0..MaxVersion]

VARIABLES
    source,   \* source[f]: the content of f in the site directory
    cache,    \* .spacetime: host-fingerprint, host-fingerprint.json, host-manifest.json
    trees,    \* the trees whose hash was taken, by hash
    pc,       \* pc[p]: the next step of pusher p
    print,    \* print[p]: the fingerprint prepare took
    changed,  \* changed[p]: Prepared::changed, source files only
    built,    \* built[p]: the manifest p pushes, Absent before it has one
    live,     \* host: the manifest of the last commit
    accepted, \* host: every manifest it committed
    started,   \* pushes started so far
    overlapped \* a push was started while another one ran

host == <<live, accepted>>
cacheVars == <<source, cache, trees, pc, print, changed, built, host, started, overlapped>>

Contents == [Files -> 0..MaxVersion]
Hashes == Nat \ {0}
CacheFiles == [fingerprint : Hashes \union {Absent}, json : Hashes \union {Absent},
               manifest : Contents \union {Absent}]
Steps == {"idle", "previous", "compare", "load", "build", "commit",
          "fingerprint", "json", "manifest"}

CacheInit ==
    /\ source = [f \in Files |-> 0]
    /\ cache = [fingerprint |-> Absent, json |-> Absent, manifest |-> Absent]
    /\ trees = <<>>
    /\ pc = [p \in Pushers |-> "idle"]
    /\ print = [p \in Pushers |-> Absent]
    /\ changed = [p \in Pushers |-> {}]
    /\ built = [p \in Pushers |-> Absent]
    /\ live = Absent
    /\ accepted = {}
    /\ started = 0
    /\ overlapped = FALSE

Goto(p, step) == pc' = [pc EXCEPT ![p] = step]

-----------------------------------------------------------------------------
\* Mutant: the fingerprint leaves the cache directory out.
SourceOnly == [source |-> source, cache |-> Absent]

\* fingerprint_rec: everything below the site directory.
Tree == [source |-> source, cache |-> cache]

Numbered == IF \E h \in DOMAIN trees : trees[h] = Tree THEN trees ELSE Append(trees, Tree)
TreeHash == CHOOSE h \in DOMAIN Numbered : Numbered[h] = Tree

\* An editor saves f; it owes the pushes nothing.
Edit(f) ==
    /\ \E v \in 0..MaxVersion :
        /\ IF Reverts THEN v # source[f] ELSE v = source[f] + 1
        /\ source' = [source EXCEPT ![f] = v]
    /\ UNCHANGED <<cache, trees, pc, print, changed, built, host, started, overlapped>>

\* prepare: fingerprint the tree first.
TakeFingerprint(p) ==
    /\ pc[p] = "idle"
    /\ started < MaxPushes
    /\ started' = started + 1
    /\ overlapped' = (overlapped \/ \E q \in Pushers : pc[q] # "idle")
    /\ trees' = Numbered
    /\ print' = [print EXCEPT ![p] = TreeHash]
    /\ built' = [built EXCEPT ![p] = Absent]
    /\ Goto(p, "previous")
    /\ UNCHANGED <<source, cache, changed, host>>

\* changed_files against host-fingerprint.json: every file, if there is none.
ChangedSince(prev, next) ==
    IF prev = Absent THEN Files
                     ELSE {f \in Files : trees[prev].source[f] # trees[next].source[f]}

\* load_cached_fingerprint: the list is made against the last push's print.
LoadPrevious(p) ==
    /\ pc[p] = "previous"
    /\ changed' = [changed EXCEPT ![p] = ChangedSince(cache.json, print[p])]
    /\ Goto(p, "compare")
    /\ UNCHANGED <<source, cache, trees, print, built, host, started, overlapped>>

\* load_cached_manifest: the stored hash first, the manifest if it matches.
CompareHash(p) ==
    /\ pc[p] = "compare"
    /\ Goto(p, IF cache.fingerprint = print[p] THEN "load" ELSE "build")
    /\ UNCHANGED <<source, cache, trees, print, changed, built, host, started, overlapped>>

LoadManifest(p) ==
    /\ pc[p] = "load"
    /\ built' = [built EXCEPT ![p] = cache.manifest]
    /\ Goto(p, IF cache.manifest = Absent THEN "build" ELSE "commit")
    /\ UNCHANGED <<source, cache, trees, print, changed, host, started, overlapped>>

\* Mutant: the manifest is cached as soon as it is built.
BuildAndPersist(p) ==
    /\ pc[p] = "build"
    /\ built' = [built EXCEPT ![p] = source]
    /\ cache' = [cache EXCEPT !.manifest = source]
    /\ Goto(p, "commit")
    /\ UNCHANGED <<source, trees, print, changed, host, started, overlapped>>

\* build_artifact reads the tree anew.
Build(p) ==
    /\ pc[p] = "build"
    /\ built' = [built EXCEPT ![p] = source]
    /\ Goto(p, "commit")
    /\ UNCHANGED <<source, cache, trees, print, changed, host, started, overlapped>>

\* init, uploads and commit_request, reduced to the effect of the commit.
Commit(p) ==
    /\ pc[p] = "commit"
    /\ live' = built[p]
    /\ accepted' = accepted \union {built[p]}
    /\ Goto(p, "fingerprint")
    /\ UNCHANGED <<source, cache, trees, print, changed, built, started, overlapped>>

\* Mutant: what is stored is the fingerprint of the tree as it is now.
PersistFingerprintNow(p) ==
    /\ pc[p] = "fingerprint"
    /\ trees' = Numbered
    /\ cache' = [cache EXCEPT !.fingerprint = TreeHash]
    /\ print' = [print EXCEPT ![p] = TreeHash]
    /\ Goto(p, "json")
    /\ UNCHANGED <<source, changed, built, host, started, overlapped>>

\* persist_cache: three files, one after the other.
PersistFingerprint(p) ==
    /\ pc[p] = "fingerprint"
    /\ cache' = [cache EXCEPT !.fingerprint = print[p]]
    /\ Goto(p, "json")
    /\ UNCHANGED <<source, trees, print, changed, built, host, started, overlapped>>

PersistJson(p) ==
    /\ pc[p] = "json"
    /\ cache' = [cache EXCEPT !.json = print[p]]
    /\ Goto(p, "manifest")
    /\ UNCHANGED <<source, trees, print, changed, built, host, started, overlapped>>

PersistManifest(p) ==
    /\ pc[p] = "manifest"
    /\ cache' = [cache EXCEPT !.manifest = built[p]]
    /\ Goto(p, "idle")
    /\ UNCHANGED <<source, trees, print, changed, built, host, started, overlapped>>

\* The push fails (a build or host error) or the server dies: the files
\* written so far stay.
Abort(p) ==
    /\ pc[p] # "idle"
    /\ pc[p] \in {"previous", "compare", "load", "build", "commit"} \/ Crashes
    /\ Goto(p, "idle")
    /\ UNCHANGED <<source, cache, trees, print, changed, built, host, started, overlapped>>

CacheNext ==
    \/ \E f \in Files : Edit(f)
    \/ \E p \in Pushers :
        \/ TakeFingerprint(p) \/ LoadPrevious(p) \/ CompareHash(p)
        \/ LoadManifest(p) \/ Build(p) \/ Commit(p)
        \/ PersistFingerprint(p) \/ PersistJson(p) \/ PersistManifest(p)
        \/ Abort(p)

CacheSpec == CacheInit /\ [][CacheNext]_cacheVars

-----------------------------------------------------------------------------
(* Properties *)

CacheTypeOK ==
    /\ source \in Contents
    /\ cache \in CacheFiles
    /\ trees \in Seq([source : Contents, cache : CacheFiles])
    /\ pc \in [Pushers -> Steps]
    /\ print \in [Pushers -> Hashes \union {Absent}]
    /\ changed \in [Pushers -> SUBSET Files]
    /\ built \in [Pushers -> Contents \union {Absent}]
    /\ live \in Contents \union {Absent}
    /\ accepted \subseteq Contents
    /\ started \in 0..MaxPushes
    /\ overlapped \in BOOLEAN

\* A cached manifest is one the host has committed, so a hit finds every blob
\* there: neither a failed push nor a crash nor an overlapping push leaves
\* another one behind.
CacheHoldsAccepted == cache.manifest \in accepted \union {Absent}

\* "The rebuilt manifest equals the cached one": no push commits a file older
\* than the source was when the push began (without Reverts, where a larger
\* number is a newer content).
NothingStalePushed ==
    \A p \in Pushers : pc[p] = "commit" =>
        \A f \in Files : built[p][f] >= trees[print[p]].source[f]

\* The same for pushes that follow one another, whatever crashes between the
\* cache writes, failed pushes and edits left in the cache.
NothingStaleInTurn == ~overlapped => NothingStalePushed

\* The changed list names every file that differs from what is live, provided
\* it still is what it was when the list was made (pushes that follow one
\* another, without Reverts).
ChangedIsComplete ==
    ~overlapped =>
        \A p \in Pushers : pc[p] = "build" /\ live # Absent =>
            {f \in Files : source[f] = trees[print[p]].source[f] /\ source[f] # live[f]}
                \subseteq changed[p]
=============================================================================
