--------------------------- MODULE HotReloadProofs ---------------------------
(***************************************************************************)
(* Theorems about HotReload, for any imports, browsers and channel size:   *)
(* verdicts with saves that restore earlier contents, the state at rest    *)
(* without them.                                                           *)
(***************************************************************************)
EXTENDS HotReload, TLAPS

\* While the loop compiles it knows the hash it will report, and a change that
\* is announced is one it received.
LoopKnows ==
    /\ job[Loop].step \in {"lookup", "read", "compile", "check", "answer"} => build \in Build
    /\ Is(Loop, "announce") => change \in Files

\* A key is never younger than the last save, so the next save of the entry
\* outdates every key.
KeysAreOld ==
    /\ mtime <= saves
    /\ devCache # None => devCache.key.mtime <= saves
    /\ \A j \in Jobs : job[j].step \in {"read", "compile", "check"} => job[j].key.mtime <= saves

\* While the entry keeps the modification time of a key, what was read under
\* that key is what is on disk.
KeyIsExact(j) ==
    /\ Is(j, "compile") /\ job[j].key.mtime = mtime => job[j].src = disk[Entry]
    /\ Is(j, "check") /\ job[j].key.mtime = mtime => job[j].code[Entry] = disk[Entry]

Of(out, content) == out.code[Entry] = content /\ out.checked[Entry] = content

CachesAreExact ==
    /\ memo # None => memo.code[Entry] = memo.src
    /\ devCache # None /\ devCache.key.mtime = mtime => Of(devCache.out, disk[Entry])
    /\ \A j \in Jobs : KeyIsExact(j)

\* A build nobody raced has the hash of what is on disk, and has read that.
UnracedIsExact ==
    build # None /\ ~build.raced =>
        /\ build.hash = disk[Entry]
        /\ Is(Loop, "compile") => job[Loop].src = disk[Entry]
        /\ Is(Loop, "check") => job[Loop].code[Entry] = disk[Entry]
        /\ Is(Loop, "answer") => Of(job[Loop].out, disk[Entry])

TypeInv == TypeOK /\ LoopKnows
Exact   == KeysAreOld /\ CachesAreExact /\ UnracedIsExact /\ VerdictUnlessRaced
IndInv  == TypeInv /\ Exact

-----------------------------------------------------------------------------
LEMMA Constants ==
    /\ Entry \in Files /\ Loop \in Jobs /\ Browsers \subseteq Jobs
    /\ 0 \in Versions /\ Versions \subseteq Nat
    /\ \A n \in Versions : n < MaxSaves => n + 1 \in Versions
    /\ Original \in Sources
    BY ReloadAssumption DEF Files, Jobs, Versions, Sources, Original

\* What a job holds at each of its steps.
LEMMA JobHolds ==
    ASSUME TypeOK, NEW j \in Jobs
    PROVE  /\ Is(j, "read") => job[j].key \in Key
           /\ Is(j, "compile") => job[j].key \in Key /\ job[j].src \in Versions
           /\ Is(j, "check") => job[j].key \in Key /\ job[j].code \in Sources
           /\ Is(j, "answer") => job[j].out \in Out
<1>1. job[j] \in Job
    BY DEF TypeOK
<1> QED
    BY <1>1 DEF Job, Is

LEMMA JobStates ==
    /\ \A s \in {"idle", "hash", "lookup", "announce", "ended"} : At(s) \in Job
    /\ \A k \in Key : [step |-> "read", key |-> k] \in Job
    /\ \A k \in Key, v \in Versions : [step |-> "compile", key |-> k, src |-> v] \in Job
    /\ \A k \in Key, c \in Sources : [step |-> "check", key |-> k, code |-> c] \in Job
    /\ \A o \in Out : [step |-> "answer", out |-> o] \in Job
    BY DEF Job, At

LEMMA GotoMoves ==
    ASSUME TypeOK, NEW j \in Jobs, NEW s \in Job, Goto(j, s)
    PROVE  /\ job' \in [Jobs -> Job]
           /\ job'[j] = s
           /\ \A k \in Jobs : k # j => job'[k] = job[k]
    BY DEF TypeOK, Goto

LEMMA KeyTypes ==
    ASSUME TypeOK
    PROVE  /\ CurrentKey \in Key
           /\ \A v \in Versions : [disk EXCEPT ![Entry] = v] \in Sources
           /\ disk[Entry] \in Versions
    BY Constants DEF TypeOK, CurrentKey, Key, Sources

OpenTab == [conn : {"open"}, page : Sources, inbox : Seq(Files),
            missed : BOOLEAN, muted : BOOLEAN]

\* What a tab holds while it loads, has loaded and is open.
LEMMA TabHolds ==
    ASSUME TypeOK, NEW b \in Browsers
    PROVE  /\ IsOpen(b) => tab[b] \in OpenTab
           /\ tab[b].conn = "loading" => tab[b] \in [conn : {"loading"}, missed : BOOLEAN]
           /\ tab[b].conn = "loaded" =>
                tab[b] \in [conn : {"loaded"}, missed : BOOLEAN, page : Sources]
<1>1. tab[b] \in Tab
    BY DEF TypeOK
<1> QED
    BY <1>1 DEF Tab, Closed, IsOpen, OpenTab

LEMMA AnnouncedTab ==
    ASSUME NEW r \in OpenTab, NEW c \in Files
    PROVE  [r EXCEPT !.inbox = Append(@, c)] \in Tab
<1>1. Append(r.inbox, c) \in Seq(Files)
    BY DEF OpenTab
<1>2. r = [conn |-> r.conn, page |-> r.page, inbox |-> r.inbox, missed |-> r.missed, muted |-> r.muted]
    BY DEF OpenTab
<1>3. [r EXCEPT !.inbox = Append(@, c)] =
          [conn |-> r.conn, page |-> r.page, inbox |-> Append(r.inbox, c),
           missed |-> r.missed, muted |-> r.muted]
    BY <1>2
<1> QED
    BY <1>1, <1>3 DEF OpenTab, Tab

-----------------------------------------------------------------------------
(* Types *)

LEMMA WriteTypes ==
    ASSUME TypeInv, NEW f \in Files, NEW v \in Versions, Write(f, v), editing' \in Files \union {None}
    PROVE  TypeInv'
<1> USE Constants DEF TypeInv, TypeOK, LoopKnows, Write, jobVars
<1>1. disk' \in Sources /\ mtime' \in Versions /\ saves' \in Versions /\ pending' \subseteq Files
    BY ReloadAssumption DEF Sources, Versions
<1>2. build' \in Build \union {None} /\ (build \in Build => build' \in Build)
    BY NoneAssumption DEF Build
<1> QED
    BY <1>1, <1>2 DEF Is

LEMMA WatchTypes ==
    ASSUME TypeInv, NEW f \in Files, Emit(f)
    PROVE  TypeInv'
<1> USE Constants DEF TypeInv, TypeOK, LoopKnows, Emit, loopVars, jobVars, editVars, diskVars, Is
<1>1. known' \in [Files -> Versions \union {None}] /\ pending' \subseteq Files
    BY DEF Sources
<1>2. queue' \in Seq(Files) /\ Len(queue') <= QueueSize /\ lagged' \in BOOLEAN
  <2>1. CASE known[f] = disk[f]
    BY <2>1
  <2>2. CASE known[f] # disk[f] /\ Len(queue) = QueueSize
    BY <2>2, ReloadAssumption
  <2>3. CASE known[f] # disk[f] /\ Len(queue) # QueueSize
    BY <2>3, ReloadAssumption
  <2> QED
    BY <2>1, <2>2, <2>3
<1> QED
    BY <1>1, <1>2

LEMMA LoopTypes ==
    ASSUME TypeInv, LoopStep
    PROVE  TypeInv'
<1> USE Constants, JobStates DEF TypeInv, TypeOK, LoopKnows, diskVars, watchVars, jobVars, editVars, Is
<1>1. CASE Receive
  <2>1. change' \in Files /\ queue' \in Seq(Files) /\ Len(queue') <= QueueSize
    BY <1>1, ReloadAssumption DEF Receive
  <2>2. job' \in [Jobs -> Job] /\ job'[Loop] = At("hash")
    BY <1>1, GotoMoves DEF Receive
  <2> QED
    BY <1>1, <2>1, <2>2 DEF Receive, At
<1>2. CASE EndLoop
  <2>1. job' \in [Jobs -> Job] /\ job'[Loop] = At("ended")
    BY <1>2, GotoMoves DEF EndLoop
  <2> QED
    BY <1>2, <2>1 DEF EndLoop, At, loopVars
<1>3. CASE HashEntry
  <2>1. build' \in Build
    BY <1>3, KeyTypes DEF HashEntry, Build
  <2>2. job' \in [Jobs -> Job] /\ job'[Loop] = At("lookup")
    BY <1>3, GotoMoves DEF HashEntry
  <2> QED
    BY <1>3, <2>1, <2>2 DEF HashEntry, At
<1>4. CASE Report
  <2>1. status' \in Status
    BY <1>4, JobHolds DEF Report, Status, Build
  <2>2. job' \in [Jobs -> Job]
    BY <1>4, GotoMoves DEF Report
  <2>3. job'[Loop].step = IF change = None THEN "idle" ELSE "announce"
    BY <1>4, GotoMoves DEF Report, At
  <2> QED
    BY <1>4, <2>1, <2>2, <2>3 DEF Report
<1>5. CASE Announce
  <2>1. ASSUME NEW b \in Browsers, IsOpen(b)
        PROVE  [tab[b] EXCEPT !.inbox = Append(@, change)] \in Tab
    <3>1. tab[b] \in OpenTab
      BY <2>1, TabHolds
    <3>2. change \in Files
      BY <1>5 DEF Announce
    <3> QED
      BY <3>1, <3>2, AnnouncedTab
  <2>2. ASSUME NEW b \in Browsers, tab[b].conn \in {"loading", "loaded"}
        PROVE  [tab[b] EXCEPT !.missed = TRUE] \in Tab
    <3>1. CASE tab[b].conn = "loading"
      <4>1. tab[b] \in [conn : {"loading"}, missed : BOOLEAN]
        BY <3>1, TabHolds
      <4> QED
        BY <4>1 DEF Tab
    <3>2. CASE tab[b].conn = "loaded"
      <4>1. tab[b] \in [conn : {"loaded"}, missed : BOOLEAN, page : Sources]
        BY <3>2, TabHolds
      <4> QED
        BY <4>1 DEF Tab
    <3> QED
      BY <2>2, <3>1, <3>2
  <2>3. tab' \in [Browsers -> Tab]
    BY <1>5, <2>1, <2>2 DEF Announce, IsOpen
  <2>4. job' \in [Jobs -> Job] /\ job'[Loop] = At("idle")
    BY <1>5, GotoMoves DEF Announce
  <2>5. /\ UNCHANGED <<diskVars, watchVars, build, status, devCache, memo, editVars>>
        /\ change' = None
    BY <1>5 DEF Announce
  <2> QED
    BY <2>3, <2>4, <2>5 DEF At
<1> QED
    BY <1>1, <1>2, <1>3, <1>4, <1>5 DEF LoopStep

\* A step of a compile changes its job and the caches only, and the loop's job
\* stays between hash and announcement.
LEMMA JobTypes ==
    ASSUME TypeInv, NEW j \in Jobs, JobStep(j)
    PROVE  TypeInv'
<1> USE Constants DEF TypeInv
<1>1. job' \in [Jobs -> Job] /\ devCache' \in Cached \union {None} /\ memo' \in Memo \union {None}
  <2>1. CASE Lookup(j)
    <3>1. devCache # None => devCache.out \in Out
      BY DEF TypeOK, Cached
    <3>2. (IF devCache # None /\ devCache.key = CurrentKey
             THEN [step |-> "answer", out |-> devCache.out]
             ELSE [step |-> "read", key |-> CurrentKey]) \in Job
      BY <3>1, KeyTypes, JobStates
    <3> QED
      BY <2>1, <3>2, GotoMoves DEF Lookup, TypeOK
  <2>2. CASE ReadEntry(j)
    <3>1. [step |-> "compile", key |-> job[j].key, src |-> disk[Entry]] \in Job
      BY <2>2, JobHolds, KeyTypes, JobStates DEF ReadEntry
    <3> QED
      BY <2>2, <3>1, GotoMoves DEF ReadEntry, TypeOK
  <2>3. CASE Compile(j)
    <3> DEFINE code == IF memo # None /\ memo.src = job[j].src THEN memo.code ELSE Input(j)
    <3>1. job[j].key \in Key /\ job[j].src \in Versions
      BY <2>3, JobHolds DEF Compile
    <3>2. code \in Sources
      BY <3>1, KeyTypes DEF TypeOK, Memo, Input
    <3>3. [step |-> "check", key |-> job[j].key, code |-> code] \in Job
      BY <3>1, <3>2, JobStates
    <3>4. [src |-> job[j].src, code |-> code] \in Memo
      BY <3>1, <3>2 DEF Memo
    <3>5. /\ Goto(j, [step |-> "check", key |-> job[j].key, code |-> code])
          /\ memo' = [src |-> job[j].src, code |-> code]
          /\ UNCHANGED devCache
      BY <2>3 DEF Compile
    <3> HIDE DEF code
    <3> QED
      BY <3>3, <3>4, <3>5, GotoMoves DEF TypeOK
  <2>4. CASE CheckAndStore(j)
    <3> DEFINE out == [code |-> job[j].code, checked |-> disk]
    <3>1. job[j].key \in Key /\ job[j].code \in Sources
      BY <2>4, JobHolds DEF CheckAndStore, Store
    <3>2. out \in Out
      BY <3>1 DEF Out, TypeOK
    <3>3. [step |-> "answer", out |-> out] \in Job /\ [key |-> job[j].key, out |-> out] \in Cached
      BY <3>1, <3>2, JobStates DEF Cached
    <3>4. /\ Goto(j, [step |-> "answer", out |-> out])
          /\ devCache' = [key |-> job[j].key, out |-> out]
          /\ UNCHANGED memo
      BY <2>4 DEF CheckAndStore, Store
    <3> HIDE DEF out
    <3> QED
      BY <3>3, <3>4, GotoMoves DEF TypeOK
  <2>5. CASE Fail(j)
    <3> DEFINE culprit == IF Is(j, "compile") THEN Input(j) ELSE disk
               out == [code |-> culprit, checked |-> culprit]
    <3>1. culprit \in Sources
      BY JobHolds, KeyTypes DEF TypeOK, Input
    <3>2. [step |-> "answer", out |-> out] \in Job
      BY <3>1, JobStates DEF Out
    <3>3. Goto(j, [step |-> "answer", out |-> out]) /\ UNCHANGED <<devCache, memo>>
      BY <2>5 DEF Fail
    <3> HIDE DEF out
    <3> QED
      BY <3>2, <3>3, GotoMoves DEF TypeOK
  <2> QED
    BY <2>1, <2>2, <2>3, <2>4, <2>5 DEF JobStep
<1>2. UNCHANGED <<diskVars, watchVars, loopVars, tab, editVars>>
    BY DEF JobStep, Lookup, ReadEntry, Compile, CheckAndStore, Store, Fail
<1>3. job[Loop].step \in {"lookup", "read", "compile", "check", "answer"} \/ job'[Loop] = job[Loop]
  <2>1. CASE j = Loop
    BY <2>1 DEF JobStep, Lookup, ReadEntry, Compile, CheckAndStore, Store, Fail, Is
  <2>2. CASE j # Loop
    BY <2>2 DEF TypeOK, JobStep, Lookup, ReadEntry, Compile, CheckAndStore, Store, Fail, Goto
  <2> QED
    BY <2>1, <2>2
<1>4. job'[Loop].step # "announce" \/ job'[Loop] = job[Loop]
  <2>1. CASE j = Loop
    BY <2>1 DEF TypeOK, JobStep, Lookup, ReadEntry, Compile, CheckAndStore, Store, Fail, Goto
  <2>2. CASE j # Loop
    BY <2>2 DEF TypeOK, JobStep, Lookup, ReadEntry, Compile, CheckAndStore, Store, Fail, Goto
  <2> QED
    BY <2>1, <2>2
<1> QED
    BY <1>1, <1>2, <1>3, <1>4 DEF TypeOK, LoopKnows, Is, diskVars, watchVars, loopVars, editVars

\* The steps of a browser: a page is what a job made, and only its own job moves.
LEMMA TabTypes ==
    ASSUME TypeInv, NEW b \in Browsers, Open(b) \/ TabStep(b)
    PROVE  TypeInv'
<1> USE Constants DEF TypeInv, TypeOK, LoopKnows, diskVars, watchVars, loopVars, jobVars, editVars, Is
<1>0. b \in Jobs /\ b # Loop
    BY ReloadAssumption
<1>1. CASE Load(b)
  <2>1. tab' \in [Browsers -> Tab]
    BY <1>1 DEF Load, Tab
  <2>2. job' \in [Jobs -> Job] /\ job'[Loop] = job[Loop]
    BY <1>0, <1>1, GotoMoves, JobStates DEF Load
  <2> QED
    BY <1>1, <2>1, <2>2 DEF Load
<1>2. CASE Deliver(b)
  <2>1. job[b].out.code \in Sources /\ tab[b].missed \in BOOLEAN
    BY <1>0, <1>2, JobHolds, TabHolds DEF Deliver, Out
  <2>2. tab' \in [Browsers -> Tab]
    BY <1>2, <2>1 DEF Deliver, Tab
  <2>3. job' \in [Jobs -> Job] /\ job'[Loop] = job[Loop]
    BY <1>0, <1>2, GotoMoves, JobStates DEF Deliver
  <2> QED
    BY <1>2, <2>2, <2>3 DEF Deliver
<1>3. CASE Connect(b)
  <2>1. tab[b].page \in Sources /\ tab[b].missed \in BOOLEAN
    BY <1>3, TabHolds DEF Connect
  <2>2. [conn |-> "open", page |-> tab[b].page, inbox |-> <<>>,
         missed |-> tab[b].missed, muted |-> FALSE] \in Tab
    BY <2>1 DEF Tab
  <2> QED
    BY <1>3, <2>2 DEF Connect
<1>4. CASE Withhold(b)
  <2>1. tab[b] \in OpenTab
    BY <1>4, TabHolds DEF Withhold
  <2>2. /\ tab[b].page \in Sources /\ tab[b].missed \in BOOLEAN
        /\ tab[b].inbox \in Seq(Files) /\ tab[b].inbox # <<>>
    BY <1>4, <2>1 DEF Withhold, OpenTab
  <2>3. Tail(tab[b].inbox) \in Seq(Files)
    BY <2>2
  <2>4. [conn |-> "open", page |-> tab[b].page, inbox |-> Tail(tab[b].inbox),
         missed |-> tab[b].missed, muted |-> TRUE] \in Tab
    BY <2>2, <2>3 DEF Tab
  <2> QED
    BY <1>4, <2>4 DEF Withhold
<1> QED
    BY <1>1, <1>2, <1>3, <1>4 DEF Open, TabStep, Reload

LEMMA TypeStep ==
    ASSUME TypeInv, [Next]_vars
    PROVE  TypeInv'
<1>1. CASE LoopStep
    BY <1>1, LoopTypes
<1>2. CASE RecordSuppression
    BY <1>2 DEF TypeInv, TypeOK, LoopKnows, RecordSuppression, diskVars, watchVars,
                loopVars, jobVars, Is
<1>3. ASSUME NEW f \in Files, Save(f)
      PROVE  TypeInv'
  <2>1. editing' \in Files \union {None}
    BY <1>3 DEF Save, TypeInv, TypeOK
  <2> QED
    BY <1>3, <2>1, WriteTypes DEF Save
<1>4. ASSUME NEW f \in Files, EditAst(f)
      PROVE  TypeInv'
  <2>1. saves + 1 \in Versions
    BY <1>4, Constants DEF EditAst, Write, TypeInv, TypeOK
  <2> QED
    BY <1>4, <2>1, WriteTypes DEF EditAst
<1>5. ASSUME NEW f \in Files, Expire(f)
      PROVE  TypeInv'
    BY <1>5 DEF TypeInv, TypeOK, LoopKnows, Expire, diskVars, watchVars, loopVars, jobVars, Is
<1>6. ASSUME NEW f \in Files, Emit(f)
      PROVE  TypeInv'
    BY <1>6, WatchTypes
<1>7. ASSUME NEW j \in Jobs, JobStep(j)
      PROVE  TypeInv'
    BY <1>7, JobTypes
<1>8. ASSUME NEW b \in Browsers, Open(b) \/ TabStep(b)
      PROVE  TypeInv'
    BY <1>8, TabTypes
<1>9. CASE UNCHANGED vars
    BY <1>9 DEF TypeInv, TypeOK, LoopKnows, Is, vars, diskVars, watchVars, loopVars,
                jobVars, editVars
<1> QED
    BY <1>1, <1>2, <1>3, <1>4, <1>5, <1>6, <1>7, <1>8, <1>9 DEF Next

LEMMA TypeStart == Init => TypeInv
<1> SUFFICES ASSUME Init PROVE TypeInv
    OBVIOUS
<1> USE Constants, JobStates DEF Init
<1>1. job \in [Jobs -> Job]
    OBVIOUS
<1>2. tab \in [Browsers -> Tab]
    BY DEF Tab
<1>3. queue \in Seq(Files) /\ Len(queue) <= QueueSize
    BY ReloadAssumption
<1> QED
    BY <1>1, <1>2, <1>3 DEF TypeInv, TypeOK, LoopKnows, Is, At

-----------------------------------------------------------------------------
(* Exactness *)

\* The variables that exactness is about.
exactVars == <<disk, mtime, saves, build, status, job, devCache, memo>>

LEMMA ExactFrame ==
    ASSUME Exact, UNCHANGED exactVars
    PROVE  Exact'
    BY DEF Exact, exactVars, KeysAreOld, CachesAreExact, KeyIsExact, UnracedIsExact,
           VerdictUnlessRaced, VerdictIsForHash, Of, Is

\* A save of the entry outdates every key, and the build of the loop unless it
\* restores what was there.
LEMMA WriteExact ==
    ASSUME IndInv, NEW f \in Files, NEW v \in Versions, Write(f, v)
    PROVE  Exact'
<1> USE DEF IndInv, TypeInv, Exact
<1>1. saves \in Nat /\ mtime \in Nat
    BY Constants DEF TypeOK
<1>2. devCache # None => devCache.key.mtime \in Nat
    BY Constants DEF TypeOK, Cached, Key
<1>3. \A j \in Jobs : job[j].step \in {"read", "compile", "check"} => job[j].key.mtime \in Nat
    BY Constants, JobHolds DEF Key, Is
<1>4. UNCHANGED <<status, job, devCache, memo>> /\ saves' = saves + 1
    BY DEF Write, jobVars
<1>5. VerdictUnlessRaced'
    BY <1>4 DEF VerdictUnlessRaced, VerdictIsForHash
<1>6. CASE f = Entry
  <2>1. mtime' = saves + 1 /\ disk'[Entry] = v
    BY <1>6, Constants DEF Write, TypeOK, Sources
  <2>2. KeysAreOld'
    BY <1>1, <1>2, <1>3, <1>4, <2>1 DEF KeysAreOld
  <2>3. CachesAreExact'
    BY <1>1, <1>2, <1>3, <1>4, <2>1 DEF KeysAreOld, CachesAreExact, KeyIsExact, Is
  <2>4. UnracedIsExact'
    <3>1. CASE build # None /\ v # disk[Entry]
      <4>1. build \in Build
        BY <3>1 DEF TypeOK
      <4>2. build' = [build EXCEPT !.raced = TRUE]
        BY <1>6, <3>1 DEF Write
      <4>3. build'.raced
        BY <4>1, <4>2 DEF Build
      <4> QED
        BY <4>3 DEF UnracedIsExact
    <3>2. CASE build = None \/ v = disk[Entry]
      <4>1. build' = build /\ (build = None \/ disk'[Entry] = disk[Entry])
        BY <1>6, <2>1, <3>2 DEF Write
      <4> QED
        BY <1>4, <4>1 DEF UnracedIsExact, Of, Is
    <3> QED
      BY <3>1, <3>2
  <2> QED
    BY <1>5, <2>2, <2>3, <2>4
<1>7. CASE f # Entry
  <2>1. mtime' = mtime /\ disk'[Entry] = disk[Entry] /\ build' = build
    BY <1>7, Constants DEF Write, TypeOK, Sources
  <2>2. KeysAreOld'
    BY <1>1, <1>2, <1>3, <1>4, <2>1 DEF KeysAreOld
  <2>3. CachesAreExact' /\ UnracedIsExact'
    BY <1>4, <2>1 DEF CachesAreExact, KeyIsExact, UnracedIsExact, Of, Is
  <2> QED
    BY <1>5, <2>2, <2>3
<1> QED
    BY <1>6, <1>7

LEMMA LoopExact ==
    ASSUME IndInv, LoopStep
    PROVE  Exact'
<1> USE DEF IndInv, TypeInv, Exact
<1>0. Loop \in Jobs
    BY Constants
<1>1. UNCHANGED <<disk, mtime, saves, devCache, memo>>
    BY DEF LoopStep, Receive, EndLoop, HashEntry, Report, Announce, diskVars
<1>2. PICK s \in {"idle", "hash", "lookup", "announce", "ended"} : Goto(Loop, At(s))
    BY DEF LoopStep, Receive, EndLoop, HashEntry, Report, Announce
<1>3. /\ job'[Loop].step = s
      /\ \A k \in Jobs : k # Loop => job'[k] = job[k]
    BY <1>0, <1>2, GotoMoves, JobStates DEF At
<1>4. KeysAreOld'
    BY <1>1, <1>2, <1>3 DEF KeysAreOld
<1>5. CachesAreExact'
    BY <1>1, <1>2, <1>3 DEF CachesAreExact, KeyIsExact, Is, Of
<1>6. UnracedIsExact'
  <2>1. CASE HashEntry
    BY <1>1, <1>2, <1>3, <2>1 DEF HashEntry, UnracedIsExact, Is
  <2>2. CASE Report
    BY <2>2 DEF Report, UnracedIsExact
  <2>3. CASE Receive \/ EndLoop \/ Announce
    <3>1. build' = build
      BY <2>3 DEF Receive, EndLoop, Announce, loopVars
    <3> QED
      BY <1>1, <1>2, <1>3, <3>1 DEF UnracedIsExact, Is
  <2> QED
    BY <2>1, <2>2, <2>3 DEF LoopStep
<1>7. VerdictUnlessRaced'
  <2>1. CASE Report
    <3>1. build \in Build /\ build # None
      BY <2>1, NoneAssumption DEF Report, LoopKnows, Is
    <3>2. /\ status'.hash = build.hash /\ status'.out = job[Loop].out
          /\ status'.raced = build.raced
      BY <2>1 DEF Report
    <3>3. ~status'.raced => Of(status'.out, status'.hash)
      BY <2>1, <3>1, <3>2 DEF Report, UnracedIsExact, Of
    <3> QED
      BY <3>3 DEF VerdictUnlessRaced, VerdictIsForHash, Of
  <2>2. CASE Receive \/ EndLoop \/ HashEntry \/ Announce
    <3>1. status' = status
      BY <2>2 DEF Receive, EndLoop, HashEntry, Announce, loopVars
    <3> QED
      BY <3>1 DEF VerdictUnlessRaced, VerdictIsForHash
  <2> QED
    BY <2>1, <2>2 DEF LoopStep
<1> QED
    BY <1>4, <1>5, <1>6, <1>7

\* Browsers put their own job at its start or at its end.
LEMMA TabExact ==
    ASSUME IndInv, NEW b \in Browsers, Open(b) \/ TabStep(b)
    PROVE  Exact'
<1> USE DEF IndInv, TypeInv, Exact
<1>0. b \in Jobs /\ b # Loop
    BY ReloadAssumption DEF Jobs
<1>1. UNCHANGED <<disk, mtime, saves, build, status, devCache, memo>>
    BY DEF Open, TabStep, Load, Deliver, Connect, Reload, Withhold, diskVars, loopVars, jobVars
<1>2. CASE UNCHANGED job
    BY <1>1, <1>2, ExactFrame DEF exactVars
<1>3. CASE \E s \in {"lookup", "idle"} : Goto(b, At(s))
  <2>1. PICK s \in {"lookup", "idle"} : Goto(b, At(s))
    BY <1>3
  <2>2. /\ job'[b].step = s
        /\ \A k \in Jobs : k # b => job'[k] = job[k]
    BY <1>0, <2>1, GotoMoves, JobStates DEF At
  <2>3. job'[Loop] = job[Loop]
    BY <1>0, <2>2, Constants
  <2>4. KeysAreOld' /\ CachesAreExact'
    BY <1>1, <2>2 DEF KeysAreOld, CachesAreExact, KeyIsExact, Is, Of
  <2>5. UnracedIsExact' /\ VerdictUnlessRaced'
    BY <1>1, <2>3 DEF UnracedIsExact, VerdictUnlessRaced, VerdictIsForHash, Is, Of
  <2> QED
    BY <2>4, <2>5
<1> QED
    BY <1>2, <1>3 DEF Open, TabStep, Load, Deliver, Connect, Reload, Withhold, jobVars

\* What a step of a compile puts in its job.
LEMMA JobExact ==
    ASSUME IndInv, NEW j \in Jobs, JobStep(j)
    PROVE  Exact'
<1> USE DEF IndInv, TypeInv, Exact
<1>0. /\ UNCHANGED <<disk, mtime, saves, build, status>>
      /\ mtime \in Nat /\ saves \in Nat
    BY Constants DEF JobStep, Lookup, ReadEntry, Compile, CheckAndStore, Store, Fail,
                     diskVars, loopVars, TypeOK
<1>1. VerdictUnlessRaced'
    BY <1>0 DEF VerdictUnlessRaced, VerdictIsForHash
<1>2. CASE Lookup(j)
  <2>1. CASE devCache # None /\ devCache.key = CurrentKey
    <3>1. /\ [step |-> "answer", out |-> devCache.out] \in Job
          /\ Of(devCache.out, disk[Entry])
      BY <2>1, JobStates DEF TypeOK, Cached, CachesAreExact, CurrentKey
    <3>2. /\ job'[j] = [step |-> "answer", out |-> devCache.out]
          /\ \A k \in Jobs : k # j => job'[k] = job[k]
          /\ UNCHANGED <<devCache, memo>>
      BY <1>2, <2>1, <3>1, GotoMoves DEF Lookup
    <3>3. KeysAreOld' /\ CachesAreExact'
      BY <1>0, <3>2 DEF KeysAreOld, CachesAreExact, KeyIsExact, Is, Of
    <3>4. UnracedIsExact'
      BY <1>0, <3>1, <3>2, Constants DEF UnracedIsExact, Is, Of
    <3> QED
      BY <1>1, <3>3, <3>4
  <2>2. CASE ~(devCache # None /\ devCache.key = CurrentKey)
    <3>1. [step |-> "read", key |-> CurrentKey] \in Job
      BY KeyTypes, JobStates
    <3>2. /\ job'[j] = [step |-> "read", key |-> CurrentKey]
          /\ \A k \in Jobs : k # j => job'[k] = job[k]
          /\ UNCHANGED <<devCache, memo>>
      BY <1>2, <2>2, <3>1, GotoMoves DEF Lookup
    <3>3. KeysAreOld' /\ CachesAreExact'
      BY <1>0, <3>2 DEF KeysAreOld, CachesAreExact, KeyIsExact, Is, Of, CurrentKey
    <3>4. UnracedIsExact'
      BY <1>0, <3>2, Constants DEF UnracedIsExact, Is, Of
    <3> QED
      BY <1>1, <3>3, <3>4
  <2> QED
    BY <2>1, <2>2
<1>3. CASE ReadEntry(j)
  <2>1. [step |-> "compile", key |-> job[j].key, src |-> disk[Entry]] \in Job
    BY <1>3, JobHolds, KeyTypes, JobStates DEF ReadEntry
  <2>2. /\ job'[j] = [step |-> "compile", key |-> job[j].key, src |-> disk[Entry]]
        /\ \A k \in Jobs : k # j => job'[k] = job[k]
        /\ UNCHANGED <<devCache, memo>>
    BY <1>3, <2>1, GotoMoves DEF ReadEntry
  <2>3. KeysAreOld' /\ CachesAreExact'
    BY <1>0, <1>3, <2>2 DEF ReadEntry, KeysAreOld, CachesAreExact, KeyIsExact, Is, Of
  <2>4. UnracedIsExact'
    BY <1>0, <2>2, Constants DEF UnracedIsExact, Is, Of
  <2> QED
    BY <1>1, <2>3, <2>4
<1>4. CASE Compile(j)
  <2> DEFINE code == IF memo # None /\ memo.src = job[j].src THEN memo.code ELSE Input(j)
  <2>1. job[j].key \in Key /\ job[j].src \in Versions
    BY <1>4, JobHolds DEF Compile
  <2>2. code \in Sources
    BY <2>1, KeyTypes DEF TypeOK, Memo, Input
  <2>3. code[Entry] = job[j].src
    BY <2>1, Constants DEF CachesAreExact, Input, TypeOK, Sources
  <2>4. /\ Goto(j, [step |-> "check", key |-> job[j].key, code |-> code])
        /\ memo' = [src |-> job[j].src, code |-> code]
        /\ UNCHANGED devCache
    BY <1>4 DEF Compile
  <2> HIDE DEF code
  <2>5. [step |-> "check", key |-> job[j].key, code |-> code] \in Job
    BY <2>1, <2>2, JobStates
  <2>6. /\ job'[j] = [step |-> "check", key |-> job[j].key, code |-> code]
        /\ \A k \in Jobs : k # j => job'[k] = job[k]
    BY <2>4, <2>5, GotoMoves
  <2>7. KeysAreOld' /\ CachesAreExact'
    BY <1>0, <1>4, <2>3, <2>4, <2>6 DEF Compile, KeysAreOld, CachesAreExact, KeyIsExact, Is, Of
  <2>8. UnracedIsExact'
    BY <1>0, <1>4, <2>3, <2>6, Constants DEF Compile, UnracedIsExact, Is, Of
  <2> QED
    BY <1>1, <2>7, <2>8
<1>5. CASE CheckAndStore(j)
  <2> DEFINE out == [code |-> job[j].code, checked |-> disk]
  <2>1. job[j].key \in Key /\ job[j].code \in Sources
    BY <1>5, JobHolds DEF CheckAndStore, Store
  <2>2. /\ Goto(j, [step |-> "answer", out |-> out])
        /\ devCache' = [key |-> job[j].key, out |-> out]
        /\ UNCHANGED memo
    BY <1>5 DEF CheckAndStore, Store
  <2>3. [step |-> "answer", out |-> out] \in Job
    BY <2>1, JobStates DEF Out, TypeOK
  <2>4. out.code = job[j].code /\ out.checked = disk
    OBVIOUS
  <2> HIDE DEF out
  <2>5. /\ job'[j] = [step |-> "answer", out |-> out]
        /\ \A k \in Jobs : k # j => job'[k] = job[k]
    BY <2>2, <2>3, GotoMoves
  <2>6. KeysAreOld' /\ CachesAreExact'
    BY <1>0, <1>5, <2>2, <2>4, <2>5
       DEF CheckAndStore, Store, KeysAreOld, CachesAreExact, KeyIsExact, Is, Of
  <2>7. UnracedIsExact'
    BY <1>0, <1>5, <2>4, <2>5, Constants DEF CheckAndStore, Store, UnracedIsExact, Is, Of
  <2> QED
    BY <1>1, <2>6, <2>7
<1>6. CASE Fail(j)
  <2> DEFINE culprit == IF Is(j, "compile") THEN Input(j) ELSE disk
             out == [code |-> culprit, checked |-> culprit]
  <2>1. culprit \in Sources
    BY JobHolds, KeyTypes DEF TypeOK, Input
  <2>2. culprit[Entry] = IF Is(j, "compile") THEN job[j].src ELSE disk[Entry]
    BY JobHolds, Constants DEF Input, TypeOK, Sources
  <2>3. Goto(j, [step |-> "answer", out |-> out]) /\ UNCHANGED <<devCache, memo>>
    BY <1>6 DEF Fail
  <2>4. [step |-> "answer", out |-> out] \in Job
    BY <2>1, JobStates DEF Out
  <2>5. Of(out, culprit[Entry])
    BY DEF Of
  <2> HIDE DEF culprit, out
  <2>6. /\ job'[j] = [step |-> "answer", out |-> out]
        /\ \A k \in Jobs : k # j => job'[k] = job[k]
    BY <2>3, <2>4, GotoMoves
  <2>7. KeysAreOld' /\ CachesAreExact'
    BY <1>0, <2>3, <2>6 DEF KeysAreOld, CachesAreExact, KeyIsExact, Is, Of
  <2>8. UnracedIsExact'
    BY <1>0, <1>6, <2>2, <2>5, <2>6, Constants DEF UnracedIsExact, Is, Of
  <2> QED
    BY <1>1, <2>7, <2>8
<1> QED
    BY <1>2, <1>3, <1>4, <1>5, <1>6 DEF JobStep

LEMMA ExactStep ==
    ASSUME IndInv, [Next]_vars
    PROVE  Exact'
<1>1. CASE LoopStep
    BY <1>1, LoopExact
<1>2. CASE RecordSuppression \/ \E f \in Files : Expire(f) \/ Emit(f)
    BY <1>2, ExactFrame DEF IndInv, exactVars, RecordSuppression, Expire, Emit,
                            diskVars, loopVars, jobVars
<1>3. ASSUME NEW f \in Files, Save(f) \/ EditAst(f)
      PROVE  Exact'
  <2>1. EditAst(f) => saves + 1 \in Versions
    BY Constants DEF EditAst, Write, IndInv, TypeInv, TypeOK
  <2> QED
    BY <1>3, <2>1, WriteExact DEF Save, EditAst
<1>4. ASSUME NEW j \in Jobs, JobStep(j)
      PROVE  Exact'
    BY <1>4, JobExact
<1>5. ASSUME NEW b \in Browsers, Open(b) \/ TabStep(b)
      PROVE  Exact'
    BY <1>5, TabExact
<1>6. CASE UNCHANGED vars
    BY <1>6, ExactFrame DEF IndInv, exactVars, vars, diskVars, loopVars, jobVars
<1> QED
    BY <1>1, <1>2, <1>3, <1>4, <1>5, <1>6 DEF Next

LEMMA Inductive == SafeSpec => []IndInv
<1>1. Init => IndInv
  <2> SUFFICES ASSUME Init PROVE IndInv
    OBVIOUS
  <2>1. TypeInv
    BY TypeStart
  <2>2. Exact
    BY Constants DEF Init, Exact, KeysAreOld, CachesAreExact, KeyIsExact, UnracedIsExact,
                     VerdictUnlessRaced, Is, At
  <2> QED
    BY <2>1, <2>2 DEF IndInv
<1>2. IndInv /\ [Next]_vars => IndInv'
    BY TypeStep, ExactStep DEF IndInv
<1> QED
    BY <1>1, <1>2, PTL DEF SafeSpec

-----------------------------------------------------------------------------
(* Theorems *)

\* Every variable of the dev loop keeps its type: files, channel, caches, jobs,
\* tabs.
THEOREM TypeCorrect == SafeSpec => []TypeOK
<1>1. IndInv => TypeOK
    BY DEF IndInv, TypeInv
<1> QED
    BY <1>1, Inductive, PTL

\* The build status speaks of the content whose hash it carries unless the
\* entry changed during the build (compile_default_entry_with_status,
\* get_or_compile, Compiler::compile), for any imports and browsers, with
\* saves that restore earlier contents.
THEOREM VerdictsMatch == SafeSpec => []VerdictUnlessRaced
<1>1. IndInv => VerdictUnlessRaced
    BY DEF IndInv, Exact
<1> QED
    BY <1>1, Inductive, PTL

-----------------------------------------------------------------------------
(* At rest *)

\* The content of the entry is reported, or will be, to the loop.
Reported ==
    \/ lagged
    \/ Entry \in pending /\ known[Entry] # disk[Entry]
    \/ \E i \in DOMAIN queue : queue[i] = Entry

\* A content not saved before differs from the one the watcher knows.
ContentsAreOld ==
    /\ disk[Entry] <= saves
    /\ known[Entry] # None => known[Entry] <= saves

LoopRests ==
    /\ Is(Loop, "idle") => change = None /\ build = None
    /\ Is(Loop, "announce") => build = None

StatusCurrent == status # None /\ status.hash = disk[Entry] /\ Of(status.out, disk[Entry])

\* The status describes the entry on disk, or a build that will is due.
StatusOwed ==
    \/ Reported
    \/ Is(Loop, "hash")
    \/ IF build # None THEN ~build.raced ELSE StatusCurrent

\* A change of the entry has yet to reach b, or will not reach it.
Due(b) ==
    \/ Reported
    \/ change = Entry
    \/ tab[b].conn # "closed" /\ tab[b].missed
    \/ IsOpen(b) /\ (tab[b].muted \/ \E i \in DOMAIN tab[b].inbox : tab[b].inbox[i] = Entry)

\* What the load of b has read of the entry, or its page shows, is on disk.
PageExact(b) ==
    /\ tab[b].conn = "loading" =>
        /\ Is(b, "compile") => job[b].src = disk[Entry]
        /\ Is(b, "check") => job[b].code[Entry] = disk[Entry]
        /\ Is(b, "answer") => job[b].out.code[Entry] = disk[Entry]
    /\ tab[b].conn \in {"loaded", "open"} => tab[b].page[Entry] = disk[Entry]

PageOwed(b) == Due(b) \/ PageExact(b)

Owed    == ContentsAreOld /\ LoopRests /\ StatusOwed /\ \A b \in Browsers : PageOwed(b)
RestInv == IndInv /\ Owed

reportVars == <<lagged, pending, known, disk, queue>>

\* A save that changes the entry will be reported.
LEMMA WriteReports ==
    ASSUME IndInv, ContentsAreOld,
           NEW f \in Files, NEW v \in {disk[f], saves + 1}, Write(f, v)
    PROVE  /\ ContentsAreOld'
           /\ Reported => Reported'
           /\ Reported' \/ (disk'[Entry] = disk[Entry] /\ UNCHANGED build)
<1>1. saves \in Nat /\ disk \in [Files -> Nat] /\ Entry \in Files
    BY Constants DEF IndInv, TypeInv, TypeOK, Sources
<1>2. known[Entry] # None => known[Entry] \in Nat
    BY Constants DEF IndInv, TypeInv, TypeOK
<1>3. saves + 1 # None
    BY <1>1, NoneAssumption, Constants DEF Write, IndInv, TypeInv, TypeOK, Versions
<1>4. /\ UNCHANGED <<known, queue, lagged>> /\ saves' = saves + 1
      /\ disk' = [disk EXCEPT ![f] = v] /\ pending' = pending \union {f}
      /\ f # Entry \/ v = disk[Entry] => build' = build
    BY DEF Write
<1>5. CASE f = Entry /\ v = saves + 1
  <2>1. disk'[Entry] = saves + 1 /\ Entry \in pending'
    BY <1>1, <1>4, <1>5
  <2>2. known[Entry] # saves + 1
    BY <1>1, <1>2, <1>3 DEF ContentsAreOld
  <2>3. Reported'
    BY <1>4, <2>1, <2>2 DEF Reported
  <2>4. ContentsAreOld'
    BY <1>1, <1>2, <1>4, <2>1 DEF ContentsAreOld
  <2> QED
    BY <2>3, <2>4
<1>6. CASE f # Entry \/ v = disk[Entry]
  <2>1. disk'[Entry] = disk[Entry]
    BY <1>1, <1>4, <1>6
  <2>2. ContentsAreOld'
    BY <1>1, <1>2, <1>4, <2>1 DEF ContentsAreOld
  <2>3. Reported => Reported'
    BY <1>4, <2>1 DEF Reported
  <2> QED
    BY <1>4, <1>6, <2>1, <2>2, <2>3
<1> QED
    BY <1>5, <1>6

\* What the watcher drops from a full channel leaves it lagged.
LEMMA EmitReports ==
    ASSUME IndInv, ContentsAreOld, NEW f \in Files, Emit(f)
    PROVE  ContentsAreOld' /\ (Reported => Reported')
<1>1. /\ Entry \in Files /\ known \in [Files -> Versions \union {None}]
      /\ queue \in Seq(Files) /\ lagged \in BOOLEAN
    BY Constants DEF IndInv, TypeInv, TypeOK
<1>2. /\ UNCHANGED <<disk, saves>> /\ pending' = pending \ {f}
      /\ known' = [known EXCEPT ![f] = disk[f]]
    BY DEF Emit, diskVars
<1>3. ContentsAreOld'
    BY <1>1, <1>2 DEF ContentsAreOld
<1>4. CASE known[f] = disk[f]
  <2>1. UNCHANGED <<queue, lagged>> /\ known'[Entry] = known[Entry]
    BY <1>1, <1>2, <1>4 DEF Emit
  <2>2. Reported => Reported'
    BY <1>2, <1>4, <2>1 DEF Reported
  <2> QED
    BY <1>3, <2>2
<1>5. CASE known[f] # disk[f] /\ Len(queue) = QueueSize
  <2>1. lagged'
    BY <1>5 DEF Emit
  <2> QED
    BY <1>3, <2>1 DEF Reported
<1>6. CASE known[f] # disk[f] /\ Len(queue) # QueueSize
  <2>1. queue' = Append(queue, f) /\ lagged' = lagged
    BY <1>1, <1>6 DEF Emit
  <2>2. CASE f = Entry
    <3>1. Len(queue) + 1 \in DOMAIN queue' /\ queue'[Len(queue) + 1] = Entry
      BY <1>1, <2>1, <2>2
    <3> QED
      BY <1>3, <3>1 DEF Reported
  <2>3. CASE f # Entry
    <3>1. \A i \in DOMAIN queue : i \in DOMAIN queue' /\ queue'[i] = queue[i]
      BY <1>1, <2>1
    <3>2. known'[Entry] = known[Entry] /\ (Entry \in pending => Entry \in pending')
      BY <1>1, <1>2, <2>3
    <3> QED
      BY <1>2, <1>3, <2>1, <3>1, <3>2 DEF Reported
  <2> QED
    BY <2>2, <2>3
<1> QED
    BY <1>4, <1>5, <1>6

LEMMA ReceiveReports ==
    ASSUME IndInv, Receive
    PROVE  Reported => Reported' \/ change' = Entry
<1>1. queue \in Seq(Files) /\ queue # <<>>
    BY DEF Receive, IndInv, TypeInv, TypeOK
<1>2. /\ UNCHANGED <<disk, pending, known, lagged>>
      /\ queue' = Tail(queue) /\ change' = Head(queue)
    BY DEF Receive, diskVars
<1>3. ASSUME NEW i \in DOMAIN queue, queue[i] = Entry
      PROVE  Reported' \/ change' = Entry
  <2>1. CASE i = 1
    BY <1>1, <1>2, <1>3, <2>1
  <2>2. CASE i # 1
    <3>1. i - 1 \in DOMAIN queue' /\ queue'[i - 1] = queue[i]
      BY <1>1, <1>2, <2>2
    <3> QED
      BY <1>3, <3>1 DEF Reported
  <2> QED
    BY <2>1, <2>2
<1> QED
    BY <1>2, <1>3 DEF Reported

\* A step of a compile moves its own job, and never to a rest.
LEMMA JobMoves ==
    ASSUME IndInv, NEW j \in Jobs, JobStep(j)
    PROVE  /\ UNCHANGED <<diskVars, watchVars, loopVars, tab>>
           /\ job[j].step \in {"lookup", "read", "compile", "check"}
           /\ job'[j].step \in {"read", "compile", "check", "answer"}
           /\ \A k \in Jobs : k # j => job'[k] = job[k]
<1>1. job \in [Jobs -> Job]
    BY DEF IndInv, TypeInv, TypeOK
<1>2. CASE Lookup(j)
    BY <1>1, <1>2 DEF Lookup, Goto, Is
<1>3. CASE ReadEntry(j)
    BY <1>1, <1>3 DEF ReadEntry, Goto, Is
<1>4. CASE Compile(j)
    BY <1>1, <1>4 DEF Compile, Goto, Is
<1>5. CASE CheckAndStore(j)
    BY <1>1, <1>5 DEF CheckAndStore, Store, Goto, Is
<1>6. CASE Fail(j)
    BY <1>1, <1>6 DEF Fail, Goto, Is
<1> QED
    BY <1>2, <1>3, <1>4, <1>5, <1>6 DEF JobStep

\* Where each step of the loop leads.
LEMMA LoopMoves ==
    ASSUME IndInv, LoopStep
    PROVE  /\ UNCHANGED <<diskVars, pending, known, lagged>>
           /\ Receive => job'[Loop].step = "hash"
           /\ EndLoop => job'[Loop].step = "ended"
           /\ HashEntry => job'[Loop].step = "lookup"
           /\ Report => job'[Loop].step = IF change = None THEN "idle" ELSE "announce"
           /\ Announce => job'[Loop].step = "idle"
           /\ \A k \in Jobs : k # Loop => job'[k] = job[k]
<1>1. job \in [Jobs -> Job] /\ Loop \in Jobs
    BY Constants DEF IndInv, TypeInv, TypeOK
<1> QED
    BY <1>1 DEF LoopStep, Receive, EndLoop, HashEntry, Report, Announce, Goto, At, watchVars

-----------------------------------------------------------------------------
LEMMA StatusStep ==
    ASSUME ~Reverts, RestInv, [Next]_vars
    PROVE  (ContentsAreOld /\ LoopRests /\ StatusOwed)'
<1> USE DEF RestInv, Owed
<1>0. Loop \in Jobs /\ build \in Build \union {None}
    BY Constants DEF IndInv, TypeInv, TypeOK
<1>1. CASE LoopStep
  <2>1. ContentsAreOld'
    BY <1>1, LoopMoves DEF ContentsAreOld, diskVars
  <2>2. CASE Receive
    <3>1. job'[Loop].step = "hash" /\ build' = build
      BY <1>1, <2>2, LoopMoves DEF Receive
    <3> QED
      BY <2>1, <3>1 DEF LoopRests, StatusOwed, Is
  <2>3. CASE EndLoop
    <3>1. job'[Loop].step = "ended" /\ Reported'
      BY <1>1, <2>3, LoopMoves DEF EndLoop, Reported
    <3> QED
      BY <2>1, <3>1 DEF LoopRests, StatusOwed, Is
  <2>4. CASE HashEntry
    <3>1. /\ job'[Loop].step = "lookup"
          /\ build' # None /\ ~build'.raced
      <4>1. build' \in Build
        BY <2>4, KeyTypes DEF HashEntry, Build, IndInv, TypeInv
      <4> QED
        BY <1>1, <2>4, <4>1, LoopMoves, NoneAssumption DEF HashEntry
    <3> QED
      BY <2>1, <3>1 DEF LoopRests, StatusOwed, Is
  <2>5. CASE Report
    <3>1. /\ job'[Loop].step = (IF change = None THEN "idle" ELSE "announce")
          /\ build' = None /\ UNCHANGED <<change, queue>>
          /\ UNCHANGED <<disk, pending, known, lagged>>
      BY <1>1, <2>5, LoopMoves DEF Report, watchVars, diskVars
    <3>2. /\ build # None
          /\ status' = [hash |-> build.hash, out |-> job[Loop].out, raced |-> build.raced]
      BY <2>5, NoneAssumption DEF Report, IndInv, TypeInv, LoopKnows, Is
    <3>3. ~build.raced => StatusCurrent'
      <4>1. status' \in Status
        BY <1>0, <2>5, <3>2, JobHolds DEF Report, Status, Build, IndInv, TypeInv
      <4>2. status' # None
        BY <4>1, NoneAssumption
      <4> QED
        BY <2>5, <3>1, <3>2, <4>2 DEF Report, StatusCurrent, IndInv, Exact, UnracedIsExact, Of
    <3>4. Reported => Reported'
      BY <3>1 DEF Reported
    <3>5. StatusOwed'
      BY <2>5, <3>1, <3>2, <3>3, <3>4 DEF Report, StatusOwed, Is
    <3> QED
      BY <2>1, <3>1, <3>5 DEF LoopRests, Is
  <2>6. CASE Announce
    <3>1. /\ job'[Loop].step = "idle" /\ change' = None
          /\ UNCHANGED <<disk, pending, known, lagged, queue, build, status>>
      BY <1>1, <2>6, LoopMoves DEF Announce, watchVars, diskVars
    <3>2. build = None
      BY <2>6 DEF Announce, LoopRests
    <3>3. StatusOwed'
      BY <2>6, <3>1 DEF Announce, StatusOwed, StatusCurrent, Reported, Is
    <3> QED
      BY <2>1, <3>1, <3>2, <3>3 DEF LoopRests, Is
  <2> QED
    BY <1>1, <2>2, <2>3, <2>4, <2>5, <2>6 DEF LoopStep
<1>2. ASSUME NEW f \in Files, Save(f) \/ EditAst(f)
      PROVE  (ContentsAreOld /\ LoopRests /\ StatusOwed)'
  <2>1. PICK v \in {disk[f], saves + 1} : Write(f, v)
    BY <1>2 DEF Save, EditAst
  <2>2. UNCHANGED <<status, job, change>> /\ (build = None => build' = None)
    BY <2>1 DEF Write, jobVars
  <2>3. ContentsAreOld' /\ (Reported => Reported')
         /\ (Reported' \/ (disk'[Entry] = disk[Entry] /\ build' = build))
    BY <2>1, WriteReports
  <2>4. StatusOwed'
    BY <2>2, <2>3 DEF StatusOwed, StatusCurrent, Is
  <2> QED
    BY <2>2, <2>3, <2>4 DEF LoopRests, Is
<1>3. ASSUME NEW f \in Files, Emit(f)
      PROVE  (ContentsAreOld /\ LoopRests /\ StatusOwed)'
  <2>1. ContentsAreOld' /\ (Reported => Reported')
    BY <1>3, EmitReports
  <2>2. UNCHANGED <<disk, job, change, build, status>>
    BY <1>3 DEF Emit, diskVars, jobVars, loopVars
  <2> QED
    BY <2>1, <2>2 DEF LoopRests, StatusOwed, StatusCurrent, Is
<1>4. ASSUME NEW j \in Jobs, JobStep(j)
      PROVE  (ContentsAreOld /\ LoopRests /\ StatusOwed)'
  <2>1. /\ UNCHANGED <<disk, saves, pending, known, queue, lagged, change, build, status>>
        /\ job'[Loop].step \notin {"idle", "announce"} \/ job'[Loop] = job[Loop]
        /\ job[Loop].step # "hash" \/ job'[Loop] = job[Loop]
    BY <1>0, <1>4, JobMoves DEF diskVars, watchVars, loopVars
  <2> QED
    BY <2>1 DEF ContentsAreOld, LoopRests, StatusOwed, StatusCurrent, Reported, Is
<1>5. CASE \/ RecordSuppression \/ \E f \in Files : Expire(f)
           \/ \E b \in Browsers : Open(b) \/ TabStep(b)
           \/ UNCHANGED vars
  <2>1. /\ UNCHANGED <<disk, saves, pending, known, queue, lagged, change, build, status>>
        /\ job'[Loop] = job[Loop]
    <3>1. job \in [Jobs -> Job] /\ Loop \notin Browsers
      BY ReloadAssumption DEF IndInv, TypeInv, TypeOK
    <3> QED
      BY <1>0, <1>5, <3>1 DEF RecordSuppression, Expire, Open, TabStep, Load, Deliver, Connect,
          Reload, Withhold, Goto, vars, diskVars, watchVars, loopVars, jobVars
  <2> QED
    BY <2>1 DEF ContentsAreOld, LoopRests, StatusOwed, StatusCurrent, Reported, Is
<1> QED
    BY <1>1, <1>2, <1>3, <1>4, <1>5 DEF Next

\* Steps that leave b and its load alone.
LEMMA PageFrame ==
    ASSUME NEW b \in Browsers, PageOwed(b), tab'[b] = tab[b], job'[b] = job[b],
           disk'[Entry] = disk[Entry], Reported \/ change = Entry => Reported' \/ change' = Entry
    PROVE  PageOwed(b)'
    BY DEF PageOwed, PageExact, Due, IsOpen, Is

\* The steps of b's own load and tab.
LEMMA LoadStep ==
    ASSUME RestInv, NEW b \in Browsers, JobStep(b)
    PROVE  PageOwed(b)'
<1> USE DEF RestInv, Owed, IndInv, TypeInv, Exact, Is
<1>0. b \in Jobs /\ Entry \in Files /\ disk \in [Files -> Versions] /\ job \in [Jobs -> Job]
    BY Constants DEF TypeOK, Sources
<1>1. UNCHANGED <<disk, mtime, tab, lagged, pending, known, queue, change>>
    BY <1>0, JobMoves DEF diskVars, watchVars, loopVars
<1>2. Due(b) => Due(b)'
    BY <1>1 DEF Due, Reported, IsOpen
<1>3. ASSUME PageExact(b)
      PROVE  PageExact(b)'
  <2>1. CASE Lookup(b)
    BY <1>0, <1>1, <1>3, <2>1 DEF Lookup, Goto, PageExact, CachesAreExact, CurrentKey, Of
  <2>2. CASE ReadEntry(b)
    BY <1>0, <1>1, <1>3, <2>2 DEF ReadEntry, Goto, PageExact
  <2>3. CASE Compile(b)
    <3> DEFINE code == IF memo # None /\ memo.src = job[b].src THEN memo.code ELSE Input(b)
    <3>1. job[b].src \in Versions
      BY <1>0, <2>3, JobHolds DEF Compile
    <3>2. code[Entry] = job[b].src
      BY <1>0, <3>1 DEF CachesAreExact, Input
    <3>3. Goto(b, [step |-> "check", key |-> job[b].key, code |-> code]) /\ Is(b, "compile")
      BY <2>3 DEF Compile
    <3> HIDE DEF code
    <3> QED
      BY <1>0, <1>1, <1>3, <3>2, <3>3 DEF Goto, PageExact
  <2>4. CASE CheckAndStore(b)
    BY <1>0, <1>1, <1>3, <2>4 DEF CheckAndStore, Store, Goto, PageExact
  <2>5. CASE Fail(b)
    <3> DEFINE culprit == IF Is(b, "compile") THEN Input(b) ELSE disk
    <3>1. culprit[Entry] = IF Is(b, "compile") THEN job[b].src ELSE disk[Entry]
      BY <1>0, JobHolds DEF Input
    <3>2. Goto(b, [step |-> "answer", out |-> [code |-> culprit, checked |-> culprit]])
      BY <2>5 DEF Fail
    <3> HIDE DEF culprit
    <3> QED
      BY <1>0, <1>1, <1>3, <3>1, <3>2 DEF Goto, PageExact
  <2> QED
    BY <2>1, <2>2, <2>3, <2>4, <2>5 DEF JobStep
<1> QED
    BY <1>2, <1>3 DEF PageOwed

LEMMA OwnTabStep ==
    ASSUME RestInv, NEW b \in Browsers, Open(b) \/ TabStep(b)
    PROVE  PageOwed(b)'
<1> USE DEF RestInv, Owed, IndInv, TypeInv, Is
<1>0. b \in Jobs /\ job \in [Jobs -> Job] /\ tab \in [Browsers -> Tab]
    BY Constants DEF TypeOK
<1>1. UNCHANGED <<disk, lagged, pending, known, queue, change>>
    BY DEF Open, TabStep, Load, Deliver, Connect, Reload, Withhold, diskVars, watchVars, loopVars
<1>2. Reported \/ change = Entry => Due(b)'
    BY <1>1 DEF Due, Reported
<1>3. CASE Load(b)
    BY <1>0, <1>3 DEF Load, Goto, At, PageOwed, PageExact
<1>4. CASE Deliver(b)
    BY <1>0, <1>1, <1>2, <1>4 DEF Deliver, PageOwed, PageExact, Due, IsOpen
<1>5. CASE Connect(b)
    BY <1>0, <1>1, <1>2, <1>5 DEF Connect, PageOwed, PageExact, Due, IsOpen
<1>6. CASE Withhold(b)
    BY <1>0, <1>2, <1>6 DEF Withhold, PageOwed, Due, IsOpen
<1> QED
    BY <1>3, <1>4, <1>5, <1>6 DEF Open, TabStep, Reload

LEMMA AnnounceStep ==
    ASSUME RestInv, Announce, NEW b \in Browsers
    PROVE  PageOwed(b)'
<1> USE DEF RestInv, Owed, IndInv, TypeInv
<1>0. b # Loop /\ b \in Jobs /\ job \in [Jobs -> Job] /\ LoopStep
    BY Constants, ReloadAssumption DEF TypeOK, LoopStep
<1>1. UNCHANGED <<disk, lagged, pending, known, queue>> /\ job'[b] = job[b]
    BY <1>0, LoopMoves DEF Announce, diskVars, watchVars
<1>2. CASE IsOpen(b)
  <2>0. tab' = [c \in Browsers |->
                  CASE IsOpen(c) -> [tab[c] EXCEPT !.inbox = Append(@, change)]
                    [] tab[c].conn \in {"loading", "loaded"} -> [tab[c] EXCEPT !.missed = TRUE]
                    [] OTHER -> tab[c]]
    BY DEF Announce
  <2>1. tab[b] \in OpenTab /\ tab'[b] = [tab[b] EXCEPT !.inbox = Append(@, change)]
    <3>1. tab[b] \in OpenTab
      BY <1>2, TabHolds
    <3>2. tab'[b] = [tab[b] EXCEPT !.inbox = Append(@, change)]
      BY <1>2, <2>0 DEF IsOpen
    <3> QED
      BY <3>1, <3>2
  <2>2. /\ tab'[b].conn = "open" /\ tab'[b].page = tab[b].page
        /\ tab'[b].missed = tab[b].missed /\ tab'[b].muted = tab[b].muted
        /\ tab'[b].inbox = Append(tab[b].inbox, change) /\ tab[b].inbox \in Seq(Files)
    BY <1>2, <2>1 DEF OpenTab, IsOpen
  <2>3. change = Entry => \E i \in DOMAIN tab'[b].inbox : tab'[b].inbox[i] = Entry
    <3>1. Len(tab[b].inbox) + 1 \in DOMAIN tab'[b].inbox
          /\ tab'[b].inbox[Len(tab[b].inbox) + 1] = change
      BY <2>2, LoopMoves DEF Announce
    <3> QED
      BY <3>1
  <2>4. \A i \in DOMAIN tab[b].inbox :
           i \in DOMAIN tab'[b].inbox /\ tab'[b].inbox[i] = tab[b].inbox[i]
    BY <2>2
  <2>5. Due(b) => Due(b)'
    BY <1>1, <1>2, <2>2, <2>3, <2>4 DEF Due, Reported, IsOpen
  <2>6. PageExact(b) => PageExact(b)'
    BY <1>1, <1>2, <2>2 DEF PageExact, IsOpen
  <2> QED
    BY <2>5, <2>6 DEF PageOwed
<1>3. CASE tab[b].conn \in {"loading", "loaded"}
  <2>1. tab'[b] = [tab[b] EXCEPT !.missed = TRUE]
    BY <1>3 DEF Announce, IsOpen
  <2>2. tab'[b].missed /\ tab'[b].conn # "closed"
    <3>1. CASE tab[b].conn = "loading"
      BY <2>1, <3>1, TabHolds
    <3>2. CASE tab[b].conn = "loaded"
      BY <2>1, <3>2, TabHolds
    <3> QED
      BY <1>3, <3>1, <3>2
  <2> QED
    BY <2>2 DEF PageOwed, Due
<1>4. CASE tab[b].conn \notin {"loading", "loaded", "open"}
  <2>1. tab'[b] = tab[b]
    BY <1>4 DEF Announce, IsOpen
  <2> QED
    BY <1>4, <2>1 DEF PageOwed, PageExact
<1> QED
    BY <1>2, <1>3, <1>4 DEF IsOpen

LEMMA PageStep ==
    ASSUME ~Reverts, RestInv, [Next]_vars, NEW b \in Browsers
    PROVE  PageOwed(b)'
<1> USE DEF RestInv, Owed, IndInv, TypeInv
<1>0. b # Loop /\ b \in Jobs /\ Loop \in Jobs /\ job \in [Jobs -> Job] /\ tab \in [Browsers -> Tab]
    BY Constants, ReloadAssumption DEF TypeOK
<1>1. CASE Announce
    BY <1>1, AnnounceStep
<1>2. CASE LoopStep /\ ~Announce
  <2>1. UNCHANGED <<disk, pending, known, lagged, tab>> /\ job'[b] = job[b]
    BY <1>0, <1>2, LoopMoves DEF LoopStep, Receive, EndLoop, HashEntry, Report, diskVars
  <2>2. Reported \/ change = Entry => Reported' \/ change' = Entry
    <3>1. CASE Receive
      <4>1. change = None /\ Entry # None
        BY <3>1, Constants, NoneAssumption DEF Receive, LoopRests
      <4> QED
        BY <3>1, <4>1, ReceiveReports
    <3>2. CASE EndLoop \/ HashEntry \/ Report
      <4>1. UNCHANGED <<queue, change>>
        BY <3>2 DEF EndLoop, HashEntry, Report, watchVars, loopVars
      <4> QED
        BY <2>1, <4>1 DEF Reported
    <3> QED
      BY <1>2, <3>1, <3>2 DEF LoopStep
  <2> QED
    BY <2>1, <2>2, PageFrame
<1>3. ASSUME NEW f \in Files, Save(f) \/ EditAst(f)
      PROVE  PageOwed(b)'
  <2>1. PICK v \in {disk[f], saves + 1} : Write(f, v)
    BY <1>3 DEF Save, EditAst
  <2>2. UNCHANGED <<tab, job, change>>
    BY <2>1 DEF Write, jobVars, loopVars
  <2>3. CASE Reported'
    BY <2>3 DEF PageOwed, Due
  <2>4. CASE ~Reported'
    BY <2>1, <2>2, <2>4, WriteReports, PageFrame
  <2> QED
    BY <2>3, <2>4
<1>4. ASSUME NEW f \in Files, Emit(f)
      PROVE  PageOwed(b)'
  <2>1. UNCHANGED <<disk, tab, job, change>>
    BY <1>4 DEF Emit, diskVars, jobVars, loopVars
  <2> QED
    BY <1>4, <2>1, EmitReports, PageFrame
<1>5. ASSUME NEW j \in Jobs, JobStep(j)
      PROVE  PageOwed(b)'
  <2>1. CASE j = b
    BY <1>5, <2>1, LoadStep
  <2>2. CASE j # b
    <3>1. UNCHANGED <<disk, pending, known, queue, lagged, change, tab>> /\ job'[b] = job[b]
      BY <1>0, <1>5, <2>2, JobMoves DEF diskVars, watchVars, loopVars
    <3> QED
      BY <3>1, PageFrame DEF Reported
  <2> QED
    BY <2>1, <2>2
<1>6. ASSUME NEW c \in Browsers, Open(c) \/ TabStep(c)
      PROVE  PageOwed(b)'
  <2>1. CASE c = b
    BY <1>6, <2>1, OwnTabStep
  <2>2. CASE c # b
    <3>1. /\ UNCHANGED <<disk, pending, known, queue, lagged, change>>
          /\ job'[b] = job[b] /\ tab'[b] = tab[b]
      BY <1>0, <1>6, <2>2 DEF Open, TabStep, Load, Deliver, Connect, Reload, Withhold,
                              Goto, diskVars, watchVars, loopVars, jobVars
    <3> QED
      BY <3>1, PageFrame DEF Reported
  <2> QED
    BY <2>1, <2>2
<1>7. CASE RecordSuppression \/ (\E f \in Files : Expire(f)) \/ UNCHANGED vars
  <2>1. UNCHANGED <<disk, pending, known, queue, lagged, change, tab, job>>
    BY <1>7 DEF RecordSuppression, Expire, vars, diskVars, watchVars, loopVars, jobVars
  <2> QED
    BY <2>1, PageFrame DEF Reported
<1> QED
    BY <1>1, <1>2, <1>3, <1>4, <1>5, <1>6, <1>7 DEF Next

LEMMA RestInductive ==
    ASSUME ~Reverts
    PROVE  SafeSpec => []RestInv
<1>1. Init => RestInv
  <2> SUFFICES ASSUME Init PROVE RestInv
    OBVIOUS
  <2>1. IndInv
    <3>1. Exact
      BY Constants DEF Init, Exact, KeysAreOld, CachesAreExact, KeyIsExact, UnracedIsExact,
                       VerdictUnlessRaced, Is, At
    <3> QED
      BY <3>1, TypeStart DEF IndInv
  <2>2. Owed
    BY Constants DEF Init, Owed, ContentsAreOld, LoopRests, StatusOwed, PageOwed, PageExact,
                     Original, Closed, Is, At
  <2> QED
    BY <2>1, <2>2 DEF RestInv
<1>2. RestInv /\ [Next]_vars => RestInv'
  <2> SUFFICES ASSUME RestInv, [Next]_vars PROVE RestInv'
    OBVIOUS
  <2>1. IndInv'
    BY TypeStep, ExactStep DEF RestInv, IndInv
  <2>2. Owed'
    BY StatusStep, PageStep DEF Owed
  <2> QED
    BY <2>1, <2>2 DEF RestInv
<1> QED
    BY <1>1, <1>2, PTL DEF SafeSpec

\* No change is on its way to the loop or lost, and the loop waits for one.
LoopAtRest == Is(Loop, "idle") /\ ~lagged /\ pending = {} /\ queue = <<>>

\* A loop at rest has reported the content of the entry that is on disk, and
\* checked that content.
StatusAtRest == LoopAtRest => StatusCurrent

\* "On every watched file change, the dev server compiles the site's default
\* entry" (Watcher's debounce, serve's change task,
\* compile_default_entry_with_status): build-status.json is never left at an
\* old entry, whatever the interleaving of saves, debounces, builds and
\* requests, as long as no save restores an earlier content and the channel
\* does not overflow.
THEOREM StatusCurrentAtRest ==
    ASSUME ~Reverts
    PROVE  SafeSpec => []StatusAtRest
<1>1. RestInv => StatusAtRest
    BY DEF RestInv, Owed, StatusAtRest, LoopAtRest, LoopRests, StatusOwed, Reported, Is
<1> QED
    BY <1>1, RestInductive, PTL

\* While the loop is at rest, an open page that has nothing in its inbox shows
\* the entry on disk, unless a change was missed or withheld.
PagesAtRest ==
    LoopAtRest => \A b \in Browsers :
        IsOpen(b) /\ tab[b].inbox = <<>> /\ ~tab[b].missed /\ ~tab[b].muted
            => tab[b].page[Entry] = disk[Entry]

\* "The file watcher detects the change and sends a Reload message to all
\* clients" (handle_socket, get_or_compile): a request that a page makes while
\* the loop builds never leaves it with an old entry through the caches they
\* share, other than for a change announced before its socket opened and one
\* suppressed after an EditAst.
THEOREM PagesCurrentAtRest ==
    ASSUME ~Reverts
    PROVE  SafeSpec => []PagesAtRest
<1>1. RestInv => PagesAtRest
  <2> SUFFICES ASSUME RestInv, LoopAtRest, NEW b \in Browsers,
                      IsOpen(b), tab[b].inbox = <<>>, ~tab[b].missed, ~tab[b].muted
               PROVE  tab[b].page[Entry] = disk[Entry]
    BY DEF PagesAtRest
  <2>1. change # Entry
    BY Constants, NoneAssumption DEF RestInv, Owed, LoopAtRest, LoopRests
  <2>2. ~Due(b)
    BY <2>1 DEF Due, Reported, LoopAtRest
  <2> QED
    BY <2>2 DEF RestInv, Owed, PageOwed, PageExact, IsOpen
<1> QED
    BY <1>1, RestInductive, PTL
=============================================================================
