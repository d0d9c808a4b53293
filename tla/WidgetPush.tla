----------------------------- MODULE WidgetPush -----------------------------
(***************************************************************************)
(* Deploy protocol v2 as the dev server conducts it                        *)
(* (src/src/host_push_v2.rs): headless pushes, widget-driven pushes, the   *)
(* single IN_FLIGHT slot, the grace timer that finishes a push whose       *)
(* widget went silent, and the latest progress frame of the hub.           *)
(*                                                                         *)
(* Steps are cut where the code releases the IN_FLIGHT mutex or awaits a   *)
(* host request, so everything another task may do in between happens.     *)
(* Blob bytes are abstracted to their content hash; time to the order in   *)
(* which timers fire; an HTTP error to "the step failed".                  *)
(***************************************************************************)
EXTENDS FiniteSets

CONSTANTS
    Pushes,      \* calls of widget_start and of push
    Headless,    \* those that are calls of push (CLI and /__spacetime/host/push)
    Blobs,       \* content hashes
    Presigned,   \* the blobs the host mints an upload URL for (the large ones)
    Manifests,   \* the blob sets a build of the site may produce
    NoPush,
    Gaps,        \* TRUE: reports and timers may act in the two short stretches in
                 \* which the lock is free but the timer's handle is not settled:
                 \* from the claim to the storing of the handle, and from
                 \* widget_complete's take() to the abort of the timer
    Disconnects  \* TRUE: clients drop their connection, which drops the
                 \* future of the handler that serves them at its next await

ASSUME PushAssumption ==
    /\ Headless \subseteq Pushes
    /\ Presigned \subseteq Blobs
    /\ Manifests \subseteq SUBSET Blobs
    /\ NoPush \notin Pushes
    /\ Gaps \in BOOLEAN
    /\ Disconnects \in BOOLEAN

VARIABLES
    phase,     \* phase[p]: how far push p is
    tail,      \* tail[p]: what is left of widget_start once p took the slot
    slot,      \* IN_FLIGHT: the push in the slot, or NoPush
    todo,      \* todo[p]: blobs the dev server has still to upload for p
    pending,   \* pending[p]: InFlightPush::pending, the widget's work list
    manifest,  \* manifest[p]: the blobs p's artifact refers to
    timer,     \* timer[p]: the grace timer widget_start spawned for p
    grace,     \* grace[p]: the timer whose handle InFlightPush::grace holds
    tending,   \* tending[t]: the push timer t's task took over, or NoPush
    last,      \* PushHub::last, the type of the latest progress frame
    stored,    \* host: the blobs it has
    live,      \* host: the pushes whose commit it applied
    vouched    \* blobs a widget reported done (a history of its claims)

flightVars == <<tail, slot, grace, timer, tending>>
hostVars   == <<stored, live, vouched>>
vars == <<phase, tail, slot, todo, pending, manifest, timer, grace, tending,
          last, stored, live, vouched>>

ActiveFrames  == {"building", "uploading", "committing"}
Frames        == ActiveFrames \union {"none", "done", "error"}
\* Phases in which some task is bound to move the push on.
RunningPhases == {"checked", "building", "uploading", "held", "taken",
                  "takeover", "committing", "probing"}
EndPhases     == {"done", "failed", "refused", "lost"}
Phases        == {"idle"} \union RunningPhases \union EndPhases

TypeOK ==
    /\ phase \in [Pushes -> Phases]
    /\ tail \in [Pushes -> {"none", "spawn", "attach", "returned"}]
    /\ slot \in Pushes \union {NoPush}
    /\ todo \in [Pushes -> SUBSET Blobs]
    /\ pending \in [Pushes -> SUBSET Blobs]
    /\ manifest \in [Pushes -> SUBSET Blobs]
    /\ timer \in [Pushes -> {"none", "armed", "fired", "aborted"}]
    /\ grace \in [Pushes -> Pushes \union {NoPush}]
    /\ tending \in [Pushes -> Pushes \union {NoPush}]
    /\ last \in Frames
    /\ stored \subseteq Blobs
    /\ live \subseteq Pushes
    /\ vouched \subseteq Blobs

Init ==
    /\ phase = [p \in Pushes |-> "idle"]
    /\ tail = [p \in Pushes |-> "none"]
    /\ slot = NoPush
    /\ todo = [p \in Pushes |-> {}]
    /\ pending = [p \in Pushes |-> {}]
    /\ manifest = [p \in Pushes |-> {}]
    /\ timer = [p \in Pushes |-> "none"]
    /\ grace = [p \in Pushes |-> NoPush]
    /\ tending = [p \in Pushes |-> NoPush]
    /\ last = "none"
    /\ stored = {}
    /\ live = {}
    /\ vouched = {}

-----------------------------------------------------------------------------
(* Helpers *)

Goto(p, ph) == phase' = [phase EXCEPT ![p] = ph]

\* A timer's task that was tending p is finished with it.
LetGo(p) == tending' = [t \in Pushes |-> IF tending[t] = p THEN NoPush
                                                           ELSE tending[t]]

\* p runs in a request handler, not in a spawned task.
ByRequest(p) == \A t \in Pushes : tending[t] # p

\* Mutants: the failure is named after the phase; the failure is silent.
PublishFailureAsPhase(p) == last' = "failed"
PublishNoFailure(p) == last' = last

\* The failure of a widget push leaves an Error frame on the hub; push, the
\* headless flavour, returns its error without publishing one.
PublishFailure(p) == last' = IF p \in Headless THEN last ELSE "error"

Fail(p) ==
    /\ Goto(p, "failed")
    /\ LetGo(p)
    /\ PublishFailure(p)

-----------------------------------------------------------------------------
(* Starting a push: widget_start up to prepare, push up to prepare *)

\* widget_start looks at the slot and releases the lock; push never looks.
Start(p) ==
    /\ phase[p] = "idle"
    /\ Goto(p, IF p \in Headless \/ slot = NoPush THEN "checked" ELSE "refused")
    /\ UNCHANGED <<flightVars, hostVars, todo, pending, manifest, last>>

Prepare(p) ==
    /\ phase[p] = "checked"
    /\ Goto(p, "building")
    /\ last' = "building"
    /\ UNCHANGED <<flightVars, hostVars, todo, pending, manifest>>

\* The build and the init request succeeded: the host named the blobs it
\* misses. The headless push uploads them all; widget_start keeps the
\* presigned ones for the widget.
InitOk(p) ==
    /\ phase[p] = "building"
    /\ \E m \in Manifests :
        LET missing == m \ stored
            forWidget == IF p \in Headless THEN {} ELSE missing \intersect Presigned
        IN /\ manifest' = [manifest EXCEPT ![p] = m]
           /\ todo' = [todo EXCEPT ![p] = missing \ forWidget]
           /\ pending' = [pending EXCEPT ![p] = forWidget]
    /\ Goto(p, "uploading")
    /\ UNCHANGED <<flightVars, hostVars, last>>

InitFails(p) ==
    /\ phase[p] = "building"
    /\ Fail(p)
    /\ UNCHANGED <<tail, slot, grace, timer, hostVars, todo, pending, manifest>>

\* One upload of the loop in push, in widget_start or in the grace task.
UploadOk(p) ==
    /\ phase[p] \in {"uploading", "takeover"}
    /\ \E b \in todo[p] :
        /\ todo' = [todo EXCEPT ![p] = @ \ {b}]
        /\ stored' = stored \union {b}
    /\ last' = "uploading"
    /\ UNCHANGED <<flightVars, phase, pending, manifest, live, vouched>>

UploadFails(p) ==
    /\ phase[p] \in {"uploading", "takeover"}
    /\ todo[p] # {}
    /\ Fail(p)
    /\ UNCHANGED <<tail, slot, grace, timer, hostVars, todo, pending, manifest>>

\* Nothing is left for a widget: commit without ever taking the slot.
CommitInline(p) ==
    /\ phase[p] = "uploading"
    /\ todo[p] = {}
    /\ pending[p] = {}
    /\ Goto(p, "committing")
    /\ last' = "committing"
    /\ UNCHANGED <<flightVars, hostVars, todo, pending, manifest>>

\* Mutant: the slot is not looked at again after the build.
ClaimSlotUnchecked(p) ==
    /\ phase[p] = "uploading" /\ todo[p] = {} /\ pending[p] # {}
    /\ slot' = p
    /\ Goto(p, "held")
    /\ tail' = [tail EXCEPT ![p] = "spawn"]
    /\ UNCHANGED <<timer, grace, tending, hostVars, todo, pending, manifest, last>>

\* The slot is looked at again under the lock: a concurrent start may have
\* won it while this one built.
ClaimSlot(p) ==
    /\ phase[p] = "uploading"
    /\ todo[p] = {}
    /\ pending[p] # {}
    /\ slot = NoPush
    /\ slot' = p
    /\ Goto(p, "held")
    /\ tail' = [tail EXCEPT ![p] = "spawn"]
    /\ UNCHANGED <<timer, grace, tending, hostVars, todo, pending, manifest, last>>

LoseSlot(p) ==
    /\ phase[p] = "uploading"
    /\ todo[p] = {}
    /\ pending[p] # {}
    /\ slot # NoPush
    /\ Goto(p, "refused")
    /\ UNCHANGED <<flightVars, hostVars, todo, pending, manifest, last>>

\* The lock is released, then the grace timer is spawned ...
SpawnTimer(p) ==
    /\ tail[p] = "spawn"
    /\ tail' = [tail EXCEPT ![p] = "attach"]
    /\ timer' = [timer EXCEPT ![p] = "armed"]
    /\ UNCHANGED <<phase, slot, grace, tending, hostVars, todo, pending, manifest, last>>

\* ... and its handle stored in whatever flight the slot holds by then.
AttachGrace(p) ==
    /\ tail[p] = "attach"
    /\ tail' = [tail EXCEPT ![p] = "returned"]
    /\ grace' = IF slot = NoPush THEN grace ELSE [grace EXCEPT ![slot] = p]
    /\ UNCHANGED <<phase, slot, timer, tending, hostVars, todo, pending, manifest, last>>

-----------------------------------------------------------------------------
(* The widget and the grace timer *)

\* External: the browser PUTs a blob of a work list it was given.
WidgetPut(b) ==
    /\ b \in Presigned \ stored
    /\ \E p \in Pushes : tail[p] = "returned" /\ b \in manifest[p]
    /\ stored' = stored \union {b}
    /\ UNCHANGED <<flightVars, phase, todo, pending, manifest, last, live, vouched>>

\* Mutant: any report ends the widget's part.
WidgetCompleteEarly(reported) ==
    /\ slot # NoPush
    /\ Gaps \/ tail[slot] = "returned"
    /\ slot' = NoPush /\ Goto(slot, "taken")
    /\ vouched' = vouched \union reported
    /\ UNCHANGED <<tail, timer, grace, tending, todo, pending, manifest, last,
                   stored, live>>

\* widget_complete: the reported blobs leave the work list of the flight in
\* the slot, whichever push the report was meant for; an empty list takes the
\* flight out of the slot.
WidgetComplete(reported) ==
    /\ slot # NoPush
    /\ Gaps \/ tail[slot] = "returned"
    /\ LET rest == pending[slot] \ reported
       IN /\ pending' = [pending EXCEPT ![slot] = rest]
          /\ IF rest = {} THEN slot' = NoPush /\ Goto(slot, "taken")
                          ELSE UNCHANGED <<slot, phase>>
    /\ vouched' = vouched \union reported
    /\ UNCHANGED <<tail, timer, grace, tending, todo, manifest, last, stored, live>>

\* Mutant: the timer of a reported push is left running.
FinalizeNoAbort(p) ==
    /\ \/ phase[p] = "taken"
       \/ phase[p] = "takeover" /\ todo[p] = {}
    /\ Goto(p, "committing")
    /\ last' = "committing"
    /\ UNCHANGED <<flightVars, hostVars, todo, pending, manifest>>

\* finalize_widget_push, for widget_complete or for the grace task once its
\* uploads are over: abort the timer whose handle the flight carries, then
\* announce the commit.
Finalize(p) ==
    /\ \/ phase[p] = "taken"
       \/ phase[p] = "takeover" /\ todo[p] = {}
    /\ Goto(p, "committing")
    /\ last' = "committing"
    /\ timer' = [t \in Pushes |->
                    IF t = grace[p] /\ (timer[t] = "armed" \/ tending[t] # NoPush)
                    THEN "aborted" ELSE timer[t]]
    /\ UNCHANGED <<tail, slot, grace, tending, hostVars, todo, pending, manifest>>

HandleSettled(t) ==
    /\ tail[t] = "returned"
    /\ \A p \in Pushes : ~(phase[p] = "taken" /\ grace[p] = t)

\* Mutants: the handle stays in the flight the timer takes; the timer stands
\* down when the widget has uploaded something.
TimerFiresKeepsHandle(t) ==
    /\ timer[t] = "armed" /\ (Gaps \/ HandleSettled(t)) /\ slot # NoPush
    /\ timer' = [timer EXCEPT ![t] = "fired"]
    /\ tending' = [tending EXCEPT ![t] = slot]
    /\ todo' = [todo EXCEPT ![slot] = pending[slot]]
    /\ pending' = [pending EXCEPT ![slot] = {}]
    /\ Goto(slot, "takeover")
    /\ slot' = NoPush
    /\ UNCHANGED <<tail, grace, hostVars, manifest, last>>

TimerStandsDown(t) ==
    /\ timer[t] = "armed" /\ (Gaps \/ HandleSettled(t)) /\ slot # NoPush
    /\ timer' = [timer EXCEPT ![t] = "fired"]
    /\ IF pending[slot] \intersect stored # {}
       THEN UNCHANGED <<phase, slot, grace, tending, todo, pending>>
       ELSE /\ tending' = [tending EXCEPT ![t] = slot]
            /\ grace' = [grace EXCEPT ![slot] = NoPush]
            /\ todo' = [todo EXCEPT ![slot] = pending[slot]]
            /\ pending' = [pending EXCEPT ![slot] = {}]
            /\ Goto(slot, "takeover")
            /\ slot' = NoPush
    /\ UNCHANGED <<tail, hostVars, manifest, last>>

\* The grace period of timer t is over: its task takes ANY flight.
TimerFires(t) ==
    /\ timer[t] = "armed"
    /\ Gaps \/ HandleSettled(t)
    /\ timer' = [timer EXCEPT ![t] = "fired"]
    /\ IF slot = NoPush
       THEN UNCHANGED <<phase, slot, grace, tending, todo, pending>>
       ELSE /\ tending' = [tending EXCEPT ![t] = slot]
            /\ grace' = [grace EXCEPT ![slot] = NoPush]
            /\ todo' = [todo EXCEPT ![slot] = pending[slot]]
            /\ pending' = [pending EXCEPT ![slot] = {}]
            /\ Goto(slot, "takeover")
            /\ slot' = NoPush
    /\ UNCHANGED <<tail, hostVars, manifest, last>>

-----------------------------------------------------------------------------
(* Commit, and how a push ends *)

\* External: the host applies a commit only if it has every blob.
Complete(p) == manifest[p] \subseteq stored

\* The commit was applied and acknowledged, and persist_cache succeeded.
CommitOk(p) ==
    /\ phase[p] = "committing"
    /\ Complete(p)
    /\ live' = live \union {p}
    /\ Goto(p, "probing")
    /\ UNCHANGED <<flightVars, todo, pending, manifest, last, stored, vouched>>

\* The host rejected it, could not be reached, its answer was lost, or
\* persist_cache failed afterwards: in the last two cases the commit counts.
CommitFails(p) ==
    /\ phase[p] = "committing"
    /\ \E applied \in (IF Complete(p) THEN BOOLEAN ELSE {FALSE}) :
          live' = IF applied THEN live \union {p} ELSE live
    /\ Fail(p)
    /\ UNCHANGED <<tail, slot, grace, timer, todo, pending, manifest, stored, vouched>>

\* probe_preview answered or ran out of attempts: Done either way.
ProbeEnds(p) ==
    /\ phase[p] = "probing"
    /\ Goto(p, "done")
    /\ LetGo(p)
    /\ last' = "done"
    /\ UNCHANGED <<tail, slot, grace, timer, hostVars, todo, pending, manifest>>

\* What the host may make of p's commit request when its sender is gone.
Abandon(p) ==
    /\ \E applied \in (IF phase[p] = "committing" /\ Complete(p)
                       THEN BOOLEAN ELSE {FALSE}) :
          live' = IF applied THEN live \union {p} ELSE live
    /\ Goto(p, "lost")
    /\ LetGo(p)
    /\ UNCHANGED <<tail, slot, grace, timer, todo, pending, manifest, last,
                   stored, vouched>>

\* The client of the handler that runs p goes away while the handler awaits
\* the host: the handler's future is dropped on the spot.
DropHandler(p) ==
    /\ Disconnects
    /\ phase[p] \in {"building", "uploading", "committing", "probing"}
    /\ ByRequest(p)
    /\ Abandon(p)

\* The same while widget_start awaits the lock to store the timer's handle.
DropAttach(p) ==
    /\ Disconnects
    /\ tail[p] = "attach"
    /\ tail' = [tail EXCEPT ![p] = "returned"]
    /\ UNCHANGED <<phase, slot, grace, timer, tending, hostVars, todo, pending,
                   manifest, last>>

\* An aborted task dies at its next await; until then it may still advance.
TaskDies(t) ==
    /\ timer[t] = "aborted"
    /\ tending[t] # NoPush
    /\ Abandon(tending[t])

-----------------------------------------------------------------------------
\* What the dev server does by itself for push p.
Run(p) ==
    \/ Prepare(p) \/ InitOk(p) \/ InitFails(p)
    \/ UploadOk(p) \/ UploadFails(p)
    \/ CommitInline(p) \/ ClaimSlot(p) \/ LoseSlot(p)
    \/ Finalize(p)
    \/ CommitOk(p) \/ CommitFails(p) \/ ProbeEnds(p)

FinishStart(p) == SpawnTimer(p) \/ AttachGrace(p)

Environment ==
    \/ \E p \in Pushes : Start(p) \/ DropHandler(p) \/ DropAttach(p) \/ TaskDies(p)
    \/ \E b \in Presigned : WidgetPut(b)
    \/ \E reported \in SUBSET Presigned : WidgetComplete(reported)

Next ==
    \/ Environment
    \/ \E p \in Pushes : Run(p) \/ FinishStart(p) \/ TimerFires(p)

SafeSpec == Init /\ [][Next]_vars

\* Every await of the dev server ends (http_client sets hard timeouts, the
\* probe a number of attempts) and tokio fires its timers; users, widgets and
\* disconnects owe nothing.
Fairness ==
    \A p \in Pushes :
        /\ WF_vars(Run(p))
        /\ WF_vars(FinishStart(p))
        /\ WF_vars(TimerFires(p))

Spec == SafeSpec /\ Fairness

-----------------------------------------------------------------------------
(* Properties *)

\* A push in the slot always has its own grace timer ahead of it, so the slot
\* can never be poisoned ("every future start gets AlreadyRunning", comment
\* of spawn_grace_timer): no report, abort, stale timer or disconnect takes
\* the timer away before the flight.
SlotHasTimer ==
    slot # NoPush => /\ phase[slot] = "held"
                     /\ \/ tail[slot] = "spawn"
                        \/ timer[slot] = "armed"

\* A commit request never names a blob the host lacks, unless a widget claimed
\* to have uploaded it: the start loop, the hand-over to the widget and the
\* take-over by the timer lose no blob between them.
CommitIsBacked ==
    \A p \in Pushes : phase[p] = "committing" => manifest[p] \subseteq stored \union vouched

\* The chip never sticks: once no push is running, the latest frame is not an
\* active one ("a silent Err leaves it stuck at Committing forever").
HubSettled ==
    (\A p \in Pushes : phase[p] \notin RunningPhases) => last \notin ActiveFrames

\* The grace clock of a push starts once its widget has the work list, and
\* only that clock takes the uploads away from the widget.
OwnTimerOnly == \A t \in Pushes : tending[t] \in {t, NoPush}

\* A task that finishes a push for a silent widget is never aborted under way.
TakeoverNotAborted ==
    \A t \in Pushes : tending[t] # NoPush => timer[t] = "fired"

\* "A closed laptop lid never wedges a push": a push handed to the widget is
\* committed and probed, or its failure is reported, whatever the widget does.
NeverWedged ==
    \A p \in Pushes : phase[p] = "held" ~> phase[p] \in {"done", "failed"}

\* Single flight: what the slot promises (PushSlot), with holder the push in
\* IN_FLIGHT and refused the callers answered AlreadyRunning.
Released == {p \in Pushes : tail[p] # "none" /\ slot # p}
Refused  == {p \in Pushes : phase[p] = "refused"}

Slot == INSTANCE PushSlot WITH holder <- slot, released <- Released,
                               refused <- Refused
SingleFlight == Slot!Spec
=============================================================================
