------------------------------- MODULE PushHub -------------------------------
(***************************************************************************)
(* The progress hub of host_push_v2.rs and the server-sent-event streams   *)
(* of /__spacetime/host/push-events. publish stores the frame and then     *)
(* sends it; subscribe reads the stored frame and then joins the channel:  *)
(* neither pair is atomic. A browser shows the last frame it received and  *)
(* opens a new stream whenever its stream ends.                            *)
(*                                                                         *)
(* A frame is reduced to its number, whether its type is an active one     *)
(* (building, uploading, committing) and its time stamp. The unit of time  *)
(* is arbitrary: what matters is StaleAfter against MaxSilence.            *)
(***************************************************************************)
EXTENDS Naturals, Sequences

CONSTANTS
    Publishers,   \* pushes that publish their progress
    Browsers,     \* event sources
    Capacity,     \* frames the broadcast channel keeps for a slow receiver
    StaleAfter,   \* STALE_ACTIVE_SECS
    MaxSilence,   \* longest time a live push is silent (a request's timeout)
    MaxFrames,    \* bound: frames ever published
    MaxTime,      \* bound: ticks
    NoFrame

ASSUME HubAssumption ==
    /\ Capacity \in Nat \ {0}
    /\ {StaleAfter, MaxSilence, MaxFrames, MaxTime} \subseteq Nat
    /\ NoFrame \notin [id : Nat, active : BOOLEAN, at : Nat] \union Nat

VARIABLES
    now,
    last,      \* PushHub::last
    log,       \* every frame sent on the channel, in order
    writing,   \* writing[p]: frame p stored in last and has not sent yet
    spoke,     \* spoke[p]: when live push p last published; NoFrame if not live
    conn,      \* conn[b]: "off", "reading" (inside subscribe) or "streaming"
    snapshot,  \* snapshot[b]: the snapshot frame the stream still has to yield
    opened,    \* opened[b]: when the stream's snapshot was taken
    cursor,    \* cursor[b]: frames of log the receiver is past
    shown,     \* shown[b]: the frame the browser shows
    base,      \* base[b]: number of the latest frame at the snapshot
    raced      \* raced[b]: a later frame was sent before the stream joined

hubVars  == <<last, log, writing, spoke>>
connVars == <<conn, snapshot, opened, cursor, shown, base, raced>>
vars     == <<now, hubVars, connVars>>

Frame == [id : 1..MaxFrames, active : BOOLEAN, at : 0..MaxTime]
Idle(t) == [id |-> 0, active |-> FALSE, at |-> t]
Shown == Frame \union {NoFrame} \union {Idle(t) : t \in 0..MaxTime}

TypeOK ==
    /\ now \in 0..MaxTime
    /\ last \in Frame \union {NoFrame}
    /\ log \in Seq(Frame)
    /\ writing \in [Publishers -> Frame \union {NoFrame}]
    /\ spoke \in [Publishers -> 0..MaxTime \union {NoFrame}]
    /\ conn \in [Browsers -> {"off", "reading", "streaming"}]
    /\ snapshot \in [Browsers -> Shown]
    /\ opened \in [Browsers -> 0..MaxTime]
    /\ cursor \in [Browsers -> Nat]
    /\ shown \in [Browsers -> Shown]
    /\ base \in [Browsers -> 0..MaxFrames]
    /\ raced \in [Browsers -> BOOLEAN]

Init ==
    /\ now = 0
    /\ last = NoFrame
    /\ log = <<>>
    /\ writing = [p \in Publishers |-> NoFrame]
    /\ spoke = [p \in Publishers |-> NoFrame]
    /\ conn = [b \in Browsers |-> "off"]
    /\ snapshot = [b \in Browsers |-> NoFrame]
    /\ opened = [b \in Browsers |-> 0]
    /\ cursor = [b \in Browsers |-> 0]
    /\ shown = [b \in Browsers |-> NoFrame]
    /\ base = [b \in Browsers |-> 0]
    /\ raced = [b \in Browsers |-> FALSE]

-----------------------------------------------------------------------------
(* publish *)

Alive == {p \in Publishers : spoke[p] # NoFrame}

Published == IF last = NoFrame THEN 0 ELSE last.id

\* The frame replaces the latest one. A settling frame (done, error) is the
\* last of its push.
StoreFrame(p, active) ==
    /\ writing[p] = NoFrame
    /\ Published < MaxFrames
    /\ LET f == [id |-> Published + 1, active |-> active, at |-> now]
       IN last' = f /\ writing' = [writing EXCEPT ![p] = f]
    /\ spoke' = [spoke EXCEPT ![p] = IF active THEN now ELSE NoFrame]
    /\ UNCHANGED <<now, log, connVars>>

SendFrame(p) ==
    /\ writing[p] # NoFrame
    /\ log' = Append(log, writing[p])
    /\ writing' = [writing EXCEPT ![p] = NoFrame]
    /\ UNCHANGED <<now, last, spoke, connVars>>

\* The push's handler is dropped or panics: no settling frame.
Die(p) ==
    /\ p \in Alive
    /\ writing[p] = NoFrame
    /\ spoke' = [spoke EXCEPT ![p] = NoFrame]
    /\ UNCHANGED <<now, last, log, writing, connVars>>

\* A live push publishes again before its request can time out; publish and
\* subscribe take no time to speak of.
Tick ==
    /\ now < MaxTime
    /\ \A p \in Publishers : writing[p] = NoFrame
    /\ \A b \in Browsers : conn[b] # "reading"
    /\ \A p \in Alive : now - spoke[p] < MaxSilence
    /\ now' = now + 1
    /\ UNCHANGED <<hubVars, connVars>>

-----------------------------------------------------------------------------
(* subscribe and the stream *)

\* Mutant: a stale active frame is handed out as it is.
SettleNothing(f) == f

Settle(f) == IF f.active /\ now - f.at > StaleAfter THEN Idle(now) ELSE f

ReadSnapshot(b) ==
    /\ conn[b] = "off"
    /\ conn' = [conn EXCEPT ![b] = "reading"]
    /\ snapshot' = [snapshot EXCEPT ![b] = IF last = NoFrame THEN last ELSE Settle(last)]
    /\ base' = [base EXCEPT ![b] = Published]
    /\ opened' = [opened EXCEPT ![b] = now]
    /\ raced' = [raced EXCEPT ![b] = FALSE]
    /\ UNCHANGED <<now, hubVars, cursor, shown>>

\* A frame stored after the snapshot and sent before this step is in neither.
Join(b) ==
    /\ conn[b] = "reading"
    /\ conn' = [conn EXCEPT ![b] = "streaming"]
    /\ cursor' = [cursor EXCEPT ![b] = Len(log)]
    /\ raced' = [raced EXCEPT ![b] = \E i \in DOMAIN log : log[i].id > base[b]]
    /\ UNCHANGED <<now, hubVars, snapshot, opened, shown, base>>

YieldSnapshot(b) ==
    /\ conn[b] = "streaming"
    /\ snapshot[b] # NoFrame
    /\ shown' = [shown EXCEPT ![b] = snapshot[b]]
    /\ snapshot' = [snapshot EXCEPT ![b] = NoFrame]
    /\ UNCHANGED <<now, hubVars, conn, opened, cursor, base, raced>>

Behind(b) == Len(log) - cursor[b]

\* Mutant: a receiver that lags joins the channel anew, without a snapshot.
YieldRejoining(b) ==
    /\ conn[b] = "streaming" /\ snapshot[b] = NoFrame /\ Behind(b) > 0
    /\ IF Behind(b) > Capacity
       THEN cursor' = [cursor EXCEPT ![b] = Len(log)] /\ UNCHANGED shown
       ELSE /\ shown' = [shown EXCEPT ![b] = log[cursor[b] + 1]]
            /\ cursor' = [cursor EXCEPT ![b] = @ + 1]
    /\ UNCHANGED <<now, hubVars, conn, snapshot, opened, base, raced>>

YieldFrame(b) ==
    /\ conn[b] = "streaming"
    /\ snapshot[b] = NoFrame
    /\ Behind(b) \in 1..Capacity
    /\ shown' = [shown EXCEPT ![b] = log[cursor[b] + 1]]
    /\ cursor' = [cursor EXCEPT ![b] = @ + 1]
    /\ UNCHANGED <<now, hubVars, conn, snapshot, opened, base, raced>>

\* The receiver lagged, or the connection broke: the browser will reopen.
EndStream(b) ==
    /\ conn[b] = "streaming"
    /\ conn' = [conn EXCEPT ![b] = "off"]
    /\ snapshot' = [snapshot EXCEPT ![b] = NoFrame]
    /\ UNCHANGED <<now, hubVars, opened, cursor, shown, base, raced>>

-----------------------------------------------------------------------------
Next ==
    \/ Tick
    \/ \E p \in Publishers :
        \/ \E active \in BOOLEAN : StoreFrame(p, active)
        \/ SendFrame(p)
        \/ Die(p)
    \/ \E b \in Browsers :
        \/ ReadSnapshot(b) \/ Join(b) \/ YieldSnapshot(b) \/ YieldFrame(b)
        \/ EndStream(b)

Spec == Init /\ [][Next]_vars

-----------------------------------------------------------------------------
(* Properties *)

Quiet       == \A p \in Publishers : writing[p] = NoFrame
CaughtUp(b) == conn[b] = "streaming" /\ snapshot[b] = NoFrame /\ Behind(b) = 0

\* What b shows is the latest frame, or the idle frame that settled it.
UpToDate(b) ==
    \/ shown[b] = last
    \/ shown[b] # NoFrame /\ shown[b].id = 0 /\ base[b] = Published

\* "Replays the latest frame to new subscribers then streams live": once
\* nobody publishes, a browser that received all it will get is up to date,
\* except for the two overlaps the hub does allow: a frame sent while the
\* stream was between snapshot and joining, and two publishers that send in the
\* other order than they stored.
InOrder == log # <<>> => log[Len(log)] = last
ConvergesUnlessRaced ==
    Quiet /\ InOrder =>
        \A b \in Browsers : CaughtUp(b) /\ ~raced[b] => UpToDate(b)

\* A reload never resurrects a stale "Building": an active frame a stream
\* yields was at most StaleAfter old when the stream was opened.
NoResurrection ==
    \A b \in Browsers :
        conn[b] = "streaming" /\ snapshot[b] = NoFrame /\ shown[b] # NoFrame
            /\ shown[b].active
        => shown[b].at + StaleAfter >= opened[b]
=============================================================================
