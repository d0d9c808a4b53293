------------------------------ MODULE PushProofs ------------------------------
(***************************************************************************)
(* Theorems about the progress hub (PushHub), for any publishers, browsers,*)
(* channel capacity and times, and about the rebuild-skip cache            *)
(* (PushCache), for any pushers and files.                                 *)
(*                                                                         *)
(* The hub: publish and subscribe take no time (Tick waits for both), so a *)
(* frame that is sent is as old as now, and a stream joins at the time it  *)
(* was opened: every frame the stream has still to yield is younger than   *)
(* the stream (SentSinceOpened). What a browser shows is either the last   *)
(* frame its receiver took from the channel or its snapshot, and a snapshot*)
(* is up to date for as long as nothing newer was stored (FromSnapshot).   *)
(*                                                                         *)
(* The cache: a tree is hashed after everything in it was written, so the  *)
(* cache it holds names an older hash (HashInv), and a push that runs alone*)
(* never finds its own (TurnInv). Without reverts what is live, what was   *)
(* hashed and what is pushed are versions in that order (FreshPush).       *)
(***************************************************************************)
EXTENDS PushHub, PushCache, TLAPS

-----------------------------------------------------------------------------
(* The progress hub.                                                       *)

\* A stored frame that is not sent yet was stored just now; the latest frame is on its way
\* or was sent; before the first frame there is nothing anywhere.
HubInv ==
    /\ \A p \in Publishers : writing[p] # NoFrame => writing[p].at = now
    /\ last # NoFrame => log # <<>> \/ \E p \in Publishers : writing[p] # NoFrame
    /\ last = NoFrame => /\ log = <<>>
                         /\ \A p \in Publishers : writing[p] = NoFrame
                         /\ \A b \in Browsers : shown[b] = NoFrame /\ snapshot[b] = NoFrame

\* A stream joins at the time it was opened, and lags behind the channel only.
Opened(b) ==
    /\ opened[b] <= now
    /\ conn[b] = "reading" => opened[b] = now
    /\ cursor[b] <= Len(log)
    /\ base[b] <= Published

\* Every frame the stream has still to yield is at least as young as the stream.
SentSinceOpened(b) ==
    conn[b] = "streaming" => \A i \in (cursor[b] + 1)..Len(log) : log[i].at >= opened[b]

Young(f, b) == f # NoFrame /\ f.active => f.at + StaleAfter >= opened[b]

\* A snapshot is settled, and up to date until something newer is stored.
Current(f, b) == Published = base[b] => f = last \/ (f # NoFrame /\ f.id = 0)

Snapshot(b) ==
    /\ conn[b] # "off" => Young(snapshot[b], b)
    /\ conn[b] = "reading" \/ (conn[b] = "streaming" /\ snapshot[b] # NoFrame)
         => Current(snapshot[b], b)
    /\ conn[b] = "reading" /\ snapshot[b] = NoFrame => shown[b] = NoFrame

\* Nothing newer than the snapshot was sent before the stream joined.
Unraced(b) == raced[b] \/ \A i \in 1..cursor[b] : log[i].id <= base[b]

FromSnapshot(b) == Current(shown[b], b) /\ Unraced(b)
FromChannel(b)  == cursor[b] > 0 /\ shown[b] = log[cursor[b]]

Shows(b) ==
    conn[b] = "streaming" =>
        IF snapshot[b] = NoFrame
        THEN Young(shown[b], b) /\ (FromSnapshot(b) \/ FromChannel(b))
        ELSE Unraced(b)

StreamInv(b) == Opened(b) /\ SentSinceOpened(b) /\ Snapshot(b) /\ Shows(b)

IndInv == TypeOK /\ HubInv /\ \A b \in Browsers : StreamInv(b)

-----------------------------------------------------------------------------
(* Frames and times.                                                       *)

LEMMA FrameFields ==
  ASSUME NEW f \in Frame
  PROVE  /\ f # NoFrame /\ f.id \in 1..MaxFrames /\ f.active \in BOOLEAN /\ f.at \in 0..MaxTime
         /\ f.id \in Nat /\ f.at \in Nat
  BY HubAssumption DEF Frame

LEMMA ShownFields ==
  ASSUME NEW f \in Shown, f # NoFrame
  PROVE  /\ f.id \in Nat /\ f.active \in BOOLEAN /\ f.at \in Nat
         /\ f.active => f \in Frame
<1>1. CASE f \in Frame
  BY <1>1, FrameFields
<1>2. CASE \E t \in 0..MaxTime : f = Idle(t)
  <2>1. PICK t \in 0..MaxTime : f = [id |-> 0, active |-> FALSE, at |-> t]
    BY <1>2 DEF Idle
  <2>2. f.id = 0 /\ f.at = t
    BY <2>1
  <2>3. f.active \in BOOLEAN /\ ~f.active
    BY <2>1
  <2>4. t \in Nat
    BY HubAssumption
  <2> QED
    BY <2>2, <2>3, <2>4
<1> QED
  BY <1>1, <1>2 DEF Shown

LEMMA PublishedNat ==
  ASSUME TypeOK
  PROVE  /\ Published \in 0..MaxFrames /\ Published \in Nat
         /\ Published = 0 <=> last = NoFrame
         /\ last # NoFrame => last \in Frame /\ Published = last.id
  BY FrameFields, HubAssumption DEF TypeOK, Published

LEMMA Times ==
  ASSUME TypeOK
  PROVE  /\ now \in Nat /\ StaleAfter \in Nat /\ Capacity \in Nat
         /\ \A b \in Browsers : opened[b] \in Nat /\ cursor[b] \in Nat /\ base[b] \in Nat
         /\ Len(log) \in Nat /\ \A i \in 1..Len(log) : log[i] \in Frame
  BY HubAssumption DEF TypeOK

LEMMA Appended ==
  ASSUME NEW s \in Seq(Frame), NEW f \in Frame
  PROVE  /\ Append(s, f) \in Seq(Frame) /\ Len(Append(s, f)) = Len(s) + 1
         /\ \A i \in 1..Len(s) : Append(s, f)[i] = s[i]
         /\ Append(s, f)[Len(s) + 1] = f
         /\ Append(s, f) # <<>>
  OBVIOUS

LEMMA SettledFrame ==
  ASSUME TypeOK, NEW f \in Frame
  PROVE  /\ Settle(f) \in Shown /\ Settle(f) # NoFrame
         /\ Settle(f).active => Settle(f) = f /\ f.at + StaleAfter >= now
         /\ Settle(f) = f \/ Settle(f).id = 0
<1>1. f \in Shown /\ f # NoFrame /\ f.at \in Nat /\ now \in 0..MaxTime /\ now \in Nat
      /\ StaleAfter \in Nat
  BY FrameFields, Times DEF Shown, TypeOK
<1>2. Idle(now) \in Shown /\ Idle(now) # NoFrame /\ Idle(now).id = 0 /\ ~Idle(now).active
  <2>1. Idle(now) = [id |-> 0, active |-> FALSE, at |-> now]
    BY DEF Idle
  <2>2. Idle(now) \in [id : Nat, active : BOOLEAN, at : Nat]
    BY <1>1, <2>1
  <2>3. Idle(now) # NoFrame
    BY <2>2, HubAssumption
  <2>4. Idle(now) \in Shown
    BY <1>1 DEF Shown
  <2>5. Idle(now).id = 0 /\ ~Idle(now).active
    BY <2>1
  <2> QED
    BY <2>3, <2>4, <2>5
<1> QED
  BY <1>1, <1>2 DEF Settle

-----------------------------------------------------------------------------
(* A step that leaves a browser and its stream alone.                      *)

Same(b) == /\ conn'[b] = conn[b] /\ snapshot'[b] = snapshot[b] /\ opened'[b] = opened[b]
           /\ cursor'[b] = cursor[b] /\ shown'[b] = shown[b] /\ base'[b] = base[b]
           /\ raced'[b] = raced[b]

LEMMA SameStream ==
  ASSUME TypeOK, TypeOK', NEW b \in Browsers, StreamInv(b), Same(b),
         now' = now \/ (now' > now /\ conn[b] # "reading"),
         log' = log \/ \E f \in Frame : f.at = now /\ log' = Append(log, f),
         last' = last \/ Published' > Published
  PROVE  StreamInv(b)'
<1>1. /\ now \in Nat /\ now' \in Nat /\ opened[b] \in Nat /\ cursor[b] \in Nat /\ base[b] \in Nat
      /\ Len(log) \in Nat /\ Published \in Nat /\ Published' \in Nat
      /\ \A i \in 1..Len(log) : log[i] \in Frame /\ log[i].at \in Nat /\ log[i].id \in Nat
  <2>1. Published' \in Nat
    BY FrameFields, HubAssumption DEF TypeOK, Published
  <2>2. now' \in Nat
    BY HubAssumption DEF TypeOK
  <2> QED
    BY <2>1, <2>2, Times, PublishedNat, FrameFields
<1>2. /\ Len(log') \in Nat /\ Len(log') >= Len(log)
      /\ \A i \in 1..Len(log) : log'[i] = log[i]
      /\ \A i \in (Len(log) + 1)..Len(log') : log'[i].at = now
  <2>1. CASE log' = log
    BY <1>1, <2>1
  <2>2. CASE log' # log
    <3>1. PICK f \in Frame : f.at = now /\ log' = Append(log, f)
      BY <2>2
    <3> QED
      BY <1>1, <3>1, Appended DEF TypeOK
  <2> QED
    BY <2>1, <2>2
<1>3. Published' >= Published /\ (Published' = Published => last' = last)
  BY <1>1 DEF Published
<1>4. Opened(b) /\ SentSinceOpened(b) /\ Snapshot(b) /\ Shows(b)
  BY DEF StreamInv
<1>5. Opened(b)'
  BY <1>1, <1>2, <1>3, <1>4 DEF Opened, Same
<1>6. SentSinceOpened(b)'
  <2> SUFFICES ASSUME conn[b] = "streaming", NEW i \in (cursor[b] + 1)..Len(log')
               PROVE  log'[i].at >= opened[b]
    BY DEF SentSinceOpened, Same
  <2>1. CASE i <= Len(log)
    BY <1>1, <1>2, <1>4, <2>1 DEF SentSinceOpened
  <2>2. CASE i > Len(log)
    BY <1>1, <1>2, <1>4, <2>2 DEF Opened
  <2> QED
    BY <1>1, <1>2, <2>1, <2>2
<1>7. \A f : Current(f, b) => (Published' = base'[b] => f = last' \/ (f # NoFrame /\ f.id = 0))
  BY <1>1, <1>3, <1>4 DEF Current, Same, Opened
<1>8. Snapshot(b)'
  BY <1>4, <1>7 DEF Snapshot, Same, Young, Current
<1>9. (Unraced(b) => Unraced(b)') /\ (FromChannel(b) => FromChannel(b)')
  <2>1. cursor'[b] = cursor[b] /\ base'[b] = base[b] /\ raced'[b] = raced[b] /\ shown'[b] = shown[b]
    BY DEF Same
  <2>2. \A i \in 1..cursor[b] : log'[i] = log[i]
    BY <1>1, <1>2, <1>4 DEF Opened
  <2>3. Unraced(b) => Unraced(b)'
    BY <2>1, <2>2 DEF Unraced
  <2>4. FromChannel(b) => FromChannel(b)'
    <3> SUFFICES ASSUME FromChannel(b) PROVE FromChannel(b)'
      OBVIOUS
    <3>1. cursor[b] \in 1..cursor[b] /\ shown[b] = log[cursor[b]]
      BY <1>1 DEF FromChannel
    <3>2. log'[cursor[b]] = log[cursor[b]]
      BY <2>2, <3>1
    <3> QED
      BY <1>1, <2>1, <3>1, <3>2 DEF FromChannel
  <2> QED
    BY <2>3, <2>4
<1>10. FromSnapshot(b) => FromSnapshot(b)'
  BY <1>7, <1>9 DEF FromSnapshot, Current, Same
<1>11. Shows(b)'
  BY <1>4, <1>9, <1>10 DEF Shows, Same, Young
<1> QED
  BY <1>5, <1>6, <1>8, <1>11 DEF StreamInv

-----------------------------------------------------------------------------
(* Types.                                                                  *)

LEMMA InitOK == Init => IndInv
<1> SUFFICES ASSUME Init PROVE IndInv
  OBVIOUS
<1> USE DEF Init
<1>1. 0 \in 0..MaxTime /\ 0 \in 0..MaxFrames /\ NoFrame \in Shown
  BY HubAssumption DEF Shown
<1>2. TypeOK
  BY <1>1 DEF TypeOK
<1>3. HubInv
  BY DEF HubInv
<1>4. \A b \in Browsers : StreamInv(b)
  BY HubAssumption DEF StreamInv, Opened, SentSinceOpened, Snapshot, Shows, Young, Published
<1> QED
  BY <1>2, <1>3, <1>4 DEF IndInv

LEMMA StoredFrame ==
  ASSUME TypeOK, NEW p \in Publishers, NEW active \in BOOLEAN, StoreFrame(p, active)
  PROVE  /\ last' \in Frame /\ last'.id = Published + 1 /\ last'.at = now
         /\ writing' = [writing EXCEPT ![p] = last']
         /\ Published' = Published + 1
<1>1. Published \in Nat /\ Published < MaxFrames /\ now \in 0..MaxTime
  BY PublishedNat DEF StoreFrame, TypeOK
<1>2. last' = [id |-> Published + 1, active |-> active, at |-> now]
      /\ writing' = [writing EXCEPT ![p] = last']
  BY DEF StoreFrame
<1>3. last' \in Frame
  BY <1>1, <1>2, HubAssumption DEF Frame
<1>4. last' # NoFrame
  BY <1>3, FrameFields
<1> QED
  BY <1>2, <1>3, <1>4 DEF Published

LEMMA TypeStep ==
  ASSUME TypeOK, [Next]_vars
  PROVE  TypeOK'
<1> USE DEF hubVars, connVars
<1>1. CASE Tick
  BY <1>1, HubAssumption DEF Tick, TypeOK
<1>2. ASSUME NEW p \in Publishers, NEW active \in BOOLEAN, StoreFrame(p, active) PROVE TypeOK'
  <2>1. last' \in Frame /\ writing' = [writing EXCEPT ![p] = last']
    BY <1>2, StoredFrame
  <2>2. writing' \in [Publishers -> Frame \union {NoFrame}]
    BY <2>1 DEF TypeOK
  <2>3. spoke' \in [Publishers -> 0..MaxTime \union {NoFrame}]
    BY <1>2 DEF StoreFrame, TypeOK
  <2> QED
    BY <1>2, <2>1, <2>2, <2>3 DEF StoreFrame, TypeOK
<1>3. ASSUME NEW p \in Publishers, SendFrame(p) PROVE TypeOK'
  <2>1. writing[p] \in Frame
    BY <1>3 DEF SendFrame, TypeOK
  <2>2. log' \in Seq(Frame)
    BY <1>3, <2>1, Appended DEF SendFrame, TypeOK
  <2> QED
    BY <1>3, <2>2 DEF SendFrame, TypeOK
<1>4. ASSUME NEW p \in Publishers, Die(p) PROVE TypeOK'
  BY <1>4 DEF Die, TypeOK
<1>5. ASSUME NEW b \in Browsers, ReadSnapshot(b) PROVE TypeOK'
  <2>1. Published \in 0..MaxFrames
    BY PublishedNat
  <2>2. (IF last = NoFrame THEN last ELSE Settle(last)) \in Shown
    <3>1. CASE last = NoFrame
      BY <3>1 DEF Shown
    <3>2. CASE last # NoFrame
      BY <3>2, PublishedNat, SettledFrame
    <3> QED
      BY <3>1, <3>2
  <2>3. /\ snapshot' \in [Browsers -> Shown] /\ base' \in [Browsers -> 0..MaxFrames]
        /\ conn' \in [Browsers -> {"off", "reading", "streaming"}]
        /\ opened' \in [Browsers -> 0..MaxTime] /\ raced' \in [Browsers -> BOOLEAN]
    BY <1>5, <2>1, <2>2 DEF ReadSnapshot, TypeOK
  <2> QED
    BY <1>5, <2>3 DEF ReadSnapshot, TypeOK
<1>6. ASSUME NEW b \in Browsers, Join(b) PROVE TypeOK'
  <2>1. (\E i \in DOMAIN log : log[i].id > base[b]) \in BOOLEAN /\ Len(log) \in Nat
    BY Times
  <2> HIDE DEF hubVars
  <2>2. /\ conn' \in [Browsers -> {"off", "reading", "streaming"}]
        /\ cursor' \in [Browsers -> Nat]
    BY <1>6, <2>1 DEF Join, TypeOK
  <2>3. raced' \in [Browsers -> BOOLEAN]
    BY <1>6, <2>1, Zenon DEF Join, TypeOK
  <2> QED
    BY <1>6, <2>2, <2>3 DEF Join, TypeOK, hubVars
<1>7. ASSUME NEW b \in Browsers, YieldSnapshot(b) PROVE TypeOK'
  <2>1. NoFrame \in Shown
    BY DEF Shown
  <2> QED
    BY <1>7, <2>1 DEF YieldSnapshot, TypeOK
<1>8. ASSUME NEW b \in Browsers, YieldFrame(b) PROVE TypeOK'
  <2>1. log[cursor[b] + 1] \in Frame /\ cursor[b] \in Nat
    <3>1. /\ cursor[b] \in Nat /\ Len(log) \in Nat /\ Capacity \in Nat
          /\ Len(log) - cursor[b] \in 1..Capacity
      BY <1>8, Times DEF YieldFrame, Behind
    <3>2. cursor[b] + 1 \in 1..Len(log)
      BY <3>1
    <3> QED
      BY <3>1, <3>2, Times
  <2>2. log[cursor[b] + 1] \in Shown /\ cursor[b] + 1 \in Nat
    BY <2>1 DEF Shown
  <2> QED
    BY <1>8, <2>2 DEF YieldFrame, TypeOK
<1>9. ASSUME NEW b \in Browsers, EndStream(b) PROVE TypeOK'
  <2>1. NoFrame \in Shown
    BY DEF Shown
  <2> QED
    BY <1>9, <2>1 DEF EndStream, TypeOK
<1>10. CASE UNCHANGED vars
  BY <1>10 DEF vars, TypeOK
<1> QED
  BY <1>1, <1>2, <1>3, <1>4, <1>5, <1>6, <1>7, <1>8, <1>9, <1>10 DEF Next

-----------------------------------------------------------------------------
(* Steps of a publisher and of time.                                       *)

LEMMA PublisherStep ==
  ASSUME IndInv, TypeOK',
         \/ Tick
         \/ \E p \in Publishers : \/ \E active \in BOOLEAN : StoreFrame(p, active)
                                  \/ SendFrame(p) \/ Die(p)
  PROVE  IndInv'
<1> USE DEF connVars
<1>1. \A b \in Browsers : Same(b)
  BY DEF Tick, StoreFrame, SendFrame, Die, Same
<1>2. TypeOK /\ now \in Nat /\ (\A b \in Browsers : StreamInv(b)) /\ HubInv /\ Published \in Nat
  BY Times, PublishedNat DEF IndInv
<1>3. CASE Tick
  <2>1. now' > now /\ log' = log /\ last' = last /\ \A b \in Browsers : conn[b] # "reading"
    BY <1>2, <1>3 DEF Tick, hubVars
  <2>2. \A b \in Browsers : StreamInv(b)'
    BY <1>1, <1>2, <2>1, SameStream
  <2>3. HubInv'
    BY <1>2, <1>3 DEF Tick, HubInv, hubVars
  <2> QED
    BY <2>2, <2>3 DEF IndInv
<1>4. ASSUME NEW p \in Publishers, NEW active \in BOOLEAN, StoreFrame(p, active) PROVE IndInv'
  <2>1. /\ last' \in Frame /\ last' # NoFrame /\ last'.at = now
        /\ writing' = [writing EXCEPT ![p] = last']
        /\ Published' = Published + 1
    BY <1>2, <1>4, StoredFrame, FrameFields
  <2>2. now' = now /\ log' = log
    BY <1>4 DEF StoreFrame
  <2>3. \A b \in Browsers : StreamInv(b)'
    BY <1>1, <1>2, <2>1, <2>2, SameStream
  <2>4. writing'[p] = last' /\ \A q \in Publishers \ {p} : writing'[q] = writing[q]
    BY <1>2, <2>1 DEF TypeOK
  <2>5. HubInv'
    BY <1>2, <2>1, <2>2, <2>4 DEF HubInv
  <2> QED
    BY <2>3, <2>5 DEF IndInv
<1>5. ASSUME NEW p \in Publishers, SendFrame(p) PROVE IndInv'
  <2>1. /\ writing[p] \in Frame /\ writing[p].at = now /\ log' = Append(log, writing[p])
        /\ now' = now /\ last' = last /\ writing' = [writing EXCEPT ![p] = NoFrame]
        /\ last # NoFrame
    BY <1>2, <1>5 DEF SendFrame, TypeOK, HubInv
  <2>2. \A b \in Browsers : StreamInv(b)'
    BY <1>1, <1>2, <2>1, SameStream
  <2>3. log' # <<>>
    BY <1>2, <2>1, Appended DEF TypeOK
  <2>4. HubInv'
    BY <1>2, <2>1, <2>3 DEF HubInv, TypeOK
  <2> QED
    BY <2>2, <2>4 DEF IndInv
<1>6. ASSUME NEW p \in Publishers, Die(p) PROVE IndInv'
  <2>1. now' = now /\ log' = log /\ last' = last /\ writing' = writing
    BY <1>6 DEF Die
  <2>2. \A b \in Browsers : StreamInv(b)'
    BY <1>1, <1>2, <2>1, SameStream
  <2>3. HubInv'
    BY <1>2, <1>6, <2>1 DEF HubInv, Die
  <2> QED
    BY <2>2, <2>3 DEF IndInv
<1> QED
  BY <1>3, <1>4, <1>5, <1>6

-----------------------------------------------------------------------------
(* Steps of a stream.                                                      *)

LEMMA ReadSnapshotOK ==
  ASSUME IndInv, TypeOK', NEW b \in Browsers, ReadSnapshot(b)
  PROVE  StreamInv(b)'
<1>1. /\ now \in Nat /\ Published \in Nat /\ StaleAfter \in Nat /\ Len(log) \in Nat
      /\ Published = 0 <=> last = NoFrame
      /\ last # NoFrame => last \in Frame
      /\ opened[b] \in Nat /\ Opened(b)
  BY Times, PublishedNat DEF IndInv, StreamInv
<1>2. /\ conn'[b] = "reading" /\ opened'[b] = now /\ base'[b] = Published /\ raced'[b] = FALSE
      /\ snapshot'[b] = (IF last = NoFrame THEN last ELSE Settle(last))
      /\ cursor' = cursor /\ shown' = shown /\ now' = now /\ log' = log /\ last' = last
  BY DEF ReadSnapshot, hubVars, IndInv, TypeOK
<1>3. Published' = Published
  BY <1>2 DEF Published
<1>4. Opened(b)'
  BY <1>1, <1>2, <1>3 DEF Opened
<1>5. SentSinceOpened(b)' /\ Shows(b)'
  BY <1>2 DEF SentSinceOpened, Shows
<1>6. Snapshot(b)'
  <2>1. CASE last = NoFrame
    BY <1>2, <2>1 DEF Snapshot, Young, Current, IndInv, HubInv
  <2>2. CASE last # NoFrame
    <3>1. /\ Settle(last) # NoFrame
          /\ Settle(last).active => Settle(last) = last /\ last.at + StaleAfter >= now
          /\ Settle(last) = last \/ Settle(last).id = 0
      BY <1>1, <2>2, SettledFrame DEF IndInv
    <3>2. snapshot'[b] = Settle(last)
      BY <1>2, <2>2
    <3> HIDE DEF Settle
    <3> QED
      BY <1>2, <3>1, <3>2 DEF Snapshot, Young, Current
  <2> QED
    BY <2>1, <2>2
<1> QED
  BY <1>4, <1>5, <1>6 DEF StreamInv

LEMMA JoinOK ==
  ASSUME IndInv, TypeOK', NEW b \in Browsers, Join(b)
  PROVE  StreamInv(b)'
<1>1. /\ now \in Nat /\ Published \in Nat /\ Len(log) \in Nat /\ DOMAIN log = 1..Len(log)
      /\ base[b] \in Nat /\ \A i \in 1..Len(log) : log[i].id \in Nat
      /\ Opened(b) /\ Snapshot(b)
  <2>1. TypeOK /\ Opened(b) /\ Snapshot(b)
    BY DEF IndInv, StreamInv
  <2>2. DOMAIN log = 1..Len(log)
    BY <2>1 DEF TypeOK
  <2>3. \A i \in 1..Len(log) : log[i].id \in Nat
    BY <2>1, Times, FrameFields
  <2> QED
    BY <2>1, <2>2, <2>3, Times, PublishedNat
<1>2. /\ conn[b] = "reading" /\ conn'[b] = "streaming" /\ cursor'[b] = Len(log)
      /\ snapshot' = snapshot /\ opened' = opened /\ shown' = shown /\ base' = base
      /\ now' = now /\ log' = log /\ last' = last
  BY DEF Join, hubVars, IndInv, TypeOK
<1>3. raced'[b] = (\E i \in DOMAIN log : log[i].id > base[b])
  BY DEF Join, IndInv, TypeOK
<1>4. Published' = Published
  BY <1>2 DEF Published
<1>5. Opened(b)' /\ SentSinceOpened(b)'
  BY <1>1, <1>2, <1>4 DEF Opened, SentSinceOpened
<1>6. Snapshot(b)'
  BY <1>1, <1>2, <1>4 DEF Snapshot, Young, Current
<1>7. Unraced(b)'
  BY <1>1, <1>2, <1>3 DEF Unraced
<1>8. snapshot[b] = NoFrame => Young(shown[b], b)' /\ Current(shown[b], b)'
  BY <1>1, <1>2, <1>4 DEF Snapshot, Young, Current
<1>9. Shows(b)'
  BY <1>2, <1>7, <1>8 DEF Shows, FromSnapshot
<1> QED
  BY <1>5, <1>6, <1>9 DEF StreamInv

LEMMA YieldSnapshotOK ==
  ASSUME IndInv, TypeOK', NEW b \in Browsers, YieldSnapshot(b)
  PROVE  StreamInv(b)'
<1>1. Opened(b) /\ SentSinceOpened(b) /\ Snapshot(b) /\ Shows(b)
  BY DEF IndInv, StreamInv
<1>2. /\ conn[b] = "streaming" /\ snapshot[b] # NoFrame
      /\ shown'[b] = snapshot[b] /\ snapshot'[b] = NoFrame
      /\ conn' = conn /\ opened' = opened /\ cursor' = cursor /\ base' = base /\ raced' = raced
      /\ now' = now /\ log' = log /\ last' = last
  BY DEF YieldSnapshot, hubVars, IndInv, TypeOK
<1>3. Published' = Published
  BY <1>2 DEF Published
<1>4. Opened(b)' /\ SentSinceOpened(b)'
  BY <1>1, <1>2, <1>3 DEF Opened, SentSinceOpened
<1>5. Snapshot(b)'
  BY <1>2 DEF Snapshot, Young
<1>6. Young(shown[b], b)' /\ Current(shown[b], b)' /\ Unraced(b)'
  BY <1>1, <1>2, <1>3 DEF Snapshot, Shows, Young, Current, Unraced
<1>7. Shows(b)'
  BY <1>6 DEF Shows, FromSnapshot
<1> QED
  BY <1>4, <1>5, <1>7 DEF StreamInv

LEMMA YieldFrameOK ==
  ASSUME IndInv, TypeOK', NEW b \in Browsers, YieldFrame(b)
  PROVE  StreamInv(b)' /\ last # NoFrame
<1>1. Opened(b) /\ SentSinceOpened(b) /\ Snapshot(b) /\ Shows(b) /\ HubInv
  BY DEF IndInv, StreamInv
<1>2. /\ conn[b] = "streaming" /\ snapshot[b] = NoFrame
      /\ shown'[b] = log[cursor[b] + 1] /\ cursor'[b] = cursor[b] + 1
      /\ conn' = conn /\ snapshot' = snapshot /\ opened' = opened /\ base' = base
      /\ raced' = raced
      /\ now' = now /\ log' = log /\ last' = last
  BY DEF YieldFrame, hubVars, IndInv, TypeOK
<1>3. /\ cursor[b] \in Nat /\ Len(log) \in Nat /\ Capacity \in Nat /\ opened[b] \in Nat
      /\ StaleAfter \in Nat
      /\ Len(log) - cursor[b] \in 1..Capacity
  BY Times DEF YieldFrame, Behind, IndInv
<1>4. cursor[b] + 1 \in 1..Len(log) /\ cursor[b] + 1 \in (cursor[b] + 1)..Len(log)
  BY <1>3
<1>5. log[cursor[b] + 1] \in Frame /\ log[cursor[b] + 1].at \in Nat
  BY <1>4, Times, FrameFields DEF IndInv
<1>6. log[cursor[b] + 1].at >= opened[b]
  BY <1>1, <1>2, <1>4 DEF SentSinceOpened
<1>7. Published' = Published
  BY <1>2 DEF Published
<1>8. Opened(b)' /\ SentSinceOpened(b)'
  BY <1>1, <1>2, <1>3, <1>4, <1>7 DEF Opened, SentSinceOpened
<1>9. Snapshot(b)'
  BY <1>1, <1>2 DEF Snapshot, Young
<1>10. Young(shown[b], b)'
  BY <1>2, <1>3, <1>5, <1>6 DEF Young
<1>11. FromChannel(b)'
  BY <1>2, <1>3 DEF FromChannel
<1>12. Shows(b)'
  BY <1>2, <1>10, <1>11 DEF Shows
<1>13. last # NoFrame
  BY <1>1, <1>4 DEF HubInv
<1> QED
  BY <1>8, <1>9, <1>12, <1>13 DEF StreamInv

LEMMA EndStreamOK ==
  ASSUME IndInv, TypeOK', NEW b \in Browsers, EndStream(b)
  PROVE  StreamInv(b)'
<1>1. /\ conn'[b] = "off"
      /\ opened' = opened /\ cursor' = cursor /\ base' = base
      /\ now' = now /\ log' = log /\ last' = last
  BY DEF EndStream, hubVars, IndInv, TypeOK
<1>2. Opened(b)'
  <2>1. Opened(b) /\ conn[b] = "streaming"
    BY DEF IndInv, StreamInv, EndStream
  <2> QED
    BY <1>1, <2>1 DEF Opened, Published
<1> QED
  BY <1>1, <1>2 DEF StreamInv, SentSinceOpened, Snapshot, Shows

LEMMA StreamStep ==
  ASSUME IndInv, TypeOK', NEW b \in Browsers,
         ReadSnapshot(b) \/ Join(b) \/ YieldSnapshot(b) \/ YieldFrame(b) \/ EndStream(b)
  PROVE  IndInv'
<1>1. /\ now' = now /\ log' = log /\ last' = last /\ writing' = writing
      /\ \A c \in Browsers \ {b} : Same(c)
  <2>1. TypeOK
    BY DEF IndInv
  <2>2. CASE ReadSnapshot(b)
    BY <2>1, <2>2 DEF ReadSnapshot, hubVars, Same, TypeOK
  <2>3. CASE Join(b)
    <3>1. /\ conn' = [conn EXCEPT ![b] = "streaming"] /\ cursor' = [cursor EXCEPT ![b] = Len(log)]
          /\ \E r : raced' = [raced EXCEPT ![b] = r]
          /\ UNCHANGED <<now, last, log, writing, snapshot, opened, shown, base>>
      BY <2>3 DEF Join, hubVars
    <3> QED
      BY <2>1, <3>1 DEF Same, TypeOK
  <2>4. CASE YieldSnapshot(b)
    BY <2>1, <2>4 DEF YieldSnapshot, hubVars, Same, TypeOK
  <2>5. CASE YieldFrame(b)
    BY <2>1, <2>5 DEF YieldFrame, hubVars, Same, TypeOK
  <2>6. CASE EndStream(b)
    BY <2>1, <2>6 DEF EndStream, hubVars, Same, TypeOK
  <2> QED
    BY <2>2, <2>3, <2>4, <2>5, <2>6
<1>2. StreamInv(b)'
  BY ReadSnapshotOK, JoinOK, YieldSnapshotOK, YieldFrameOK, EndStreamOK
<1>3. ASSUME NEW c \in Browsers \ {b} PROVE StreamInv(c)'
  BY <1>1, <1>3, SameStream DEF IndInv
<1>4. last = NoFrame => \A c \in Browsers : shown'[c] = NoFrame /\ snapshot'[c] = NoFrame
  <2> SUFFICES ASSUME last = NoFrame, NEW c \in Browsers
               PROVE  shown'[c] = NoFrame /\ snapshot'[c] = NoFrame
    OBVIOUS
  <2>1. shown[c] = NoFrame /\ snapshot[c] = NoFrame /\ shown[b] = NoFrame /\ snapshot[b] = NoFrame
    BY DEF IndInv, HubInv
  <2>2. CASE c # b
    BY <1>1, <2>1, <2>2 DEF Same
  <2>3. CASE c = b
    <3>1. ~YieldFrame(b) /\ ~YieldSnapshot(b)
      BY <2>1, YieldFrameOK DEF YieldSnapshot
    <3>2. shown' = shown /\ snapshot'[b] = NoFrame
      BY <2>1, <3>1 DEF ReadSnapshot, Join, EndStream, IndInv, TypeOK
    <3> QED
      BY <2>1, <2>3, <3>2
  <2> QED
    BY <2>2, <2>3
<1>5. HubInv'
  BY <1>1, <1>4 DEF IndInv, HubInv
<1> QED
  BY <1>2, <1>3, <1>5 DEF IndInv

-----------------------------------------------------------------------------
(* Theorems.                                                               *)

\* IndInv is an inductive invariant of the hub.
THEOREM HubInvariant == Spec => []IndInv
<1>1. IndInv /\ [Next]_vars => IndInv'
  <2> SUFFICES ASSUME IndInv, [Next]_vars PROVE IndInv'
    OBVIOUS
  <2>1. TypeOK'
    BY TypeStep DEF IndInv
  <2>2. CASE UNCHANGED vars
    <3>1. now' = now /\ log' = log /\ last' = last /\ writing' = writing
          /\ shown' = shown /\ snapshot' = snapshot /\ \A b \in Browsers : Same(b)
      BY <2>2 DEF vars, hubVars, connVars, Same
    <3>2. \A b \in Browsers : StreamInv(b)'
      BY <2>1, <3>1, SameStream DEF IndInv
    <3>3. HubInv'
      BY <3>1 DEF IndInv, HubInv
    <3> QED
      BY <2>1, <3>2, <3>3 DEF IndInv
  <2> QED
    BY <2>1, <2>2, PublisherStep, StreamStep DEF Next
<1> QED
  BY <1>1, InitOK, PTL DEF Spec

\* Every variable of the hub and of its streams keeps its type.
THEOREM TypeCorrect == Spec => []TypeOK
<1>1. IndInv => TypeOK
  BY DEF IndInv
<1> QED
  BY <1>1, HubInvariant, PTL

\* An active frame that a stream yields was at most StaleAfter old when the stream was
\* opened, whatever publishers do meanwhile (settle_snapshot).
THEOREM StaleStaysDead == Spec => []NoResurrection
<1>1. IndInv => NoResurrection
  BY DEF IndInv, StreamInv, Shows, Young, NoResurrection
<1> QED
  BY <1>1, HubInvariant, PTL

\* Once nobody publishes, a browser that received all it will get is up to date, unless a
\* frame was sent between its snapshot and its joining or two publishers sent in the other
\* order than they stored (publish, subscribe).
THEOREM StreamsConverge == Spec => []ConvergesUnlessRaced
<1>1. IndInv => ConvergesUnlessRaced
  <2> SUFFICES ASSUME IndInv, Quiet, InOrder, NEW b \in Browsers, CaughtUp(b), ~raced[b]
               PROVE  UpToDate(b)
    BY DEF ConvergesUnlessRaced
  <2>1. /\ conn[b] = "streaming" /\ snapshot[b] = NoFrame
        /\ cursor[b] \in Nat /\ Len(log) \in Nat /\ cursor[b] = Len(log)
        /\ base[b] \in Nat /\ Published \in Nat /\ base[b] <= Published
        /\ log \in Seq(Frame)
    BY Times, PublishedNat DEF IndInv, StreamInv, Opened, CaughtUp, Behind, TypeOK
  <2>2. CASE FromChannel(b)
    <3>1. log # <<>> /\ shown[b] = log[Len(log)]
      BY <2>1, <2>2 DEF FromChannel
    <3> QED
      BY <3>1 DEF InOrder, UpToDate
  <2>3. CASE FromSnapshot(b)
    <3>1. Published <= base[b]
      <4>1. CASE log = <<>>
        <5>1. last = NoFrame
          BY <4>1 DEF IndInv, HubInv, Quiet
        <5> QED
          BY <2>1, <5>1 DEF Published
      <4>2. CASE log # <<>>
        <5>1. Len(log) \in 1..cursor[b] /\ log[Len(log)] = last /\ log[Len(log)] \in Frame
          BY <2>1, <4>2 DEF InOrder
        <5>2. log[Len(log)].id <= base[b]
          BY <2>3, <5>1 DEF FromSnapshot, Unraced
        <5>3. Published = last.id
          BY <5>1, FrameFields DEF Published
        <5> QED
          BY <5>1, <5>2, <5>3
      <4> QED
        BY <4>1, <4>2
    <3>2. Published = base[b]
      BY <2>1, <3>1
    <3> QED
      BY <2>3, <3>2 DEF FromSnapshot, Current, UpToDate
  <2> QED
    BY <2>1, <2>2, <2>3 DEF IndInv, StreamInv, Shows
<1> QED
  BY <1>1, HubInvariant, PTL

-----------------------------------------------------------------------------
(* The rebuild-skip cache: whatever reverts, crashes and overlaps.         *)

\* A push that commits has a manifest; one that persists had it accepted.
BuiltBeforeCommit == \A p \in Pushers : pc[p] = "commit" => built[p] \in Contents
CommittedBeforePersist ==
    \A p \in Pushers : pc[p] \in {"fingerprint", "json", "manifest"} => built[p] \in accepted

\* Every hash in use is that of a tree met before, and no tree holds its own.
HashInv ==
    /\ \A p \in Pushers : pc[p] # "idle" => print[p] \in DOMAIN trees
    /\ cache.fingerprint # Absent => cache.fingerprint \in DOMAIN trees
    /\ cache.json # Absent => cache.json \in DOMAIN trees
    /\ \A h \in DOMAIN trees : trees[h].cache.fingerprint # Absent => trees[h].cache.fingerprint < h

Printed(p) == trees[print[p]]
BeforeCommit == {"previous", "compare", "load", "build", "commit"}

\* Of pushes that follow one another, only one is under way; the cache is what it hashed until it
\* writes it; so what it hashed is not what the cache names.
TurnInv ==
    ~overlapped =>
        /\ \A p, q \in Pushers : pc[p] # "idle" /\ pc[q] # "idle" => p = q
        /\ \A p \in Pushers : pc[p] \in BeforeCommit \union {"fingerprint"} => Printed(p).cache = cache
        /\ \A p \in Pushers : pc[p] # "load"

CacheInv ==
    /\ CacheTypeOK
    /\ CacheHoldsAccepted
    /\ BuiltBeforeCommit
    /\ CommittedBeforePersist
    /\ HashInv
    /\ TurnInv

TreeType == [source : Contents, cache : CacheFiles]

\* The hash of the tree on disk is that of an earlier equal tree or the next number, and the trees
\* numbered before keep their numbers.
LEMMA HashTaken ==
    ASSUME CacheTypeOK
    PROVE  /\ Tree \in TreeType
           /\ Numbered \in Seq(TreeType)
           /\ TreeHash \in DOMAIN Numbered /\ TreeHash \in Hashes
           /\ Numbered[TreeHash] = Tree
           /\ \A h \in DOMAIN trees : h \in DOMAIN Numbered /\ Numbered[h] = trees[h]
           /\ \A h \in DOMAIN Numbered :
                h \notin DOMAIN trees => h = Len(trees) + 1 /\ Numbered[h] = Tree
<1>1. Tree \in TreeType /\ trees \in Seq(TreeType)
    BY DEF CacheTypeOK, Tree, TreeType
<1>2. CASE \E h \in DOMAIN trees : trees[h] = Tree
  <2>1. Numbered = trees
    BY <1>2 DEF Numbered
  <2>2. TreeHash \in DOMAIN Numbered /\ Numbered[TreeHash] = Tree
    BY <1>2, <2>1 DEF TreeHash
  <2> QED
    BY <1>1, <2>1, <2>2 DEF Hashes
<1>3. CASE ~\E h \in DOMAIN trees : trees[h] = Tree
  <2>1. Numbered = Append(trees, Tree)
    BY <1>3 DEF Numbered
  <2>2. /\ Numbered \in Seq(TreeType) /\ DOMAIN Numbered = 1..(Len(trees) + 1)
        /\ Len(trees) \in Nat /\ DOMAIN trees = 1..Len(trees)
        /\ \A h \in 1..Len(trees) : Numbered[h] = trees[h]
        /\ Numbered[Len(trees) + 1] = Tree
    BY <1>1, <2>1
  <2>3. \E h \in DOMAIN Numbered : Numbered[h] = Tree
    BY <2>2
  <2>4. TreeHash \in DOMAIN Numbered /\ Numbered[TreeHash] = Tree
    BY <2>3 DEF TreeHash
  <2> QED
    BY <1>1, <2>2, <2>4 DEF Hashes
<1> QED
    BY <1>2, <1>3

\* An empty cache holds nothing that was not accepted.
LEMMA InitCacheInv ==
    ASSUME CacheInit
    PROVE  CacheInv
<1>1. CacheTypeOK
  <2>1. source \in Contents
    BY CacheAssumption DEF CacheInit, Contents
  <2>2. changed \in [Pushers -> SUBSET Files]
    BY DEF CacheInit
  <2>3. pc \in [Pushers -> Steps] /\ built \in [Pushers -> Contents \union {Absent}]
    BY DEF CacheInit, Steps
  <2>4. started \in 0..MaxPushes
    BY CacheAssumption DEF CacheInit
  <2>5. live \in Contents \union {Absent} /\ accepted \subseteq Contents /\ overlapped \in BOOLEAN
    BY DEF CacheInit
  <2>6. cache \in CacheFiles /\ print \in [Pushers -> Hashes \union {Absent}]
    BY DEF CacheInit, CacheFiles
  <2>7. trees \in Seq([source : Contents, cache : CacheFiles])
    BY DEF CacheInit
  <2> QED
    BY <2>1, <2>2, <2>3, <2>4, <2>5, <2>6, <2>7 DEF CacheTypeOK
<1>2. CacheHoldsAccepted
    BY DEF CacheInit, CacheHoldsAccepted
<1>3. BuiltBeforeCommit /\ CommittedBeforePersist
    BY DEF CacheInit, BuiltBeforeCommit, CommittedBeforePersist
<1>4. HashInv
    BY DEF CacheInit, HashInv
<1>5. TurnInv
    BY DEF CacheInit, TurnInv, BeforeCommit
<1> QED
    BY <1>1, <1>2, <1>3, <1>4, <1>5 DEF CacheInv

LEMMA CacheTypeStep ==
    ASSUME CacheInv, [CacheNext]_cacheVars
    PROVE  CacheTypeOK'
<1> USE CacheAssumption DEF CacheTypeOK, Contents, CacheFiles, Hashes, Steps, Goto, host
<1>0. CacheTypeOK
    BY DEF CacheInv
<1>1. ASSUME NEW f \in Files, Edit(f) PROVE CacheTypeOK'
    BY <1>0, <1>1 DEF Edit
<1>2. ASSUME NEW p \in Pushers, TakeFingerprint(p) PROVE CacheTypeOK'
  <2>1. Numbered \in Seq([source : Contents, cache : CacheFiles]) /\ TreeHash \in Hashes
    BY <1>0, HashTaken DEF TreeType
  <2>2. /\ trees' = Numbered /\ print' = [print EXCEPT ![p] = TreeHash] /\ started' = started + 1
        /\ started < MaxPushes /\ overlapped' \in BOOLEAN /\ UNCHANGED <<source, cache, changed, host>>
        /\ built' = [built EXCEPT ![p] = Absent] /\ pc' = [pc EXCEPT ![p] = "previous"]
    BY <1>0, <1>2 DEF TakeFingerprint
  <2> HIDE DEF Contents, CacheFiles, Hashes
  <2> QED
    BY <1>0, <2>1, <2>2
<1>3. ASSUME NEW p \in Pushers, LoadPrevious(p) PROVE CacheTypeOK'
    BY <1>0, <1>3 DEF LoadPrevious, ChangedSince
<1>4. ASSUME NEW p \in Pushers, CompareHash(p) PROVE CacheTypeOK'
    BY <1>0, <1>4 DEF CompareHash
<1>5. ASSUME NEW p \in Pushers, LoadManifest(p) PROVE CacheTypeOK'
    BY <1>0, <1>5 DEF LoadManifest
<1>6. ASSUME NEW p \in Pushers, Build(p) PROVE CacheTypeOK'
    BY <1>0, <1>6 DEF Build
<1>7. ASSUME NEW p \in Pushers, Commit(p) PROVE CacheTypeOK'
    BY <1>0, <1>7 DEF Commit, CacheInv, BuiltBeforeCommit
<1>8. ASSUME NEW p \in Pushers, PersistFingerprint(p) PROVE CacheTypeOK'
    BY <1>0, <1>8 DEF PersistFingerprint
<1>9. ASSUME NEW p \in Pushers, PersistJson(p) PROVE CacheTypeOK'
    BY <1>0, <1>9 DEF PersistJson
<1>10. ASSUME NEW p \in Pushers, PersistManifest(p) PROVE CacheTypeOK'
    BY <1>0, <1>10 DEF PersistManifest
<1>11. ASSUME NEW p \in Pushers, Abort(p) PROVE CacheTypeOK'
    BY <1>0, <1>11 DEF Abort
<1>12. CASE UNCHANGED cacheVars
    BY <1>0, <1>12 DEF cacheVars
<1> QED
    BY <1>1, <1>2, <1>3, <1>4, <1>5, <1>6, <1>7, <1>8, <1>9, <1>10, <1>11, <1>12
    DEF CacheNext

\* The manifest reaches the cache only from a push whose commit was accepted:
\* the three writes follow the commit, and accepted never shrinks.
LEMMA AcceptedStep ==
    ASSUME CacheInv, [CacheNext]_cacheVars
    PROVE  CacheHoldsAccepted' /\ BuiltBeforeCommit' /\ CommittedBeforePersist'
<1> DEFINE Accepted == CacheHoldsAccepted /\ BuiltBeforeCommit /\ CommittedBeforePersist
<1> USE CacheAssumption DEF CacheTypeOK, CacheInv, CacheHoldsAccepted, BuiltBeforeCommit,
        CommittedBeforePersist, CacheFiles, Steps, Goto, host
<1>1. ASSUME NEW f \in Files, Edit(f) PROVE Accepted'
    BY <1>1 DEF Edit
<1>2. ASSUME NEW p \in Pushers, TakeFingerprint(p) PROVE Accepted'
    BY <1>2 DEF TakeFingerprint
<1>3. ASSUME NEW p \in Pushers, LoadPrevious(p) PROVE Accepted'
    BY <1>3 DEF LoadPrevious
<1>4. ASSUME NEW p \in Pushers, CompareHash(p) PROVE Accepted'
    BY <1>4 DEF CompareHash
<1>5. ASSUME NEW p \in Pushers, LoadManifest(p) PROVE Accepted'
    BY <1>5 DEF LoadManifest
<1>6. ASSUME NEW p \in Pushers, Build(p) PROVE Accepted'
    BY <1>6 DEF Build
<1>7. ASSUME NEW p \in Pushers, Commit(p) PROVE Accepted'
    BY <1>7 DEF Commit
<1>8. ASSUME NEW p \in Pushers, PersistFingerprint(p) PROVE Accepted'
    BY <1>8 DEF PersistFingerprint
<1>9. ASSUME NEW p \in Pushers, PersistJson(p) PROVE Accepted'
    BY <1>9 DEF PersistJson
<1>10. ASSUME NEW p \in Pushers, PersistManifest(p) PROVE Accepted'
    BY <1>10 DEF PersistManifest
<1>11. ASSUME NEW p \in Pushers, Abort(p) PROVE Accepted'
    BY <1>11 DEF Abort
<1>12. CASE UNCHANGED cacheVars
    BY <1>12 DEF cacheVars
<1> QED
    BY <1>1, <1>2, <1>3, <1>4, <1>5, <1>6, <1>7, <1>8, <1>9, <1>10, <1>11, <1>12
    DEF CacheNext

\* A hash is taken after everything its tree contains was written.
LEMMA HashStep ==
    ASSUME CacheInv, [CacheNext]_cacheVars
    PROVE  HashInv'
<1> USE DEF HashInv, Goto, host
<1>0. /\ CacheTypeOK /\ HashInv /\ DOMAIN trees = 1..Len(trees) /\ Len(trees) \in Nat
      /\ pc \in [Pushers -> Steps] /\ print \in [Pushers -> Hashes \union {Absent}]
    BY DEF CacheInv, CacheTypeOK
<1>1. ASSUME NEW f \in Files, Edit(f) PROVE HashInv'
    BY <1>0, <1>1 DEF Edit
<1>2. ASSUME NEW p \in Pushers, TakeFingerprint(p) PROVE HashInv'
  <2>1. /\ trees' = Numbered /\ print' = [print EXCEPT ![p] = TreeHash] /\ cache' = cache
        /\ pc' = [pc EXCEPT ![p] = "previous"]
    BY <1>2 DEF TakeFingerprint
  <2>2. \A h \in DOMAIN trees : h \in DOMAIN Numbered /\ Numbered[h] = trees[h]
    BY <1>0, HashTaken
  <2>3. \A q \in Pushers : pc'[q] # "idle" => print'[q] \in DOMAIN trees'
    BY <1>0, <2>1, <2>2, HashTaken
  <2>4. ASSUME NEW h \in DOMAIN Numbered, Numbered[h].cache.fingerprint # Absent
        PROVE  Numbered[h].cache.fingerprint < h
    <3>1. CASE h \in DOMAIN trees
      BY <1>0, <2>2, <2>4, <3>1
    <3>2. CASE h \notin DOMAIN trees
      <4>1. h = Len(trees) + 1 /\ Numbered[h].cache = cache
        BY <1>0, <3>2, HashTaken DEF Tree
      <4>2. cache.fingerprint \in 1..Len(trees)
        BY <1>0, <2>4, <4>1
      <4> QED
        BY <1>0, <4>1, <4>2
    <3> QED
      BY <3>1, <3>2
  <2> QED
    BY <1>0, <2>1, <2>2, <2>3, <2>4
<1>3. ASSUME NEW p \in Pushers, LoadPrevious(p) PROVE HashInv'
    BY <1>0, <1>3 DEF LoadPrevious
<1>4. ASSUME NEW p \in Pushers, CompareHash(p) PROVE HashInv'
    BY <1>0, <1>4 DEF CompareHash
<1>5. ASSUME NEW p \in Pushers, LoadManifest(p) PROVE HashInv'
    BY <1>0, <1>5 DEF LoadManifest
<1>6. ASSUME NEW p \in Pushers, Build(p) PROVE HashInv'
    BY <1>0, <1>6 DEF Build
<1>7. ASSUME NEW p \in Pushers, Commit(p) PROVE HashInv'
    BY <1>0, <1>7 DEF Commit
<1>8. ASSUME NEW p \in Pushers, PersistFingerprint(p) PROVE HashInv'
    BY <1>0, <1>8 DEF PersistFingerprint, CacheTypeOK, CacheFiles
<1>9. ASSUME NEW p \in Pushers, PersistJson(p) PROVE HashInv'
    BY <1>0, <1>9 DEF PersistJson, CacheTypeOK, CacheFiles
<1>10. ASSUME NEW p \in Pushers, PersistManifest(p) PROVE HashInv'
    BY <1>0, <1>10 DEF PersistManifest, CacheTypeOK, CacheFiles
<1>11. ASSUME NEW p \in Pushers, Abort(p) PROVE HashInv'
    BY <1>0, <1>11 DEF Abort
<1>12. CASE UNCHANGED cacheVars
    BY <1>0, <1>12 DEF cacheVars
<1> QED
    BY <1>1, <1>2, <1>3, <1>4, <1>5, <1>6, <1>7, <1>8, <1>9, <1>10, <1>11, <1>12
    DEF CacheNext

\* A push that runs alone compares the cached fingerprint with a later one.
LEMMA TurnStep ==
    ASSUME CacheInv, [CacheNext]_cacheVars
    PROVE  TurnInv'
<1> USE DEF TurnInv, Printed, BeforeCommit, Goto, host
<1>0. /\ CacheTypeOK /\ HashInv /\ TurnInv /\ DOMAIN trees = 1..Len(trees) /\ Len(trees) \in Nat
      /\ pc \in [Pushers -> Steps] /\ print \in [Pushers -> Hashes \union {Absent}]
      /\ overlapped \in BOOLEAN
    BY DEF CacheInv, CacheTypeOK
<1>1. ASSUME NEW f \in Files, Edit(f) PROVE TurnInv'
    BY <1>0, <1>1 DEF Edit
<1>2. ASSUME NEW p \in Pushers, TakeFingerprint(p) PROVE TurnInv'
  <2> SUFFICES ASSUME ~overlapped'
               PROVE  /\ \A q, r \in Pushers : pc'[q] # "idle" /\ pc'[r] # "idle" => q = r
                      /\ \A q \in Pushers : pc'[q] \in BeforeCommit \union {"fingerprint"} =>
                            trees'[print'[q]].cache = cache'
                      /\ \A q \in Pushers : pc'[q] # "load"
    OBVIOUS
  <2>1. /\ trees' = Numbered /\ print' = [print EXCEPT ![p] = TreeHash] /\ cache' = cache
        /\ pc' = [pc EXCEPT ![p] = "previous"] /\ \A q \in Pushers : pc[q] = "idle"
    BY <1>2 DEF TakeFingerprint
  <2>2. trees'[print'[p]].cache = cache
    BY <1>0, <2>1, HashTaken DEF Tree
  <2> QED
    BY <1>0, <2>1, <2>2
<1>3. ASSUME NEW p \in Pushers, LoadPrevious(p) PROVE TurnInv'
    BY <1>0, <1>3 DEF LoadPrevious
<1>4. ASSUME NEW p \in Pushers, CompareHash(p) PROVE TurnInv'
  <2>1. /\ pc[p] = "compare" /\ UNCHANGED <<trees, print, cache, overlapped>>
        /\ pc' = [pc EXCEPT ![p] = IF cache.fingerprint = print[p] THEN "load" ELSE "build"]
    BY <1>4 DEF CompareHash
  <2>2. ~overlapped => cache.fingerprint # print[p]
    <3> SUFFICES ASSUME ~overlapped, cache.fingerprint = print[p] PROVE FALSE
      OBVIOUS
    <3>1. print[p] \in 1..Len(trees) /\ Printed(p).cache = cache
      BY <1>0, <2>1 DEF HashInv
    <3>2. print[p] \in Nat /\ print[p] # Absent
      BY <1>0, <3>1, CacheAssumption
    <3>3. print[p] < print[p]
      BY <1>0, <3>1, <3>2 DEF HashInv
    <3> QED
      BY <3>2, <3>3
  <2> QED
    BY <1>0, <2>1, <2>2
<1>5. ASSUME NEW p \in Pushers, LoadManifest(p) PROVE TurnInv'
    BY <1>0, <1>5 DEF LoadManifest
<1>6. ASSUME NEW p \in Pushers, Build(p) PROVE TurnInv'
    BY <1>0, <1>6 DEF Build
<1>7. ASSUME NEW p \in Pushers, Commit(p) PROVE TurnInv'
    BY <1>0, <1>7 DEF Commit
<1>8. ASSUME NEW p \in Pushers, PersistFingerprint(p) PROVE TurnInv'
    BY <1>0, <1>8 DEF PersistFingerprint
<1>9. ASSUME NEW p \in Pushers, PersistJson(p) PROVE TurnInv'
    BY <1>0, <1>9 DEF PersistJson
<1>10. ASSUME NEW p \in Pushers, PersistManifest(p) PROVE TurnInv'
    BY <1>0, <1>10 DEF PersistManifest
<1>11. ASSUME NEW p \in Pushers, Abort(p) PROVE TurnInv'
    BY <1>0, <1>11 DEF Abort
<1>12. CASE UNCHANGED cacheVars
    BY <1>0, <1>12 DEF cacheVars
<1> QED
    BY <1>1, <1>2, <1>3, <1>4, <1>5, <1>6, <1>7, <1>8, <1>9, <1>10, <1>11, <1>12
    DEF CacheNext

\* CacheInv is an inductive invariant.
THEOREM CacheInvHolds == CacheSpec => []CacheInv
<1>1. CacheInit => CacheInv
    BY InitCacheInv
<1>2. CacheInv /\ [CacheNext]_cacheVars => CacheInv'
    BY CacheTypeStep, AcceptedStep, HashStep, TurnStep DEF CacheInv
<1> QED
    BY <1>1, <1>2, PTL DEF CacheSpec

\* A manifest that a later push may send instead of building is one the host
\* has accepted: "the rebuilt manifest equals the cached one" cannot fail for
\* want of blobs.
THEOREM CachedManifestAccepted == CacheSpec => []CacheHoldsAccepted
<1>1. CacheInv => CacheHoldsAccepted
    BY DEF CacheInv
<1> QED
    BY <1>1, CacheInvHolds, PTL

\* Every variable of the cache and its pushers keeps its type.
THEOREM CacheTypeCorrect == CacheSpec => []CacheTypeOK
<1>1. CacheInv => CacheTypeOK
    BY DEF CacheInv
<1> QED
    BY <1>1, CacheInvHolds, PTL

\* Pushes that follow one another never skip a build, whether or not a file was edited between
\* them: persist_cache writes into the tree that fingerprint walks.
THEOREM SkipNeverTaken == CacheSpec => [](overlapped \/ \A p \in Pushers : pc[p] # "load")
<1>1. CacheInv => overlapped \/ \A p \in Pushers : pc[p] # "load"
    BY DEF CacheInv, TurnInv
<1> QED
    BY <1>1, CacheInvHolds, PTL

-----------------------------------------------------------------------------
(* Versions: without Reverts the files on disk only get newer.             *)

AtLeast(t, s) == \A f \in Files : s[f] <= t[f]

\* Whatever overlaps, nothing that was read of the source is newer than it.
AgeInv ==
    /\ \A h \in DOMAIN trees : AtLeast(source, trees[h].source)
    /\ \A p \in Pushers : built[p] # Absent => AtLeast(source, built[p])
    /\ cache.manifest # Absent => AtLeast(source, cache.manifest)
    /\ live # Absent => AtLeast(source, live)

\* In turn: what p pushes is as new as what it hashed, which is as new as what is live until p
\* commits and no newer afterwards; the tree of the json file is as old as what is live.
FreshPush(p) ==
    /\ pc[p] = "commit" => AtLeast(built[p], Printed(p).source)
    /\ pc[p] \in BeforeCommit /\ live # Absent => AtLeast(Printed(p).source, live)
    /\ pc[p] \in {"fingerprint", "json"} => live # Absent /\ AtLeast(live, Printed(p).source)
    /\ pc[p] \in {"compare", "build"} => changed[p] = ChangedSince(cache.json, print[p])

JsonOld == cache.json # Absent => live # Absent /\ AtLeast(live, trees[cache.json].source)

Fresh == JsonOld /\ \A p \in Pushers : FreshPush(p)

FreshInv == ~overlapped => Fresh

LEMMA AtLeastTransitive ==
    ASSUME NEW r \in Contents, NEW s \in Contents, NEW t \in Contents, AtLeast(t, s), AtLeast(s, r)
    PROVE  AtLeast(t, r)
BY CacheAssumption DEF AtLeast, Contents

LEMMA TreesTyped ==
    ASSUME CacheInv
    PROVE  /\ trees \in Seq(TreeType)
           /\ \A h \in DOMAIN trees : trees[h].source \in Contents
           /\ \A p \in Pushers : pc[p] # "idle" => Printed(p).source \in Contents
<1>1. trees \in Seq(TreeType)
    BY DEF CacheInv, CacheTypeOK, TreeType
<1>2. \A h \in DOMAIN trees : trees[h] \in TreeType
    BY <1>1
<1>3. \A h \in DOMAIN trees : trees[h].source \in Contents
    BY <1>2 DEF TreeType
<1> QED
    BY <1>1, <1>3 DEF CacheInv, HashInv, Printed

LEMMA AgeStep ==
    ASSUME CacheInv, AgeInv, ~Reverts, [CacheNext]_cacheVars
    PROVE  AgeInv'
<1> USE DEF AgeInv, Goto, host
<1>0. /\ CacheTypeOK /\ HashInv /\ source \in Contents /\ built \in [Pushers -> Contents \union {Absent}]
      /\ cache \in CacheFiles /\ trees \in Seq(TreeType) /\ live \in Contents \union {Absent}
      /\ \A h \in DOMAIN trees : trees[h].source \in Contents
    BY TreesTyped DEF CacheInv, CacheTypeOK
<1>1. ASSUME NEW f \in Files, Edit(f) PROVE AgeInv'
  <2>1. /\ source' = [source EXCEPT ![f] = source[f] + 1] /\ source[f] + 1 \in 0..MaxVersion
        /\ UNCHANGED <<trees, built, cache, live>>
    BY <1>1 DEF Edit
  <2>2. source' \in Contents /\ AtLeast(source', source)
    BY <1>0, <2>1, CacheAssumption DEF Contents, AtLeast
  <2>3. \A c \in Contents : AtLeast(source, c) => AtLeast(source', c)
    BY <1>0, <2>2, AtLeastTransitive
  <2>4. cache.manifest # Absent => cache.manifest \in Contents
    BY <1>0 DEF CacheFiles
  <2> QED
    BY <1>0, <2>1, <2>3, <2>4
<1>2. ASSUME NEW p \in Pushers, TakeFingerprint(p) PROVE AgeInv'
  <2>1. /\ trees' = Numbered /\ UNCHANGED <<source, cache, live>>
        /\ built' = [built EXCEPT ![p] = Absent]
    BY <1>2 DEF TakeFingerprint
  <2>2. AtLeast(source, source)
    BY <1>0, CacheAssumption DEF Contents, AtLeast
  <2>3. \A h \in DOMAIN Numbered : AtLeast(source, Numbered[h].source)
    BY <1>0, <2>2, HashTaken DEF Tree
  <2> QED
    BY <1>0, <2>1, <2>3
<1>3. ASSUME NEW p \in Pushers, LoadPrevious(p) PROVE AgeInv'
    BY <1>0, <1>3 DEF LoadPrevious
<1>4. ASSUME NEW p \in Pushers, CompareHash(p) PROVE AgeInv'
    BY <1>0, <1>4 DEF CompareHash
<1>5. ASSUME NEW p \in Pushers, LoadManifest(p) PROVE AgeInv'
    BY <1>0, <1>5 DEF LoadManifest
<1>6. ASSUME NEW p \in Pushers, Build(p) PROVE AgeInv'
  <2>1. AtLeast(source, source)
    BY <1>0, CacheAssumption DEF Contents, AtLeast
  <2> QED
    BY <1>0, <1>6, <2>1 DEF Build
<1>7. ASSUME NEW p \in Pushers, Commit(p) PROVE AgeInv'
    BY <1>0, <1>7 DEF Commit
<1>8. ASSUME NEW p \in Pushers, PersistFingerprint(p) PROVE AgeInv'
    BY <1>0, <1>8 DEF PersistFingerprint, CacheFiles
<1>9. ASSUME NEW p \in Pushers, PersistJson(p) PROVE AgeInv'
    BY <1>0, <1>9 DEF PersistJson, CacheFiles
<1>10. ASSUME NEW p \in Pushers, PersistManifest(p) PROVE AgeInv'
    BY <1>0, <1>10 DEF PersistManifest, CacheFiles
<1>11. ASSUME NEW p \in Pushers, Abort(p) PROVE AgeInv'
    BY <1>0, <1>11 DEF Abort
<1>12. CASE UNCHANGED cacheVars
    BY <1>0, <1>12 DEF cacheVars
<1> QED
    BY <1>1, <1>2, <1>3, <1>4, <1>5, <1>6, <1>7, <1>8, <1>9, <1>10, <1>11, <1>12
    DEF CacheNext

\* Only one push runs, so live and the cache are its own to change.
LEMMA FreshStep ==
    ASSUME CacheInv, AgeInv, FreshInv, ~Reverts, [CacheNext]_cacheVars
    PROVE  FreshInv'
<1> SUFFICES ASSUME ~overlapped' PROVE Fresh'
    BY DEF FreshInv
<1>a. ~overlapped
    BY DEF CacheInv, CacheTypeOK, CacheNext, Edit, TakeFingerprint, LoadPrevious, CompareHash, LoadManifest, Build, Commit,
           PersistFingerprint, PersistJson, PersistManifest, Abort, cacheVars
<1>0. /\ source \in Contents /\ built \in [Pushers -> Contents \union {Absent}]
      /\ cache \in CacheFiles /\ trees \in Seq(TreeType) /\ live \in Contents \union {Absent}
      /\ \A h \in DOMAIN trees : trees[h].source \in Contents
      /\ pc \in [Pushers -> Steps] /\ print \in [Pushers -> Hashes \union {Absent}]
      /\ changed \in [Pushers -> SUBSET Files]
      /\ \A p \in Pushers : pc[p] # "idle" => Printed(p).source \in Contents
      /\ cache.json # Absent => cache.json \in DOMAIN trees
      /\ \A p \in Pushers : FreshPush(p)
      /\ cache.json # Absent => live # Absent /\ AtLeast(live, trees[cache.json].source)
      /\ \A p, q \in Pushers : pc[p] # "idle" /\ pc[q] # "idle" => p = q
      /\ \A p \in Pushers : pc[p] # "load"
    BY <1>a, TreesTyped DEF CacheInv, CacheTypeOK, FreshInv, Fresh, JsonOld, TurnInv, HashInv
<1> USE DEF Fresh, JsonOld, FreshPush, Printed, BeforeCommit, Goto, host, ChangedSince
<1>1. ASSUME NEW f \in Files, Edit(f) PROVE Fresh'
    BY <1>0, <1>1 DEF Edit
<1>2. ASSUME NEW p \in Pushers, TakeFingerprint(p) PROVE Fresh'
  <2>1. /\ trees' = Numbered /\ print' = [print EXCEPT ![p] = TreeHash] /\ UNCHANGED <<source, cache, live, changed>>
        /\ pc' = [pc EXCEPT ![p] = "previous"] /\ \A q \in Pushers : pc[q] = "idle"
    BY <1>2 DEF TakeFingerprint
  <2>2. trees'[print'[p]].source = source
    BY <1>0, <2>1, HashTaken DEF Tree, CacheInv
  <2>3. \A q \in Pushers : FreshPush(q)'
    BY <1>0, <2>1, <2>2 DEF AgeInv
  <2>4. JsonOld'
    <3>1. \A h \in DOMAIN trees : Numbered[h] = trees[h]
      BY HashTaken DEF CacheInv
    <3> QED
      BY <1>0, <2>1, <3>1
  <2> QED
    BY <2>3, <2>4
<1>3. ASSUME NEW p \in Pushers, LoadPrevious(p) PROVE Fresh'
    BY <1>0, <1>3 DEF LoadPrevious
<1>4. ASSUME NEW p \in Pushers, CompareHash(p) PROVE Fresh'
    BY <1>0, <1>4 DEF CompareHash
<1>5. ASSUME NEW p \in Pushers, LoadManifest(p) PROVE Fresh'
    BY <1>0, <1>5 DEF LoadManifest
<1>6. ASSUME NEW p \in Pushers, Build(p) PROVE Fresh'
  <2>1. AtLeast(source, Printed(p).source)
    BY <1>0, <1>6 DEF Build, AgeInv, CacheInv, HashInv
  <2> QED
    BY <1>0, <1>6, <2>1 DEF Build
<1>7. ASSUME NEW p \in Pushers, Commit(p) PROVE Fresh'
  <2>1. /\ pc[p] = "commit" /\ live' = built[p] /\ pc' = [pc EXCEPT ![p] = "fingerprint"]
        /\ UNCHANGED <<source, cache, trees, print, changed, built>>
    BY <1>7 DEF Commit
  <2>2. built[p] \in Contents /\ built[p] # Absent
    BY <2>1, CacheAssumption DEF CacheInv, BuiltBeforeCommit, Contents
  <2>3. AtLeast(built[p], Printed(p).source) /\ (live # Absent => AtLeast(Printed(p).source, live))
    BY <1>0, <2>1
  <2>4. cache.json # Absent => AtLeast(built[p], trees[cache.json].source)
    <3> SUFFICES ASSUME cache.json # Absent PROVE AtLeast(built[p], trees[cache.json].source)
      OBVIOUS
    <3>1. live \in Contents /\ AtLeast(live, trees[cache.json].source) /\ AtLeast(Printed(p).source, live)
          /\ trees[cache.json].source \in Contents /\ Printed(p).source \in Contents
      BY <1>0, <2>1, <2>3
    <3>2. AtLeast(Printed(p).source, trees[cache.json].source)
      BY <3>1, AtLeastTransitive
    <3> QED
      BY <2>2, <2>3, <3>1, <3>2, AtLeastTransitive
  <2>5. \A q \in Pushers : FreshPush(q)'
    BY <1>0, <2>1, <2>2, <2>3
  <2> QED
    BY <1>0, <2>1, <2>2, <2>4, <2>5
<1>8. ASSUME NEW p \in Pushers, PersistFingerprint(p) PROVE Fresh'
    BY <1>0, <1>8 DEF PersistFingerprint, CacheFiles
<1>9. ASSUME NEW p \in Pushers, PersistJson(p) PROVE Fresh'
    BY <1>0, <1>9 DEF PersistJson, CacheFiles
<1>10. ASSUME NEW p \in Pushers, PersistManifest(p) PROVE Fresh'
    BY <1>0, <1>10 DEF PersistManifest, CacheFiles
<1>11. ASSUME NEW p \in Pushers, Abort(p) PROVE Fresh'
    BY <1>0, <1>11 DEF Abort
<1>12. CASE UNCHANGED cacheVars
    BY <1>0, <1>12 DEF cacheVars
<1> HIDE DEF Fresh
<1> QED
    BY <1>1, <1>2, <1>3, <1>4, <1>5, <1>6, <1>7, <1>8, <1>9, <1>10, <1>11, <1>12
    DEF CacheNext

LEMMA VersionsHold ==
    ASSUME ~Reverts
    PROVE  CacheSpec => [](CacheInv /\ AgeInv /\ FreshInv)
<1>1. CacheInit => CacheInv /\ AgeInv /\ FreshInv
  <2>1. CacheInit => AgeInv /\ FreshInv
    BY DEF CacheInit, AgeInv, FreshInv, Fresh, JsonOld, FreshPush, BeforeCommit
  <2> QED
    BY <2>1, InitCacheInv
<1>2. CacheInv /\ AgeInv /\ FreshInv /\ [CacheNext]_cacheVars => CacheInv' /\ AgeInv' /\ FreshInv'
    BY CacheTypeStep, AcceptedStep, HashStep, TurnStep, AgeStep, FreshStep DEF CacheInv
<1> QED
    BY <1>1, <1>2, PTL DEF CacheSpec

\* No push that runs alone commits a file older than the source was when it began, whatever
\* crashes and failed pushes left in the cache (prepare, persist_cache).
THEOREM PushesAreFresh ==
    ASSUME ~Reverts
    PROVE  CacheSpec => []NothingStaleInTurn
<1>1. CacheInv /\ FreshInv => NothingStaleInTurn
  <2> SUFFICES ASSUME CacheInv, FreshInv, ~overlapped, NEW p \in Pushers, pc[p] = "commit", NEW f \in Files
               PROVE  built[p][f] >= trees[print[p]].source[f]
    BY DEF NothingStaleInTurn, NothingStalePushed
  <2>1. trees[print[p]].source[f] <= built[p][f]
    BY DEF FreshInv, Fresh, FreshPush, AtLeast, Printed
  <2> QED
    BY <2>1
<1> QED
    BY <1>1, VersionsHold, PTL

\* The changed list of a push that runs alone names every file that differs from what is live
\* and has not moved since the fingerprint (changed_files against host-fingerprint.json).
THEOREM ChangedListComplete ==
    ASSUME ~Reverts
    PROVE  CacheSpec => []ChangedIsComplete
<1>1. CacheInv /\ FreshInv => ChangedIsComplete
  <2> SUFFICES ASSUME CacheInv, FreshInv, ~overlapped, NEW p \in Pushers, pc[p] = "build", live # Absent,
                      NEW f \in Files, source[f] = Printed(p).source[f], source[f] # live[f]
               PROVE  f \in changed[p]
    BY DEF ChangedIsComplete, Printed
  <2>1. FreshPush(p) /\ changed[p] = ChangedSince(cache.json, print[p])
    BY DEF FreshInv, Fresh, FreshPush
  <2>2. CASE cache.json = Absent
    BY <2>1, <2>2 DEF ChangedSince
  <2>3. CASE cache.json # Absent
    <3>1. trees[cache.json].source[f] <= live[f] /\ live[f] <= Printed(p).source[f]
      BY <2>1, <2>3 DEF FreshInv, Fresh, JsonOld, FreshPush, BeforeCommit, AtLeast
    <3>2. live[f] \in Nat /\ Printed(p).source[f] \in Nat /\ trees[cache.json].source[f] \in Nat
      <4>1. live \in Contents /\ Printed(p).source \in Contents /\ trees[cache.json].source \in Contents
        BY <2>3, TreesTyped DEF CacheInv, CacheTypeOK, HashInv
      <4> QED
        BY <4>1 DEF Contents
    <3>3. trees[cache.json].source[f] # Printed(p).source[f]
      BY <3>1, <3>2
    <3> QED
      BY <2>1, <2>3, <3>3 DEF ChangedSince, Printed
  <2> QED
    BY <2>2, <2>3
<1> QED
    BY <1>1, VersionsHold, PTL
===============================================================================
