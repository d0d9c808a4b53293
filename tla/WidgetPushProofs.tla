-------------------------- MODULE WidgetPushProofs --------------------------
(***************************************************************************)
(* Theorems about WidgetPush, for every set of pushes, blobs and manifests.*)
(* IndInv carries what holds with every gap and disconnect; OwnInv, on top *)
(* of it, what needs both to be absent; SettledInv needs in addition that  *)
(* no headless push runs.                                                  *)
(***************************************************************************)
EXTENDS WidgetPush, TLAPS

\* A push that ever had the slot is past its claim, whatever the rest of its
\* widget_start still has to do, so it cannot claim the slot again.
PastClaim == {"held", "taken", "takeover", "committing", "probing"}
                \union {"done", "failed", "lost"}
ClaimedOnce ==
    /\ \A p \in Pushes : tail[p] # "none" => phase[p] \in PastClaim
    /\ slot # NoPush => tail[slot] # "none"

\* A task tends only a push that left the slot and has not ended.
TendsTaken ==
    \A t \in Pushes : tending[t] # NoPush =>
        phase[tending[t]] \in {"takeover", "committing", "probing"}

\* A flight carries its own timer's handle, or that of a push which is done
\* with the slot: aborting it cannot hit the timer of the push in the slot.
StrayHandle ==
    \A p \in Pushes : grace[p] \notin {NoPush, p} =>
        slot # grace[p] /\ tail[grace[p]] # "none"

\* Every blob of a manifest is stored, vouched for or on one of the two lists.
NoBlobLost ==
    \A p \in Pushes :
        /\ phase[p] \in {"uploading", "held", "taken", "takeover", "committing"}
              => manifest[p] \subseteq stored \union vouched \union todo[p] \union pending[p]
        /\ phase[p] \in {"held", "taken", "committing"} => todo[p] = {}
        /\ phase[p] \in {"taken", "takeover", "committing"} => pending[p] = {}

IndInv ==
    /\ TypeOK
    /\ SlotHasTimer
    /\ ClaimedOnce
    /\ TendsTaken
    /\ StrayHandle
    /\ NoBlobLost

\* Without gaps and disconnects the life of a timer is tied to its own push:
\* its handle is in place before it may act, and gone once it acted.
HandleInPlace ==
    \A t \in Pushes :
        /\ tail[t] \in {"spawn", "attach"} => slot = t
        /\ timer[t] = "armed" => slot = t \/ (phase[t] = "taken" /\ grace[t] = t)
        /\ slot = t /\ tail[t] = "returned" => grace[t] = t
        /\ grace[t] \in {t, NoPush}
        /\ tending[t] # NoPush => grace[t] = NoPush

OwnInv == HandleInPlace /\ OwnTimerOnly /\ TakeoverNotAborted

-----------------------------------------------------------------------------
(* Types *)

\* Every step keeps the types.
LEMMA TypeStep ==
    ASSUME TypeOK, [Next]_vars
    PROVE  TypeOK'
<1> USE PushAssumption DEF TypeOK, Phases, RunningPhases, EndPhases, Frames, ActiveFrames,
        Goto, flightVars, hostVars
<1>1. ASSUME NEW p \in Pushes, Start(p) PROVE TypeOK'
    BY <1>1 DEF Start
<1>2. ASSUME NEW p \in Pushes, Prepare(p) PROVE TypeOK'
    BY <1>2 DEF Prepare
<1>3. ASSUME NEW p \in Pushes, InitOk(p) PROVE TypeOK'
    BY <1>3 DEF InitOk
<1>4. ASSUME NEW p \in Pushes, InitFails(p) PROVE TypeOK'
    BY <1>4 DEF InitFails, Fail, LetGo, PublishFailure
<1>5. ASSUME NEW p \in Pushes, UploadOk(p) PROVE TypeOK'
    BY <1>5 DEF UploadOk
<1>6. ASSUME NEW p \in Pushes, UploadFails(p) PROVE TypeOK'
    BY <1>6 DEF UploadFails, Fail, LetGo, PublishFailure
<1>7. ASSUME NEW p \in Pushes, CommitInline(p) PROVE TypeOK'
    BY <1>7 DEF CommitInline
<1>8. ASSUME NEW p \in Pushes, ClaimSlot(p) PROVE TypeOK'
    BY <1>8 DEF ClaimSlot
<1>9. ASSUME NEW p \in Pushes, LoseSlot(p) PROVE TypeOK'
    BY <1>9 DEF LoseSlot
<1>10. ASSUME NEW p \in Pushes, SpawnTimer(p) PROVE TypeOK'
    BY <1>10 DEF SpawnTimer
<1>11. ASSUME NEW p \in Pushes, AttachGrace(p) PROVE TypeOK'
    BY <1>11 DEF AttachGrace
<1>12. ASSUME NEW p \in Pushes, Finalize(p) PROVE TypeOK'
    BY <1>12 DEF Finalize
<1>13. ASSUME NEW p \in Pushes, TimerFires(p) PROVE TypeOK'
    BY <1>13 DEF TimerFires
<1>14. ASSUME NEW p \in Pushes, CommitOk(p) PROVE TypeOK'
    BY <1>14 DEF CommitOk
<1>15. ASSUME NEW p \in Pushes, CommitFails(p) PROVE TypeOK'
    BY <1>15 DEF CommitFails, Fail, LetGo, PublishFailure
<1>16. ASSUME NEW p \in Pushes, ProbeEnds(p) PROVE TypeOK'
    BY <1>16 DEF ProbeEnds, LetGo
<1>17. ASSUME NEW p \in Pushes, DropHandler(p) PROVE TypeOK'
    BY <1>17 DEF DropHandler, Abandon, LetGo
<1>18. ASSUME NEW p \in Pushes, DropAttach(p) PROVE TypeOK'
    BY <1>18 DEF DropAttach
<1>19. ASSUME NEW p \in Pushes, TaskDies(p) PROVE TypeOK'
    BY <1>19 DEF TaskDies, Abandon, LetGo
<1>20. ASSUME NEW b \in Presigned, WidgetPut(b) PROVE TypeOK'
    BY <1>20 DEF WidgetPut
<1>21. ASSUME NEW r \in SUBSET Presigned, WidgetComplete(r) PROVE TypeOK'
    BY <1>21 DEF WidgetComplete
<1>22. CASE UNCHANGED vars
    BY <1>22 DEF vars
<1> QED
    BY <1>1, <1>2, <1>3, <1>4, <1>5, <1>6, <1>7, <1>8, <1>9, <1>10, <1>11, <1>12, <1>13, <1>14, <1>15, <1>16, <1>17, <1>18, <1>19, <1>20, <1>21, <1>22
    DEF Next, Environment, Run, FinishStart

-----------------------------------------------------------------------------
(* The invariant that holds with every gap and disconnect *)

\* Nothing is in flight at the start.
LEMMA InitInd == Init => IndInv
    BY PushAssumption DEF Init, IndInv, TypeOK, SlotHasTimer, ClaimedOnce,
        TendsTaken, StrayHandle, NoBlobLost, Phases, Frames

\* The timer of the push in the slot stays armed. The only abort is that of
\* Finalize, and StrayHandle keeps it away from the slot; the only end of a
\* flight that is not its own doing is TaskDies, and TendsTaken keeps that away.
LEMMA SlotStep ==
    ASSUME IndInv, TypeOK', [Next]_vars
    PROVE  SlotHasTimer'
<1> USE PushAssumption DEF TypeOK, Phases, RunningPhases, EndPhases, Goto,
        flightVars, hostVars, IndInv, SlotHasTimer, ClaimedOnce, PastClaim,
        TendsTaken, StrayHandle
<1>1. ASSUME NEW p \in Pushes, ClaimSlot(p) PROVE SlotHasTimer'
    BY <1>1 DEF ClaimSlot
<1>2. ASSUME NEW p \in Pushes, SpawnTimer(p) PROVE SlotHasTimer'
    BY <1>2 DEF SpawnTimer
<1>3. ASSUME NEW p \in Pushes, AttachGrace(p) PROVE SlotHasTimer'
    BY <1>3 DEF AttachGrace
<1>4. ASSUME NEW p \in Pushes, Finalize(p) PROVE SlotHasTimer'
    BY <1>4 DEF Finalize
<1>5. ASSUME NEW p \in Pushes, TimerFires(p) PROVE SlotHasTimer'
    BY <1>5 DEF TimerFires
<1>6. ASSUME NEW p \in Pushes, DropHandler(p) PROVE SlotHasTimer'
    BY <1>6 DEF DropHandler, Abandon, LetGo
<1>7. ASSUME NEW p \in Pushes, TaskDies(p) PROVE SlotHasTimer'
    BY <1>7 DEF TaskDies, Abandon, LetGo
<1>8. ASSUME NEW r \in SUBSET Presigned, WidgetComplete(r) PROVE SlotHasTimer'
    BY <1>8 DEF WidgetComplete
<1>9. ASSUME NEW p \in Pushes,
             Start(p) \/ Prepare(p) \/ CommitInline(p) \/ LoseSlot(p)
      PROVE  SlotHasTimer'
    BY <1>9 DEF Start, Prepare, CommitInline, LoseSlot
<1>10. ASSUME NEW p \in Pushes, InitFails(p) \/ UploadFails(p) PROVE SlotHasTimer'
    BY <1>10 DEF InitFails, UploadFails, Fail, LetGo, PublishFailure
<1>11. ASSUME NEW p \in Pushes, CommitFails(p) PROVE SlotHasTimer'
    BY <1>11 DEF CommitFails, Fail, LetGo, PublishFailure
<1>12. ASSUME NEW p \in Pushes, DropAttach(p) PROVE SlotHasTimer'
    BY <1>12 DEF DropAttach
<1>13. ASSUME NEW p \in Pushes, InitOk(p) \/ UploadOk(p) PROVE SlotHasTimer'
    BY <1>13 DEF InitOk, UploadOk
<1>14. ASSUME NEW p \in Pushes, CommitOk(p) \/ ProbeEnds(p) PROVE SlotHasTimer'
    BY <1>14 DEF CommitOk, ProbeEnds, LetGo
<1>15. ASSUME NEW b \in Presigned, WidgetPut(b) PROVE SlotHasTimer'
    BY <1>15 DEF WidgetPut
<1>16. CASE UNCHANGED vars
    BY <1>16 DEF vars
<1> QED BY <1>1, <1>2, <1>3, <1>4, <1>5, <1>6, <1>7, <1>8, <1>9, <1>10, <1>11,
        <1>12, <1>13, <1>14, <1>15, <1>16
    DEF Next, Environment, Run, FinishStart

\* A push never returns to a phase before its claim.
LEMMA ClaimedStep ==
    ASSUME IndInv, TypeOK', [Next]_vars
    PROVE  ClaimedOnce'
<1> USE PushAssumption DEF TypeOK, Phases, RunningPhases, EndPhases, Goto,
        flightVars, hostVars, IndInv, SlotHasTimer, ClaimedOnce, PastClaim,
        TendsTaken
<1>1. ASSUME NEW p \in Pushes, ClaimSlot(p) PROVE ClaimedOnce'
    BY <1>1 DEF ClaimSlot
<1>2. ASSUME NEW p \in Pushes, TimerFires(p) PROVE ClaimedOnce'
    BY <1>2 DEF TimerFires
<1>3. ASSUME NEW p \in Pushes, TaskDies(p) PROVE ClaimedOnce'
    BY <1>3 DEF TaskDies, Abandon, LetGo
<1>4. ASSUME NEW r \in SUBSET Presigned, WidgetComplete(r) PROVE ClaimedOnce'
    BY <1>4 DEF WidgetComplete
<1>5. ASSUME NEW p \in Pushes,
             Start(p) \/ Prepare(p) \/ CommitInline(p) \/ LoseSlot(p)
      PROVE  ClaimedOnce'
    BY <1>5 DEF Start, Prepare, CommitInline, LoseSlot
<1>6. ASSUME NEW p \in Pushes, InitFails(p) \/ UploadFails(p) PROVE ClaimedOnce'
    BY <1>6 DEF InitFails, UploadFails, Fail, LetGo, PublishFailure
<1>7. ASSUME NEW p \in Pushes, CommitFails(p) PROVE ClaimedOnce'
    BY <1>7 DEF CommitFails, Fail, LetGo, PublishFailure
<1>8. ASSUME NEW p \in Pushes,
             SpawnTimer(p) \/ AttachGrace(p) \/ DropAttach(p)
      PROVE  ClaimedOnce'
    BY <1>8 DEF SpawnTimer, AttachGrace, DropAttach
<1>9. ASSUME NEW p \in Pushes, InitOk(p) \/ UploadOk(p) PROVE ClaimedOnce'
    BY <1>9 DEF InitOk, UploadOk
<1>10. ASSUME NEW p \in Pushes, CommitOk(p) \/ ProbeEnds(p) PROVE ClaimedOnce'
    BY <1>10 DEF CommitOk, ProbeEnds, LetGo
<1>11. ASSUME NEW p \in Pushes, DropHandler(p) PROVE ClaimedOnce'
    BY <1>11 DEF DropHandler, Abandon, LetGo
<1>12. ASSUME NEW p \in Pushes, Finalize(p) PROVE ClaimedOnce'
    BY <1>12 DEF Finalize
<1>13. ASSUME NEW b \in Presigned, WidgetPut(b) PROVE ClaimedOnce'
    BY <1>13 DEF WidgetPut
<1>14. CASE UNCHANGED vars
    BY <1>14 DEF vars
<1> QED BY <1>1, <1>2, <1>3, <1>4, <1>5, <1>6, <1>7, <1>8, <1>9, <1>10, <1>11,
        <1>12, <1>13, <1>14
    DEF Next, Environment, Run, FinishStart

\* A task lets go of its push in every step that ends it.
LEMMA TendsStep ==
    ASSUME IndInv, TypeOK', [Next]_vars
    PROVE  TendsTaken'
<1> USE PushAssumption DEF TypeOK, Phases, RunningPhases, EndPhases, Goto,
        flightVars, hostVars, IndInv, SlotHasTimer, TendsTaken, ByRequest
<1>1. ASSUME NEW p \in Pushes, Finalize(p) PROVE TendsTaken'
    BY <1>1 DEF Finalize
<1>2. ASSUME NEW p \in Pushes, TimerFires(p) PROVE TendsTaken'
    BY <1>2 DEF TimerFires
<1>3. ASSUME NEW p \in Pushes, ProbeEnds(p) PROVE TendsTaken'
    BY <1>3 DEF ProbeEnds, LetGo
<1>4. ASSUME NEW p \in Pushes, DropHandler(p) PROVE TendsTaken'
    BY <1>4 DEF DropHandler, Abandon, LetGo
<1>5. ASSUME NEW p \in Pushes, TaskDies(p) PROVE TendsTaken'
    BY <1>5 DEF TaskDies, Abandon, LetGo
<1>6. ASSUME NEW r \in SUBSET Presigned, WidgetComplete(r) PROVE TendsTaken'
    BY <1>6 DEF WidgetComplete
<1>7. ASSUME NEW p \in Pushes,
             Start(p) \/ Prepare(p) \/ CommitInline(p) \/ LoseSlot(p) \/ ClaimSlot(p)
      PROVE  TendsTaken'
    BY <1>7 DEF Start, Prepare, CommitInline, LoseSlot, ClaimSlot
<1>8. ASSUME NEW p \in Pushes, InitFails(p) \/ UploadFails(p) PROVE TendsTaken'
    BY <1>8 DEF InitFails, UploadFails, Fail, LetGo, PublishFailure
<1>9. ASSUME NEW p \in Pushes, CommitFails(p) PROVE TendsTaken'
    BY <1>9 DEF CommitFails, Fail, LetGo, PublishFailure
<1>10. ASSUME NEW p \in Pushes,
             SpawnTimer(p) \/ AttachGrace(p) \/ DropAttach(p)
      PROVE  TendsTaken'
    BY <1>10 DEF SpawnTimer, AttachGrace, DropAttach
<1>11. ASSUME NEW p \in Pushes, InitOk(p) \/ UploadOk(p) PROVE TendsTaken'
    BY <1>11 DEF InitOk, UploadOk
<1>12. ASSUME NEW p \in Pushes, CommitOk(p) PROVE TendsTaken'
    BY <1>12 DEF CommitOk
<1>13. ASSUME NEW b \in Presigned, WidgetPut(b) PROVE TendsTaken'
    BY <1>13 DEF WidgetPut
<1>14. CASE UNCHANGED vars
    BY <1>14 DEF vars
<1> QED BY <1>1, <1>2, <1>3, <1>4, <1>5, <1>6, <1>7, <1>8, <1>9, <1>10, <1>11,
        <1>12, <1>13, <1>14
    DEF Next, Environment, Run, FinishStart

\* AttachGrace may store a handle in a flight that is not its push's, but only
\* when that push has left the slot, which it cannot claim again.
LEMMA StrayStep ==
    ASSUME IndInv, TypeOK', [Next]_vars
    PROVE  StrayHandle'
<1> USE PushAssumption DEF TypeOK, Phases, RunningPhases, EndPhases, Goto,
        flightVars, hostVars, IndInv, SlotHasTimer, ClaimedOnce, PastClaim,
        StrayHandle
<1>1. ASSUME NEW p \in Pushes, ClaimSlot(p) PROVE StrayHandle'
    BY <1>1 DEF ClaimSlot
<1>2. ASSUME NEW p \in Pushes, AttachGrace(p) PROVE StrayHandle'
    BY <1>2 DEF AttachGrace
<1>3. ASSUME NEW p \in Pushes, TimerFires(p) PROVE StrayHandle'
    BY <1>3 DEF TimerFires
<1>4. ASSUME NEW p \in Pushes,
             Start(p) \/ Prepare(p) \/ CommitInline(p) \/ LoseSlot(p)
      PROVE  StrayHandle'
    BY <1>4 DEF Start, Prepare, CommitInline, LoseSlot
<1>5. ASSUME NEW p \in Pushes, InitFails(p) \/ UploadFails(p) PROVE StrayHandle'
    BY <1>5 DEF InitFails, UploadFails, Fail, LetGo, PublishFailure
<1>6. ASSUME NEW p \in Pushes, CommitFails(p) PROVE StrayHandle'
    BY <1>6 DEF CommitFails, Fail, LetGo, PublishFailure
<1>7. ASSUME NEW p \in Pushes, SpawnTimer(p) \/ DropAttach(p) PROVE StrayHandle'
    BY <1>7 DEF SpawnTimer, DropAttach
<1>8. ASSUME NEW p \in Pushes, InitOk(p) \/ UploadOk(p) PROVE StrayHandle'
    BY <1>8 DEF InitOk, UploadOk
<1>9. ASSUME NEW p \in Pushes, CommitOk(p) \/ ProbeEnds(p) PROVE StrayHandle'
    BY <1>9 DEF CommitOk, ProbeEnds, LetGo
<1>10. ASSUME NEW p \in Pushes, DropHandler(p) \/ TaskDies(p) PROVE StrayHandle'
    BY <1>10 DEF DropHandler, TaskDies, Abandon, LetGo
<1>11. ASSUME NEW p \in Pushes, Finalize(p) PROVE StrayHandle'
    BY <1>11 DEF Finalize
<1>12. ASSUME NEW b \in Presigned, WidgetPut(b) PROVE StrayHandle'
    BY <1>12 DEF WidgetPut
<1>13. ASSUME NEW r \in SUBSET Presigned, WidgetComplete(r) PROVE StrayHandle'
    BY <1>13 DEF WidgetComplete
<1>14. CASE UNCHANGED vars
    BY <1>14 DEF vars
<1> QED BY <1>1, <1>2, <1>3, <1>4, <1>5, <1>6, <1>7, <1>8, <1>9, <1>10, <1>11,
        <1>12, <1>13, <1>14
    DEF Next, Environment, Run, FinishStart

\* A blob leaves a work list only into the host's store or on a widget's word.
LEMMA BlobStep ==
    ASSUME IndInv, TypeOK', [Next]_vars
    PROVE  NoBlobLost'
<1> USE PushAssumption DEF TypeOK, Phases, RunningPhases, EndPhases, Goto,
        flightVars, hostVars, IndInv, SlotHasTimer, TendsTaken, NoBlobLost
<1>1. ASSUME NEW p \in Pushes, InitOk(p) PROVE NoBlobLost'
    BY <1>1 DEF InitOk
<1>2. ASSUME NEW p \in Pushes, UploadOk(p) PROVE NoBlobLost'
    BY <1>2 DEF UploadOk
<1>3. ASSUME NEW p \in Pushes, ClaimSlot(p) PROVE NoBlobLost'
    BY <1>3 DEF ClaimSlot
<1>4. ASSUME NEW p \in Pushes, Finalize(p) PROVE NoBlobLost'
    BY <1>4 DEF Finalize
<1>5. ASSUME NEW p \in Pushes, TimerFires(p) PROVE NoBlobLost'
    BY <1>5 DEF TimerFires
<1>6. ASSUME NEW p \in Pushes, TaskDies(p) PROVE NoBlobLost'
    BY <1>6 DEF TaskDies, Abandon, LetGo
<1>7. ASSUME NEW b \in Presigned, WidgetPut(b) PROVE NoBlobLost'
    BY <1>7 DEF WidgetPut
<1>8. ASSUME NEW r \in SUBSET Presigned, WidgetComplete(r) PROVE NoBlobLost'
    BY <1>8 DEF WidgetComplete
<1>9. ASSUME NEW p \in Pushes,
             Start(p) \/ Prepare(p) \/ CommitInline(p) \/ LoseSlot(p)
      PROVE  NoBlobLost'
    BY <1>9 DEF Start, Prepare, CommitInline, LoseSlot
<1>10. ASSUME NEW p \in Pushes, InitFails(p) \/ UploadFails(p) PROVE NoBlobLost'
    BY <1>10 DEF InitFails, UploadFails, Fail, LetGo, PublishFailure
<1>11. ASSUME NEW p \in Pushes, CommitFails(p) PROVE NoBlobLost'
    BY <1>11 DEF CommitFails, Fail, LetGo, PublishFailure
<1>12. ASSUME NEW p \in Pushes,
             SpawnTimer(p) \/ AttachGrace(p) \/ DropAttach(p)
      PROVE  NoBlobLost'
    BY <1>12 DEF SpawnTimer, AttachGrace, DropAttach
<1>13. ASSUME NEW p \in Pushes, CommitOk(p) \/ ProbeEnds(p) PROVE NoBlobLost'
    BY <1>13 DEF CommitOk, ProbeEnds, LetGo
<1>14. ASSUME NEW p \in Pushes, DropHandler(p) PROVE NoBlobLost'
    BY <1>14 DEF DropHandler, Abandon, LetGo
<1>15. CASE UNCHANGED vars
    BY <1>15 DEF vars
<1> QED BY <1>1, <1>2, <1>3, <1>4, <1>5, <1>6, <1>7, <1>8, <1>9, <1>10, <1>11,
        <1>12, <1>13, <1>14, <1>15
    DEF Next, Environment, Run, FinishStart

\* IndInv is an inductive invariant.
THEOREM IndInvHolds == SafeSpec => []IndInv
<1>1. Init => IndInv
    BY InitInd
<1>2. IndInv /\ [Next]_vars => IndInv'
  <2> SUFFICES ASSUME IndInv, [Next]_vars PROVE IndInv'
    OBVIOUS
  <2>1. TypeOK'
    BY TypeStep DEF IndInv
  <2> QED
    BY <2>1, SlotStep, ClaimedStep, TendsStep, StrayStep, BlobStep DEF IndInv
<1> QED
    BY <1>1, <1>2, PTL DEF SafeSpec

\* The variables keep their types.
THEOREM TypeCorrect == SafeSpec => []TypeOK
<1>1. IndInv => TypeOK
    BY DEF IndInv
<1> QED
    BY <1>1, IndInvHolds, PTL

\* The slot is never poisoned: a push in it has its own timer ahead of it,
\* whatever reports, stale timers, aborts and disconnects do.
THEOREM SlotNeverPoisoned == SafeSpec => []SlotHasTimer
<1>1. IndInv => SlotHasTimer
    BY DEF IndInv
<1> QED
    BY <1>1, IndInvHolds, PTL

\* A commit request names only blobs the host has or a widget vouched for.
THEOREM CommitsAreBacked == SafeSpec => []CommitIsBacked
<1>1. IndInv => CommitIsBacked
    BY DEF IndInv, TypeOK, NoBlobLost, CommitIsBacked
<1> QED
    BY <1>1, IndInvHolds, PTL

-----------------------------------------------------------------------------
(* The slot implements PushSlot *)

\* A step of the dev server claims, releases or refuses the slot, or leaves
\* all three of holder, released and refused alone.
LEMMA SlotSimulation ==
    ASSUME IndInv, IndInv', [Next]_vars
    PROVE  [Slot!Next]_(Slot!slotVars)
<1> USE PushAssumption DEF TypeOK, Phases, RunningPhases, EndPhases, Goto, flightVars,
        hostVars, IndInv, SlotHasTimer, ClaimedOnce, PastClaim, TendsTaken,
        Released, Refused, Slot!slotVars
<1>1. ASSUME NEW p \in Pushes, ClaimSlot(p) PROVE Slot!Claim(p)
    BY <1>1 DEF ClaimSlot, Slot!Claim, Slot!Unserved
<1>2. ASSUME NEW p \in Pushes, LoseSlot(p) PROVE Slot!Refuse(p)
    BY <1>2 DEF LoseSlot, Slot!Refuse, Slot!Unserved
<1>3. ASSUME NEW p \in Pushes, Start(p)
      PROVE  Slot!Refuse(p) \/ UNCHANGED Slot!slotVars
    BY <1>3 DEF Start, Slot!Refuse, Slot!Unserved
<1>4. ASSUME NEW p \in Pushes, TimerFires(p)
      PROVE  Slot!Release \/ UNCHANGED Slot!slotVars
    BY <1>4 DEF TimerFires, Slot!Release
<1>5. ASSUME NEW r \in SUBSET Presigned, WidgetComplete(r)
      PROVE  Slot!Release \/ UNCHANGED Slot!slotVars
    BY <1>5 DEF WidgetComplete, Slot!Release
<1>6. ASSUME NEW p \in Pushes, SpawnTimer(p) \/ AttachGrace(p) \/ DropAttach(p)
      PROVE  UNCHANGED Slot!slotVars
    BY <1>6 DEF SpawnTimer, AttachGrace, DropAttach
<1>7. ASSUME NEW p \in Pushes,
           Prepare(p) \/ InitOk(p) \/ InitFails(p) \/ UploadOk(p) \/ UploadFails(p)
               \/ CommitInline(p) \/ Finalize(p) \/ CommitOk(p) \/ CommitFails(p)
               \/ ProbeEnds(p) \/ DropHandler(p)
      PROVE  UNCHANGED Slot!slotVars
  <2>1. slot' = slot /\ tail' = tail
    BY <1>7 DEF Prepare, InitOk, InitFails, UploadOk, UploadFails, CommitInline,
        Finalize, CommitOk, CommitFails, ProbeEnds, DropHandler, Abandon
  <2>2. phase[p] # "refused"
    BY <1>7 DEF Prepare, InitOk, InitFails, UploadOk, UploadFails, CommitInline,
        Finalize, CommitOk, CommitFails, ProbeEnds, DropHandler
  <2>3. phase' = phase \/ \E ph \in Phases \ {"refused"} : phase' = [phase EXCEPT ![p] = ph]
    BY <1>7 DEF Prepare, InitOk, InitFails, UploadOk, UploadFails, CommitInline,
        Finalize, CommitOk, CommitFails, ProbeEnds, DropHandler, Abandon, Fail
  <2> QED
    BY <2>1, <2>2, <2>3
<1>8. ASSUME NEW t \in Pushes, TaskDies(t) PROVE UNCHANGED Slot!slotVars
    BY <1>8 DEF TaskDies, Abandon
<1>9. ASSUME NEW b \in Presigned, WidgetPut(b) PROVE UNCHANGED Slot!slotVars
    BY <1>9 DEF WidgetPut
<1>10. CASE UNCHANGED vars
    BY <1>10 DEF vars
<1> QED
    BY <1>1, <1>2, <1>3, <1>4, <1>5, <1>6, <1>7, <1>8, <1>9, <1>10
    DEF Next, Environment, Run, FinishStart, Slot!Next

\* The safety part of SingleFlight: one holder at a time, each at most once,
\* and nobody is refused while the slot is free.
THEOREM SlotSafety == SafeSpec => Slot!SafeSpec
<1>1. Init => Slot!Init
    BY PushAssumption DEF Init, Slot!Init, Released, Refused
<1>2. IndInv /\ IndInv' /\ [Next]_vars => [Slot!Next]_(Slot!slotVars)
    BY SlotSimulation
<1> QED
    BY <1>1, <1>2, IndInvHolds, PTL DEF SafeSpec, Slot!SafeSpec

-----------------------------------------------------------------------------
(* What holds when the gaps and the disconnects are left out *)

\* As long as the handle is in place whenever the timer may act, a timer meets
\* only its own push, and the abort of Finalize only a timer that still waits.
LEMMA OwnStep ==
    ASSUME ~Gaps, ~Disconnects, IndInv, TypeOK', OwnInv, [Next]_vars
    PROVE  OwnInv'
<1> USE PushAssumption DEF TypeOK, Phases, RunningPhases, EndPhases, Goto,
        flightVars, hostVars, IndInv, SlotHasTimer, ClaimedOnce, PastClaim,
        TendsTaken, OwnInv, HandleInPlace, OwnTimerOnly, TakeoverNotAborted,
        HandleSettled, ByRequest
<1>1. ASSUME NEW p \in Pushes, ClaimSlot(p) PROVE OwnInv'
    BY <1>1 DEF ClaimSlot
<1>2. ASSUME NEW p \in Pushes, SpawnTimer(p) PROVE OwnInv'
    BY <1>2 DEF SpawnTimer
<1>3. ASSUME NEW p \in Pushes, AttachGrace(p) PROVE OwnInv'
    BY <1>3 DEF AttachGrace
<1>4. ASSUME NEW p \in Pushes, Finalize(p) PROVE OwnInv'
    BY <1>4 DEF Finalize
<1>5. ASSUME NEW p \in Pushes, TimerFires(p) PROVE OwnInv'
    BY <1>5 DEF TimerFires
<1>6. ASSUME NEW p \in Pushes, CommitOk(p) PROVE OwnInv'
    BY <1>6 DEF CommitOk
<1>7. ASSUME NEW p \in Pushes, ProbeEnds(p) PROVE OwnInv'
    BY <1>7 DEF ProbeEnds, LetGo
<1>8. ASSUME NEW p \in Pushes, DropHandler(p) PROVE OwnInv'
    BY <1>8 DEF DropHandler, Abandon, LetGo
<1>9. ASSUME NEW p \in Pushes, DropAttach(p) PROVE OwnInv'
    BY <1>9 DEF DropAttach
<1>10. ASSUME NEW p \in Pushes, TaskDies(p) PROVE OwnInv'
    BY <1>10 DEF TaskDies, Abandon, LetGo
<1>11. ASSUME NEW r \in SUBSET Presigned, WidgetComplete(r) PROVE OwnInv'
    BY <1>11 DEF WidgetComplete
<1>12. ASSUME NEW p \in Pushes,
             Start(p) \/ Prepare(p) \/ CommitInline(p) \/ LoseSlot(p)
      PROVE  OwnInv'
    BY <1>12 DEF Start, Prepare, CommitInline, LoseSlot
<1>13. ASSUME NEW p \in Pushes, InitFails(p) \/ UploadFails(p) PROVE OwnInv'
    BY <1>13 DEF InitFails, UploadFails, Fail, LetGo, PublishFailure
<1>14. ASSUME NEW p \in Pushes, CommitFails(p) PROVE OwnInv'
    BY <1>14 DEF CommitFails, Fail, LetGo, PublishFailure
<1>15. ASSUME NEW p \in Pushes, InitOk(p) \/ UploadOk(p) PROVE OwnInv'
    BY <1>15 DEF InitOk, UploadOk
<1>16. ASSUME NEW b \in Presigned, WidgetPut(b) PROVE OwnInv'
    BY <1>16 DEF WidgetPut
<1>17. CASE UNCHANGED vars
    BY <1>17 DEF vars
<1> QED BY <1>1, <1>2, <1>3, <1>4, <1>5, <1>6, <1>7, <1>8, <1>9, <1>10, <1>11,
        <1>12, <1>13, <1>14, <1>15, <1>16, <1>17
    DEF Next, Environment, Run, FinishStart

\* Every step that ends a push of the dev server leaves a settling frame or
\* another running push: a refused one leaves the push that holds the slot.
LEMMA SettledStep ==
    ASSUME ~Disconnects, Headless = {}, IndInv, TypeOK', OwnInv, HubSettled, [Next]_vars
    PROVE  HubSettled'
<1> USE PushAssumption DEF TypeOK, Phases, RunningPhases, EndPhases, Goto,
        flightVars, hostVars, ActiveFrames, IndInv, SlotHasTimer, OwnInv,
        TakeoverNotAborted, HubSettled
<1>1. ASSUME NEW p \in Pushes, Start(p) PROVE HubSettled'
    BY <1>1 DEF Start
<1>2. ASSUME NEW p \in Pushes, InitFails(p) PROVE HubSettled'
    BY <1>2 DEF InitFails, Fail, LetGo, PublishFailure
<1>3. ASSUME NEW p \in Pushes, UploadFails(p) PROVE HubSettled'
    BY <1>3 DEF UploadFails, Fail, LetGo, PublishFailure
<1>4. ASSUME NEW p \in Pushes, LoseSlot(p) PROVE HubSettled'
    BY <1>4 DEF LoseSlot
<1>5. ASSUME NEW p \in Pushes, TimerFires(p) PROVE HubSettled'
    BY <1>5 DEF TimerFires
<1>6. ASSUME NEW p \in Pushes, CommitFails(p) PROVE HubSettled'
    BY <1>6 DEF CommitFails, Fail, LetGo, PublishFailure
<1>7. ASSUME NEW p \in Pushes, ProbeEnds(p) PROVE HubSettled'
    BY <1>7 DEF ProbeEnds, LetGo
<1>8. ASSUME NEW p \in Pushes, TaskDies(p) PROVE HubSettled'
    BY <1>8 DEF TaskDies, Abandon, LetGo
<1>9. ASSUME NEW r \in SUBSET Presigned, WidgetComplete(r) PROVE HubSettled'
    BY <1>9 DEF WidgetComplete
<1>10. ASSUME NEW p \in Pushes,
             Prepare(p) \/ CommitInline(p) \/ ClaimSlot(p)
      PROVE  HubSettled'
    BY <1>10 DEF Prepare, CommitInline, ClaimSlot
<1>11. ASSUME NEW p \in Pushes,
             SpawnTimer(p) \/ AttachGrace(p) \/ DropAttach(p)
      PROVE  HubSettled'
    BY <1>11 DEF SpawnTimer, AttachGrace, DropAttach
<1>12. ASSUME NEW p \in Pushes, InitOk(p) \/ UploadOk(p) PROVE HubSettled'
    BY <1>12 DEF InitOk, UploadOk
<1>13. ASSUME NEW p \in Pushes, CommitOk(p) PROVE HubSettled'
    BY <1>13 DEF CommitOk
<1>14. ASSUME NEW p \in Pushes, DropHandler(p) PROVE HubSettled'
    BY <1>14 DEF DropHandler, Abandon, LetGo
<1>15. ASSUME NEW p \in Pushes, Finalize(p) PROVE HubSettled'
    BY <1>15 DEF Finalize
<1>16. ASSUME NEW b \in Presigned, WidgetPut(b) PROVE HubSettled'
    BY <1>16 DEF WidgetPut
<1>17. CASE UNCHANGED vars
    BY <1>17 DEF vars
<1> QED BY <1>1, <1>2, <1>3, <1>4, <1>5, <1>6, <1>7, <1>8, <1>9, <1>10, <1>11,
        <1>12, <1>13, <1>14, <1>15, <1>16, <1>17
    DEF Next, Environment, Run, FinishStart

\* Without gaps and disconnects OwnInv is invariant.
THEOREM OwnInvHolds ==
    ASSUME ~Gaps, ~Disconnects
    PROVE  SafeSpec => []OwnInv
<1>1. Init => OwnInv
    BY DEF Init, OwnInv, HandleInPlace, OwnTimerOnly, TakeoverNotAborted
<1>2. IndInv /\ IndInv' /\ OwnInv /\ [Next]_vars => OwnInv'
    BY OwnStep DEF IndInv
<1> QED
    BY <1>1, <1>2, IndInvHolds, PTL DEF SafeSpec

\* Only its own grace clock takes the uploads away from a widget.
THEOREM OwnClock ==
    ASSUME ~Gaps, ~Disconnects
    PROVE  SafeSpec => []OwnTimerOnly
<1>1. OwnInv => OwnTimerOnly
    BY DEF OwnInv
<1> QED
    BY <1>1, OwnInvHolds, PTL

\* A task that finishes a push for a silent widget is never aborted.
THEOREM TakeoversFinish ==
    ASSUME ~Gaps, ~Disconnects
    PROVE  SafeSpec => []TakeoverNotAborted
<1>1. OwnInv => TakeoverNotAborted
    BY DEF OwnInv
<1> QED
    BY <1>1, OwnInvHolds, PTL

\* The chip never sticks at an active frame, as long as every push is driven
\* by a widget and no client drops its connection.
THEOREM ChipSettles ==
    ASSUME ~Gaps, ~Disconnects, Headless = {}
    PROVE  SafeSpec => []HubSettled
<1>1. Init => HubSettled
    BY DEF Init, HubSettled, ActiveFrames
<1>2. IndInv /\ IndInv' /\ OwnInv /\ HubSettled /\ [Next]_vars => HubSettled'
    BY SettledStep DEF IndInv
<1> QED
    BY <1>1, <1>2, IndInvHolds, OwnInvHolds, PTL DEF SafeSpec
=============================================================================
