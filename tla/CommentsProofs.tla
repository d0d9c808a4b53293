---------------------------- MODULE CommentsProofs ----------------------------
(***************************************************************************)
(* Theorems about Comments, for any jobs, files and comments.              *)
(*                                                                         *)
(* The argument for the replies: the writer of a record holds a draft of   *)
(* what it read. Whoever writes the record in the meantime is a pill, and  *)
(* then the lock kept it away from a drafting pill and a drafting agent    *)
(* has been touched by it; or an agent, and then every draft of that       *)
(* comment has been touched. So an untouched draft has all replies that    *)
(* were accepted (DraftsKeep). The argument for what is deleted: a pill    *)
(* holds its lock from its decision to its end, so what a deletion rests   *)
(* on changes only by an agent, a pill behind a wire's back, or the        *)
(* developer, and each of them is noted (ActInv). While a file is empty,   *)
(* between the two steps of its writing, the headers that will be back are *)
(* not those of a record that is being removed, unless its remover has     *)
(* looked into the empty file (ApartInv).                                  *)
(***************************************************************************)
EXTENDS Comments, TLAPS

\* Per job: what it has when it is about to decide, to write or to remove.
JobOK(j) ==
  /\ pc[j] = "comments" => j \in Pills
  /\ pc[j] \in {"adding", "comments", "deciding", "writing", "removing"} => j \in Pills \cup Agents
  /\ pc[j] \in {"adding", "writing", "removing"} => ask[j].id \in Ids
  /\ ask[j].kind \in {"update", "reanchor", "dismiss"} => ask[j].id \in Ids
  /\ ask[j].status \in Statuses \cup {None}
  /\ ask[j].n \in Nat
  /\ pc[j] = "writing" => draft[j] \in Records /\ Linked(draft[j])
  /\ pc[j] = "writing" /\ ask[j].kind = "update" /\ ask[j].status = None
       => ask[j].n \in draft[j].thread

\* A pill decides and acts under comment_write_lock.
LockHeld == \A j \in Pills : pc[j] \in {"deciding", "writing", "removing"} => commentLock = j

\* A draft no writer has touched has every accepted reply.
DraftsKeep ==
  \A j \in Jobs : /\ pc[j] = "writing"
                  /\ touched[j] \cap Outside(j) = {}
                  /\ ask[j].id \notin clobbered
                  => acked[ask[j].id] \subseteq draft[j].thread

RecordsOK == \A i \in Ids : rec[i] # None => rec[i] \in Records

Functions == /\ rec = [i \in Ids |-> rec[i]]
             /\ acked = [i \in Ids |-> acked[i]]
             /\ pc = [j \in Jobs |-> pc[j]]
             /\ ask = [j \in Jobs |-> ask[j]]
             /\ draft = [j \in Jobs |-> draft[j]]
             /\ touched = [j \in Jobs |-> touched[j]]
             /\ requests \in Nat

IndInv == /\ Functions
          /\ \A j \in Jobs : JobOK(j)
          /\ LockHeld
          /\ RecordsOK
          /\ HistoryLinked
          /\ DraftsKeep
          /\ RepliesKept

-----------------------------------------------------------------------------
(* Records.                                                                *)

\* A change keeps the record well formed, its history linked and its replies, and adds
\* the reply that is asked for.
LEMMA ChangedKeeps ==
  ASSUME NEW r \in Records, Linked(r), NEW a, a.status \in Statuses \cup {None}, a.n \in Nat
  PROVE  /\ Changed(r, a) \in Records
         /\ Linked(Changed(r, a))
         /\ r.thread \subseteq Changed(r, a).thread
         /\ a.status = None => a.n \in Changed(r, a).thread
<1> DEFINE h == r.history
           t == <<r.status, a.status>>
           g == Append(h, t)
<1>0. /\ r = [status |-> r.status, anchor |-> r.anchor, history |-> h, thread |-> r.thread]
      /\ r.status \in Statuses /\ r.anchor \in {"inline", "loose"}
      /\ h \in Seq(Statuses \X Statuses) /\ r.thread \in SUBSET Nat
  BY DEF Records
<1>1. CASE a.status = None
  <2>1. Changed(r, a) = [status |-> r.status, anchor |-> r.anchor, history |-> h,
                         thread |-> r.thread \cup {a.n}]
    BY <1>0, <1>1 DEF Changed
  <2> QED
    BY <1>0, <2>1 DEF Records, Linked, Before
<1>2. CASE a.status # None /\ a.status = r.status
  BY <1>2 DEF Changed
<1>3. CASE a.status # None /\ a.status # r.status
  <2>1. Changed(r, a) = [status |-> a.status, anchor |-> r.anchor, history |-> g,
                         thread |-> r.thread]
    BY <1>0, <1>3 DEF Changed
  <2>2. t \in Statuses \X Statuses
    BY <1>0, <1>3
  <2>3. /\ Len(h) \in Nat /\ DOMAIN h = 1..Len(h)
        /\ g \in Seq(Statuses \X Statuses) /\ Len(g) = Len(h) + 1 /\ DOMAIN g = 1..(Len(h) + 1)
        /\ \A k \in 1..Len(h) : g[k] = h[k]
        /\ g[Len(h) + 1] = t
    BY <1>0, <2>2
  <2>4. t[1] = r.status /\ t[2] = a.status
    OBVIOUS
  <2>5. /\ \A k \in DOMAIN h : h[k][1] = Before(h, k) /\ h[k][1] # h[k][2]
        /\ r.status = Before(h, Len(h) + 1)
    BY DEF Linked
  <2> HIDE DEF h, t, g
  <2>6. Changed(r, a) \in Records
    BY <1>0, <1>3, <2>1, <2>3 DEF Records
  <2>7. \A k \in 1..(Len(h) + 1) : Before(g, k) = Before(h, k)
    BY <2>3 DEF Before
  <2>8. \A k \in DOMAIN g : g[k][1] = Before(g, k) /\ g[k][1] # g[k][2]
    <3> SUFFICES ASSUME NEW k \in 1..(Len(h) + 1)
                 PROVE  g[k][1] = Before(g, k) /\ g[k][1] # g[k][2]
      BY <2>3
    <3>1. CASE k = Len(h) + 1
      BY <1>3, <2>3, <2>4, <2>5, <2>7, <3>1
    <3>2. CASE k \in 1..Len(h)
      BY <2>3, <2>5, <2>7, <3>2
    <3> QED
      BY <2>3, <3>1, <3>2
  <2>9. Before(g, Len(g) + 1) = a.status
    BY <2>3, <2>4 DEF Before
  <2> QED
    BY <1>3, <2>1, <2>6, <2>8, <2>9 DEF Linked
<1> QED
  BY <1>1, <1>2, <1>3

\* A new record, and a record with another anchor.
LEMMA NewRecordOK ==
  ASSUME NEW anchor \in {"inline", "loose"}
  PROVE  /\ NewRecord(anchor) \in Records /\ Linked(NewRecord(anchor))
         /\ NewRecord(anchor).thread = {}
  BY DEF NewRecord, Records, Linked, Before, Statuses

LEMMA AnchoredOK ==
  ASSUME NEW r \in Records, Linked(r), NEW anchor \in {"inline", "loose"}
  PROVE  /\ [r EXCEPT !.anchor = anchor] \in Records
         /\ Linked([r EXCEPT !.anchor = anchor])
         /\ [r EXCEPT !.anchor = anchor].thread = r.thread
  BY DEF Records, Linked, Before

-----------------------------------------------------------------------------
(* Frames.                                                                 *)

\* What is asked is well formed.
LEMMA AsksOK ==
  ASSUME requests \in Nat, NEW a \in PillAsks \cup AgentAsks \cup WireAsks
  PROVE  /\ a.status \in Statuses \cup {None} /\ a.n \in Nat
         /\ a.kind \in {"update", "reanchor", "dismiss", "add"} => a.id \in Ids
<1> DEFINE seen0 == [f \in {} |-> None]
<1>1. \A i, st : /\ Update(i, st).kind = "update" /\ Update(i, st).id = i
                 /\ Update(i, st).status = st /\ Update(i, st).n = requests + 1
  BY DEF Update, NoAsk
<1>2. \A k, i : On(k, i).kind = k /\ On(k, i).id = i /\ On(k, i).status = None /\ On(k, i).n = 0
  BY DEF On, NoAsk
<1>3. \A k, is : Delete(k, is).kind = k /\ Delete(k, is).status = None /\ Delete(k, is).n = 0
  BY DEF Delete, NoAsk
<1>4. \/ \E i \in Ids, st \in Statuses \cup {None} : a = Update(i, st)
      \/ \E k \in {"reanchor", "dismiss"}, i \in Ids : a = On(k, i)
      \/ \E i \in Loose : a = On("add", i)
      \/ \E is : a = Delete("prune", is) \/ a = Delete("wire", is)
  BY DEF PillAsks, AgentAsks, WireAsks
<1>5. CASE \E i \in Ids, st \in Statuses \cup {None} : a = Update(i, st)
  BY <1>1, <1>5
<1>6. CASE \E k \in {"reanchor", "dismiss"}, i \in Ids : a = On(k, i)
  BY <1>2, <1>6
<1>7. CASE \E i \in Loose : a = On("add", i)
  BY <1>2, <1>7 DEF Ids
<1>8. CASE \E is : a = Delete("prune", is) \/ a = Delete("wire", is)
  BY <1>3, <1>8
<1> QED
  BY <1>4, <1>5, <1>6, <1>7, <1>8

\* A change is noted at every other job, and at those it concerns.
LEMMA TouchNotes ==
  ASSUME NEW j, NEW is, NEW k, NEW l \in Jobs, l # j
  PROVE  /\ touched[l] \subseteq Touch(j, is, k)[l]
         /\ ask[l].id \in is => k \in Touch(j, is, k)[l]
  BY DEF Touch

\* A job that is forgotten is idle and asks nothing.
LEMMA IdleOK ==
  ASSUME NEW j \in Jobs, pc[j] = "idle", ask[j] = NoAsk
  PROVE  JobOK(j)
  BY DEF JobOK, NoAsk, Statuses

\* A step of j that leaves the records alone keeps the invariant, if it keeps it for j.
LEMMA QuietStep ==
  ASSUME IndInv, NEW j \in Jobs,
         rec' = rec, acked' = acked, clobbered' = clobbered, requests' \in Nat,
         pc' = [l \in Jobs |-> pc'[l]], ask' = [l \in Jobs |-> ask'[l]],
         draft' = [l \in Jobs |-> draft'[l]], touched' = [l \in Jobs |-> touched'[l]],
         \A l \in Jobs \ {j} : /\ pc'[l] = pc[l] /\ ask'[l] = ask[l] /\ draft'[l] = draft[l]
                               /\ touched[l] \subseteq touched'[l],
         commentLock' = commentLock \/ commentLock \in {None, j},
         JobOK(j)',
         j \in Pills /\ pc'[j] \in {"deciding", "writing", "removing"} => commentLock' = j,
         /\ pc'[j] = "writing" /\ touched'[j] \cap Outside(j) = {}
         /\ ask'[j].id \notin clobbered
         => acked[ask'[j].id] \subseteq draft'[j].thread
  PROVE  IndInv'
<1>1. Functions'
  BY DEF IndInv, Functions
<1>2. \A l \in Jobs : JobOK(l)'
  BY DEF IndInv, JobOK
<1>3. LockHeld'
  BY CommentsAssumption DEF IndInv, LockHeld, Jobs
<1>4. RecordsOK' /\ HistoryLinked' /\ RepliesKept'
  BY DEF IndInv, RecordsOK, HistoryLinked, RepliesKept
<1>5. DraftsKeep'
  BY DEF IndInv, DraftsKeep
<1> QED
  BY <1>1, <1>2, <1>3, <1>4, <1>5 DEF IndInv

-----------------------------------------------------------------------------
(* Steps that leave the records alone.                                     *)

LEMMA InitOK == Init => IndInv
<1> SUFFICES ASSUME Init PROVE IndInv
  OBVIOUS
<1>1. Functions
  BY DEF Init, Functions
<1>2. \A j \in Jobs : JobOK(j)
  BY IdleOK DEF Init
<1>3. LockHeld /\ DraftsKeep /\ RepliesKept
  BY DEF Init, LockHeld, DraftsKeep, RepliesKept, Jobs
<1>4. PICK done \in Starts : rec = [i \in Ids |-> IF i \in done THEN Settled ELSE None]
  BY DEF Init
<1>5. Settled \in Records /\ Linked(Settled)
  <2> DEFINE h == << <<"open", "resolved">> >>
  <2>1. /\ h \in Seq(Statuses \X Statuses) /\ Len(h) = 1 /\ DOMAIN h = {1}
        /\ h[1][1] = "open" /\ h[1][2] = "resolved"
    BY DEF Statuses
  <2>2. Settled = [status |-> "resolved", anchor |-> "inline", history |-> h, thread |-> {}]
    BY DEF Settled
  <2> HIDE DEF h
  <2>3. Settled \in Records
    BY <2>1, <2>2 DEF Records, Statuses
  <2>4. Before(h, 1) = "open" /\ Before(h, Len(h) + 1) = "resolved"
    BY <2>1 DEF Before
  <2> QED
    BY <2>1, <2>2, <2>3, <2>4 DEF Linked
<1>6. RecordsOK /\ HistoryLinked
  BY <1>4, <1>5 DEF RecordsOK, HistoryLinked
<1> QED
  BY <1>1, <1>2, <1>3, <1>6 DEF IndInv

LEMMA RequestOK ==
  ASSUME IndInv, NEW j \in Jobs, Request(j)
  PROVE  IndInv'
<1>1. PICK a \in PillAsks \cup AgentAsks \cup WireAsks :
        /\ ask' = [ask EXCEPT ![j] = a]
        /\ \/ /\ pc' = [pc EXCEPT ![j] = "adding"] /\ a.kind = "add" /\ j \in Pills \cup Agents
           \/ pc' = [pc EXCEPT ![j] = "comments"] /\ j \in Pills
           \/ pc' = [pc EXCEPT ![j] = "deciding"] /\ j \in Agents
           \/ pc' = [pc EXCEPT ![j] = "source"]
  BY DEF Request
<1>2. /\ rec' = rec /\ acked' = acked /\ clobbered' = clobbered /\ commentLock' = commentLock
      /\ draft' = draft /\ touched' = touched /\ requests' = requests + 1
  BY DEF Request, locks
<1>3. requests \in Nat
  BY DEF IndInv, Functions
<1>4. /\ a.status \in Statuses \cup {None} /\ a.n \in Nat
      /\ a.kind \in {"update", "reanchor", "dismiss", "add"} => a.id \in Ids
  BY <1>3, AsksOK
<1>5. pc'[j] \in {"adding", "comments", "deciding", "source"} /\ ask'[j] = a
  BY <1>1 DEF IndInv, Functions
<1>6. j \in Pills /\ pc'[j] = "deciding" => commentLock' = j
  BY <1>1, <1>5, CommentsAssumption DEF IndInv, Functions
<1>7. JobOK(j)'
  BY <1>1, <1>2, <1>4, <1>5 DEF JobOK, IndInv, Functions
<1>8. /\ pc' = [l \in Jobs |-> pc'[l]] /\ ask' = [l \in Jobs |-> ask'[l]]
      /\ draft' = [l \in Jobs |-> draft'[l]] /\ touched' = [l \in Jobs |-> touched'[l]]
      /\ \A l \in Jobs \ {j} : /\ pc'[l] = pc[l] /\ ask'[l] = ask[l] /\ draft'[l] = draft[l]
                               /\ touched[l] \subseteq touched'[l]
  BY <1>1, <1>2 DEF IndInv, Functions
<1> QED
  BY <1>2, <1>3, <1>5, <1>6, <1>7, <1>8, QuietStep

\* The developer touches, and a developer is not a writer of records.
LEMMA SaveOK ==
  ASSUME IndInv, Save
  PROVE  IndInv'
<1>1. /\ rec' = rec /\ acked' = acked /\ clobbered' = clobbered /\ commentLock' = commentLock
      /\ pc' = pc /\ ask' = ask /\ draft' = draft /\ requests' = requests
  BY DEF Save, locks
<1>2. /\ touched' = [l \in Jobs |-> touched'[l]]
      /\ \A l \in Jobs : touched[l] \subseteq touched'[l]
  <2>1. CASE touched' = touched
    BY <2>1 DEF IndInv, Functions
  <2>2. CASE \E i \in Inline :
               touched' = [l \in Jobs |-> IF i = ask[l].id \/ FileOf[i] \in todo[l]
                                         THEN touched[l] \cup {"developer"} ELSE touched[l]]
    BY <2>2
  <2> QED
    BY <2>1, <2>2 DEF Save
<1>3. Functions'
  BY <1>1, <1>2 DEF IndInv, Functions
<1>4. (\A l \in Jobs : JobOK(l))' /\ LockHeld' /\ RecordsOK' /\ HistoryLinked' /\ RepliesKept'
  BY <1>1 DEF IndInv, JobOK, LockHeld, RecordsOK, HistoryLinked, RepliesKept
<1>5. DraftsKeep'
  BY <1>1, <1>2 DEF IndInv, DraftsKeep
<1> QED
  BY <1>3, <1>4, <1>5 DEF IndInv

\* A job that moves on without deciding, writing or being touched.
LEMMA MoveOK ==
  ASSUME IndInv, NEW j \in Jobs, NEW at, pc' = [pc EXCEPT ![j] = at],
         at \notin {"adding", "comments", "writing", "removing"},
         at = "deciding" => j \in Pills \cup Agents,
         commentLock' = commentLock \/ commentLock \in {None, j},
         j \in Pills /\ at = "deciding" => commentLock' = j,
         rec' = rec, acked' = acked, clobbered' = clobbered, requests' = requests,
         ask' = ask, draft' = draft,
         touched' = touched \/ touched' = [touched EXCEPT ![j] = {}]
                    \/ \E is, k : touched' = Touch(j, is, k)
  PROVE  IndInv'
<1>1. /\ pc' = [l \in Jobs |-> pc'[l]] /\ ask' = [l \in Jobs |-> ask'[l]]
      /\ draft' = [l \in Jobs |-> draft'[l]] /\ requests' \in Nat
  BY DEF IndInv, Functions
<1>2. /\ touched' = [l \in Jobs |-> touched'[l]]
      /\ \A l \in Jobs \ {j} : touched[l] \subseteq touched'[l]
  <2>1. CASE touched' = touched \/ touched' = [touched EXCEPT ![j] = {}]
    BY <2>1 DEF IndInv, Functions
  <2>2. CASE \E is, k : touched' = Touch(j, is, k)
    BY <2>2, TouchNotes DEF Touch
  <2> QED
    BY <2>1, <2>2
<1>3. pc'[j] = at /\ \A l \in Jobs \ {j} : pc'[l] = pc[l]
  BY DEF IndInv, Functions
<1>4. JobOK(j)'
  BY <1>3 DEF IndInv, JobOK
<1> QED
  BY <1>1, <1>2, <1>3, <1>4, QuietStep

\* A job that ends without a change to the records.
LEMMA EndOK ==
  ASSUME IndInv, NEW j \in Jobs, Forgotten(j),
         commentLock' = Unlocked(j),
         rec' = rec, acked' = acked, clobbered' = clobbered, requests' = requests,
         touched' = [touched EXCEPT ![j] = {}] \/ \E is, k : touched' = Touch(j, is, k)
  PROVE  IndInv'
<1>1. /\ pc' = [pc EXCEPT ![j] = "idle"] /\ ask' = [ask EXCEPT ![j] = NoAsk]
      /\ draft' = [draft EXCEPT ![j] = None]
  BY DEF Forgotten
<1>2. /\ pc' = [l \in Jobs |-> pc'[l]] /\ ask' = [l \in Jobs |-> ask'[l]]
      /\ draft' = [l \in Jobs |-> draft'[l]] /\ requests' \in Nat
      /\ pc'[j] = "idle" /\ ask'[j] = NoAsk
      /\ \A l \in Jobs \ {j} : pc'[l] = pc[l] /\ ask'[l] = ask[l] /\ draft'[l] = draft[l]
  BY <1>1 DEF IndInv, Functions
<1>3. /\ touched' = [l \in Jobs |-> touched'[l]]
      /\ \A l \in Jobs \ {j} : touched[l] \subseteq touched'[l]
  <2>1. CASE touched' = [touched EXCEPT ![j] = {}]
    BY <2>1 DEF IndInv, Functions
  <2>2. CASE \E is, k : touched' = Touch(j, is, k)
    BY <2>2, TouchNotes DEF Touch
  <2> QED
    BY <2>1, <2>2
<1>4. JobOK(j)'
  BY <1>2 DEF JobOK, NoAsk, Statuses
<1>5. commentLock' = commentLock \/ commentLock \in {None, j}
  BY DEF Unlocked
<1> QED
  BY <1>2, <1>3, <1>4, <1>5, QuietStep

-----------------------------------------------------------------------------
(* Steps on the records.                                                   *)

\* What is decided on is what is there: the draft has every reply of the record.
LEMMA DraftOK ==
  ASSUME IndInv, NEW j \in Jobs, pc[j] = "deciding", Decide(j), pc'[j] = "writing"
  PROVE  /\ draft'[j] \in Records /\ Linked(draft'[j])
         /\ ask[j].id \in Ids
         /\ ask[j].id \notin clobbered => acked[ask[j].id] \subseteq draft'[j].thread
         /\ ask[j].kind = "update" /\ ask[j].status = None => ask[j].n \in draft'[j].thread
<1> DEFINE a == ask[j]
           i == ask[j].id
<1>1. /\ a.status \in Statuses \cup {None} /\ a.n \in Nat
      /\ a.kind \in {"update", "reanchor"} => i \in Ids
  BY DEF IndInv, JobOK
<1>2. /\ pc' = [l \in Jobs |-> pc'[l]] /\ pc = [l \in Jobs |-> pc[l]]
      /\ draft = [l \in Jobs |-> draft[l]]
  BY DEF IndInv, Functions, Decide
<1>3. \/ /\ a.kind = "update"
         /\ draft' = [draft EXCEPT ![j] =
              Changed(IF j \in Agents \/ rec[i] = None THEN Merged(i) ELSE rec[i], a)]
      \/ /\ a.kind = "reanchor" /\ Orphan(i)
         /\ draft' = [draft EXCEPT ![j] = [rec[i] EXCEPT !.anchor = "loose"]]
  BY <1>2 DEF Decide, Eligible
<1>4. i \in Ids
  BY <1>1, <1>3
<1>5. /\ rec[i] # None => rec[i] \in Records /\ Linked(rec[i])
      /\ i \notin clobbered => acked[i] = {} \/ (rec[i] # None /\ acked[i] \subseteq rec[i].thread)
  BY <1>4 DEF IndInv, RecordsOK, HistoryLinked, RepliesKept
<1>6. CASE a.kind = "update" /\ draft' = [draft EXCEPT ![j] =
              Changed(IF j \in Agents \/ rec[i] = None THEN Merged(i) ELSE rec[i], a)]
  <2> DEFINE r == IF j \in Agents \/ rec[i] = None THEN Merged(i) ELSE rec[i]
  <2>1. r \in Records /\ Linked(r) /\ (rec[i] # None => r.thread = rec[i].thread)
    <3>1. CASE rec[i] = None
      BY <3>1, NewRecordOK DEF Merged
    <3>2. CASE rec[i] # None /\ j \in Agents
      <4>1. rec[i].anchor \in {"inline", "loose"}
        BY <1>5, <3>2 DEF Records
      <4>2. Merged(i) = [rec[i] EXCEPT !.anchor = IF i \in headers THEN "inline" ELSE rec[i].anchor]
        BY <3>2 DEF Merged
      <4> QED
        BY <1>5, <3>2, <4>1, <4>2, AnchoredOK
    <3>3. CASE rec[i] # None /\ j \notin Agents
      BY <1>5, <3>3
    <3> QED
      BY <3>1, <3>2, <3>3
  <2> HIDE DEF r
  <2>2. draft'[j] = Changed(r, a)
    BY <1>2, <1>6 DEF r
  <2>3. /\ Changed(r, a) \in Records /\ Linked(Changed(r, a))
        /\ r.thread \subseteq Changed(r, a).thread
        /\ a.status = None => a.n \in Changed(r, a).thread
    BY <1>1, <2>1, ChangedKeeps
  <2> QED
    BY <1>4, <1>5, <2>1, <2>2, <2>3
<1>7. CASE a.kind = "reanchor" /\ Orphan(i)
           /\ draft' = [draft EXCEPT ![j] = [rec[i] EXCEPT !.anchor = "loose"]]
  <2>1. draft'[j] = [rec[i] EXCEPT !.anchor = "loose"] /\ rec[i] # None
    BY <1>2, <1>7 DEF Orphan
  <2> QED
    BY <1>4, <1>5, <1>7, <2>1, AnchoredOK
<1> QED
  BY <1>3, <1>6, <1>7

LEMMA DecideOK ==
  ASSUME IndInv, NEW j \in Jobs, Decide(j)
  PROVE  IndInv'
<1>1. /\ pc[j] = "deciding" /\ rec' = rec /\ acked' = acked /\ clobbered' = clobbered
      /\ commentLock' = commentLock /\ ask' = ask /\ requests' = requests
      /\ \E t : touched' = [touched EXCEPT ![j] = t]
  BY DEF Decide, locks
<1>2. \/ pc' = [pc EXCEPT ![j] = "writing"] /\ \E d : draft' = [draft EXCEPT ![j] = d]
      \/ pc' = [pc EXCEPT ![j] = "removing"] /\ draft' = draft /\ ask[j].kind = "dismiss"
      \/ pc' = [pc EXCEPT ![j] = "source"] /\ draft' = draft
  BY DEF Decide
<1>3. /\ pc' = [l \in Jobs |-> pc'[l]] /\ ask' = [l \in Jobs |-> ask'[l]]
      /\ draft' = [l \in Jobs |-> draft'[l]] /\ touched' = [l \in Jobs |-> touched'[l]]
      /\ requests' \in Nat
      /\ \A l \in Jobs \ {j} : /\ pc'[l] = pc[l] /\ ask'[l] = ask[l] /\ draft'[l] = draft[l]
                               /\ touched[l] \subseteq touched'[l]
  BY <1>1, <1>2 DEF IndInv, Functions
<1>4. j \in Pills => commentLock' = j
  BY <1>1 DEF IndInv, LockHeld
<1>5. CASE pc'[j] = "writing"
  <2>1. JobOK(j)'
    BY <1>1, <1>5, DraftOK DEF IndInv, JobOK
  <2> QED
    BY <1>1, <1>3, <1>4, <1>5, <2>1, DraftOK, QuietStep
<1>6. CASE pc'[j] # "writing"
  <2>1. /\ (pc'[j] = "removing" /\ ask[j].kind = "dismiss") \/ pc'[j] = "source"
        /\ draft' = draft
    BY <1>2, <1>6 DEF IndInv, Functions
  <2>2. JobOK(j)'
    BY <1>1, <2>1 DEF IndInv, JobOK
  <2> QED
    BY <1>1, <1>3, <1>4, <1>6, <2>2, QuietStep
<1> QED
  BY <1>5, <1>6

\* A step of j that ends it with another record for i, and nothing else, keeps the
\* invariant: every other draft of i has been touched by a writer its lock does not stop.
LEMMA RecordStep ==
  ASSUME IndInv, NEW j \in Pills \cup Agents, NEW i \in Ids, NEW r, NEW n,
         Forgotten(j),
         rec' = [rec EXCEPT ![i] = r],
         acked' = [acked EXCEPT ![i] = n],
         clobbered \subseteq clobbered',
         touched' = Touch(j, {i}, Kind(j)),
         commentLock' = commentLock \/ commentLock = j, requests' = requests,
         r # None => r \in Records /\ Linked(r),
         i \notin clobbered' /\ n # {} => r # None /\ n \subseteq r.thread,
         n \subseteq acked[i] \/ (j \in Pills => commentLock = j)
  PROVE  IndInv'
<1>1. /\ pc' = [pc EXCEPT ![j] = "idle"] /\ ask' = [ask EXCEPT ![j] = NoAsk]
      /\ draft' = [draft EXCEPT ![j] = None] /\ j \in Jobs
  BY DEF Forgotten, Jobs
<1>2. /\ pc' = [l \in Jobs |-> pc'[l]] /\ ask' = [l \in Jobs |-> ask'[l]]
      /\ draft' = [l \in Jobs |-> draft'[l]] /\ touched' = [l \in Jobs |-> touched'[l]]
      /\ rec' = [k \in Ids |-> rec'[k]] /\ acked' = [k \in Ids |-> acked'[k]]
      /\ pc'[j] = "idle" /\ ask'[j] = NoAsk /\ requests' \in Nat
      /\ \A l \in Jobs \ {j} : pc'[l] = pc[l] /\ ask'[l] = ask[l] /\ draft'[l] = draft[l]
  BY <1>1 DEF IndInv, Functions, Touch
<1>3. /\ rec'[i] = r /\ acked'[i] = n
      /\ \A k \in Ids \ {i} : rec'[k] = rec[k] /\ acked'[k] = acked[k]
  BY DEF IndInv, Functions
<1>4. Functions'
  BY <1>2 DEF Functions
<1>5. \A l \in Jobs : JobOK(l)'
  <2>1. JobOK(j)'
    BY <1>2 DEF JobOK, NoAsk, Statuses
  <2>2. ASSUME NEW l \in Jobs \ {j} PROVE JobOK(l)'
    BY <1>2, <2>2 DEF IndInv, JobOK
  <2> QED
    BY <2>1, <2>2
<1>6. LockHeld'
  BY <1>2, CommentsAssumption DEF IndInv, LockHeld, Jobs
<1>7. RecordsOK' /\ HistoryLinked'
  BY <1>3 DEF IndInv, RecordsOK, HistoryLinked
<1>8. RepliesKept'
  BY <1>3 DEF IndInv, RepliesKept
<1>9. DraftsKeep'
  <2> SUFFICES ASSUME NEW l \in Jobs, pc'[l] = "writing", touched'[l] \cap Outside(l) = {},
                      ask'[l].id \notin clobbered'
               PROVE  acked'[ask'[l].id] \subseteq draft'[l].thread
    BY DEF DraftsKeep, Outside
  <2>1. l # j /\ pc[l] = "writing" /\ ask'[l] = ask[l] /\ draft'[l] = draft[l]
    BY <1>2
  <2>2. touched[l] \subseteq touched'[l] /\ (ask[l].id = i => Kind(j) \in touched'[l])
    BY <2>1, TouchNotes
  <2>3. acked[ask[l].id] \subseteq draft[l].thread /\ ask[l].id \in Ids
    BY <2>1, <2>2 DEF IndInv, DraftsKeep, JobOK
  <2>4. CASE ask[l].id # i
    BY <1>3, <2>1, <2>3, <2>4
  <2>5. CASE ask[l].id = i /\ n \subseteq acked[i]
    BY <1>3, <2>1, <2>3, <2>5
  <2>6. CASE ask[l].id = i /\ (j \in Pills => commentLock = j)
    <3>1. Kind(j) \notin Outside(l)
      BY <2>2, <2>6
    <3>2. j \in Pills /\ l \in Pills
      BY <3>1 DEF Kind, Outside
    <3>3. commentLock = l
      BY <2>1, <3>2 DEF IndInv, LockHeld
    <3> QED
      BY <2>1, <2>6, <3>2, <3>3
  <2> QED
    BY <2>4, <2>5, <2>6
<1> QED
  BY <1>4, <1>5, <1>6, <1>7, <1>8, <1>9 DEF IndInv

LEMMA AddOK ==
  ASSUME IndInv, NEW j \in Jobs, Add(j)
  PROVE  IndInv'
<1> DEFINE i == ask[j].id
<1>1. i \in Ids /\ j \in Pills \cup Agents
  BY DEF Add, IndInv, JobOK
<1>2. /\ Forgotten(j) /\ clobbered' = clobbered /\ commentLock' = commentLock
      /\ acked' = acked /\ requests' = requests
  BY DEF Add, locks
<1>3. CASE rec[i] = None
  <2>1. rec' = [rec EXCEPT ![i] = NewRecord("loose")] /\ touched' = Touch(j, {i}, Kind(j))
    BY <1>3 DEF Add
  <2>2. /\ NewRecord("loose") \in Records /\ Linked(NewRecord("loose"))
        /\ NewRecord("loose") # None
    BY NewRecordOK, CommentsAssumption
  <2>3. acked' = [acked EXCEPT ![i] = acked[i]]
    BY <1>1, <1>2 DEF IndInv, Functions
  <2>4. i \notin clobbered' => acked[i] = {}
    BY <1>1, <1>2, <1>3 DEF IndInv, RepliesKept
  <2> QED
    BY <1>1, <1>2, <2>1, <2>2, <2>3, <2>4, RecordStep
<1>4. CASE rec[i] # None
  <2>1. rec' = rec /\ touched' = touched
    BY <1>4 DEF Add
  <2>2. pc' = [pc EXCEPT ![j] = "idle"] /\ ask' = [ask EXCEPT ![j] = NoAsk]
        /\ draft' = [draft EXCEPT ![j] = None]
    BY <1>2 DEF Forgotten
  <2>3. /\ pc' = [l \in Jobs |-> pc'[l]] /\ ask' = [l \in Jobs |-> ask'[l]]
        /\ draft' = [l \in Jobs |-> draft'[l]] /\ touched' = [l \in Jobs |-> touched'[l]]
        /\ pc'[j] = "idle" /\ ask'[j] = NoAsk /\ requests' \in Nat
        /\ \A l \in Jobs \ {j} : /\ pc'[l] = pc[l] /\ ask'[l] = ask[l] /\ draft'[l] = draft[l]
                                 /\ touched[l] \subseteq touched'[l]
    BY <1>2, <2>1, <2>2 DEF IndInv, Functions
  <2>4. JobOK(j)'
    BY <2>3 DEF JobOK, NoAsk, Statuses
  <2> QED
    BY <1>2, <2>1, <2>3, <2>4, QuietStep
<1> QED
  BY <1>3, <1>4

LEMMA WriteRecordOK ==
  ASSUME IndInv, NEW j \in Jobs, WriteRecord(j)
  PROVE  IndInv'
<1> DEFINE a == ask[j]
           i == ask[j].id
           n == IF a.kind = "update" /\ a.status = None THEN acked[i] \cup {a.n} ELSE acked[i]
<1>1. /\ i \in Ids /\ j \in Pills \cup Agents
      /\ draft[j] \in Records /\ Linked(draft[j])
      /\ a.kind = "update" /\ a.status = None => a.n \in draft[j].thread
      /\ j \in Pills => commentLock = j
  BY DEF WriteRecord, IndInv, JobOK, LockHeld
<1>2. /\ Forgotten(j) /\ commentLock' = Unlocked(j) /\ requests' = requests
      /\ rec' = [rec EXCEPT ![i] = draft[j]]
      /\ clobbered \subseteq clobbered' /\ touched' = Touch(j, {i}, Kind(j))
      /\ touched[j] \cap Outside(j) # {} => i \in clobbered'
  BY DEF WriteRecord
<1>3. acked' = [acked EXCEPT ![i] = n]
  <2>1. CASE a.kind = "update" /\ a.status = None
    BY <2>1 DEF WriteRecord
  <2>2. CASE ~(a.kind = "update" /\ a.status = None)
    BY <1>1, <2>2 DEF WriteRecord, IndInv, Functions
  <2> QED
    BY <2>1, <2>2
<1>4. i \notin clobbered' => acked[i] \subseteq draft[j].thread
  BY <1>2 DEF WriteRecord, IndInv, DraftsKeep
<1>5. i \notin clobbered' => n \subseteq draft[j].thread
  BY <1>1, <1>4
<1>6. draft[j] # None /\ (commentLock' = commentLock \/ commentLock = j)
  BY <1>1, <1>2, CommentsAssumption DEF Unlocked
<1> HIDE DEF n
<1> QED
  BY <1>1, <1>2, <1>3, <1>5, <1>6, RecordStep

LEMMA RemoveRecordOK ==
  ASSUME IndInv, NEW j \in Jobs, RemoveRecord(j)
  PROVE  IndInv'
<1>1. ask[j].id \in Ids /\ j \in Pills \cup Agents
  BY DEF RemoveRecord, IndInv, JobOK
<1>2. /\ Forgotten(j) /\ requests' = requests
      /\ rec' = [rec EXCEPT ![ask[j].id] = None] /\ acked' = [acked EXCEPT ![ask[j].id] = {}]
      /\ clobbered \subseteq clobbered' /\ touched' = Touch(j, {ask[j].id}, Kind(j))
      /\ commentLock' = commentLock \/ commentLock = j
  BY DEF RemoveRecord, Unlocked
<1> QED
  BY <1>1, <1>2, RecordStep

-----------------------------------------------------------------------------
(* Theorems.                                                               *)

LEMMA StepOK == IndInv /\ [Next]_vars => IndInv'
<1> SUFFICES ASSUME IndInv, [Next]_vars PROVE IndInv'
  OBVIOUS
<1>1. ASSUME NEW j \in Jobs, Request(j) PROVE IndInv'
  BY <1>1, RequestOK
<1>2. ASSUME NEW j \in Jobs, Add(j) PROVE IndInv'
  BY <1>2, AddOK
<1>3. ASSUME NEW j \in Jobs, LockComments(j) PROVE IndInv'
  <2>1. /\ pc' = [pc EXCEPT ![j] = "deciding"] /\ commentLock = None /\ commentLock' = j
        /\ j \in Pills
        /\ rec' = rec /\ acked' = acked /\ clobbered' = clobbered /\ requests' = requests
        /\ ask' = ask /\ draft' = draft /\ touched' = touched
    BY <1>3 DEF LockComments, IndInv, JobOK
  <2> QED
    BY <2>1, MoveOK
<1>4. ASSUME NEW j \in Jobs, Decide(j) PROVE IndInv'
  BY <1>4, DecideOK
<1>5. ASSUME NEW j \in Jobs, Refuse(j) PROVE IndInv'
  BY <1>5, EndOK DEF Refuse
<1>6. ASSUME NEW j \in Jobs, WriteRecord(j) PROVE IndInv'
  BY <1>6, WriteRecordOK
<1>7. ASSUME NEW j \in Jobs, RemoveRecord(j) PROVE IndInv'
  BY <1>7, RemoveRecordOK
<1>8. ASSUME NEW j \in Jobs, LockSource(j) PROVE IndInv'
  BY <1>8, MoveOK DEF LockSource
<1>9. ASSUME NEW j \in Jobs, Verify(j) PROVE IndInv'
  <2>1. rec' = rec /\ acked' = acked /\ clobbered' = clobbered /\ requests' = requests
    BY <1>9 DEF Verify
  <2>2. touched' = [touched EXCEPT ![j] = {}]
    BY <1>9 DEF Verify
  <2>3. CASE Verified(j)
    <3>1. /\ pc' = [pc EXCEPT ![j] = "deleting"] /\ commentLock' = commentLock
          /\ ask' = ask /\ draft' = draft
      BY <1>9, <2>3 DEF Verify, locks
    <3> QED
      BY <2>1, <2>2, <3>1, MoveOK
  <2>4. CASE ~Verified(j)
    <3>1. Forgotten(j) /\ commentLock' = Unlocked(j)
      BY <1>9, <2>4 DEF Verify
    <3> QED
      BY <2>1, <2>2, <3>1, EndOK
  <2> QED
    BY <2>3, <2>4
<1>10. ASSUME NEW j \in Jobs, Truncate(j) PROVE IndInv'
  BY <1>10, MoveOK DEF Truncate, locks
<1>11. ASSUME NEW j \in Jobs, Fill(j) PROVE IndInv'
  <2>1. /\ rec' = rec /\ acked' = acked /\ clobbered' = clobbered /\ requests' = requests
        /\ \E is, k : touched' = Touch(j, is, k)
    BY <1>11 DEF Fill
  <2>2. CASE Forgotten(j) /\ commentLock' = Unlocked(j)
    BY <2>1, <2>2, EndOK
  <2>3. CASE ~(Forgotten(j) /\ commentLock' = Unlocked(j))
    <3>1. /\ pc' = [pc EXCEPT ![j] = "source"] /\ commentLock' = commentLock
          /\ ask' = ask /\ draft' = draft
      BY <1>11, <2>3 DEF Fill
    <3> QED
      BY <2>1, <3>1, MoveOK
  <2> QED
    BY <2>2, <2>3
<1>12. CASE Save
  BY <1>12, SaveOK
<1>13. CASE UNCHANGED vars
  <2>1. /\ rec' = rec /\ acked' = acked /\ clobbered' = clobbered /\ commentLock' = commentLock
        /\ pc' = pc /\ ask' = ask /\ draft' = draft /\ requests' = requests
        /\ touched' = touched
    BY <1>13 DEF vars
  <2> QED
    BY <2>1 DEF IndInv, Functions, JobOK, LockHeld, RecordsOK, HistoryLinked, DraftsKeep,
                RepliesKept
<1> QED
  BY <1>1, <1>2, <1>3, <1>4, <1>5, <1>6, <1>7, <1>8, <1>9, <1>10, <1>11, <1>12, <1>13
  DEF Next, Handle

LEMMA Inductive == Spec => []IndInv
  BY InitOK, StepOK, PTL DEF Spec

\* Every accepted reply is in the thread of its comment until it is dismissed, unless two
\* writers without a common lock had the record at once (comment_write_lock).
THEOREM RepliesSurvive == Spec => []RepliesKept
<1>1. IndInv => RepliesKept
  BY DEF IndInv
<1> QED
  BY <1>1, Inductive, PTL

\* The status of every record is what its history leads to, also after writers have
\* overwritten each other.
THEOREM HistoriesLinked == Spec => []HistoryLinked
<1>1. IndInv => HistoryLinked
  BY DEF IndInv
<1> QED
  BY <1>1, Inductive, PTL

-----------------------------------------------------------------------------
(* Who holds what while headers are deleted and records removed.           *)

PillHolds ==
  \A j \in Pills : pc[j] \in {"deciding", "writing", "removing", "source", "verifying", "deleting",
                             "filling"} => commentLock = j

SourceHeld == \A j \in Jobs : pc[j] \in {"verifying", "deleting", "filling"} => sourceLock = j

Busy(j) == /\ ask[j].kind \in {"prune", "wire"} => ask[j].spans # {}
           /\ pc[j] \in {"source", "verifying", "deleting", "filling"} => todo[j] # {}

HeldInv == /\ todo = [j \in Jobs |-> todo[j]]
           /\ read = [j \in Jobs |-> read[j]]
           /\ PillHolds
           /\ SourceHeld
           /\ \A j \in Jobs : Busy(j)

\* A step of j keeps who holds what, if it does for j.
LEMMA HeldStep ==
  ASSUME HeldInv, NEW j \in Jobs,
         todo' = [l \in Jobs |-> todo'[l]], read' = [l \in Jobs |-> read'[l]],
         \A l \in Jobs \ {j} : pc'[l] = pc[l] /\ ask'[l] = ask[l] /\ todo'[l] = todo[l],
         commentLock' = commentLock \/ commentLock \in {None, j},
         sourceLock' = sourceLock \/ sourceLock \in {None, j},
         j \in Pills /\ pc'[j] \notin {"idle", "adding", "comments"} => commentLock' = j,
         pc'[j] \in {"verifying", "deleting", "filling"} => sourceLock' = j,
         Busy(j)'
  PROVE  HeldInv'
<1>1. PillHolds'
  <2> SUFFICES ASSUME NEW l \in Pills,
                      pc'[l] \in {"deciding", "writing", "removing", "source", "verifying",
                                  "deleting", "filling"}
               PROVE  commentLock' = l
    BY DEF PillHolds
  <2>1. CASE l = j
    BY <2>1
  <2>2. CASE l # j
    <3>1. l \in Jobs /\ pc'[l] = pc[l]
      BY <2>2 DEF Jobs
    <3>2. commentLock = l
      BY <3>1 DEF HeldInv, PillHolds
    <3> QED
      BY <2>2, <3>1, <3>2, CommentsAssumption
  <2> QED
    BY <2>1, <2>2
<1>2. SourceHeld'
  BY CommentsAssumption DEF HeldInv, SourceHeld
<1>3. \A l \in Jobs : Busy(l)'
  BY DEF HeldInv, Busy
<1> QED
  BY <1>1, <1>2, <1>3 DEF HeldInv

\* A job that ends gives back what it held.
LEMMA HeldEnd ==
  ASSUME IndInv, HeldInv, NEW j \in Jobs, Forgotten(j),
         commentLock' = commentLock \/ commentLock = j,
         sourceLock' = sourceLock \/ sourceLock = j
  PROVE  HeldInv'
<1>1. /\ pc' = [pc EXCEPT ![j] = "idle"] /\ ask' = [ask EXCEPT ![j] = NoAsk]
      /\ todo' = [todo EXCEPT ![j] = {}] /\ read' = [read EXCEPT ![j] = <<{}, 0>>]
  BY DEF Forgotten
<1>2. /\ pc'[j] = "idle" /\ ask'[j] = NoAsk
      /\ todo' = [l \in Jobs |-> todo'[l]] /\ read' = [l \in Jobs |-> read'[l]]
      /\ \A l \in Jobs \ {j} : pc'[l] = pc[l] /\ ask'[l] = ask[l] /\ todo'[l] = todo[l]
  BY <1>1 DEF IndInv, Functions, HeldInv
<1>3. Busy(j)'
  BY <1>2 DEF Busy, NoAsk
<1> QED
  BY <1>2, <1>3, HeldStep

\* Who asks to delete names what.
LEMMA SpansAsked ==
  ASSUME NEW a \in PillAsks \cup AgentAsks \cup WireAsks
  PROVE  /\ a.kind \in {"prune", "wire"} => a.spans # {}
         /\ a \in WireAsks => a.spans # {}
<1>1. /\ \A i, st : Update(i, st).kind = "update"
      /\ \A k, i : On(k, i).kind = k
      /\ \A k, is : Delete(k, is).spans = is
  BY DEF Update, On, Delete, NoAsk
<1>2. ASSUME a \in PillAsks \cup AgentAsks
      PROVE  \/ \E i, st : a = Update(i, st)
             \/ \E k \in {"reanchor", "dismiss", "add"} : \E i : a = On(k, i)
             \/ \E is \in (SUBSET Deletable) \ {{}} : a = Delete("prune", is)
  BY <1>2 DEF PillAsks, AgentAsks
<1>3. ASSUME a \in WireAsks
      PROVE  \E f \in Files : \E is \in (SUBSET (headers \cap Of(f))) \ {{}} : a = Delete("wire", is)
  BY <1>3 DEF WireAsks
<1>4. ASSUME a \in WireAsks PROVE a.spans # {}
  <2>1. PICK is : is # {} /\ a = Delete("wire", is)
    BY <1>3, <1>4
  <2> QED
    BY <1>1, <2>1
<1>5. ASSUME a \in PillAsks \cup AgentAsks, a.kind \in {"prune", "wire"} PROVE a.spans # {}
  <2>1. a.kind # "update" /\ a.kind \notin {"reanchor", "dismiss", "add"}
    BY <1>5
  <2>2. PICK is \in (SUBSET Deletable) \ {{}} : a = Delete("prune", is)
    BY <1>1, <1>2, <1>5, <2>1
  <2> QED
    BY <1>1, <2>2
<1> QED
  BY <1>4, <1>5

LEMMA HeldOK == IndInv /\ HeldInv /\ [Next]_vars => HeldInv'
<1> SUFFICES ASSUME IndInv, HeldInv, [Next]_vars PROVE HeldInv'
  OBVIOUS
<1> USE DEF locks
<1>0. /\ pc = [l \in Jobs |-> pc[l]] /\ ask = [l \in Jobs |-> ask[l]]
      /\ todo = [l \in Jobs |-> todo[l]] /\ read = [l \in Jobs |-> read[l]]
      /\ \A l \in Jobs : Busy(l)
      /\ PillHolds /\ SourceHeld
  BY DEF IndInv, Functions, HeldInv
<1>1. ASSUME NEW j \in Jobs, Request(j) PROVE HeldInv'
  <2>1. PICK a \in PillAsks \cup AgentAsks \cup WireAsks :
          /\ ask' = [ask EXCEPT ![j] = a]
          /\ \/ /\ pc' = [pc EXCEPT ![j] = "adding"] \/ pc' = [pc EXCEPT ![j] = "comments"]
                /\ todo' = todo
             \/ /\ pc' = [pc EXCEPT ![j] = "deciding"] /\ j \in Agents
                /\ todo' = todo
             \/ /\ pc' = [pc EXCEPT ![j] = "source"] /\ j \in Wires /\ a \in WireAsks
                /\ todo' = [todo EXCEPT ![j] = {FileOf[i] : i \in a.spans}]
    BY <1>1 DEF Request
  <2>2. /\ read' = read /\ commentLock' = commentLock /\ sourceLock' = sourceLock
    BY <1>1 DEF Request
  <2>3. /\ a.kind \in {"prune", "wire"} => a.spans # {}
        /\ a \in WireAsks => a.spans # {}
    BY SpansAsked
  <2>4. ask'[j] = a /\ (pc'[j] = "source" => todo'[j] = {FileOf[i] : i \in a.spans} /\ a \in WireAsks)
        /\ pc'[j] \in {"adding", "comments", "deciding", "source"}
    BY <1>0, <2>1
  <2>5. Busy(j)'
    BY <2>3, <2>4 DEF Busy
  <2>6. j \in Pills => pc'[j] \in {"idle", "adding", "comments"}
    BY <1>0, <2>1, CommentsAssumption
  <2>7. pc'[j] \notin {"verifying", "deleting", "filling"}
    BY <1>0, <2>1
  <2>8. todo' = [l \in Jobs |-> todo'[l]] /\ read' = [l \in Jobs |-> read'[l]]
    BY <1>0, <2>1, <2>2
  <2> QED
    BY <1>0, <2>1, <2>2, <2>5, <2>6, <2>7, <2>8, HeldStep
<1>2. ASSUME NEW j \in Jobs, Add(j) PROVE HeldInv'
  BY <1>2, HeldEnd DEF Add
<1>3. ASSUME NEW j \in Jobs, LockComments(j) PROVE HeldInv'
  <2>1. /\ pc' = [pc EXCEPT ![j] = "deciding"] /\ commentLock = None /\ commentLock' = j
        /\ ask' = ask /\ todo' = todo /\ read' = read /\ sourceLock' = sourceLock
    BY <1>3 DEF LockComments
  <2>2. Busy(j)'
    BY <1>0, <2>1 DEF Busy
  <2> QED
    BY <1>0, <2>1, <2>2, HeldStep
<1>4. ASSUME NEW j \in Jobs, Decide(j) PROVE HeldInv'
  <2>1. /\ \/ /\ pc' = [pc EXCEPT ![j] = "writing"] \/ pc' = [pc EXCEPT ![j] = "removing"]
              /\ todo' = todo
           \/ /\ pc' = [pc EXCEPT ![j] = "source"] /\ ask[j].kind = "prune"
              /\ todo' = [todo EXCEPT ![j] = {FileOf[i] : i \in ask[j].spans}]
        /\ ask' = ask /\ read' = read /\ commentLock' = commentLock /\ sourceLock' = sourceLock
        /\ pc[j] = "deciding"
    BY <1>4 DEF Decide
  <2>2. Busy(j)'
    <3>1. pc'[j] = "source" => ask[j].kind = "prune" /\ todo'[j] = {FileOf[i] : i \in ask[j].spans}
      BY <1>0, <2>1
    <3>2. pc'[j] \in {"writing", "removing", "source"}
      BY <1>0, <2>1
    <3>3. ask[j].kind \in {"prune", "wire"} => ask[j].spans # {}
      BY <1>0 DEF Busy
    <3> QED
      BY <2>1, <3>1, <3>2, <3>3 DEF Busy
  <2>3. j \in Pills => commentLock' = j
    BY <1>0, <2>1 DEF PillHolds
  <2>4. /\ todo' = [l \in Jobs |-> todo'[l]] /\ read' = [l \in Jobs |-> read'[l]]
        /\ pc'[j] \notin {"verifying", "deleting", "filling"}
        /\ \A l \in Jobs \ {j} : pc'[l] = pc[l] /\ ask'[l] = ask[l] /\ todo'[l] = todo[l]
    BY <1>0, <2>1
  <2> QED
    BY <2>1, <2>2, <2>3, <2>4, HeldStep
<1>5. ASSUME NEW j \in Jobs, Refuse(j) \/ WriteRecord(j) \/ RemoveRecord(j) PROVE HeldInv'
  <2>1. Forgotten(j) /\ commentLock' = Unlocked(j) /\ sourceLock' = sourceLock
    BY <1>5 DEF Refuse, WriteRecord, RemoveRecord
  <2> QED
    BY <2>1, HeldEnd DEF Unlocked
<1>6. ASSUME NEW j \in Jobs, LockSource(j) PROVE HeldInv'
  <2>1. /\ pc[j] = "source" /\ pc' = [pc EXCEPT ![j] = "verifying"]
        /\ sourceLock = None /\ sourceLock' = j
        /\ ask' = ask /\ todo' = todo /\ read' = read /\ commentLock' = commentLock
    BY <1>6 DEF LockSource
  <2>2. Busy(j)' /\ (j \in Pills => commentLock' = j)
    BY <1>0, <2>1 DEF Busy, PillHolds
  <2>3. pc'[j] = "verifying" /\ \A l \in Jobs \ {j} : pc'[l] = pc[l]
    BY <1>0, <2>1
  <2> QED
    BY <1>0, <2>1, <2>2, <2>3, HeldStep
<1>7. ASSUME NEW j \in Jobs, Verify(j) PROVE HeldInv'
  <2>1. pc[j] = "verifying" /\ sourceLock = j
    BY <1>0, <1>7 DEF Verify, Verifying, SourceHeld
  <2>2. CASE Verified(j)
    <3>1. /\ pc' = [pc EXCEPT ![j] = "deleting"] /\ read' = [read EXCEPT ![j] = Hash(Current(j))]
          /\ ask' = ask /\ todo' = todo /\ commentLock' = commentLock /\ sourceLock' = sourceLock
      BY <1>7, <2>2 DEF Verify
    <3>2. Busy(j)' /\ (j \in Pills => commentLock' = j)
      BY <1>0, <2>1, <3>1 DEF Busy, PillHolds
    <3>3. /\ read' = [l \in Jobs |-> read'[l]]
          /\ pc'[j] = "deleting" /\ \A l \in Jobs \ {j} : pc'[l] = pc[l]
      BY <1>0, <3>1
    <3> QED
      BY <1>0, <2>1, <3>1, <3>2, <3>3, HeldStep
  <2>3. CASE ~Verified(j)
    <3>1. Forgotten(j) /\ commentLock' = Unlocked(j) /\ sourceLock' = None
      BY <1>7, <2>3 DEF Verify
    <3> QED
      BY <2>1, <3>1, HeldEnd DEF Unlocked
  <2> QED
    BY <2>2, <2>3
<1>8. ASSUME NEW j \in Jobs, Truncate(j) PROVE HeldInv'
  <2>1. /\ pc[j] = "deleting" /\ sourceLock = j
        /\ pc' = [pc EXCEPT ![j] = "filling"]
        /\ ask' = ask /\ todo' = todo /\ read' = read /\ commentLock' = commentLock
        /\ sourceLock' = sourceLock
    BY <1>0, <1>8 DEF Truncate, SourceHeld
  <2>2. Busy(j)' /\ (j \in Pills => commentLock' = j)
    BY <1>0, <2>1 DEF Busy, PillHolds
  <2>3. pc'[j] = "filling" /\ \A l \in Jobs \ {j} : pc'[l] = pc[l]
    BY <1>0, <2>1
  <2> QED
    BY <1>0, <2>1, <2>2, <2>3, HeldStep
<1>9. ASSUME NEW j \in Jobs, Fill(j) PROVE HeldInv'
  <2>1. pc[j] = "filling" /\ sourceLock = j /\ sourceLock' = None
    BY <1>0, <1>9 DEF Fill, SourceHeld
  <2>2. CASE todo[j] = {Current(j)}
    BY <1>9, <2>1, <2>2, HeldEnd DEF Fill, Unlocked
  <2>3. CASE todo[j] # {Current(j)}
    <3>1. /\ pc' = [pc EXCEPT ![j] = "source"]
          /\ todo' = [todo EXCEPT ![j] = todo[j] \ {Current(j)}]
          /\ ask' = ask /\ read' = read /\ commentLock' = commentLock
      BY <1>9, <2>3 DEF Fill
    <3>2. todo[j] # {}
      BY <1>0, <2>1 DEF Busy
    <3>3. todo[j] \ {Current(j)} # {}
      BY <2>3, <3>2
    <3>4. Busy(j)' /\ (j \in Pills => commentLock' = j)
      BY <1>0, <2>1, <3>1, <3>3 DEF Busy, PillHolds
    <3>5. /\ todo' = [l \in Jobs |-> todo'[l]] /\ pc'[j] = "source"
          /\ \A l \in Jobs \ {j} : pc'[l] = pc[l] /\ todo'[l] = todo[l]
      BY <1>0, <3>1
    <3> QED
      BY <1>0, <2>1, <3>1, <3>4, <3>5, HeldStep
  <2> QED
    BY <2>2, <2>3
<1>10. CASE Save \/ UNCHANGED vars
  <2>1. /\ commentLock' = commentLock /\ sourceLock' = sourceLock
        /\ pc' = pc /\ ask' = ask /\ todo' = todo /\ read' = read
    BY <1>10 DEF Save, vars
  <2> QED
    BY <2>1 DEF HeldInv, PillHolds, SourceHeld, Busy
<1> QED
  BY <1>1, <1>2, <1>3, <1>4, <1>5, <1>6, <1>7, <1>8, <1>9, <1>10 DEF Next, Handle

-----------------------------------------------------------------------------
(* What an act rests on is still true, unless someone no lock stops came in.    *)

Fresh(j) == pc[j] = "deleting" /\ "developer" \notin touched[j]
              => read[j][1] = headers \cap Of(Current(j))

Settles(j) == pc[j] \in {"deleting", "filling"} =>
                /\ read[j][1] \subseteq Of(Current(j))
                /\ ~Excused(j) => \A i \in Doomed(j) : Resolved(i)

Orphaned(j) == pc[j] = "removing" /\ ~Excused(j) /\ "torn" \notin touched[j] => Orphan(ask[j].id)

ActInv == \A j \in Jobs : Fresh(j) /\ Settles(j) /\ Orphaned(j)

\* What j is about to fill a file with is no record's that is being removed, unless someone no
\* lock stops came in, or whoever removes it has looked into the empty file.
Apart(j, l) == /\ pc[j] = "filling" /\ "developer" \notin touched[j]
               /\ pc[l] = "removing" /\ ~Excused(l) /\ "torn" \notin touched[l]
               => ask[l].id \notin read[j][1]

ApartInv == \A j \in Jobs, l \in Jobs : Apart(j, l)

\* What a job rests on, when others have acted: either it is as it was, or it was told.
LEMMA ActFrame ==
  ASSUME NEW l \in Jobs, Fresh(l), Settles(l), Orphaned(l),
         pc'[l] = pc[l], ask'[l] = ask[l], todo'[l] = todo[l], read'[l] = read[l],
         touched[l] \subseteq touched'[l],
         pc[l] = "deleting" => \/ headers' \cap Of(Current(l)) = headers \cap Of(Current(l))
                               \/ "developer" \in touched'[l],
         pc[l] \in {"deleting", "filling"} => \/ \A i \in Doomed(l) : Resolved(i) => Resolved(i)'
                                             \/ Excused(l)',
         pc[l] = "removing" => \/ Orphan(ask[l].id) => Orphan(ask[l].id)'
                               \/ Excused(l)' \/ "torn" \in touched'[l]
  PROVE  (Fresh(l) /\ Settles(l) /\ Orphaned(l))'
<1>1. Current(l)' = Current(l)
  BY DEF Current
<1>2. Doomed(l)' = Doomed(l)
  BY <1>1 DEF Doomed, Of
<1>3. Of(Current(l))' = Of(Current(l))
  BY <1>1 DEF Of
<1>4. Excused(l) => Excused(l)'
  BY DEF Excused
<1>5. Fresh(l)'
  BY <1>1, <1>3 DEF Fresh, Of
<1>6. Settles(l)'
  BY <1>2, <1>3, <1>4 DEF Settles
<1>7. Orphaned(l)'
  BY <1>4 DEF Orphaned
<1> QED
  BY <1>5, <1>6, <1>7

\* A job that is neither deleting nor removing rests on nothing.
LEMMA ActNone ==
  ASSUME NEW j \in Jobs, pc[j] \notin {"deleting", "filling", "removing"}
  PROVE  Fresh(j) /\ Settles(j) /\ Orphaned(j)
  BY DEF Fresh, Settles, Orphaned

LEMMA SpansNoted ==
  ASSUME NEW j, NEW is, NEW k, NEW l \in Jobs, l # j,
         NEW i \in is, i \in ask[l].spans \/ i = ask[l].id
  PROVE  k \in Touch(j, is, k)[l]
  BY DEF Touch

\* A step of j that leaves headers and records alone.
LEMMA ActQuiet ==
  ASSUME ActInv, NEW j \in Jobs, headers' = headers, rec' = rec,
         \A l \in Jobs \ {j} : /\ pc'[l] = pc[l] /\ ask'[l] = ask[l] /\ todo'[l] = todo[l]
                               /\ read'[l] = read[l] /\ touched[l] \subseteq touched'[l],
         (Fresh(j) /\ Settles(j) /\ Orphaned(j))'
  PROVE  ActInv'
<1> SUFFICES ASSUME NEW l \in Jobs \ {j} PROVE (Fresh(l) /\ Settles(l) /\ Orphaned(l))'
  BY DEF ActInv
<1>1. /\ pc'[l] = pc[l] /\ ask'[l] = ask[l] /\ todo'[l] = todo[l] /\ read'[l] = read[l]
      /\ touched[l] \subseteq touched'[l]
      /\ Fresh(l) /\ Settles(l) /\ Orphaned(l)
  BY DEF ActInv
<1>2. /\ \A i \in Doomed(l) : Resolved(i) => Resolved(i)'
      /\ Orphan(ask[l].id) => Orphan(ask[l].id)'
  BY <1>1 DEF Resolved, Orphan
<1> QED
  BY <1>1, <1>2, ActFrame

\* A step of j that ends it with another record for i.
LEMMA ActRecord ==
  ASSUME IndInv, HeldInv, ActInv, NEW j \in Pills \cup Agents, NEW i, NEW r,
         Forgotten(j), headers' = headers,
         rec' = [rec EXCEPT ![i] = r], i \in Ids,
         touched' = Touch(j, {i}, Kind(j)),
         rec[i] = None \/ (j \in Pills => commentLock = j)
  PROVE  ActInv'
<1>0. j \in Jobs
  BY DEF Jobs
<1>1. /\ pc'[j] = "idle"
      /\ \A l \in Jobs \ {j} : /\ pc'[l] = pc[l] /\ ask'[l] = ask[l] /\ todo'[l] = todo[l]
                               /\ read'[l] = read[l] /\ touched[l] \subseteq touched'[l]
      /\ \A k \in Ids \ {i} : rec'[k] = rec[k]
  <2>1. /\ pc' = [pc EXCEPT ![j] = "idle"] /\ ask' = [ask EXCEPT ![j] = NoAsk]
        /\ todo' = [todo EXCEPT ![j] = {}] /\ read' = [read EXCEPT ![j] = <<{}, 0>>]
    BY DEF Forgotten
  <2>2. \A l \in Jobs \ {j} : touched[l] \subseteq touched'[l]
    BY TouchNotes
  <2>3. /\ pc = [l \in Jobs |-> pc[l]] /\ ask = [l \in Jobs |-> ask[l]]
        /\ todo = [l \in Jobs |-> todo[l]] /\ read = [l \in Jobs |-> read[l]]
        /\ rec = [k \in Ids |-> rec[k]]
    BY DEF IndInv, Functions, HeldInv
  <2>4. \A k \in Ids \ {i} : rec'[k] = rec[k]
    BY <2>3
  <2> QED
    BY <1>0, <2>1, <2>2, <2>3, <2>4
<1>2. (Fresh(j) /\ Settles(j) /\ Orphaned(j))'
  BY <1>1 DEF Fresh, Settles, Orphaned
<1> SUFFICES ASSUME NEW l \in Jobs \ {j} PROVE (Fresh(l) /\ Settles(l) /\ Orphaned(l))'
  BY <1>2 DEF ActInv
<1>3. /\ pc'[l] = pc[l] /\ ask'[l] = ask[l] /\ todo'[l] = todo[l] /\ read'[l] = read[l]
      /\ touched[l] \subseteq touched'[l]
      /\ Fresh(l) /\ Settles(l) /\ Orphaned(l)
  BY <1>1 DEF ActInv
<1>4. ASSUME pc[l] \in {"deleting", "filling", "removing"}, rec[i] # None,
             i \in ask[l].spans \/ i = ask[l].id
      PROVE  Excused(l)'
  <2>1. Kind(j) \in touched'[l]
    BY <1>4, SpansNoted
  <2>2. ~(j \in Pills /\ l \in Pills)
    BY <1>4 DEF HeldInv, PillHolds
  <2>3. Kind(j) \in Outside(l)
    BY <2>2 DEF Kind, Outside
  <2> QED
    BY <2>1, <2>3 DEF Excused
<1>5. ASSUME pc[l] \in {"deleting", "filling"}
      PROVE  (\A k \in Doomed(l) : Resolved(k) => Resolved(k)') \/ Excused(l)'
  <2>1. CASE i \in Doomed(l) /\ rec[i] # None
    BY <1>4, <1>5, <2>1 DEF Doomed
  <2>2. CASE i \notin Doomed(l) \/ rec[i] = None
    <3>1. Doomed(l) \subseteq Ids
      BY DEF Doomed, Of, Ids
    <3> QED
      BY <1>1, <2>2, <3>1 DEF Resolved
  <2> QED
    BY <2>1, <2>2
<1>6. ASSUME pc[l] = "removing"
      PROVE  (Orphan(ask[l].id) => Orphan(ask[l].id)') \/ Excused(l)'
  <2>1. CASE i = ask[l].id /\ rec[i] # None
    BY <1>4, <1>6, <2>1
  <2>2. CASE i # ask[l].id \/ rec[i] = None
    <3>1. ask[l].id \in Ids
      BY <1>6 DEF IndInv, JobOK
    <3> QED
      BY <1>1, <1>3, <2>2, <3>1 DEF Orphan
  <2> QED
    BY <2>1, <2>2
<1> QED
  BY <1>3, <1>5, <1>6, ActFrame

\* A job that moves on to where it neither deletes nor removes, or ends.
LEMMA ActMove ==
  ASSUME IndInv, HeldInv, ActInv, NEW j \in Jobs, headers' = headers, rec' = rec,
         \/ Forgotten(j)
         \/ /\ \E at \in {"deciding", "verifying"} : pc' = [pc EXCEPT ![j] = at]
            /\ UNCHANGED <<ask, todo, read>>,
         touched' = touched \/ touched' = [touched EXCEPT ![j] = {}]
  PROVE  ActInv'
<1>1. /\ pc = [l \in Jobs |-> pc[l]] /\ ask = [l \in Jobs |-> ask[l]]
      /\ todo = [l \in Jobs |-> todo[l]] /\ read = [l \in Jobs |-> read[l]]
      /\ touched = [l \in Jobs |-> touched[l]]
  BY DEF IndInv, Functions, HeldInv
<1>2. /\ \A l \in Jobs \ {j} : /\ pc'[l] = pc[l] /\ ask'[l] = ask[l] /\ todo'[l] = todo[l]
                               /\ read'[l] = read[l]
      /\ pc'[j] \notin {"deleting", "filling", "removing"}
  <2>1. CASE Forgotten(j)
    BY <1>1, <2>1 DEF Forgotten
  <2>2. CASE /\ \E at \in {"deciding", "verifying"} : pc' = [pc EXCEPT ![j] = at]
             /\ UNCHANGED <<ask, todo, read>>
    BY <1>1, <2>2
  <2> QED
    BY <2>1, <2>2
<1>3. \A l \in Jobs \ {j} : touched[l] \subseteq touched'[l]
  BY <1>1
<1>4. (Fresh(j) /\ Settles(j) /\ Orphaned(j))'
  BY <1>2 DEF Fresh, Settles, Orphaned
<1> QED
  BY <1>2, <1>3, <1>4, ActQuiet

LEMMA ActDecide ==
  ASSUME IndInv, HeldInv, ActInv, NEW j \in Jobs, Decide(j)
  PROVE  ActInv'
<1>1. /\ pc = [l \in Jobs |-> pc[l]] /\ ask = [l \in Jobs |-> ask[l]]
      /\ todo = [l \in Jobs |-> todo[l]] /\ read = [l \in Jobs |-> read[l]]
      /\ touched = [l \in Jobs |-> touched[l]]
  BY DEF IndInv, Functions, HeldInv
<1>2. /\ headers' = headers /\ rec' = rec /\ ask' = ask /\ read' = read
      /\ \E t : touched' = [touched EXCEPT ![j] = t]
      /\ todo' = todo \/ todo' = [todo EXCEPT ![j] = {FileOf[i] : i \in ask[j].spans}]
      /\ \/ pc' = [pc EXCEPT ![j] = "writing"] \/ pc' = [pc EXCEPT ![j] = "source"]
         \/ pc' = [pc EXCEPT ![j] = "removing"] /\ ask[j].kind = "dismiss"
  BY DEF Decide, disk
<1>3. /\ \A l \in Jobs \ {j} : /\ pc'[l] = pc[l] /\ ask'[l] = ask[l] /\ todo'[l] = todo[l]
                               /\ read'[l] = read[l] /\ touched[l] \subseteq touched'[l]
      /\ pc'[j] \in {"writing", "source"} \/ (pc'[j] = "removing" /\ ask[j].kind = "dismiss")
  BY <1>1, <1>2
<1>4. pc'[j] = "removing" => Orphan(ask[j].id)
  BY <1>3 DEF Decide, Eligible
<1>5. Orphaned(j)'
  BY <1>2, <1>4 DEF Orphaned, Orphan
<1>6. Fresh(j)' /\ Settles(j)'
  BY <1>3 DEF Fresh, Settles
<1> QED
  BY <1>2, <1>3, <1>5, <1>6, ActQuiet

\* What is verified is what is read and what the verdict is about.
LEMMA ActVerify ==
  ASSUME IndInv, HeldInv, ActInv, NEW j \in Jobs, Verify(j), Verified(j)
  PROVE  ActInv'
<1>1. /\ pc = [l \in Jobs |-> pc[l]] /\ read = [l \in Jobs |-> read[l]]
      /\ touched = [l \in Jobs |-> touched[l]]
  BY DEF IndInv, Functions, HeldInv
<1>2. /\ headers' = headers /\ rec' = rec /\ ask' = ask /\ todo' = todo
      /\ touched' = [touched EXCEPT ![j] = {}]
      /\ read' = [read EXCEPT ![j] = Hash(Current(j))]
      /\ pc' = [pc EXCEPT ![j] = "deleting"]
  BY DEF Verify, disk
<1>3. /\ \A l \in Jobs \ {j} : /\ pc'[l] = pc[l] /\ ask'[l] = ask[l] /\ todo'[l] = todo[l]
                               /\ read'[l] = read[l] /\ touched[l] \subseteq touched'[l]
      /\ pc'[j] = "deleting" /\ read'[j] = Hash(Current(j))
  BY <1>1, <1>2
<1>4. Hash(Current(j))[1] = headers \cap Of(Current(j))
  BY DEF Hash
<1>5. Fresh(j)'
  BY <1>2, <1>3, <1>4 DEF Fresh, Current, Of
<1>9. read'[j][1] \subseteq Of(Current(j))'
  BY <1>2, <1>3, <1>4 DEF Current, Of
<1>6. \A i \in Doomed(j) : Resolved(i)
  BY DEF Verified, Deletable
<1>7. Settles(j)'
  BY <1>2, <1>6, <1>9 DEF Settles, Doomed, Current, Of, Resolved
<1>8. Orphaned(j)'
  BY <1>3 DEF Orphaned
<1> QED
  BY <1>2, <1>3, <1>5, <1>7, <1>8, ActQuiet

\* Headers change and records do not, and everyone it concerns is told.
LEMMA ActHeaders ==
  ASSUME IndInv, ActInv, NEW l \in Jobs, rec' = rec,
         pc'[l] = pc[l], ask'[l] = ask[l], todo'[l] = todo[l], read'[l] = read[l],
         touched[l] \subseteq touched'[l],
         pc[l] = "deleting" => \/ headers' \cap Of(Current(l)) = headers \cap Of(Current(l))
                               \/ "developer" \in touched'[l],
         pc[l] = "removing" /\ ask[l].id \in headers' \ headers
           => Excused(l)' \/ "torn" \in touched'[l]
  PROVE  (Fresh(l) /\ Settles(l) /\ Orphaned(l))'
<1>1. Fresh(l) /\ Settles(l) /\ Orphaned(l)
  BY DEF ActInv
<1>2. \A i \in Doomed(l) : Resolved(i) => Resolved(i)'
  BY DEF Resolved
<1>3. ASSUME pc[l] = "removing"
      PROVE  (Orphan(ask[l].id) => Orphan(ask[l].id)') \/ Excused(l)' \/ "torn" \in touched'[l]
  <2>1. CASE ask[l].id \in headers' \ headers
    BY <1>3, <2>1
  <2>2. CASE ask[l].id \notin headers' \ headers
    BY <2>2 DEF Orphan
  <2> QED
    BY <2>1, <2>2
<1> QED
  BY <1>1, <1>2, <1>3, ActFrame

LEMMA ActSave ==
  ASSUME IndInv, HeldInv, ActInv, Save
  PROVE  ActInv'
<1>1. /\ rec' = rec /\ pc' = pc /\ ask' = ask /\ todo' = todo /\ read' = read
  BY DEF Save
<1> SUFFICES ASSUME NEW l \in Jobs PROVE (Fresh(l) /\ Settles(l) /\ Orphaned(l))'
  BY DEF ActInv
<1>2. CASE headers' = headers /\ touched' = touched
  BY <1>1, <1>2, ActHeaders
<1>3. ASSUME NEW i \in Inline,
             headers' = IF i \in headers THEN headers \ {i} ELSE headers \cup {i},
             touched' = [k \in Jobs |-> IF i = ask[k].id \/ FileOf[i] \in todo[k]
                                        THEN touched[k] \cup {"developer"} ELSE touched[k]]
      PROVE  (Fresh(l) /\ Settles(l) /\ Orphaned(l))'
  <2>1. /\ touched[l] \subseteq touched'[l]
        /\ i = ask[l].id \/ FileOf[i] \in todo[l] => "developer" \in touched'[l]
    BY <1>3
  <2>2. ask[l].id \in headers' \ headers => Excused(l)'
    BY <1>3, <2>1 DEF Excused
  <2>3. pc[l] = "deleting" => \/ headers' \cap Of(Current(l)) = headers \cap Of(Current(l))
                              \/ "developer" \in touched'[l]
    <3> SUFFICES ASSUME pc[l] = "deleting", FileOf[i] \notin todo[l]
                 PROVE  headers' \cap Of(Current(l)) = headers \cap Of(Current(l))
      BY <2>1
    <3>1. Current(l) \in todo[l]
      BY DEF HeldInv, Busy, Current
    <3>2. i \notin Of(Current(l))
      BY <3>1 DEF Of
    <3> QED
      BY <1>3, <3>2
  <2> QED
    BY <1>1, <2>1, <2>2, <2>3, ActHeaders
<1> QED
  BY <1>2, <1>3 DEF Save

\* What an emptied file loses, nobody's removal rests on.
LEMMA ActTruncate ==
  ASSUME IndInv, HeldInv, ActInv, NEW j \in Jobs, Truncate(j)
  PROVE  ActInv'
<1>1. pc = [l \in Jobs |-> pc[l]]
  BY DEF IndInv, Functions
<1>2. /\ rec' = rec /\ touched' = touched /\ ask' = ask /\ todo' = todo /\ read' = read
      /\ headers' = headers \ Of(Current(j))
      /\ pc[j] = "deleting" /\ pc' = [pc EXCEPT ![j] = "filling"]
  BY DEF Truncate
<1>3. pc'[j] = "filling" /\ \A l \in Jobs \ {j} : pc'[l] = pc[l]
  BY <1>1, <1>2
<1>4. (Fresh(j) /\ Settles(j) /\ Orphaned(j))'
  BY <1>2, <1>3 DEF ActInv, Fresh, Settles, Orphaned, Doomed, Current, Of, Resolved, Excused
<1> SUFFICES ASSUME NEW l \in Jobs \ {j} PROVE (Fresh(l) /\ Settles(l) /\ Orphaned(l))'
  BY <1>4 DEF ActInv
<1>5. pc[l] # "deleting"
  BY <1>2 DEF HeldInv, SourceHeld
<1> QED
  BY <1>2, <1>3, <1>5, ActHeaders

\* What comes back with a text that was up to date, nobody removes who has not looked at the
\* empty file; what comes back with one that was not, the developer had removed.
LEMMA ActFill ==
  ASSUME IndInv, HeldInv, ActInv, ApartInv, NEW j \in Jobs, Fill(j)
  PROVE  ActInv'
<1>1. /\ pc = [l \in Jobs |-> pc[l]] /\ ask = [l \in Jobs |-> ask[l]]
      /\ todo = [l \in Jobs |-> todo[l]] /\ read = [l \in Jobs |-> read[l]]
  BY DEF IndInv, Functions, HeldInv
<1>2. /\ rec' = rec
      /\ touched' = IF "developer" \in touched[j] THEN Touch(j, Of(Current(j)), "developer")
                    ELSE Touch(j, Doomed(j), Kind(j))
      /\ headers' = headers \cup (read[j][1] \ ask[j].spans)
      /\ pc[j] = "filling"
  BY DEF Fill
<1>3. /\ \A l \in Jobs \ {j} : /\ pc'[l] = pc[l] /\ ask'[l] = ask[l] /\ todo'[l] = todo[l]
                               /\ read'[l] = read[l]
      /\ pc'[j] \in {"idle", "source"}
  <2>1. CASE todo[j] = {Current(j)}
    BY <1>1, <2>1 DEF Fill, Forgotten
  <2>2. CASE todo[j] # {Current(j)}
    BY <1>1, <2>2 DEF Fill
  <2> QED
    BY <2>1, <2>2
<1>4. (Fresh(j) /\ Settles(j) /\ Orphaned(j))'
  BY <1>3 DEF Fresh, Settles, Orphaned
<1> SUFFICES ASSUME NEW l \in Jobs \ {j} PROVE (Fresh(l) /\ Settles(l) /\ Orphaned(l))'
  BY <1>4 DEF ActInv
<1>5. touched[l] \subseteq touched'[l]
  BY <1>2, TouchNotes
<1>6. pc[l] # "deleting"
  BY <1>2 DEF HeldInv, SourceHeld
<1>7. ASSUME pc[l] = "removing", ask[l].id \in headers' \ headers
      PROVE  Excused(l)' \/ "torn" \in touched'[l]
  <2>1. ask[l].id \in read[j][1]
    BY <1>2, <1>7
  <2>2. CASE "developer" \in touched[j]
    <3>1. ask[l].id \in Of(Current(j))
      BY <1>2, <2>1 DEF ActInv, Settles
    <3>2. "developer" \in touched'[l]
      BY <1>2, <2>2, <3>1, TouchNotes
    <3> QED
      BY <3>2 DEF Excused
  <2>3. CASE "developer" \notin touched[j]
    <3>1. Excused(l) \/ "torn" \in touched[l]
      BY <1>2, <1>7, <2>1, <2>3 DEF ApartInv, Apart
    <3> QED
      BY <1>5, <3>1 DEF Excused
  <2> QED
    BY <2>2, <2>3
<1> QED
  BY <1>2, <1>3, <1>5, <1>6, <1>7, ActHeaders

LEMMA ActOK == IndInv /\ HeldInv /\ ActInv /\ ApartInv /\ [Next]_vars => ActInv'
<1> SUFFICES ASSUME IndInv, HeldInv, ActInv, ApartInv, [Next]_vars PROVE ActInv'
  OBVIOUS
<1>1. ASSUME NEW j \in Jobs, Request(j) PROVE ActInv'
  <2>1. /\ headers' = headers /\ rec' = rec /\ read' = read /\ touched' = touched
        /\ \A l \in Jobs \ {j} : pc'[l] = pc[l] /\ ask'[l] = ask[l] /\ todo'[l] = todo[l]
        /\ pc'[j] \notin {"deleting", "filling", "removing"}
    BY <1>1 DEF Request, disk, IndInv, Functions, HeldInv
  <2>2. (Fresh(j) /\ Settles(j) /\ Orphaned(j))'
    BY <2>1 DEF Fresh, Settles, Orphaned
  <2> QED
    BY <2>1, <2>2, ActQuiet
<1>2. ASSUME NEW j \in Jobs, Add(j) PROVE ActInv'
  <2>1. Forgotten(j) /\ headers' = headers /\ ask[j].id \in Ids /\ j \in Pills \cup Agents
    BY <1>2 DEF Add, disk, IndInv, JobOK
  <2>2. CASE rec[ask[j].id] = None
    BY <1>2, <2>1, <2>2, ActRecord DEF Add
  <2>3. CASE rec[ask[j].id] # None
    BY <1>2, <2>1, <2>3, ActMove DEF Add
  <2> QED
    BY <2>2, <2>3
<1>3. ASSUME NEW j \in Jobs, LockComments(j) \/ LockSource(j) PROVE ActInv'
  <2>1. /\ headers' = headers /\ rec' = rec /\ touched' = touched
        /\ \E at \in {"deciding", "verifying"} : pc' = [pc EXCEPT ![j] = at]
        /\ UNCHANGED <<ask, todo, read>>
    BY <1>3 DEF LockComments, LockSource, disk
  <2> QED
    BY <2>1, ActMove
<1>4. ASSUME NEW j \in Jobs, Decide(j) PROVE ActInv'
  BY <1>4, ActDecide
<1>5. ASSUME NEW j \in Jobs, Refuse(j) PROVE ActInv'
  BY <1>5, ActMove DEF Refuse, disk
<1>6. ASSUME NEW j \in Jobs, WriteRecord(j) \/ RemoveRecord(j) PROVE ActInv'
  <2>1. /\ Forgotten(j) /\ headers' = headers /\ touched' = Touch(j, {ask[j].id}, Kind(j))
        /\ \E r : rec' = [rec EXCEPT ![ask[j].id] = r]
    BY <1>6 DEF WriteRecord, RemoveRecord, disk
  <2>2. ask[j].id \in Ids /\ j \in Pills \cup Agents /\ (j \in Pills => commentLock = j)
    BY <1>6 DEF WriteRecord, RemoveRecord, IndInv, JobOK, LockHeld
  <2> QED
    BY <2>1, <2>2, ActRecord
<1>7. ASSUME NEW j \in Jobs, Verify(j) PROVE ActInv'
  <2>1. CASE Verified(j)
    BY <1>7, <2>1, ActVerify
  <2>2. CASE ~Verified(j)
    BY <1>7, <2>2, ActMove DEF Verify, disk
  <2> QED
    BY <2>1, <2>2
<1>8. ASSUME NEW j \in Jobs, Truncate(j) \/ Fill(j) PROVE ActInv'
  BY <1>8, ActTruncate, ActFill
<1>9. CASE Save
  BY <1>9, ActSave
<1>10. CASE UNCHANGED vars
  BY <1>10 DEF vars, ActInv, Fresh, Settles, Orphaned, Excused, Doomed, Current, Of, Resolved,
               Orphan
<1> QED
  BY <1>1, <1>2, <1>3, <1>4, <1>5, <1>6, <1>7, <1>8, <1>9, <1>10 DEF Next, Handle

\* What a step of j leaves of the others.
LEMMA StepFrame ==
  ASSUME IndInv, HeldInv, NEW j \in Jobs, Request(j) \/ Handle(j), NEW l \in Jobs \ {j}
  PROVE  /\ pc'[l] = pc[l] /\ ask'[l] = ask[l] /\ read'[l] = read[l]
         /\ touched[l] \subseteq touched'[l]
<1>1. /\ pc = [k \in Jobs |-> pc[k]] /\ ask = [k \in Jobs |-> ask[k]]
      /\ read = [k \in Jobs |-> read[k]] /\ touched = [k \in Jobs |-> touched[k]]
  BY DEF IndInv, Functions, HeldInv
<1>2. /\ \E at : pc' = [pc EXCEPT ![j] = at]
      /\ \E a : ask' = [ask EXCEPT ![j] = a]
      /\ \E r : read' = [read EXCEPT ![j] = r]
  <2>1. ask = [ask EXCEPT ![j] = ask[j]] /\ read = [read EXCEPT ![j] = read[j]]
    BY <1>1
  <2>2. CASE Request(j)
    BY <2>1, <2>2 DEF Request
  <2>3. CASE Forgotten(j)
    BY <2>3 DEF Forgotten
  <2>4. CASE LockComments(j) \/ LockSource(j) \/ Truncate(j) \/ Decide(j)
    BY <2>1, <2>4 DEF LockComments, LockSource, Truncate, Decide
  <2>5. CASE Verify(j) /\ ~Forgotten(j)
    BY <2>1, <2>5 DEF Verify
  <2>6. CASE Fill(j) /\ ~Forgotten(j)
    BY <2>1, <2>6 DEF Fill
  <2> QED
    BY <2>2, <2>3, <2>4, <2>5, <2>6 DEF Handle, Add, Refuse, WriteRecord, RemoveRecord
<1>3. \/ touched' = touched \/ \E t : touched' = [touched EXCEPT ![j] = t]
      \/ \E is, k : touched' = Touch(j, is, k)
  BY DEF Request, Handle, Add, LockComments, Decide, Refuse, WriteRecord, RemoveRecord, LockSource,
         Verify, Truncate, Fill
<1>4. touched[l] \subseteq touched'[l]
  BY <1>1, <1>3, TouchNotes
<1> QED
  BY <1>1, <1>2, <1>4

LEMMA ApartFrame ==
  ASSUME NEW j \in Jobs, NEW l \in Jobs, Apart(j, l),
         pc'[j] = "filling" => pc[j] = "filling" /\ read'[j] = read[j]
                              /\ touched[j] \subseteq touched'[j],
         pc'[l] = "removing" => pc[l] = "removing" /\ ask'[l] = ask[l]
                               /\ touched[l] \subseteq touched'[l]
  PROVE  Apart(j, l)'
<1>1. CASE pc'[l] = "removing"
  BY <1>1 DEF Apart, Excused, Outside
<1> QED
  BY <1>1 DEF Apart

\* When a file is emptied, no header in it is of a record that is being removed; whoever
\* decides to remove one while the file is empty has looked at it or asks about another file.
LEMMA ApartOK == IndInv /\ HeldInv /\ ActInv /\ ApartInv /\ [Next]_vars => ApartInv'
<1> SUFFICES ASSUME IndInv, HeldInv, ActInv, ApartInv, [Next]_vars PROVE ApartInv'
  OBVIOUS
<1>1. /\ pc = [k \in Jobs |-> pc[k]] /\ touched = [k \in Jobs |-> touched[k]]
  BY DEF IndInv, Functions
<1>2. ASSUME NEW m \in Jobs, Request(m) \/ Handle(m), pc'[m] \notin {"filling", "removing"}
      PROVE  ApartInv'
  <2>1. ASSUME NEW k \in Jobs, pc'[k] \in {"filling", "removing"}
        PROVE  /\ pc'[k] = pc[k] /\ ask'[k] = ask[k] /\ read'[k] = read[k]
               /\ touched[k] \subseteq touched'[k]
    BY <1>2, <2>1, StepFrame
  <2> SUFFICES ASSUME NEW j \in Jobs, NEW l \in Jobs PROVE Apart(j, l)'
    BY DEF ApartInv
  <2>2. Apart(j, l)
    BY DEF ApartInv
  <2> QED
    BY <2>1, <2>2, ApartFrame
<1>3. ASSUME NEW m \in Jobs, Truncate(m) PROVE ApartInv'
  <2>1. /\ ask' = ask /\ read' = read /\ touched' = touched
        /\ pc[m] = "deleting" /\ pc'[m] = "filling" /\ \A k \in Jobs \ {m} : pc'[k] = pc[k]
    BY <1>1, <1>3 DEF Truncate
  <2> SUFFICES ASSUME NEW j \in Jobs, NEW l \in Jobs PROVE Apart(j, l)'
    BY DEF ApartInv
  <2>2. CASE j # m
    <3>1. Apart(j, l)
      BY DEF ApartInv
    <3> QED
      BY <2>1, <2>2, <3>1, ApartFrame
  <2>3. CASE j = m
    <3> SUFFICES ASSUME "developer" \notin touched[m], l # m, pc[l] = "removing", ~Excused(l),
                        "torn" \notin touched[l]
                 PROVE  ask[l].id \notin read[m][1]
      BY <2>1, <2>3 DEF Apart, Excused, Outside
    <3>1. read[m][1] = headers \cap Of(Current(m))
      BY <2>1 DEF ActInv, Fresh
    <3>2. ask[l].id \notin headers
      BY DEF ActInv, Orphaned, Orphan
    <3> QED
      BY <3>1, <3>2
  <2> QED
    BY <2>2, <2>3
<1>4. ASSUME NEW m \in Jobs, Decide(m), pc'[m] = "removing" PROVE ApartInv'
  <2>1. /\ ask' = ask /\ read' = read /\ \A k \in Jobs \ {m} : pc'[k] = pc[k]
        /\ touched'[m] = IF Blind(ask[m].id) THEN {"torn"} ELSE {}
        /\ \A k \in Jobs \ {m} : touched'[k] = touched[k]
    BY <1>1, <1>4 DEF Decide
  <2> SUFFICES ASSUME NEW j \in Jobs, NEW l \in Jobs PROVE Apart(j, l)'
    BY DEF ApartInv
  <2>2. CASE l # m
    <3>1. Apart(j, l)
      BY DEF ApartInv
    <3> QED
      BY <1>4, <2>1, <2>2, <3>1, ApartFrame
  <2>3. CASE l = m
    <3> SUFFICES ASSUME pc[j] = "filling", ~Blind(ask[m].id)
                 PROVE  ask[m].id \notin read[j][1]
      BY <1>4, <2>1, <2>3 DEF Apart
    <3>1. read[j][1] \subseteq Of(Current(j))
      BY DEF ActInv, Settles
    <3>2. Current(j) \in Torn
      BY DEF Torn
    <3> QED
      BY <3>1, <3>2 DEF Blind, Of
  <2> QED
    BY <2>2, <2>3
<1>5. CASE Save \/ UNCHANGED vars
  <2>1. /\ pc' = pc /\ ask' = ask /\ read' = read
        /\ \A k \in Jobs : touched[k] \subseteq touched'[k]
    BY <1>1, <1>5 DEF Save, vars
  <2> QED
    BY <2>1, ApartFrame DEF ApartInv
<1>6. ASSUME NEW m \in Jobs, Request(m) \/ Handle(m), pc'[m] \in {"filling", "removing"}
      PROVE  Truncate(m) \/ Decide(m)
  <2>1. ~Forgotten(m)
    BY <1>1, <1>6 DEF Forgotten
  <2>2. ~Request(m) /\ ~LockComments(m) /\ ~LockSource(m)
    BY <1>1, <1>6 DEF Request, LockComments, LockSource
  <2>3. ~Verify(m) /\ ~Fill(m)
    BY <1>1, <1>6, <2>1 DEF Verify, Fill
  <2> QED
    BY <1>6, <2>1, <2>2, <2>3 DEF Handle, Add, Refuse, WriteRecord, RemoveRecord
<1>7. ASSUME NEW m \in Jobs, Decide(m) PROVE pc'[m] # "filling"
  BY <1>1, <1>7 DEF Decide
<1> QED
  BY <1>2, <1>3, <1>4, <1>5, <1>6, <1>7 DEF Next

LEMMA Held == Spec => [](IndInv /\ HeldInv /\ ActInv /\ ApartInv)
<1>1. Init => HeldInv /\ ActInv /\ ApartInv
  BY DEF Init, HeldInv, PillHolds, SourceHeld, Busy, NoAsk, ActInv, Fresh, Settles, Orphaned, Jobs,
         ApartInv, Apart
<1> QED
  BY <1>1, InitOK, StepOK, HeldOK, ActOK, ApartOK, PTL DEF Spec

\* A header is gone after a deletion only if its comment is resolved, and a record is
\* dismissed only while it is an orphan, unless a writer that no lock stops came in between
\* (comment_write_lock, source_write_lock, the authorisation at the span rail) or the
\* dismissal looked for the header in a file that was being written.
THEOREM DestructionsJustified == Spec => DestroysOnlySettled
<1> DEFINE Just == \A j \in Jobs : ~Excused(j) =>
                     /\ pc[j] = "filling" /\ pc'[j] # "filling" =>
                          \A i \in read[j][1] \ headers' : Resolved(i)
                     /\ pc[j] = "removing" /\ pc'[j] # "removing" /\ "torn" \notin touched[j] =>
                          Orphan(ask[j].id)
<1>1. IndInv /\ HeldInv /\ ActInv /\ ApartInv /\ [Next]_vars => Just
  <2> SUFFICES ASSUME IndInv, HeldInv, ActInv, [Next]_vars, NEW j \in Jobs, ~Excused(j),
                      pc[j] = "filling", pc'[j] # "filling",
                      NEW i \in read[j][1] \ headers'
               PROVE  Resolved(i)
    BY DEF ActInv, Orphaned
  <2>1. Fill(j)
    <3>1. ASSUME NEW l \in Jobs, Request(l) \/ Handle(l), l # j PROVE FALSE
      BY <3>1, StepFrame
    <3>2. ~Save /\ ~UNCHANGED vars
      BY DEF Save, vars
    <3>3. Request(j) \/ Handle(j)
      BY <3>1, <3>2 DEF Next
    <3> QED
      BY <3>3 DEF Request, Handle, Add, LockComments, Decide, Refuse, WriteRecord,
                  RemoveRecord, LockSource, Verify, Verifying, Truncate
  <2>2. read[j][1] \subseteq Of(Current(j)) /\ \A k \in Doomed(j) : Resolved(k)
    BY DEF ActInv, Settles
  <2>3. headers' = headers \cup (read[j][1] \ ask[j].spans)
    BY <2>1 DEF Fill
  <2>4. i \in Doomed(j)
    BY <2>2, <2>3 DEF Doomed
  <2> QED
    BY <2>2, <2>4
<1> QED
  BY <1>1, Held, PTL DEF Spec, DestroysOnlySettled

-----------------------------------------------------------------------------
(* Types, and who waits for whom.                                          *)

\* A lock that is taken belongs to a job that has not ended; the owner of the source lock
\* waits for nothing.
OwnersAct ==
  /\ commentLock # None => commentLock \in Pills
                           /\ pc[commentLock] \notin {"idle", "adding", "comments"}
  /\ sourceLock # None => pc[sourceLock] \in {"verifying", "deleting", "filling"}

WaitInv == TypeOK /\ OwnersAct

LEMMA ShotOK ==
  ASSUME TypeOK, NEW f \in Files
  PROVE  Hash(f) \in Shots
  BY DEF TypeOK, Hash, Of, Shots

LEMMA NoAskTyped == NoAsk \in Asks
<1> DEFINE none == [f \in {} |-> None]
<1>1. none \in [{} -> Shots]
  OBVIOUS
<1>2. none \in UNION {[fs -> Shots] : fs \in SUBSET Files}
  BY <1>1
<1>3. NoAsk = [kind |-> "none", id |-> None, status |-> None, n |-> 0, spans |-> {}, seen |-> none]
  BY DEF NoAsk
<1> HIDE DEF none
<1> QED
  BY <1>2, <1>3 DEF Asks, Statuses

\* What is asked has its type.
LEMMA AsksTyped ==
  ASSUME TypeOK, NEW a \in PillAsks \cup AgentAsks \cup WireAsks
  PROVE  a \in Asks
<1>0. NoAsk \in Asks /\ requests + 1 \in Nat
  BY NoAskTyped DEF TypeOK
<1>1. ASSUME NEW i \in Ids, NEW st \in Statuses \cup {None} PROVE Update(i, st) \in Asks
  BY <1>0 DEF Update, Asks
<1>2. ASSUME NEW i \in Ids, NEW k \in {"reanchor", "dismiss", "add"} PROVE On(k, i) \in Asks
  BY <1>0 DEF On, Asks
<1>3. ASSUME NEW is \in SUBSET Inline, NEW k \in {"prune", "wire"} PROVE Delete(k, is) \in Asks
  <2> DEFINE fs == {FileOf[i] : i \in is}
             seen == [f \in fs |-> Hash(f)]
  <2>1. fs \in SUBSET Files
    BY CommentsAssumption
  <2>2. seen \in [fs -> Shots]
    BY <2>1, ShotOK
  <2>3. seen \in UNION {[gs -> Shots] : gs \in SUBSET Files}
    BY <2>1, <2>2
  <2>4. Delete(k, is) = [NoAsk EXCEPT !.kind = k, !.spans = is, !.seen = seen]
    BY DEF Delete
  <2> HIDE DEF fs, seen
  <2> QED
    BY <1>0, <2>3, <2>4 DEF Asks
<1>4. headers \in SUBSET Inline
  BY DEF TypeOK
<1>5. CASE a \in PillAsks \cup AgentAsks
  <2>1. \/ \E i \in Ids, st \in Statuses \cup {None} : a = Update(i, st)
        \/ \E k \in {"reanchor", "dismiss", "add"}, i \in Ids : a = On(k, i)
        \/ \E is \in SUBSET Deletable : a = Delete("prune", is)
    BY <1>5 DEF PillAsks, AgentAsks, Ids
  <2>2. Deletable \subseteq Inline
    BY <1>4 DEF Deletable
  <2> QED
    BY <1>1, <1>2, <1>3, <2>1, <2>2
<1>6. CASE a \in WireAsks
  <2>1. PICK f \in Files : \E is \in SUBSET (headers \cap Of(f)) : a = Delete("wire", is)
    BY <1>6 DEF WireAsks
  <2> QED
    BY <1>3, <1>4, <2>1
<1> QED
  BY <1>5, <1>6

LEMMA TouchTyped ==
  ASSUME TypeOK, NEW j \in Jobs, NEW is, NEW k \in {"pill", "agent", "wire", "developer"}
  PROVE  Touch(j, is, k) \in [Jobs -> SUBSET {"pill", "agent", "wire", "developer", "torn"}]
  BY DEF TypeOK, Touch

\* What a job that ends leaves of its own.
LEMMA ForgottenTyped ==
  ASSUME TypeOK, NEW j \in Jobs, Forgotten(j)
  PROVE  /\ pc' \in [Jobs -> {"idle"} \cup Waits \cup Works]
         /\ ask' \in [Jobs -> Asks] /\ todo' \in [Jobs -> SUBSET Files]
         /\ read' \in [Jobs -> Shots] /\ draft' \in [Jobs -> Records \cup {None}]
<1>1. <<{}, 0>> \in Shots
  BY DEF Shots
<1> QED
  BY <1>1, NoAskTyped DEF TypeOK, Forgotten

LEMMA WaitInit == Init => WaitInv
<1> SUFFICES ASSUME Init PROVE WaitInv
  OBVIOUS
<1>1. Settled \in Records
  <2> DEFINE h == << <<"open", "resolved">> >>
  <2>1. h \in Seq(Statuses \X Statuses)
    BY DEF Statuses
  <2>2. Settled = [status |-> "resolved", anchor |-> "inline", history |-> h, thread |-> {}]
    BY DEF Settled
  <2> HIDE DEF h
  <2> QED
    BY <2>1, <2>2 DEF Records, Statuses
<1>2. rec \in [Ids -> Records \cup {None}]
  BY <1>1 DEF Init
<1>3. <<{}, 0>> \in Shots
  BY DEF Shots
<1>4. /\ ask \in [Jobs -> Asks] /\ read \in [Jobs -> Shots]
      /\ pc \in [Jobs -> {"idle"} \cup Waits \cup Works]
  BY <1>3, NoAskTyped DEF Init
<1> QED
  BY <1>2, <1>4 DEF Init, WaitInv, TypeOK, OwnersAct

\* A step of j changes the owners only if they are j or become j.
LEMMA OwnersStep ==
  ASSUME OwnersAct, NEW j \in Jobs, pc \in [Jobs -> {"idle"} \cup Waits \cup Works],
         \A l \in Jobs \ {j} : pc'[l] = pc[l],
         sourceLock \in Jobs \cup {None},
         commentLock' \in {commentLock, None, j}, sourceLock' \in {sourceLock, None, j},
         commentLock' = j => j \in Pills /\ pc'[j] \notin {"idle", "adding", "comments"},
         sourceLock' = j => pc'[j] \in {"verifying", "deleting", "filling"}
  PROVE  OwnersAct'
<1>1. ASSUME commentLock' # None, commentLock' # j
      PROVE  commentLock' \in Pills /\ pc'[commentLock'] \notin {"idle", "adding", "comments"}
  <2>1. commentLock' = commentLock /\ commentLock \in Pills /\ commentLock \in Jobs \ {j}
    BY <1>1 DEF OwnersAct, Jobs
  <2> QED
    BY <1>1, <2>1 DEF OwnersAct
<1>2. ASSUME sourceLock' # None, sourceLock' # j
      PROVE  pc'[sourceLock'] \in {"verifying", "deleting", "filling"}
  BY <1>2 DEF OwnersAct
<1> QED
  BY <1>1, <1>2 DEF OwnersAct

LEMMA RequestWaits ==
  ASSUME IndInv, HeldInv, WaitInv, NEW j \in Jobs, Request(j)
  PROVE  WaitInv'
<1>1. PICK a \in PillAsks \cup AgentAsks \cup WireAsks :
        /\ ask' = [ask EXCEPT ![j] = a]
        /\ \E at \in {"adding", "comments", "deciding", "source"} : pc' = [pc EXCEPT ![j] = at]
        /\ \/ todo' = todo
           \/ todo' = [todo EXCEPT ![j] = {FileOf[i] : i \in a.spans}]
  BY DEF Request
<1>2. /\ UNCHANGED <<headers, rest, rec, commentLock, sourceLock, read, draft, touched, acked,
                     clobbered, saves>>
      /\ requests' = requests + 1 /\ pc[j] = "idle"
  BY DEF Request, disk, locks
<1>3. a \in Asks /\ a.spans \in SUBSET Inline
  BY AsksTyped DEF WaitInv, Asks
<1>4. {FileOf[i] : i \in a.spans} \in SUBSET Files
  BY <1>3, CommentsAssumption
<1>5. /\ ask' \in [Jobs -> Asks] /\ todo' \in [Jobs -> SUBSET Files]
      /\ pc' \in [Jobs -> {"idle"} \cup Waits \cup Works]
      /\ \A l \in Jobs \ {j} : pc'[l] = pc[l]
  BY <1>1, <1>3, <1>4 DEF WaitInv, TypeOK, Waits, Works
<1>6. TypeOK'
  BY <1>2, <1>5 DEF WaitInv, TypeOK
<1>7. commentLock # j /\ sourceLock # j
  BY <1>2, CommentsAssumption DEF WaitInv, OwnersAct, Jobs
<1>8. OwnersAct'
  BY <1>2, <1>5, <1>7, OwnersStep DEF WaitInv, TypeOK
<1> QED
  BY <1>6, <1>8 DEF WaitInv

\* A job that ends frees its locks; what it writes has its type.
LEMMA EndWaits ==
  ASSUME WaitInv, NEW j \in Jobs, Forgotten(j),
         headers' \in SUBSET Inline, rest' \in [Files -> Nat],
         rec' \in [Ids -> Records \cup {None}],
         touched' \in [Jobs -> SUBSET {"pill", "agent", "wire", "developer", "torn"}],
         acked' \in [Ids -> SUBSET Nat], clobbered' \in SUBSET Ids,
         commentLock' = Unlocked(j), sourceLock # j \/ sourceLock' = None,
         sourceLock' \in {sourceLock, None},
         UNCHANGED <<requests, saves>>
  PROVE  WaitInv'
<1>1. TypeOK'
  BY ForgottenTyped DEF WaitInv, TypeOK, Unlocked
<1>2. \A l \in Jobs \ {j} : pc'[l] = pc[l]
  BY DEF Forgotten, WaitInv, TypeOK
<1>3. commentLock' \in {commentLock, None} /\ commentLock' # j /\ sourceLock' # j
  BY CommentsAssumption DEF Unlocked
<1>4. OwnersAct'
  BY <1>2, <1>3, OwnersStep DEF WaitInv, TypeOK
<1> QED
  BY <1>1, <1>4 DEF WaitInv

LEMMA KindTyped ==
  ASSUME NEW j
  PROVE  Kind(j) \in {"pill", "agent", "wire", "developer"}
  BY DEF Kind

LEMMA RecordWaits ==
  ASSUME IndInv, HeldInv, WaitInv, NEW j \in Jobs,
         Add(j) \/ Refuse(j) \/ WriteRecord(j) \/ RemoveRecord(j)
  PROVE  WaitInv'
<1> DEFINE i == ask[j].id
<1>1. /\ Forgotten(j)
      /\ UNCHANGED <<headers, rest, sourceLock, requests, saves>>
      /\ pc[j] \in {"adding", "deciding", "writing", "removing"}
  BY DEF Add, Refuse, WriteRecord, RemoveRecord, disk, locks
<1>2. sourceLock # j /\ (pc[j] = "adding" => commentLock # j)
  BY <1>1, CommentsAssumption DEF WaitInv, OwnersAct, Jobs
<1>3. commentLock' = Unlocked(j)
  BY <1>1, <1>2 DEF Add, Refuse, WriteRecord, RemoveRecord, locks, Unlocked
<1>4. touched' \in [Jobs -> SUBSET {"pill", "agent", "wire", "developer", "torn"}]
  <2>1. CASE touched' = touched \/ touched' = [touched EXCEPT ![j] = {}]
    BY <2>1 DEF WaitInv, TypeOK
  <2>2. CASE \E is, k : touched' = Touch(j, is, Kind(j))
    BY <2>2, TouchTyped, KindTyped DEF WaitInv
  <2> QED
    BY <2>1, <2>2 DEF Add, Refuse, WriteRecord, RemoveRecord
<1>5. pc[j] \in {"adding", "writing", "removing"} => i \in Ids
  BY DEF IndInv, JobOK
<1>6. NewRecord("loose") \in Records
  BY NewRecordOK
<1>7. rec' \in [Ids -> Records \cup {None}]
  <2>1. CASE rec' = rec
    BY <2>1 DEF WaitInv, TypeOK
  <2>2. CASE rec' = [rec EXCEPT ![i] = NewRecord("loose")] \/ rec' = [rec EXCEPT ![i] = draft[j]]
             \/ rec' = [rec EXCEPT ![i] = None]
    BY <1>6, <2>2 DEF WaitInv, TypeOK
  <2> QED
    BY <2>1, <2>2 DEF Add, Refuse, WriteRecord, RemoveRecord
<1>8. acked' \in [Ids -> SUBSET Nat] /\ clobbered' \in SUBSET Ids
  <2>1. ask[j].n \in Nat
    BY DEF IndInv, JobOK
  <2>2. CASE Add(j) \/ Refuse(j)
    BY <2>2 DEF Add, Refuse, WaitInv, TypeOK
  <2>3. CASE WriteRecord(j)
    <3>1. i \in Ids
      BY <1>5, <2>3 DEF WriteRecord
    <3>2. acked' = acked \/ acked' = [acked EXCEPT ![i] = acked[i] \cup {ask[j].n}]
      BY <2>3 DEF WriteRecord
    <3>3. clobbered' = clobbered \/ clobbered' = clobbered \cup {i}
      BY <2>3 DEF WriteRecord
    <3> QED
      BY <2>1, <3>1, <3>2, <3>3 DEF WaitInv, TypeOK
  <2>4. CASE RemoveRecord(j)
    <3>1. i \in Ids
      BY <1>5, <2>4 DEF RemoveRecord
    <3>2. /\ acked' = [acked EXCEPT ![i] = {}]
          /\ clobbered' = clobbered \/ clobbered' = clobbered \cup {i}
      BY <2>4 DEF RemoveRecord
    <3> QED
      BY <3>1, <3>2 DEF WaitInv, TypeOK
  <2> QED
    BY <2>2, <2>3, <2>4
<1>9. headers' \in SUBSET Inline /\ rest' \in [Files -> Nat]
  BY <1>1 DEF WaitInv, TypeOK
<1> QED
  BY <1>1, <1>2, <1>3, <1>4, <1>7, <1>8, <1>9, EndWaits

LEMMA LockWaits ==
  ASSUME IndInv, HeldInv, WaitInv, NEW j \in Jobs, LockComments(j) \/ LockSource(j)
  PROVE  WaitInv'
<1>1. /\ UNCHANGED <<headers, rest, rec, ask, todo, read, draft, touched, acked, clobbered,
                     requests, saves>>
      /\ \E at \in {"deciding", "verifying"} : pc' = [pc EXCEPT ![j] = at]
  BY DEF LockComments, LockSource, disk
<1>2. pc' \in [Jobs -> {"idle"} \cup Waits \cup Works] /\ \A l \in Jobs \ {j} : pc'[l] = pc[l]
  BY <1>1 DEF WaitInv, TypeOK, Works
<1>3. CASE LockComments(j)
  <2>1. /\ j \in Pills /\ commentLock' = j /\ sourceLock' = sourceLock
        /\ pc[j] = "comments" /\ pc'[j] = "deciding"
    BY <1>3 DEF LockComments, IndInv, JobOK, WaitInv, TypeOK
  <2>2. sourceLock # j
    BY <2>1, CommentsAssumption DEF WaitInv, OwnersAct
  <2>3. OwnersAct'
    BY <1>2, <2>1, <2>2, OwnersStep DEF WaitInv, TypeOK
  <2> QED
    BY <1>1, <1>2, <2>1, <2>3 DEF WaitInv, TypeOK
<1>4. CASE LockSource(j)
  <2>1. /\ sourceLock' = j /\ commentLock' = commentLock
        /\ pc[j] = "source" /\ pc'[j] = "verifying"
    BY <1>4 DEF LockSource, WaitInv, TypeOK
  <2>2. commentLock = j => j \in Pills
    BY CommentsAssumption DEF WaitInv, OwnersAct, Jobs
  <2>3. OwnersAct'
    BY <1>2, <2>1, <2>2, OwnersStep DEF WaitInv, TypeOK
  <2> QED
    BY <1>1, <1>2, <2>1, <2>3 DEF WaitInv, TypeOK
<1> QED
  BY <1>3, <1>4

LEMMA DecideWaits ==
  ASSUME IndInv, IndInv', HeldInv, WaitInv, NEW j \in Jobs, Decide(j)
  PROVE  WaitInv'
<1>1. /\ UNCHANGED <<headers, rest, rec, commentLock, sourceLock, ask, read, acked, clobbered,
                     requests, saves>>
      /\ pc[j] = "deciding" /\ \E t \in {{}, {"torn"}} : touched' = [touched EXCEPT ![j] = t]
      /\ \/ \E r : draft' = [draft EXCEPT ![j] = r] /\ pc' = [pc EXCEPT ![j] = "writing"] /\ todo' = todo
         \/ draft' = draft /\ pc' = [pc EXCEPT ![j] = "removing"] /\ todo' = todo
         \/ /\ draft' = draft /\ pc' = [pc EXCEPT ![j] = "source"]
            /\ todo' = [todo EXCEPT ![j] = {FileOf[i] : i \in ask[j].spans}]
  BY DEF Decide, disk, locks
<1>2. /\ pc' \in [Jobs -> {"idle"} \cup Waits \cup Works]
      /\ pc'[j] \in {"writing", "removing", "source"} /\ \A l \in Jobs \ {j} : pc'[l] = pc[l]
      /\ touched' \in [Jobs -> SUBSET {"pill", "agent", "wire", "developer", "torn"}]
  BY <1>1 DEF WaitInv, TypeOK, Waits, Works
<1>3. ask[j].spans \in SUBSET Inline
  BY DEF WaitInv, TypeOK, Asks
<1>4. {FileOf[i] : i \in ask[j].spans} \in SUBSET Files
  BY <1>3, CommentsAssumption
<1>5. todo' \in [Jobs -> SUBSET Files]
  BY <1>1, <1>4 DEF WaitInv, TypeOK
<1>6. draft' \in [Jobs -> Records \cup {None}]
  <2>1. CASE draft' = draft
    BY <2>1 DEF WaitInv, TypeOK
  <2>2. ASSUME NEW r, draft' = [draft EXCEPT ![j] = r], pc' = [pc EXCEPT ![j] = "writing"]
        PROVE  r \in Records
    <3>1. pc'[j] = "writing" /\ draft'[j] = r
      BY <2>2 DEF WaitInv, TypeOK
    <3> QED
      BY <3>1 DEF IndInv, JobOK
  <2> QED
    BY <1>1, <2>1, <2>2 DEF WaitInv, TypeOK
<1>7. TypeOK'
  BY <1>1, <1>2, <1>5, <1>6 DEF WaitInv, TypeOK
<1>8. sourceLock # j /\ (commentLock = j => j \in Pills)
  BY <1>1, CommentsAssumption DEF WaitInv, OwnersAct, Jobs
<1>9. OwnersAct'
  BY <1>1, <1>2, <1>8, OwnersStep DEF WaitInv, TypeOK
<1> QED
  BY <1>7, <1>9 DEF WaitInv

\* The file whose turn it is.
LEMMA CurrentIn ==
  ASSUME HeldInv, WaitInv, NEW j \in Jobs, pc[j] \in {"verifying", "deleting", "filling"}
  PROVE  Current(j) \in todo[j] /\ Current(j) \in Files
  BY DEF HeldInv, Busy, Current, WaitInv, TypeOK

LEMMA VerifyWaits ==
  ASSUME IndInv, HeldInv, WaitInv, NEW j \in Jobs, Verify(j)
  PROVE  WaitInv'
<1>1. /\ UNCHANGED <<headers, rest, rec, acked, clobbered, requests, saves>>
      /\ pc[j] = "verifying" /\ sourceLock = j /\ touched' = [touched EXCEPT ![j] = {}]
  BY DEF Verify, Verifying, disk, HeldInv, SourceHeld
<1>2. touched' \in [Jobs -> SUBSET {"pill", "agent", "wire", "developer", "torn"}]
  BY <1>1 DEF WaitInv, TypeOK
<1>3. CASE Verified(j)
  <2>1. /\ read' = [read EXCEPT ![j] = Hash(Current(j))] /\ pc' = [pc EXCEPT ![j] = "deleting"]
        /\ UNCHANGED <<commentLock, sourceLock, ask, todo, draft>>
    BY <1>3 DEF Verify, locks
  <2>2. Hash(Current(j)) \in Shots
    BY <1>1, CurrentIn, ShotOK DEF WaitInv
  <2>3. /\ read' \in [Jobs -> Shots] /\ pc' \in [Jobs -> {"idle"} \cup Waits \cup Works]
        /\ pc'[j] = "deleting" /\ \A l \in Jobs \ {j} : pc'[l] = pc[l]
    BY <2>1, <2>2 DEF WaitInv, TypeOK, Works
  <2>4. TypeOK'
    BY <1>1, <1>2, <2>1, <2>3 DEF WaitInv, TypeOK
  <2>5. commentLock = j => j \in Pills
    BY CommentsAssumption DEF WaitInv, OwnersAct, Jobs
  <2>6. OwnersAct'
    BY <2>1, <2>3, <2>5, OwnersStep DEF WaitInv, TypeOK
  <2> QED
    BY <2>4, <2>6 DEF WaitInv
<1>4. CASE ~Verified(j)
  <2>1. Forgotten(j) /\ commentLock' = Unlocked(j) /\ sourceLock' = None
    BY <1>4 DEF Verify
  <2>2. /\ headers' \in SUBSET Inline /\ rest' \in [Files -> Nat]
        /\ rec' \in [Ids -> Records \cup {None}]
        /\ acked' \in [Ids -> SUBSET Nat] /\ clobbered' \in SUBSET Ids
    BY <1>1 DEF WaitInv, TypeOK
  <2> QED
    BY <1>1, <1>2, <2>1, <2>2, EndWaits
<1> QED
  BY <1>3, <1>4

LEMMA TruncateWaits ==
  ASSUME IndInv, HeldInv, WaitInv, NEW j \in Jobs, Truncate(j)
  PROVE  WaitInv'
<1>1. /\ pc[j] = "deleting" /\ sourceLock = j /\ pc' = [pc EXCEPT ![j] = "filling"]
      /\ headers' = headers \ Of(Current(j))
      /\ UNCHANGED <<rest, rec, commentLock, sourceLock, ask, todo, read, draft, touched, acked,
                     clobbered, requests, saves>>
  BY DEF Truncate, locks, HeldInv, SourceHeld
<1>2. /\ pc' \in [Jobs -> {"idle"} \cup Waits \cup Works]
      /\ pc'[j] = "filling" /\ \A l \in Jobs \ {j} : pc'[l] = pc[l]
  BY <1>1 DEF WaitInv, TypeOK, Works
<1>3. TypeOK'
  BY <1>1, <1>2 DEF WaitInv, TypeOK
<1>4. commentLock = j => j \in Pills
  BY CommentsAssumption DEF WaitInv, OwnersAct, Jobs
<1>5. OwnersAct'
  BY <1>1, <1>2, <1>4, OwnersStep DEF WaitInv, TypeOK
<1> QED
  BY <1>3, <1>5 DEF WaitInv

LEMMA FillWaits ==
  ASSUME IndInv, HeldInv, WaitInv, NEW j \in Jobs, Fill(j)
  PROVE  WaitInv'
<1>1. /\ pc[j] = "filling" /\ sourceLock = j /\ sourceLock' = None
      /\ UNCHANGED <<rec, acked, clobbered, requests, saves>>
  BY DEF Fill, HeldInv, SourceHeld
<1>2. Current(j) \in todo[j] /\ Current(j) \in Files
  BY <1>1, CurrentIn
<1>3. read[j][1] \in SUBSET Inline /\ read[j][2] \in Nat
  BY DEF WaitInv, TypeOK, Shots
<1>4. headers' \in SUBSET Inline /\ rest' \in [Files -> Nat]
  BY <1>2, <1>3 DEF Fill, WaitInv, TypeOK
<1>5. touched' \in [Jobs -> SUBSET {"pill", "agent", "wire", "developer", "torn"}]
  <2>1. \E is : \E k \in {"developer", Kind(j)} : touched' = Touch(j, is, k)
    BY DEF Fill
  <2> QED
    BY <2>1, KindTyped, TouchTyped DEF WaitInv
<1>6. /\ rec' \in [Ids -> Records \cup {None}]
      /\ acked' \in [Ids -> SUBSET Nat] /\ clobbered' \in SUBSET Ids
  BY <1>1 DEF WaitInv, TypeOK
<1>7. CASE todo[j] = {Current(j)}
  BY <1>1, <1>4, <1>5, <1>6, <1>7, EndWaits DEF Fill
<1>8. CASE todo[j] # {Current(j)}
  <2>1. /\ todo' = [todo EXCEPT ![j] = @ \ {Current(j)}] /\ pc' = [pc EXCEPT ![j] = "source"]
        /\ UNCHANGED <<ask, read, draft, commentLock>>
    BY <1>8 DEF Fill
  <2>2. /\ todo' \in [Jobs -> SUBSET Files] /\ pc' \in [Jobs -> {"idle"} \cup Waits \cup Works]
        /\ pc'[j] = "source" /\ \A l \in Jobs \ {j} : pc'[l] = pc[l]
    BY <2>1 DEF WaitInv, TypeOK, Waits
  <2>3. TypeOK'
    BY <1>1, <1>4, <1>5, <1>6, <2>1, <2>2 DEF WaitInv, TypeOK
  <2>4. (commentLock = j => j \in Pills) /\ None # j
    BY CommentsAssumption DEF WaitInv, OwnersAct, Jobs
  <2>5. OwnersAct'
    BY <1>1, <2>1, <2>2, <2>4, OwnersStep DEF WaitInv, TypeOK
  <2> QED
    BY <2>3, <2>5 DEF WaitInv
<1> QED
  BY <1>7, <1>8

LEMMA SaveWaits ==
  ASSUME WaitInv, Save
  PROVE  WaitInv'
<1>1. UNCHANGED <<rec, commentLock, sourceLock, pc, ask, todo, read, draft, acked, clobbered, requests>>
  BY DEF Save, locks
<1>2. headers' \in SUBSET Inline /\ rest' \in [Files -> Nat] /\ saves' \in Nat
  BY DEF Save, WaitInv, TypeOK
<1>3. touched' \in [Jobs -> SUBSET {"pill", "agent", "wire", "developer", "torn"}]
  <2>1. CASE touched' = touched
    BY <2>1 DEF WaitInv, TypeOK
  <2>2. CASE \E i \in Inline :
               touched' = [l \in Jobs |-> IF i = ask[l].id \/ FileOf[i] \in todo[l]
                                         THEN touched[l] \cup {"developer"} ELSE touched[l]]
    BY <2>2 DEF WaitInv, TypeOK
  <2> QED
    BY <2>1, <2>2 DEF Save
<1> QED
  BY <1>1, <1>2, <1>3 DEF WaitInv, TypeOK, OwnersAct

LEMMA WaitOK == IndInv /\ HeldInv /\ WaitInv /\ [Next]_vars => WaitInv'
<1> SUFFICES ASSUME IndInv, HeldInv, WaitInv, [Next]_vars PROVE WaitInv'
  OBVIOUS
<1>1. IndInv'
  BY StepOK
<1>2. ASSUME NEW j \in Jobs, Request(j) \/ Handle(j) PROVE WaitInv'
  BY <1>1, <1>2, RequestWaits, RecordWaits, LockWaits, DecideWaits, VerifyWaits,
     TruncateWaits, FillWaits
  DEF Handle
<1>3. CASE Save
  BY <1>3, SaveWaits
<1>4. CASE UNCHANGED vars
  BY <1>4 DEF vars, WaitInv, TypeOK, OwnersAct
<1> QED
  BY <1>2, <1>3, <1>4 DEF Next

LEMMA WaitHolds == Spec => []WaitInv
  BY WaitInit, Held, WaitOK, PTL DEF Spec

\* Every variable keeps its type, whoever writes and removes what.
THEOREM TypeCorrect == Spec => []TypeOK
<1>1. WaitInv => TypeOK
  BY DEF WaitInv
<1> QED
  BY <1>1, WaitHolds, PTL

Blocked(j) == \/ pc[j] = "comments" /\ commentLock # None
              \/ pc[j] = "source" /\ sourceLock # None

\* While a request is under way, one that is under way waits for no lock: comment_write_lock is
\* always taken before source_write_lock, and whoever holds the second goes on.
NoCircularWait == (\E j \in Jobs : pc[j] # "idle") => \E j \in Jobs : pc[j] # "idle" /\ ~Blocked(j)

\* Pills, agents and clients of the socket never wait for each other in a circle.
THEOREM LocksAreOrdered == Spec => []NoCircularWait
<1>1. WaitInv => NoCircularWait
  <2> SUFFICES ASSUME WaitInv, NEW l \in Jobs, pc[l] # "idle"
               PROVE  \E j \in Jobs : pc[j] # "idle" /\ ~Blocked(j)
    BY DEF NoCircularWait
  <2>1. CASE sourceLock # None
    <3>1. sourceLock \in Jobs /\ pc[sourceLock] \in {"verifying", "deleting", "filling"}
      BY <2>1 DEF WaitInv, TypeOK, OwnersAct
    <3> QED
      BY <3>1 DEF Blocked
  <2>2. CASE sourceLock = None /\ commentLock # None
    <3>1. commentLock \in Jobs /\ pc[commentLock] \notin {"idle", "comments"}
      BY <2>2 DEF WaitInv, OwnersAct, Jobs
    <3> QED
      BY <2>2, <3>1 DEF Blocked
  <2>3. CASE sourceLock = None /\ commentLock = None
    BY <2>3 DEF Blocked
  <2> QED
    BY <2>1, <2>2, <2>3
<1> QED
  BY <1>1, WaitHolds, PTL

===============================================================================
