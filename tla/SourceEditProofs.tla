--------------------------- MODULE SourceEditProofs ---------------------------
(***************************************************************************)
(* What holds of the .st write rails for any clients, any text and any     *)
(* number of edits and saves.                                              *)
(***************************************************************************)
EXTENDS SourceEdit, FiniteSetTheorems, SequenceTheorems, TLAPS

USE SourceAssumption

-----------------------------------------------------------------------------
(* The operators of the model.                                             *)

\* A function from the positions of a text to lines is a text.
LEMMA MapIsDoc ==
  ASSUME NEW d \in Docs, NEW f \in [DOMAIN d -> Lines]
  PROVE  f \in Docs /\ DOMAIN f = DOMAIN d
<1>1. DOMAIN d = 1..Len(d) /\ Len(d) \in Nat
  BY DEF Docs
<1>2. f \in [1..Len(d) -> Lines]
  BY <1>1
<1>3. f \in Seq(Lines)
  BY <1>1, <1>2, IsASeq
<1> QED BY <1>3 DEF Docs

\* An edit leaves a text.
LEMMA PatchedIsDoc ==
  ASSUME NEW o \in Ops, NEW d \in Docs
  PROVE  Patched(o, d) \in Docs
<1>1. \A i \in DOMAIN d : d[i] \in Lines
  BY DEF Docs
<1>2. Patched(o, d) \in [DOMAIN d -> Lines]
  BY <1>1 DEF Patched, Lines, Ops
<1> QED BY <1>2, MapIsDoc

\* A text written over another leaves a text; over the emptied file, itself.
LEMMA OverlayIsDoc ==
  ASSUME NEW t \in Docs, NEW f \in Docs
  PROVE  Overlay(t, f) \in Docs /\ Overlay(t, <<>>) = t
<1>1. Len(t) \in Nat /\ Len(f) \in Nat /\ Len(<<>>) = 0
  BY DEF Docs
<1>2. Overlay(t, <<>>) = t
  BY <1>1 DEF Overlay
<1>3. CASE Len(f) <= Len(t)
  BY <1>2, <1>3 DEF Overlay
<1>4. CASE ~(Len(f) <= Len(t))
  <2>1. \A i \in (Len(t) + 1)..Len(f) : i \in 1..Len(f)
    BY <1>1
  <2>2. SubSeq(f, Len(t) + 1, Len(f)) \in Seq(Lines)
    BY <1>1, <2>1, SubSeqProperties DEF Docs
  <2> QED BY <1>2, <1>4, <2>2 DEF Overlay, Docs
<1> QED BY <1>3, <1>4

\* What the developer saves is a text.
LEMMA RevisedIsDoc ==
  ASSUME NEW d \in Docs, NEW e \in Revised(d)
  PROVE  e \in Docs
<1>1. ASSUME NEW i \in DOMAIN d, NEW v \in Vals, e = [d EXCEPT ![i].val = v]
      PROVE  e \in Docs
  <2>1. \A j \in DOMAIN d : d[j] \in Lines
    BY DEF Docs
  <2>2. [d[i] EXCEPT !.val = v] \in Lines
    BY <2>1 DEF Lines
  <2>3. e = [d EXCEPT ![i] = [d[i] EXCEPT !.val = v]]
    BY <1>1
  <2>4. e \in [DOMAIN d -> Lines]
    <3>1. DOMAIN e = DOMAIN d /\ e[i] = [d[i] EXCEPT !.val = v]
      BY <2>3
    <3>2. \A j \in DOMAIN d : e[j] \in Lines
      BY <2>1, <2>2, <2>3
    <3>3. e = [j \in DOMAIN d |-> e[j]]
      BY <2>3
    <3> QED BY <3>1, <3>2, <3>3
  <2> QED BY <2>4, MapIsDoc
<1>2. ASSUME NEW l \in Lines, e = Append(d, l)
      PROVE  e \in Docs
  BY <1>2, AppendProperties DEF Docs
<1>3. ASSUME 1 \in DOMAIN d, e = Tail(d)
      PROVE  e \in Docs
  <2>1. d # <<>>
    BY <1>3
  <2> QED BY <2>1, <1>3, HeadTailProperties DEF Docs
<1> QED BY <1>1, <1>2, <1>3 DEF Revised

\* The declarations before a line can be counted, and there are more of them before a
\* later line that follows one of them.
LEMMA Counted ==
  ASSUME NEW d \in Docs, NEW k, NEW i \in DOMAIN d
  PROVE  /\ IsFiniteSet({j \in 1..(i - 1) : d[j].key = k})
         /\ Before(d, k, i) \in Nat
<1> DEFINE A == {j \in 1..(i - 1) : d[j].key = k}
<1>1. i \in Nat
  BY DEF Docs
<1>2. IsFiniteSet(1..(i - 1))
  BY <1>1, FS_Interval
<1>3. A \subseteq 1..(i - 1) /\ Before(d, k, i) = Cardinality(A)
  BY DEF Before
<1> HIDE DEF A
<1>4. IsFiniteSet(A)
  BY <1>2, <1>3, FS_Subset
<1>5. IsFiniteSet(A) /\ Before(d, k, i) \in Nat
  BY <1>3, <1>4, FS_CardinalityType
<1> QED BY <1>5 DEF A

LEMMA CountGrows ==
  ASSUME NEW d \in Docs, NEW k, NEW i \in DOMAIN d, NEW h \in DOMAIN d,
         d[i].key = k, i < h
  PROVE  Before(d, k, i) # Before(d, k, h)
<1> DEFINE A == {j \in 1..(i - 1) : d[j].key = k}
           B == {j \in 1..(h - 1) : d[j].key = k}
<1>1. i \in Nat /\ h \in Nat /\ 1 <= i
  BY DEF Docs
<1>2. IsFiniteSet(A) /\ Cardinality(A) \in Nat
  BY Counted DEF Before
<1>3. IsFiniteSet(B) /\ Cardinality(B) \in Nat
  BY Counted DEF Before
<1>4. i \notin A
  BY <1>1
<1>5. A \cup {i} \subseteq B
  BY <1>1
<1>6. Before(d, k, i) = Cardinality(A) /\ Before(d, k, h) = Cardinality(B)
  BY DEF Before
<1> HIDE DEF A, B
<1>7. Cardinality(A \cup {i}) = Cardinality(A) + 1
  BY <1>2, <1>4, FS_AddElement
<1>8. Cardinality(A \cup {i}) <= Cardinality(B)
  BY <1>3, <1>5, FS_Subset
<1> QED BY <1>2, <1>3, <1>6, <1>7, <1>8

\* An edit addresses one line at most, by span and by occurrence.
LEMMA AddressedIsOne ==
  ASSUME NEW o \in Ops, NEW d \in Docs, NEW i \in Addressed(o, d), NEW h \in Addressed(o, d)
  PROVE  i = h
<1>1. CASE o.rail \in Placed
  BY <1>1 DEF Addressed
<1>2. CASE o.rail \notin Placed
  <2>1. /\ i \in DOMAIN d /\ d[i].key = o.key
        /\ h \in DOMAIN d /\ d[h].key = o.key
        /\ Before(d, o.key, i) = Before(d, o.key, h)
    BY <1>2 DEF Addressed, Occurrence
  <2>2. ~(i < h)
    BY <2>1, CountGrows
  <2>3. ~(h < i)
    BY <2>1, CountGrows
  <2>4. i \in Nat /\ h \in Nat
    BY <2>1 DEF Docs
  <2> QED BY <2>2, <2>3, <2>4
<1> QED BY <1>1, <1>2

\* An accepted edit changes one line and no other.
LEMMA PatchedIsOneLine ==
  ASSUME NEW o \in Ops, NEW d \in Docs, Accepts(o, d)
  PROVE  OneLineEdited(d, Patched(o, d))
<1>1. PICK i \in Addressed(o, d) : TRUE
  BY DEF Accepts
<1>2. i \in DOMAIN d
  BY <1>1 DEF Addressed, Occurrence
<1>3. Addressed(o, d) = {i}
  BY <1>1, AddressedIsOne
<1>4. Patched(o, d) = [j \in DOMAIN d |-> IF j = i THEN [key |-> d[i].key, val |-> o.val] ELSE d[j]]
  BY <1>3 DEF Patched
<1>5. o.val \in Vals
  BY DEF Ops
<1> QED BY <1>2, <1>4, <1>5 DEF OneLineEdited

-----------------------------------------------------------------------------
(* Types.                                                                  *)

LEMMA InitTyped == Init => TypeOK
<1> SUFFICES ASSUME Init PROVE TypeOK
  OBVIOUS
<1>1. NoOp \in Ops
  BY DEF NoOp, Ops, AllRails, Docs
<1>2. <<>> \in Docs
  BY DEF Docs
<1> QED BY <1>1, <1>2 DEF Init, TypeOK

LEMMA LookTyped == ASSUME TypeOK, NEW c \in Clients, Look(c) PROVE TypeOK'
BY DEF TypeOK, Look, jobs

LEMMA SendTyped == ASSUME TypeOK, NEW c \in Clients, Send(c) PROVE TypeOK'
<1>1. PICK r \in rails, i \in DOMAIN shown[c], v \in Vals :
        op' = [op EXCEPT ![c] =
                 [rail |-> r, key |-> shown[c][i].key, val |-> v, seen |-> shown[c],
                  at |-> IF r \in Placed THEN i
                         ELSE IF r = "motion" THEN Before(shown[c], shown[c][i].key, i) ELSE 0]]
  BY DEF Send
<1>2. shown[c] \in Docs /\ shown[c][i] \in Lines /\ i \in Nat
  BY DEF TypeOK, Docs
<1>3. Before(shown[c], shown[c][i].key, i) \in Nat
  BY <1>2, Counted
<1>4. shown[c][i].key \in Keys
  BY <1>2 DEF Lines
<1>5. r \in AllRails
  BY DEF TypeOK
<1>6. op' \in [Clients -> Ops]
  BY <1>1, <1>2, <1>3, <1>4, <1>5 DEF TypeOK, Ops
<1>7. edits' \in 0..MaxEdits
  BY DEF TypeOK, Send
<1>8. pc' \in [Clients -> {"idle", "locking", "reading", "opening", "writing", "acked", "rejected"}]
  BY DEF TypeOK, Send
<1> QED BY <1>6, <1>7, <1>8 DEF TypeOK, Send

LEMMA SaveTyped == ASSUME TypeOK, Save PROVE TypeOK'
<1>1. file' \in Docs
  BY RevisedIsDoc DEF TypeOK, Save
<1>2. saves' \in 0..MaxSaves
  BY DEF TypeOK, Save
<1>3. raced' \in [Clients -> BOOLEAN]
  BY DEF TypeOK, Save, RacedBy, InTransaction
<1> QED BY <1>1, <1>2, <1>3 DEF TypeOK, Save, jobs

LEMMA LockTyped == ASSUME TypeOK, NEW c \in Clients, Lock(c) PROVE TypeOK'
BY DEF TypeOK, Lock, jobs

LEMMA ReadTyped == ASSUME TypeOK, NEW c \in Clients, Read(c) PROVE TypeOK'
<1>1. Patched(op[c], file) \in Docs
  BY PatchedIsDoc DEF TypeOK
<1>2. new' \in [Clients -> Docs]
  BY <1>1 DEF TypeOK, Read
<1>3. lock' \in Clients \cup {None}
  BY DEF TypeOK, Read, Unlocked
<1> QED BY <1>2, <1>3 DEF TypeOK, Read

LEMMA OpenTyped == ASSUME TypeOK, NEW c \in Clients, Open(c) PROVE TypeOK'
<1>1. <<>> \in Docs
  BY DEF Docs
<1>2. raced' \in [Clients -> BOOLEAN]
  BY DEF TypeOK, Open, RacedBy, InTransaction
<1> QED BY <1>1, <1>2 DEF TypeOK, Open, jobs

LEMMA AnswerTyped == ASSUME TypeOK, NEW c \in Clients, Answer(c) PROVE TypeOK'
<1>1. NoOp \in Ops /\ <<>> \in Docs
  BY DEF NoOp, Ops, AllRails, Docs
<1> QED BY <1>1 DEF TypeOK, Answer

LEMMA WriteTyped == ASSUME TypeOK, NEW c \in Clients, Write(c) PROVE TypeOK'
<1>1. file' \in Docs
  BY OverlayIsDoc DEF TypeOK, Write
<1>2. raced' \in [Clients -> BOOLEAN]
  BY DEF TypeOK, Write, RacedBy, InTransaction
<1>3. lock' \in Clients \cup {None}
  BY DEF TypeOK, Write, Unlocked
<1>4. writes' \in Nat
  BY DEF TypeOK, Write
<1> QED BY <1>1, <1>2, <1>3, <1>4 DEF TypeOK, Write, jobs

LEMMA NextTyped == TypeOK /\ [Next]_vars => TypeOK'
<1> SUFFICES ASSUME TypeOK, [Next]_vars PROVE TypeOK'
  OBVIOUS
<1>1. CASE UNCHANGED vars
  BY <1>1 DEF TypeOK, vars
<1>2. CASE Save
  BY <1>2, SaveTyped
<1>3. ASSUME NEW c \in Clients, Look(c) \/ Send(c) \/ Handle(c) PROVE TypeOK'
  BY <1>3, LookTyped, SendTyped, LockTyped, ReadTyped, OpenTyped, WriteTyped, AnswerTyped
     DEF Handle
<1> QED BY <1>1, <1>2, <1>3 DEF Next

\* The state of the write rails keeps its types, whatever clients send and developers save.
THEOREM TypeCorrect == Spec => []TypeOK
BY InitTyped, NextTyped, PTL DEF Spec

-----------------------------------------------------------------------------
(* The invariant: whom the lock belongs to, what a job holds, and when the *)
(* file is still what it read.                                             *)

\* The lock belongs to the span edit that is between Lock and Write.
LockInv ==
  \A c \in Clients :
    lock = c <=> Locked(c) /\ pc[c] \in {"reading", "opening", "writing"}

\* A message uses a rail of the session; only a span edit waits for the lock.
RailInv ==
  \A c \in Clients : /\ pc[c] # "idle" => op[c].rail \in rails
                     /\ pc[c] = "locking" => Locked(c)

\* A job that is going to write has passed its guards and patched what it read.
JobInv ==
  \A c \in Clients : InTransaction(c) =>
    Accepts(op[c], base[c]) /\ new[c] = Patched(op[c], base[c])

\* Under an unraced job the file is what it read, and what it emptied.
RaceInv ==
  \A c \in Clients : ~raced[c] =>
    /\ pc[c] = "opening" => file = base[c]
    /\ pc[c] = "writing" => file = <<>>

\* Where everybody takes the lock nobody is raced.
ExclInv == Undisturbed => \A c \in Clients : InTransaction(c) => ~raced[c]

EditInv == TypeOK /\ LockInv /\ RailInv /\ JobInv /\ RaceInv /\ ExclInv

\* In an undisturbed session no two jobs are between their reading and their write.
LEMMA Exclusive ==
  ASSUME LockInv, RailInv, Undisturbed, NEW c \in Clients, NEW d \in Clients,
         pc[c] \in {"reading", "opening", "writing"},
         pc[d] \in {"reading", "opening", "writing"}
  PROVE  c = d
BY DEF LockInv, RailInv, Undisturbed, Locked

LEMMA InitInv == Init => EditInv
<1> SUFFICES ASSUME Init PROVE EditInv
  OBVIOUS
<1>1. TypeOK
  BY InitTyped
<1>2. LockInv
  BY DEF Init, LockInv
<1> QED BY <1>1, <1>2 DEF Init, EditInv, RailInv, JobInv, RaceInv, ExclInv, InTransaction

LEMMA LookInv == ASSUME EditInv, NEW c \in Clients, Look(c) PROVE EditInv'
<1>1. TypeOK'
  BY LookTyped DEF EditInv
<1> QED BY <1>1 DEF EditInv, LockInv, RailInv, JobInv, RaceInv, ExclInv, Look, Locked,
                    InTransaction, Undisturbed, jobs

LEMMA SendInv == ASSUME EditInv, NEW c \in Clients, Send(c) PROVE EditInv'
<1>1. TypeOK'
  BY SendTyped DEF EditInv
<1>2. /\ pc[c] = "idle" /\ op'[c].rail \in rails
      /\ \A d \in Clients \ {c} : op'[d] = op[d] /\ pc'[d] = pc[d]
      /\ pc'[c] = IF op'[c].rail = "span" THEN "locking" ELSE "reading"
      /\ UNCHANGED <<file, lock, rails, base, new, raced>>
  BY DEF Send, EditInv, TypeOK
<1>3. LockInv'
  BY <1>2 DEF EditInv, LockInv, Locked
<1>4. RailInv'
  BY <1>2 DEF EditInv, RailInv, Locked
<1>5. \A d \in Clients : InTransaction(d)' => d # c /\ InTransaction(d)
  BY <1>2 DEF InTransaction
<1>6. JobInv' /\ ExclInv'
  BY <1>2, <1>5 DEF EditInv, JobInv, ExclInv, Undisturbed
<1>7. RaceInv'
  BY <1>2 DEF EditInv, RaceInv
<1> QED BY <1>1, <1>3, <1>4, <1>6, <1>7 DEF EditInv

\* Who else changes the file marks every job that has read it.
LEMMA RacedKeepsRaceInv ==
  ASSUME EditInv, NEW c, raced' = RacedBy(c), UNCHANGED base,
         \A d \in Clients \ {c} : pc'[d] = pc[d]
  PROVE  \A d \in Clients \ {c} : ~raced'[d] =>
           pc'[d] # "opening" /\ pc'[d] # "writing"
BY DEF EditInv, RacedBy, InTransaction, TypeOK

LEMMA SaveInv == ASSUME EditInv, Save PROVE EditInv'
<1>1. TypeOK'
  BY SaveTyped DEF EditInv
<1>2. LockInv' /\ RailInv' /\ JobInv'
  BY DEF EditInv, LockInv, RailInv, JobInv, Save, Locked, InTransaction, jobs
<1>3. RaceInv'
  BY RacedKeepsRaceInv DEF RaceInv, Save, jobs
<1>4. ExclInv'
  BY DEF ExclInv, Undisturbed, Save, InTransaction
<1> QED BY <1>1, <1>2, <1>3, <1>4 DEF EditInv

LEMMA LockStepInv == ASSUME EditInv, NEW c \in Clients, Lock(c) PROVE EditInv'
<1>1. TypeOK'
  BY LockTyped DEF EditInv
<1>2. LockInv' /\ RailInv'
  BY DEF EditInv, TypeOK, LockInv, RailInv, Lock, Locked, jobs
<1>3. JobInv' /\ RaceInv' /\ ExclInv'
  BY DEF EditInv, TypeOK, JobInv, RaceInv, ExclInv, Lock, InTransaction, Undisturbed, jobs
<1> QED BY <1>1, <1>2, <1>3 DEF EditInv

LEMMA ReadInv == ASSUME EditInv, NEW c \in Clients, Read(c) PROVE EditInv'
<1>1. TypeOK'
  BY ReadTyped DEF EditInv
<1>2. /\ pc[c] = "reading"
      /\ base'[c] = file /\ raced'[c] = FALSE
      /\ \A d \in Clients \ {c} : /\ base'[d] = base[d] /\ raced'[d] = raced[d]
                                  /\ pc'[d] = pc[d] /\ new'[d] = new[d]
      /\ UNCHANGED <<file, rails, op>>
  BY DEF Read, EditInv, TypeOK
<1>3. \/ /\ Accepts(op[c], file) /\ new'[c] = Patched(op[c], file)
         /\ pc'[c] = "opening" /\ lock' = lock
      \/ pc'[c] = "rejected" /\ lock' = Unlocked(c)
  BY DEF Read, EditInv, TypeOK
<1>4. LockInv'
  BY <1>2, <1>3 DEF EditInv, TypeOK, LockInv, Locked, Unlocked
<1>5. RailInv'
  BY <1>2, <1>3 DEF EditInv, RailInv, Locked
<1>6. JobInv'
  BY <1>2, <1>3 DEF EditInv, JobInv, InTransaction
<1>7. RaceInv'
  BY <1>2, <1>3 DEF EditInv, RaceInv
<1>8. ExclInv'
  BY <1>2, <1>3 DEF EditInv, ExclInv, Undisturbed, InTransaction
<1> QED BY <1>1, <1>4, <1>5, <1>6, <1>7, <1>8 DEF EditInv

LEMMA OpenInv == ASSUME EditInv, NEW c \in Clients, Open(c) PROVE EditInv'
<1>1. TypeOK'
  BY OpenTyped DEF EditInv
<1>2. /\ pc[c] = "opening" /\ pc'[c] = "writing" /\ file' = <<>>
      /\ \A d \in Clients \ {c} : pc'[d] = pc[d]
      /\ raced' = RacedBy(c)
      /\ UNCHANGED <<lock, rails, op, base, new>>
  BY DEF Open, EditInv, TypeOK, jobs
<1>3. LockInv' /\ RailInv' /\ JobInv'
  BY <1>2 DEF EditInv, LockInv, RailInv, JobInv, Locked, InTransaction
<1>4. RaceInv'
  BY <1>2, RacedKeepsRaceInv DEF RaceInv
<1>5. ExclInv'
  <2> SUFFICES ASSUME Undisturbed', NEW d \in Clients, InTransaction(d)' PROVE ~raced'[d]
    BY DEF ExclInv
  <2>1. Undisturbed
    BY <1>2 DEF Undisturbed
  <2>2. pc[d] \in {"opening", "writing"}
    BY <1>2 DEF InTransaction
  <2>3. d = c
    BY <1>2, <2>1, <2>2, Exclusive DEF EditInv
  <2>4. raced'[c] = raced[c]
    BY <1>2 DEF RacedBy, EditInv, TypeOK
  <2> QED BY <1>2, <2>1, <2>3, <2>4 DEF EditInv, ExclInv, InTransaction
<1> QED BY <1>1, <1>3, <1>4, <1>5 DEF EditInv

LEMMA WriteInv == ASSUME EditInv, NEW c \in Clients, Write(c) PROVE EditInv'
<1>1. TypeOK'
  BY WriteTyped DEF EditInv
<1>2. /\ pc[c] = "writing" /\ pc'[c] = "acked"
      /\ \A d \in Clients \ {c} : pc'[d] = pc[d]
      /\ raced' = RacedBy(c) /\ lock' = Unlocked(c)
      /\ UNCHANGED <<rails, op, base, new>>
  BY DEF Write, EditInv, TypeOK, jobs
<1>3. LockInv'
  BY <1>2 DEF EditInv, TypeOK, LockInv, Locked, Unlocked
<1>4. RailInv' /\ JobInv'
  BY <1>2 DEF EditInv, RailInv, JobInv, Locked, InTransaction
<1>5. RaceInv'
  BY <1>2, RacedKeepsRaceInv DEF RaceInv
<1>6. ExclInv'
  <2> SUFFICES ASSUME Undisturbed', NEW d \in Clients, InTransaction(d)' PROVE ~raced'[d]
    BY DEF ExclInv
  <2>1. Undisturbed
    BY <1>2 DEF Undisturbed
  <2>2. d # c /\ pc[d] \in {"opening", "writing"}
    BY <1>2 DEF InTransaction
  <2> QED BY <1>2, <2>1, <2>2, Exclusive DEF EditInv
<1> QED BY <1>1, <1>3, <1>4, <1>5, <1>6 DEF EditInv

LEMMA AnswerInv == ASSUME EditInv, NEW c \in Clients, Answer(c) PROVE EditInv'
<1>1. TypeOK'
  BY AnswerTyped DEF EditInv
<1>2. /\ pc[c] \in {"acked", "rejected"} /\ pc'[c] = "idle" /\ raced'[c] = FALSE
      /\ \A d \in Clients \ {c} : /\ base'[d] = base[d] /\ raced'[d] = raced[d]
                                  /\ pc'[d] = pc[d] /\ new'[d] = new[d] /\ op'[d] = op[d]
      /\ UNCHANGED <<file, lock, rails>>
  BY DEF Answer, EditInv, TypeOK
<1>3. LockInv' /\ RailInv'
  BY <1>2 DEF EditInv, LockInv, RailInv, Locked
<1>4. JobInv' /\ RaceInv'
  BY <1>2 DEF EditInv, JobInv, RaceInv, InTransaction
<1>5. ExclInv'
  BY <1>2 DEF EditInv, ExclInv, Undisturbed, InTransaction
<1> QED BY <1>1, <1>3, <1>4, <1>5 DEF EditInv

LEMMA NextInv == EditInv /\ [Next]_vars => EditInv'
<1> SUFFICES ASSUME EditInv, [Next]_vars PROVE EditInv'
  OBVIOUS
<1>1. CASE UNCHANGED vars
  BY <1>1 DEF EditInv, TypeOK, LockInv, RailInv, JobInv, RaceInv, ExclInv, Locked,
              InTransaction, Undisturbed, vars
<1>2. CASE Save
  BY <1>2, SaveInv
<1>3. ASSUME NEW c \in Clients, Look(c) \/ Send(c) \/ Handle(c) PROVE EditInv'
  BY <1>3, LookInv, SendInv, LockStepInv, ReadInv, OpenInv, WriteInv, AnswerInv DEF Handle
<1> QED BY <1>1, <1>2, <1>3 DEF Next

THEOREM InvHolds == Spec => []EditInv
BY InitInv, NextInv, PTL DEF Spec

-----------------------------------------------------------------------------
(* What an edit meets and what it leaves.                                  *)

LEMMA InvShown == EditInv => ShownIsWhatIsEdited
<1> SUFFICES ASSUME EditInv, Undisturbed, NEW c \in Clients, pc[c] = "opening"
             PROVE  /\ "hash" \in Guards \/ "text" \in Guards =>
                         op[c].at \in DOMAIN file /\ file[op[c].at] = op[c].seen[op[c].at]
                    /\ "hash" \in Guards => file = op[c].seen
  BY DEF ShownIsWhatIsEdited
<1>1. file = base[c] /\ Accepts(op[c], file)
  BY DEF EditInv, ExclInv, RaceInv, JobInv, InTransaction
<1>2. op[c].rail = "span"
  BY DEF EditInv, RailInv, Undisturbed
<1>3. HashHolds(op[c], file) /\ SpanTextHolds(op[c], file) /\ Addressed(op[c], file) # {}
  BY <1>1, <1>2 DEF Accepts
<1>4. op[c].at \in DOMAIN file
  BY <1>2, <1>3 DEF Addressed, Placed
<1> QED BY <1>3, <1>4 DEF HashHolds, SpanTextHolds

\* Where everybody uses the span rail, the line an edit is about to replace is the line its
\* user was shown, for any file, any clients and any projections and saves in between.
THEOREM EditsWhatWasShown == Spec => []ShownIsWhatIsEdited
BY InvHolds, InvShown, PTL

\* A write nobody raced leaves the text it read with one line edited.
LEMMA UnracedWrite ==
  ASSUME EditInv, NEW c \in Clients, Write(c), ~raced[c]
  PROVE  file' = new[c] /\ OneLineEdited(base[c], file')
<1>1. /\ pc[c] = "writing" /\ file' = Overlay(new[c], file)
      /\ new[c] \in Docs /\ base[c] \in Docs /\ op[c] \in Ops
  BY DEF Write, EditInv, TypeOK
<1>2. file = <<>>
  BY <1>1 DEF EditInv, RaceInv
<1>3. file' = new[c]
  BY <1>1, <1>2, OverlayIsDoc
<1>4. Accepts(op[c], base[c]) /\ new[c] = Patched(op[c], base[c])
  BY <1>1 DEF EditInv, JobInv, InTransaction
<1> QED BY <1>1, <1>3, <1>4, PatchedIsOneLine

\* Only its own write takes a job from writing to acknowledged.
LEMMA OnlyWrite ==
  ASSUME TypeOK, [Next]_vars, NEW c \in Clients, pc[c] = "writing", pc'[c] = "acked"
  PROVE  Write(c)
<1>1. CASE UNCHANGED vars
  BY <1>1 DEF vars
<1>2. CASE Save
  BY <1>2 DEF Save
<1>3. ASSUME NEW d \in Clients, Look(d) \/ Send(d) \/ Lock(d) \/ Read(d) \/ Open(d) \/ Answer(d)
      PROVE  pc'[c] = pc[c] \/ pc'[c] # "acked"
  BY <1>3 DEF TypeOK, Look, Send, Lock, Read, Open, Answer
<1>4. ASSUME NEW d \in Clients, Write(d)
      PROVE  d = c
  BY <1>4 DEF TypeOK, Write
<1> QED BY <1>1, <1>2, <1>3, <1>4 DEF Next, Handle

\* On every rail, with any number of clients, an edit under which nobody changed the file
\* leaves the text it read with one line edited.
THEOREM UnracedWritesEditOneLine == Spec => UnracedWriteIsOneEdit
<1>1. EditInv /\ [Next]_vars =>
        [\A c \in Clients : pc[c] = "writing" /\ pc'[c] = "acked" /\ ~raced[c]
           => OneLineEdited(base[c], file')]_vars
  BY OnlyWrite, UnracedWrite DEF EditInv
<1> QED BY <1>1, InvHolds, PTL DEF Spec, UnracedWriteIsOneEdit

-----------------------------------------------------------------------------
(* The locked rail implements one edit at a time.                          *)

\* With nobody writing the text is what is on disk, with one writer what it read.
ContentIs ==
  /\ (\A c \in Clients : pc[c] # "writing") => Content = file
  /\ \A c \in Clients : pc[c] = "writing" => Content = base[c]

LEMMA InvContent == LockInv /\ RailInv /\ Undisturbed => ContentIs
<1> SUFFICES ASSUME LockInv, RailInv, Undisturbed PROVE ContentIs
  OBVIOUS
<1>1. (\A c \in Clients : pc[c] # "writing") => Content = file
  BY DEF Content
<1>2. ASSUME NEW c \in Clients, pc[c] = "writing" PROVE Content = base[c]
  <2>1. \A d \in Clients : pc[d] = "writing" => d = c
    BY <1>2, Exclusive
  <2>2. (CHOOSE d \in Clients : pc[d] = "writing") = c
    BY <1>2, <2>1
  <2> QED BY <1>2, <2>2 DEF Content
<1> QED BY <1>1, <1>2 DEF ContentIs

LEMMA InvContentNext == LockInv' /\ RailInv' /\ Undisturbed' => ContentIs'
BY InvContent, PTL

\* A step that leaves the file and every writer alone leaves the text.
LEMMA ContentStays ==
  ASSUME EditInv, EditInv', Undisturbed, Undisturbed', file' = file,
         \A c \in Clients : pc[c] = "writing" <=> pc'[c] = "writing",
         \A c \in Clients : pc[c] = "writing" => base'[c] = base[c]
  PROVE  Content' = Content
<1>1. ContentIs /\ ContentIs'
  BY InvContent, InvContentNext DEF EditInv
<1>2. CASE \E c \in Clients : pc[c] = "writing"
  <2>1. PICK c \in Clients : pc[c] = "writing"
    BY <1>2
  <2>2. Content = base[c]
    BY <1>1, <2>1 DEF ContentIs
  <2>3. Content' = base'[c]
    BY <1>1, <2>1 DEF ContentIs
  <2> QED BY <2>1, <2>2, <2>3
<1>3. CASE \A c \in Clients : pc[c] # "writing"
  <2>1. Content = file
    BY <1>1, <1>3 DEF ContentIs
  <2>2. Content' = file'
    BY <1>1, <1>3 DEF ContentIs
  <2> QED BY <2>1, <2>2
<1> QED BY <1>2, <1>3

LEMMA StepIsSerial ==
  ASSUME EditInv, EditInv', Undisturbed, [Next]_vars
  PROVE  Serial!Next \/ UNCHANGED <<Content, writes, saves>>
<1>0. LockInv /\ RailInv /\ TypeOK /\ LockInv' /\ RailInv' /\ TypeOK'
  BY DEF EditInv
<1>a. ContentIs
  BY <1>0, InvContent
<1>b. ASSUME rails' = rails PROVE Undisturbed' /\ ContentIs'
  BY <1>b, <1>0, InvContentNext DEF Undisturbed
<1>1. CASE UNCHANGED vars
  BY <1>1 DEF vars, Content
<1>2. CASE Save
  <2>1. rails' = rails /\ pc' = pc /\ saves' = saves + 1 /\ writes' = writes
    BY <1>2 DEF Save
  <2>2. \A c \in Clients : pc[c] # "writing"
    BY <1>2 DEF Save, Undisturbed, InTransaction
  <2>3. Content' = file'
    BY <1>b, <2>1, <2>2 DEF ContentIs
  <2>4. Content' \in Seq(Serial!Lines)
    BY <1>0, <2>3 DEF TypeOK, Docs, Lines, Serial!Lines
  <2> QED BY <2>1, <2>4 DEF Serial!Next, Serial!Save
<1>3. ASSUME NEW c \in Clients, Look(c) \/ Send(c) \/ Lock(c) \/ Read(c) \/ Answer(c)
      PROVE  UNCHANGED <<Content, writes, saves>>
  <2>1. /\ rails' = rails /\ file' = file /\ writes' = writes /\ saves' = saves
        /\ \A d \in Clients : pc[d] = "writing" <=> pc'[d] = "writing"
        /\ \A d \in Clients : pc[d] = "writing" => base'[d] = base[d]
    BY <1>0, <1>3 DEF TypeOK, Look, Send, Lock, Read, Answer, jobs
  <2>2. Content' = Content
    BY <1>b, <2>1, ContentStays
  <2> QED BY <2>1, <2>2
<1>4. ASSUME NEW c \in Clients, Open(c)
      PROVE  UNCHANGED <<Content, writes, saves>>
  <2>1. /\ pc[c] = "opening" /\ pc'[c] = "writing" /\ base' = base
        /\ rails' = rails /\ writes' = writes /\ saves' = saves
    BY <1>0, <1>4 DEF TypeOK, Open, jobs
  <2>2. file = base[c]
    BY <2>1 DEF EditInv, ExclInv, RaceInv, InTransaction
  <2>3. \A d \in Clients : pc[d] # "writing"
    BY <1>0, <2>1, Exclusive
  <2>4. Content = file
    BY <1>a, <2>3 DEF ContentIs
  <2>5. Content' = base'[c]
    BY <1>b, <2>1 DEF ContentIs
  <2> QED BY <2>1, <2>2, <2>4, <2>5
<1>5. ASSUME NEW c \in Clients, Write(c)
      PROVE  Serial!Next
  <2>1. /\ pc[c] = "writing" /\ pc'[c] = "acked" /\ rails' = rails
        /\ \A d \in Clients \ {c} : pc'[d] = pc[d]
        /\ writes' = writes + 1 /\ saves' = saves
    BY <1>0, <1>5 DEF TypeOK, Write
  <2>2. ~raced[c]
    BY <2>1 DEF EditInv, ExclInv, InTransaction
  <2>3. OneLineEdited(base[c], file')
    BY <1>5, <2>2, UnracedWrite
  <2>4. Content = base[c]
    BY <1>a, <2>1 DEF ContentIs
  <2>5. \A d \in Clients : pc'[d] # "writing"
    BY <1>0, <2>1, Exclusive
  <2>6. Content' = file'
    BY <1>b, <2>1, <2>5 DEF ContentIs
  <2>7. OneLineEdited(Content, Content')
    BY <2>3, <2>4, <2>6
  <2>8. Serial!Edit
    BY <2>1, <2>7 DEF Serial!Edit, OneLineEdited
  <2> QED BY <2>8 DEF Serial!Next
<1> QED BY <1>1, <1>2, <1>3, <1>4, <1>5 DEF Next, Handle

\* For any clients and any text, a file that is written through the locked rail alone
\* goes from one text to the next by one edit at a time.
THEOREM SpanRailIsSerial == Spec => LockedRailsAreSerial
<1>1. EditInv /\ EditInv' /\ [Next]_vars =>
        [Undisturbed => Serial!Next]_<<Content, writes, saves>>
  BY StepIsSerial
<1> QED BY <1>1, InvHolds, PTL DEF Spec, LockedRailsAreSerial

\* The locked rail implements the abstract editor of one edit at a time.
THEOREM SpanRailImplementsSerial == Spec /\ []Undisturbed => Serial!Spec
<1>1. Init => Serial!Init
  <2> SUFFICES ASSUME Init PROVE Serial!Init
    OBVIOUS
  <2>1. Content = Start
    BY DEF Init, Content
  <2> QED BY <2>1 DEF Init, Serial!Init, Serial!Lines, Docs, Lines
<1>2. EditInv /\ EditInv' /\ Undisturbed /\ [Next]_vars =>
        [Serial!Next]_<<Content, writes, saves>>
  BY StepIsSerial
<1> QED BY <1>1, <1>2, InvHolds, PTL DEF Spec, Serial!Spec
===============================================================================
