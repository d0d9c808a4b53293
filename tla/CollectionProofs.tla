--------------------------- MODULE CollectionProofs ---------------------------
(***************************************************************************)
(* Theorems about Collection, for every set of pages, ids and contents,    *)
(* every table the file starts with and every bound.                       *)
(*                                                                         *)
(* First what the operations do to tables (positions, lengths, the ids     *)
(* that can occur, what the cleaning of contents leaves the same), then    *)
(* the invariants, per page and over values only: what the page sent over  *)
(* the connection it has (Sent), the handler of that (JobOf), its inbox,   *)
(* what it has not heard of.                                               *)
(*   Wired       a connection is one page's, and a page without one gets   *)
(*               nothing;                                                  *)
(*   NumbersInv  operations are on their way in the order of their numbers *)
(*               and, where nothing was lost, pending until heard of;      *)
(*   OneWriter,  a lone handler finds in the file what it put there, and a *)
(*   AgreeInv    page at peace with the server shows it, or is going to    *)
(*               once the text it asked for has come (Owed);               *)
(*   OldInv      no row has the id of an operation that is not planned;    *)
(*   LoneInv     a page that edits alone plans on its operations on their  *)
(*               way applied to the table they will meet, which differs    *)
(*               by the cleaning of contents at most (Same).               *)
(***************************************************************************)
EXTENDS Collection, SequenceTheorems, WellFoundedInduction, TLAPS

Tables == Seq(Rows)
Undos == [op : Operations, row : Rows]

IdsOf(t) == {t[i].id : i \in DOMAIN t}

LEMMA InsertAtIs ==
  ASSUME NEW S, NEW s \in Seq(S), NEW i \in 1..(Len(s) + 1), NEW e \in S
  PROVE  /\ InsertAt(s, i, e) \in Seq(S)
         /\ Len(InsertAt(s, i, e)) = Len(s) + 1
         /\ \A j \in 1..(Len(s) + 1) :
              InsertAt(s, i, e)[j] = IF j < i THEN s[j] ELSE IF j = i THEN e ELSE s[j - 1]
<1> DEFINE a == SubSeq(s, 1, i - 1)  b == <<e>>  c == SubSeq(s, i, Len(s))
<1>1. /\ Len(s) \in Nat /\ i \in Nat /\ \A j \in 1..Len(s) : s[j] \in S
      /\ i - 1 \in Int /\ i \in Int /\ Len(s) \in Int /\ 1 \in Int
      /\ \A j \in 1..(i - 1) : s[j] \in S
      /\ \A j \in i..Len(s) : s[j] \in S
  OBVIOUS
<1>2. a \in Seq(S) /\ Len(a) = i - 1 /\ \A j \in 1..(i - 1) : a[j] = s[j]
  <2>1. /\ a \in Seq(S)
        /\ Len(a) = IF 1 <= i - 1 THEN i - 1 - 1 + 1 ELSE 0
        /\ \A j \in 1..(i - 1 - 1 + 1) : a[j] = s[1 + j - 1]
    BY <1>1, SubSeqProperties
  <2> QED
    BY <1>1, <2>1
<1>3. c \in Seq(S) /\ Len(c) = Len(s) - i + 1 /\ \A j \in 1..(Len(s) - i + 1) : c[j] = s[i + j - 1]
  <2>1. /\ c \in Seq(S)
        /\ Len(c) = IF i <= Len(s) THEN Len(s) - i + 1 ELSE 0
        /\ \A j \in 1..(Len(s) - i + 1) : c[j] = s[i + j - 1]
    BY <1>1, SubSeqProperties
  <2> QED
    BY <1>1, <2>1
<1>4. b \in Seq(S) /\ Len(b) = 1 /\ b[1] = e
  OBVIOUS
<1> HIDE DEF a, b, c
<1>5. /\ a \o b \in Seq(S) /\ Len(a \o b) = i
      /\ \A j \in 1..i : (a \o b)[j] = IF j <= i - 1 THEN a[j] ELSE b[j - (i - 1)]
  <2>1. /\ a \o b \in Seq(S) /\ Len(a \o b) = Len(a) + Len(b)
        /\ \A j \in 1..(Len(a) + Len(b)) : (a \o b)[j] = IF j <= Len(a) THEN a[j] ELSE b[j - Len(a)]
    BY <1>2, <1>4, ConcatProperties
  <2> QED
    BY <1>1, <1>2, <1>4, <2>1
<1> DEFINE d == a \o b
<1>6. d \in Seq(S) /\ Len(d) = i /\ \A j \in 1..i : d[j] = IF j < i THEN s[j] ELSE e
  <2>1. ASSUME NEW j \in 1..i PROVE d[j] = IF j < i THEN s[j] ELSE e
    BY <1>1, <1>2, <1>4, <1>5
  <2> QED
    BY <1>5, <2>1
<1> HIDE DEF d
<1>7. /\ d \o c \in Seq(S) /\ Len(d \o c) = Len(d) + Len(c)
      /\ \A j \in 1..(Len(d) + Len(c)) : (d \o c)[j] = IF j <= Len(d) THEN d[j] ELSE c[j - Len(d)]
  BY <1>3, <1>6, ConcatProperties
<1>8. InsertAt(s, i, e) = d \o c
  BY DEF InsertAt, a, b, c, d
<1>9. ASSUME NEW j \in 1..(Len(s) + 1)
      PROVE  InsertAt(s, i, e)[j] = IF j < i THEN s[j] ELSE IF j = i THEN e ELSE s[j - 1]
  <2>1. CASE j <= i
    BY <1>1, <1>3, <1>6, <1>7, <1>8, <2>1
  <2>2. CASE j > i
    <3>1. j - i \in 1..(Len(s) - i + 1) /\ i + (j - i) - 1 = j - 1
      BY <1>1, <2>2
    <3> QED
      BY <1>1, <1>3, <1>6, <1>7, <1>8, <2>2, <3>1
  <2> QED
    BY <1>1, <2>1, <2>2
<1> QED
  BY <1>1, <1>3, <1>6, <1>7, <1>8, <1>9

LEMMA RemoveAtIs ==
  ASSUME NEW S, NEW s \in Seq(S), NEW i \in 1..Len(s)
  PROVE  /\ RemoveAt(s, i) \in Seq(S)
         /\ Len(RemoveAt(s, i)) = Len(s) - 1
         /\ \A j \in 1..(Len(s) - 1) : RemoveAt(s, i)[j] = IF j < i THEN s[j] ELSE s[j + 1]
<1> DEFINE a == SubSeq(s, 1, i - 1)  c == SubSeq(s, i + 1, Len(s))
<1>1. /\ Len(s) \in Nat /\ i \in Nat /\ \A j \in 1..Len(s) : s[j] \in S
      /\ i - 1 \in Int /\ i + 1 \in Int /\ Len(s) \in Int /\ 1 \in Int
      /\ \A j \in 1..(i - 1) : s[j] \in S
      /\ \A j \in (i + 1)..Len(s) : s[j] \in S
  OBVIOUS
<1>2. a \in Seq(S) /\ Len(a) = i - 1 /\ \A j \in 1..(i - 1) : a[j] = s[j]
  <2>1. /\ a \in Seq(S)
        /\ Len(a) = IF 1 <= i - 1 THEN i - 1 - 1 + 1 ELSE 0
        /\ \A j \in 1..(i - 1 - 1 + 1) : a[j] = s[1 + j - 1]
    BY <1>1, SubSeqProperties
  <2> QED
    BY <1>1, <2>1
<1>3. c \in Seq(S) /\ Len(c) = Len(s) - i /\ \A j \in 1..(Len(s) - i) : c[j] = s[i + j]
  <2>1. /\ c \in Seq(S)
        /\ Len(c) = IF i + 1 <= Len(s) THEN Len(s) - (i + 1) + 1 ELSE 0
        /\ \A j \in 1..(Len(s) - (i + 1) + 1) : c[j] = s[(i + 1) + j - 1]
    BY <1>1, SubSeqProperties
  <2> QED
    BY <1>1, <2>1
<1> HIDE DEF a, c
<1>4. /\ a \o c \in Seq(S) /\ Len(a \o c) = Len(a) + Len(c)
      /\ \A j \in 1..(Len(a) + Len(c)) : (a \o c)[j] = IF j <= Len(a) THEN a[j] ELSE c[j - Len(a)]
  BY <1>2, <1>3, ConcatProperties
<1>a. Len(a) = i - 1 /\ Len(a) + Len(c) = Len(s) - 1
  BY <1>1, <1>2, <1>3
<1>b. /\ a \o c \in Seq(S) /\ Len(a \o c) = Len(s) - 1
      /\ \A j \in 1..(Len(s) - 1) : (a \o c)[j] = IF j <= i - 1 THEN a[j] ELSE c[j - (i - 1)]
  BY <1>4, <1>a
<1>5. RemoveAt(s, i) = a \o c
  BY DEF RemoveAt, a, c
<1>6. ASSUME NEW j \in 1..(Len(s) - 1) PROVE RemoveAt(s, i)[j] = IF j < i THEN s[j] ELSE s[j + 1]
  <2>1. CASE j < i
    BY <1>1, <1>2, <1>5, <1>b, <2>1
  <2>2. CASE j >= i
    <3>1. j - (i - 1) \in 1..(Len(s) - i) /\ i + (j - (i - 1)) = j + 1 /\ ~(j <= i - 1) /\ ~(j < i)
      BY <1>1, <2>2
    <3>2. RemoveAt(s, i)[j] = c[j - (i - 1)]
      BY <1>5, <1>b, <3>1
    <3>3. c[j - (i - 1)] = s[i + (j - (i - 1))]
      BY <1>3, <3>1
    <3> QED
      BY <3>1, <3>2, <3>3
  <2> QED
    BY <1>1, <2>1, <2>2
<1> QED
  BY <1>5, <1>6, <1>b

LEMMA InsertIds ==
  ASSUME NEW t \in Tables, NEW i \in 1..(Len(t) + 1), NEW r \in Rows
  PROVE  InsertAt(t, i, r) \in Tables /\ IdsOf(InsertAt(t, i, r)) \subseteq IdsOf(t) \cup {r.id}
<1> DEFINE u == InsertAt(t, i, r)
<1>1. /\ u \in Seq(Rows) /\ Len(u) = Len(t) + 1 /\ Len(t) \in Nat
      /\ \A j \in 1..(Len(t) + 1) : u[j] = IF j < i THEN t[j] ELSE IF j = i THEN r ELSE t[j - 1]
  BY InsertAtIs DEF Tables
<1> HIDE DEF u
<1>2. ASSUME NEW j \in DOMAIN u PROVE u[j].id \in IdsOf(t) \cup {r.id}
  <2>1. j \in 1..(Len(t) + 1) /\ DOMAIN t = 1..Len(t)
    BY <1>1 DEF Tables
  <2>2. u[j] = r \/ \E k \in DOMAIN t : u[j] = t[k]
    <3>1. CASE j < i
      BY <1>1, <2>1, <3>1
    <3>2. CASE j = i
      BY <1>1, <2>1, <3>2
    <3>3. CASE j > i
      BY <1>1, <2>1, <3>3
    <3> QED
      BY <2>1, <3>1, <3>2, <3>3
  <2> QED
    BY <2>2 DEF IdsOf
<1>3. u \in Tables /\ IdsOf(u) \subseteq IdsOf(t) \cup {r.id}
  BY <1>1, <1>2 DEF Tables, IdsOf
<1> QED
  BY <1>3 DEF u

LEMMA RemoveIds ==
  ASSUME NEW t \in Tables, NEW i \in 1..Len(t)
  PROVE  RemoveAt(t, i) \in Tables /\ IdsOf(RemoveAt(t, i)) \subseteq IdsOf(t)
<1> DEFINE u == RemoveAt(t, i)
<1>1. /\ u \in Seq(Rows) /\ Len(u) = Len(t) - 1 /\ Len(t) \in Nat
      /\ \A j \in 1..(Len(t) - 1) : u[j] = IF j < i THEN t[j] ELSE t[j + 1]
  BY RemoveAtIs DEF Tables
<1> HIDE DEF u
<1>2. ASSUME NEW j \in DOMAIN u PROVE u[j].id \in IdsOf(t)
  <2>1. j \in 1..(Len(t) - 1) /\ DOMAIN t = 1..Len(t)
    BY <1>1 DEF Tables
  <2>2. \E k \in DOMAIN t : u[j] = t[k]
    BY <1>1, <2>1
  <2> QED
    BY <2>2 DEF IdsOf
<1>3. u \in Tables /\ IdsOf(u) \subseteq IdsOf(t)
  BY <1>1, <1>2 DEF Tables, IdsOf
<1> QED
  BY <1>3 DEF u

LEMMA AppendIds ==
  ASSUME NEW t \in Tables, NEW r \in Rows
  PROVE  Append(t, r) \in Tables /\ IdsOf(Append(t, r)) \subseteq IdsOf(t) \cup {r.id}
<1> DEFINE u == Append(t, r)
<1>1. /\ u \in Seq(Rows) /\ Len(u) = Len(t) + 1 /\ Len(t) \in Nat
      /\ \A j \in 1..Len(t) : u[j] = t[j]
      /\ u[Len(t) + 1] = r
  BY AppendProperties DEF Tables
<1> HIDE DEF u
<1>2. ASSUME NEW j \in DOMAIN u PROVE u[j].id \in IdsOf(t) \cup {r.id}
  <2>1. j \in 1..(Len(t) + 1) /\ DOMAIN t = 1..Len(t)
    BY <1>1 DEF Tables
  <2>2. u[j] = r \/ \E k \in DOMAIN t : u[j] = t[k]
    BY <1>1, <2>1
  <2> QED
    BY <2>2 DEF IdsOf
<1>3. u \in Tables /\ IdsOf(u) \subseteq IdsOf(t) \cup {r.id}
  BY <1>1, <1>2 DEF Tables, IdsOf
<1> QED
  BY <1>3 DEF u

LEMMA ReplaceIds ==
  ASSUME NEW t \in Tables, NEW i \in 1..Len(t), NEW r \in Rows
  PROVE  /\ [t EXCEPT ![i] = r] \in Tables
         /\ IdsOf([t EXCEPT ![i] = r]) \subseteq IdsOf(t) \cup {r.id}
<1> DEFINE u == [t EXCEPT ![i] = r]
<1>1. /\ u \in Seq(Rows) /\ Len(u) = Len(t) /\ Len(t) \in Nat
      /\ \A j \in 1..Len(t) : u[j] = IF j = i THEN r ELSE t[j]
  BY ExceptSeq DEF Tables
<1> HIDE DEF u
<1>2. ASSUME NEW j \in DOMAIN u PROVE u[j].id \in IdsOf(t) \cup {r.id}
  <2>1. j \in 1..Len(t) /\ DOMAIN t = 1..Len(t)
    BY <1>1 DEF Tables
  <2>2. u[j] = r \/ \E k \in DOMAIN t : u[j] = t[k]
    BY <1>1, <2>1
  <2> QED
    BY <2>2 DEF IdsOf
<1>3. u \in Tables /\ IdsOf(u) \subseteq IdsOf(t) \cup {r.id}
  BY <1>1, <1>2 DEF Tables, IdsOf
<1> QED
  BY <1>3 DEF u

LEMMA RowAt ==
  ASSUME NEW t \in Tables, NEW i \in 1..Len(t)
  PROVE  t[i] \in Rows /\ t[i].id \in IdsOf(t) /\ t[i].id \in Ids /\ t[i].val \in Vals
<1>1. t[i] \in Rows /\ i \in DOMAIN t
  BY DEF Tables
<1> QED
  BY <1>1 DEF Rows, IdsOf

LEMMA MovedIds ==
  ASSUME NEW t \in Tables, NEW i \in 1..Len(t), NEW j \in 1..Len(t)
  PROVE  Moved(t, i, j) \in Tables /\ IdsOf(Moved(t, i, j)) \subseteq IdsOf(t)
<1> DEFINE u == RemoveAt(t, i)
<1>1. u \in Tables /\ Len(u) = Len(t) - 1 /\ IdsOf(u) \subseteq IdsOf(t)
  BY RemoveAtIs, RemoveIds DEF Tables
<1>2. j \in 1..(Len(u) + 1) /\ t[i] \in Rows /\ t[i].id \in IdsOf(t)
  <2>1. Len(t) \in Nat
    BY DEF Tables
  <2> QED
    BY <1>1, <2>1, RowAt
<1> HIDE DEF u
<1>3. InsertAt(u, j, t[i]) \in Tables /\ IdsOf(InsertAt(u, j, t[i])) \subseteq IdsOf(u) \cup {t[i].id}
  BY <1>1, <1>2, InsertIds
<1> QED
  BY <1>1, <1>2, <1>3 DEF Moved, u

-----------------------------------------------------------------------------
(* The operations of a page, by kind.                                      *)

Fresh(n, v) == [id |-> Len(Start) + n, val |-> v]
Request(n, k, i, j, r) == [n |-> n, kind |-> k, at |-> i, to |-> j, row |-> r]

LEMMA AskedIs ==
  ASSUME NEW t \in Tables, NEW n, NEW o \in Asked(t, n)
  PROVE  \/ \E i \in {0, 1, Len(t) + 2}, v \in Typed : o = Request(n, "insert", i, 0, Fresh(n, v))
         \/ \E v \in Typed : o = Request(n, "append", Len(t) + 1, 0, Fresh(n, v))
         \/ \E i \in 1..Len(t) : o = Request(n, "delete", i, 0, t[i])
         \/ \E i \in 1..Len(t), v \in Typed : o = Request(n, "update", i, 0, [t[i] EXCEPT !.val = v])
         \/ \E i \in 1..Len(t), j \in 1..Len(t) : o = Request(n, "reorder", i, j, t[i])
BY DEF Asked, Positions, Request, Fresh

LEMMA FreshRow ==
  ASSUME NEW n \in 1..MaxOps, NEW v \in Typed
  PROVE  Fresh(n, v) \in Rows /\ Fresh(n, v).id = Len(Start) + n /\ v \in Vals
BY CollectionAssumption DEF Fresh, Rows

LEMMA SpliceIn ==
  ASSUME NEW t \in Tables, NEW i \in Nat
  PROVE  Splice(t, i) \in 1..(Len(t) + 1)
<1>1. Len(t) \in Nat /\ (t # <<>> => Len(t) >= 1)
  BY DEF Tables
<1> QED
  BY <1>1 DEF Splice

LEMMA LeastIndex ==
  ASSUME NEW I \in SUBSET Nat, I # {}
  PROVE  Min(I) \in I /\ \A j \in I : Min(I) <= j
<1>1. PICK x \in I : \A y \in I : ~(<<y, x>> \in OpToRel(<, Nat))
  BY NatLessThanWellFounded, WFMin
<1>2. ASSUME NEW y \in I PROVE x <= y
  <2>1. x \in Nat /\ y \in Nat
    OBVIOUS
  <2>2. ASSUME y < x PROVE FALSE
    <3>1. <<y, x>> \in Nat \X Nat /\ <<y, x>>[1] < <<y, x>>[2]
      BY <2>1, <2>2
    <3>2. <<y, x>> \in OpToRel(<, Nat)
      BY <3>1 DEF OpToRel
    <3> QED
      BY <1>1, <3>2
  <2> QED
    BY <2>1, <2>2
<1> QED
  BY <1>1, <1>2 DEF Min

LEMMA RowFound ==
  ASSUME NEW t \in Tables, NEW r
  PROVE  /\ IndexOf(t, r) \in 0..Len(t)
         /\ IndexOf(t, r) # 0 => t[IndexOf(t, r)] = r
         /\ IndexOf(t, r) = 0 => \A j \in 1..Len(t) : t[j] # r
<1> DEFINE I == {i \in 1..Len(t) : t[i] = r}
<1>1. I \in SUBSET Nat /\ Len(t) \in Nat
  BY DEF Tables
<1>2. IndexOf(t, r) = IF I # {} THEN Min(I) ELSE 0
  BY DEF IndexOf, SelectInSeq
<1>3. I # {} => Min(I) \in I
  BY <1>1, LeastIndex
<1> QED
  BY <1>1, <1>2, <1>3

LEMMA IdFound ==
  ASSUME NEW t \in Tables, NEW x
  PROVE  IndexOfId(t, x) \in 0..Len(t)
<1> DEFINE I == {i \in 1..Len(t) : t[i].id = x}
<1>1. I \in SUBSET Nat /\ Len(t) \in Nat
  BY DEF Tables
<1>2. IndexOfId(t, x) = IF I # {} THEN Min(I) ELSE 0
  BY DEF IndexOfId, SelectInSeq
<1>3. I # {} => Min(I) \in I
  BY <1>1, LeastIndex
<1> QED
  BY <1>1, <1>2, <1>3

\* Rewriting only the content of a row.
Patch(r, v) == [id |-> r.id, val |-> v]

LEMMA PatchedRow ==
  ASSUME NEW r \in Rows, NEW v \in Vals
  PROVE  [r EXCEPT !.val = v] = Patch(r, v) /\ Patch(r, v) \in Rows /\ Patch(r, v).id = r.id
BY DEF Rows, Patch

LEMMA LocalTable ==
  ASSUME NEW t \in Tables, NEW n \in 1..MaxOps, NEW o \in Asked(t, n)
  PROVE  /\ o \in Operations /\ o.n = n /\ o.row \in Rows
         /\ Local(o, t) \in Tables
         /\ IdsOf(Local(o, t)) \subseteq IdsOf(t) \cup {o.row.id}
         /\ o.row.id \in IdsOf(t) \cup {Len(Start) + n}
         /\ Undo(o, t) \in Undos /\ Undo(o, t).op = o
         /\ Undo(o, t).row.id \in IdsOf(t) \cup {o.row.id}
<1>0. n \in Nat /\ Len(t) \in Nat /\ {0, 1, Len(t) + 2} \subseteq Nat
  BY CollectionAssumption DEF Tables
<1>1. CASE \E i \in {0, 1, Len(t) + 2}, v \in Typed : o = Request(n, "insert", i, 0, Fresh(n, v))
  <2>1. PICK i \in {0, 1, Len(t) + 2}, v \in Typed : o = Request(n, "insert", i, 0, Fresh(n, v))
    BY <1>1
  <2>2. /\ o.n = n /\ o.kind = "insert" /\ o.at = i /\ o.row = Fresh(n, v) /\ i \in Nat
        /\ o \in Operations
    BY <1>0, <2>1, FreshRow DEF Request, Operations, Kinds
  <2>3. Local(o, t) = InsertAt(t, Splice(t, i), Fresh(n, v))
    BY <2>2 DEF Local
  <2>4. Undo(o, t) = [op |-> o, row |-> Fresh(n, v)]
    BY <2>2 DEF Undo, Adds
  <2>5. /\ InsertAt(t, Splice(t, i), Fresh(n, v)) \in Tables
        /\ IdsOf(InsertAt(t, Splice(t, i), Fresh(n, v))) \subseteq IdsOf(t) \cup {Fresh(n, v).id}
    BY <2>2, FreshRow, SpliceIn, InsertIds
  <2> QED
    BY <2>2, <2>3, <2>4, <2>5, FreshRow DEF Undos
<1>2. CASE \E v \in Typed : o = Request(n, "append", Len(t) + 1, 0, Fresh(n, v))
  <2>1. PICK v \in Typed : o = Request(n, "append", Len(t) + 1, 0, Fresh(n, v))
    BY <1>2
  <2>2. /\ o.n = n /\ o.kind = "append" /\ o.row = Fresh(n, v) /\ o \in Operations
    BY <1>0, <2>1, FreshRow DEF Request, Operations, Kinds
  <2>3. Local(o, t) = Append(t, Fresh(n, v))
    BY <2>2 DEF Local
  <2>4. Undo(o, t) = [op |-> o, row |-> Fresh(n, v)]
    BY <2>2 DEF Undo, Adds
  <2> QED
    BY <2>2, <2>3, <2>4, FreshRow, AppendIds DEF Undos
<1>3. CASE \E i \in 1..Len(t) : o = Request(n, "delete", i, 0, t[i])
  <2>1. PICK i \in 1..Len(t) : o = Request(n, "delete", i, 0, t[i])
    BY <1>3
  <2>2. /\ o.n = n /\ o.kind = "delete" /\ o.at = i /\ o.row = t[i] /\ o \in Operations
        /\ t[i] \in Rows /\ t[i].id \in IdsOf(t)
    BY <1>0, <2>1, RowAt DEF Request, Operations, Kinds
  <2>3. Local(o, t) = RemoveAt(t, i)
    BY <2>2 DEF Local
  <2>4. Undo(o, t) = [op |-> o, row |-> t[i]]
    BY <2>2 DEF Undo, Adds
  <2> QED
    BY <2>2, <2>3, <2>4, RemoveIds DEF Undos
<1>4. CASE \E i \in 1..Len(t), v \in Typed : o = Request(n, "update", i, 0, [t[i] EXCEPT !.val = v])
  <2>a. PICK i \in 1..Len(t), v \in Typed : o = Request(n, "update", i, 0, [t[i] EXCEPT !.val = v])
    BY <1>4
  <2>b. t[i] \in Rows
    BY RowAt
  <2>1. o = Request(n, "update", i, 0, Patch(t[i], v))
    BY <2>a, <2>b DEF Patch, Rows
  <2>2. /\ o.n = n /\ o.kind = "update" /\ o.at = i /\ o.row = Patch(t[i], v)
        /\ o \in Operations /\ o.row \in Rows /\ o.row.id = t[i].id
        /\ t[i] \in Rows /\ t[i].id \in IdsOf(t)
    <3>1. v \in Vals /\ t[i] \in Rows /\ t[i].id \in IdsOf(t)
      BY CollectionAssumption, RowAt
    <3>2. Patch(t[i], v) \in Rows /\ Patch(t[i], v).id = t[i].id
      BY <3>1, PatchedRow
    <3> QED
      BY <1>0, <2>1, <3>1, <3>2 DEF Request, Operations, Kinds
  <2>3. Local(o, t) = [t EXCEPT ![i] = o.row]
    BY <2>2 DEF Local
  <2>4. Undo(o, t) = [op |-> o, row |-> t[i]]
    BY <2>2 DEF Undo, Adds
  <2>5. Local(o, t) \in Tables /\ IdsOf(Local(o, t)) \subseteq IdsOf(t) \cup {o.row.id}
    <3>1. \A r \in Rows : /\ [t EXCEPT ![i] = r] \in Tables
                          /\ IdsOf([t EXCEPT ![i] = r]) \subseteq IdsOf(t) \cup {r.id}
      BY ReplaceIds
    <3> QED
      BY <2>2, <2>3, <3>1
  <2> QED
    BY <2>2, <2>4, <2>5 DEF Undos
<1>5. CASE \E i \in 1..Len(t), j \in 1..Len(t) : o = Request(n, "reorder", i, j, t[i])
  <2>1. PICK i \in 1..Len(t), j \in 1..Len(t) : o = Request(n, "reorder", i, j, t[i])
    BY <1>5
  <2>2. /\ o.n = n /\ o.kind = "reorder" /\ o.at = i /\ o.to = j /\ o.row = t[i] /\ o \in Operations
        /\ t[i] \in Rows /\ t[i].id \in IdsOf(t)
    BY <1>0, <2>1, RowAt DEF Request, Operations, Kinds
  <2>3. Local(o, t) = Moved(t, i, j)
    BY <2>2 DEF Local
  <2>4. Undo(o, t) = [op |-> o, row |-> t[i]]
    BY <2>2 DEF Undo, Adds
  <2> QED
    BY <2>2, <2>3, <2>4, MovedIds DEF Undos
<1> QED
  BY <1>1, <1>2, <1>3, <1>4, <1>5, AskedIs, ZenonT(60)

LEMMA CleanedRow ==
  ASSUME NEW r \in Rows
  PROVE  /\ Cleaned(r) = Patch(r, Sanitized[r.val])
         /\ Cleaned(r) \in Rows /\ Cleaned(r).id = r.id /\ Cleaned(r).val = Sanitized[r.val]
<1>1. r.val \in Vals /\ Sanitized[r.val] \in Vals
  BY CollectionAssumption DEF Rows
<1> QED
  BY <1>1 DEF Cleaned, Patch, Rows

LEMMA AppliedTable ==
  ASSUME NEW t \in Tables, NEW o \in Operations, o.at # 0, Legal(o, t)
  PROVE  Applied(o, t) \in Tables /\ IdsOf(Applied(o, t)) \subseteq IdsOf(t) \cup {o.row.id}
<1>0. o.at \in Nat /\ o.at >= 1 /\ o.to \in Nat /\ o.row \in Rows /\ o.kind \in Kinds /\ Len(t) \in Nat
      /\ Cleaned(o.row) \in Rows /\ Cleaned(o.row).id = o.row.id
      /\ Cleaned(o.row).val \in Vals
  <2>1. /\ o.at \in Nat /\ o.at >= 1 /\ o.to \in Nat /\ o.row \in Rows /\ o.kind \in Kinds
        /\ Len(t) \in Nat
    BY DEF Operations, Tables
  <2>2. Cleaned(o.row) \in Rows /\ Cleaned(o.row).id = o.row.id
    BY <2>1, CleanedRow
  <2> QED
    BY <2>1, <2>2 DEF Rows
<1>1. CASE o.kind = "insert"
  <2>1. o.at \in 1..(Len(t) + 1) /\ Applied(o, t) = InsertAt(t, o.at, Cleaned(o.row))
    BY <1>0, <1>1 DEF Legal, Applied
  <2> QED
    BY <1>0, <2>1, InsertIds
<1>2. CASE o.kind = "append"
  <2>1. Applied(o, t) = Append(t, Cleaned(o.row))
    BY <1>2 DEF Applied
  <2> QED
    BY <1>0, <2>1, AppendIds
<1>3. CASE o.kind = "delete"
  <2>1. o.at \in 1..Len(t) /\ Applied(o, t) = RemoveAt(t, o.at)
    BY <1>3 DEF Legal, Applied, Positions
  <2> QED
    BY <1>0, <2>1, RemoveIds
<1>4. CASE o.kind = "update"
  <2>1. o.at \in 1..Len(t) /\ Applied(o, t) = [t EXCEPT ![o.at].val = Cleaned(o.row).val]
    BY <1>4 DEF Legal, Applied, Positions
  <2> DEFINE r == Patch(t[o.at], Cleaned(o.row).val)
  <2>a. /\ r \in Rows
        /\ [t EXCEPT ![o.at].val = Cleaned(o.row).val] = [t EXCEPT ![o.at] = r]
    <3>1. Cleaned(o.row).val \in Vals /\ o.at \in 1..Len(t) /\ t[o.at] \in Rows
      BY <1>0, <2>1, RowAt
    <3>2. [t EXCEPT ![o.at].val = Cleaned(o.row).val]
            = [t EXCEPT ![o.at] = [t[o.at] EXCEPT !.val = Cleaned(o.row).val]]
      BY <3>1 DEF Tables
    <3>3. [t[o.at] EXCEPT !.val = Cleaned(o.row).val] = r
      BY <3>1 DEF Rows, Patch
    <3> QED
      BY <3>1, <3>2, <3>3, PatchedRow
  <2>2. r \in Rows /\ Applied(o, t) = [t EXCEPT ![o.at] = r] /\ r.id = t[o.at].id
    BY <2>1, <2>a DEF Patch
  <2>3. r.id \in IdsOf(t)
    BY <2>1, <2>2, RowAt
  <2> HIDE DEF r
  <2>4. /\ [t EXCEPT ![o.at] = r] \in Tables
        /\ IdsOf([t EXCEPT ![o.at] = r]) \subseteq IdsOf(t) \cup {r.id}
    BY <2>1, <2>2, ReplaceIds
  <2> QED
    BY <2>2, <2>3, <2>4
<1>5. CASE o.kind = "reorder"
  <2>1. o.at \in 1..Len(t) /\ o.to \in 1..Len(t) /\ Applied(o, t) = Moved(t, o.at, o.to)
    BY <1>5 DEF Legal, Applied, Positions
  <2> QED
    BY <1>0, <2>1, MovedIds
<1> QED
  BY <1>0, <1>1, <1>2, <1>3, <1>4, <1>5 DEF Kinds

LEMMA UndoneTable ==
  ASSUME NEW t \in Tables, NEW u \in Undos
  PROVE  Undone(u, t) \in Tables /\ IdsOf(Undone(u, t)) \subseteq IdsOf(t) \cup {u.row.id}
<1>0. /\ u.op \in Operations /\ u.row \in Rows /\ u.op.at \in Nat /\ u.op.to \in Nat /\ u.op.kind \in Kinds
      /\ Len(t) \in Nat /\ u.row.val \in Vals
  BY DEF Undos, Operations, Tables, Rows
<1>1. CASE Adds(u.op)
  <2>1. Undone(u, t) = IF IndexOf(t, u.row) # 0 THEN RemoveAt(t, IndexOf(t, u.row))
                       ELSE IF u.op.at \in Positions(t) THEN RemoveAt(t, u.op.at) ELSE t
    BY <1>1 DEF Undone, Adds
  <2>2. \A i \in 1..Len(t) : RemoveAt(t, i) \in Tables /\ IdsOf(RemoveAt(t, i)) \subseteq IdsOf(t)
    BY RemoveIds
  <2> QED
    BY <1>0, <2>1, <2>2, RowFound DEF Positions
<1>2. CASE u.op.kind = "delete"
  <2>1. Undone(u, t) = InsertAt(t, Splice(t, u.op.at), u.row)
    BY <1>2 DEF Undone, Adds
  <2> QED
    BY <1>0, <2>1, SpliceIn, InsertIds
<1>3. CASE u.op.kind = "update"
  <2> DEFINE i == IndexOfId(t, u.row.id)
  <2>1. Undone(u, t) = IF i = 0 THEN t ELSE [t EXCEPT ![i].val = u.row.val]
    BY <1>3 DEF Undone, Adds
  <2>2. i \in 0..Len(t)
    BY IdFound
  <2> HIDE DEF i
  <2>3. CASE i = 0
    BY <2>1, <2>3
  <2>4. CASE i # 0
    <3>1. i \in 1..Len(t)
      BY <1>0, <2>2, <2>4
    <3> DEFINE r == Patch(t[i], u.row.val)
    <3>a. /\ r \in Rows
          /\ [t EXCEPT ![i].val = u.row.val] = [t EXCEPT ![i] = r]
      <4>1. t[i] \in Rows
        BY <3>1, RowAt
      <4>2. [t EXCEPT ![i].val = u.row.val] = [t EXCEPT ![i] = [t[i] EXCEPT !.val = u.row.val]]
        BY <3>1 DEF Tables
      <4>3. [t[i] EXCEPT !.val = u.row.val] = r
        BY <4>1 DEF Rows, Patch
      <4> QED
        BY <1>0, <4>1, <4>2, <4>3, PatchedRow
    <3>2. r \in Rows /\ Undone(u, t) = [t EXCEPT ![i] = r] /\ r.id = t[i].id
      BY <2>1, <2>4, <3>a DEF Patch
    <3>3. r.id \in IdsOf(t)
      BY <3>1, <3>2, RowAt
    <3> HIDE DEF r
    <3>4. /\ [t EXCEPT ![i] = r] \in Tables
          /\ IdsOf([t EXCEPT ![i] = r]) \subseteq IdsOf(t) \cup {r.id}
      BY <3>1, <3>2, ReplaceIds
    <3> QED
      BY <3>2, <3>3, <3>4
  <2> QED
    BY <2>3, <2>4
<1>4. CASE u.op.kind = "reorder"
  <2>1. CASE u.op.to \notin Positions(t)
    BY <1>4, <2>1 DEF Undone, Adds
  <2>2. CASE u.op.to \in Positions(t)
    <3> DEFINE s == RemoveAt(t, u.op.to)
    <3>1. u.op.to \in 1..Len(t)
      BY <2>2 DEF Positions
    <3>2. Undone(u, t) = InsertAt(s, Splice(s, u.op.at), t[u.op.to])
      BY <1>4, <2>2 DEF Undone, Adds
    <3>3. s \in Tables /\ IdsOf(s) \subseteq IdsOf(t)
      BY <3>1, RemoveIds
    <3>4. t[u.op.to] \in Rows /\ t[u.op.to].id \in IdsOf(t)
      BY <3>1, RowAt
    <3> HIDE DEF s
    <3>5. Splice(s, u.op.at) \in 1..(Len(s) + 1)
      BY <1>0, <3>3, SpliceIn
    <3>6. /\ InsertAt(s, Splice(s, u.op.at), t[u.op.to]) \in Tables
          /\ IdsOf(InsertAt(s, Splice(s, u.op.at), t[u.op.to])) \subseteq IdsOf(s) \cup {t[u.op.to].id}
      BY <3>3, <3>4, <3>5, InsertIds
    <3> QED
      BY <3>2, <3>3, <3>4, <3>6
  <2> QED
    BY <2>1, <2>2
<1> QED
  BY <1>0, <1>1, <1>2, <1>3, <1>4 DEF Kinds, Adds

-----------------------------------------------------------------------------
(* What pages plan on and what the file has differ by cleaning only.       *)

SameRow(r, s) == s.id = r.id /\ s.val \in {r.val, Sanitized[r.val]}

LEMMA SameIs ==
  ASSUME NEW t \in Tables, NEW u \in Tables
  PROVE  /\ Same(t, u) <=> Len(u) = Len(t) /\ \A i \in 1..Len(t) : SameRow(t[i], u[i])
         /\ Same(t, t) /\ Len(t) \in Nat /\ Len(u) \in Nat
BY DEF Same, SameRow, Tables

LEMMA SameInsert ==
  ASSUME NEW t \in Tables, NEW u \in Tables, Same(t, u), NEW i \in 1..(Len(t) + 1),
         NEW r \in Rows, NEW s \in Rows, SameRow(r, s)
  PROVE  Same(InsertAt(t, i, r), InsertAt(u, i, s))
<1> DEFINE a == InsertAt(t, i, r)  b == InsertAt(u, i, s)
<1>1. /\ Len(u) = Len(t) /\ Len(t) \in Nat /\ t \in Seq(Rows) /\ u \in Seq(Rows)
      /\ \A j \in 1..Len(t) : SameRow(t[j], u[j])
  BY SameIs DEF Tables
<1>2. /\ a \in Tables /\ Len(a) = Len(t) + 1
      /\ \A j \in 1..(Len(t) + 1) : a[j] = IF j < i THEN t[j] ELSE IF j = i THEN r ELSE t[j - 1]
  <2>1. \A x \in Rows : /\ InsertAt(t, i, x) \in Seq(Rows) /\ Len(InsertAt(t, i, x)) = Len(t) + 1
                        /\ \A j \in 1..(Len(t) + 1) :
                             InsertAt(t, i, x)[j] = IF j < i THEN t[j] ELSE IF j = i THEN x ELSE t[j - 1]
    <3>1. t \in Seq(Rows) /\ i \in 1..(Len(t) + 1)
      BY <1>1
    <3> QED
      BY <3>1, InsertAtIs
  <2> QED
    BY <1>1, <2>1 DEF Tables
<1>3. /\ b \in Tables /\ Len(b) = Len(t) + 1
      /\ \A j \in 1..(Len(t) + 1) : b[j] = IF j < i THEN u[j] ELSE IF j = i THEN s ELSE u[j - 1]
  <2>1. i \in 1..(Len(u) + 1)
    BY <1>1
  <2> QED
    BY <1>1, <2>1, InsertAtIs DEF Tables
<1> HIDE DEF a, b
<1>4. ASSUME NEW j \in 1..Len(a) PROVE SameRow(a[j], b[j])
  <2>1. j \in 1..(Len(t) + 1)
    BY <1>2
  <2>2. CASE j < i
    <3>1. j \in 1..Len(t) /\ a[j] = t[j] /\ b[j] = u[j]
      BY <1>1, <1>2, <1>3, <2>1, <2>2
    <3> QED
      BY <1>1, <3>1
  <2>3. CASE j = i
    BY <1>2, <1>3, <2>1, <2>3
  <2>4. CASE j > i
    <3>1. j - 1 \in 1..Len(t) /\ a[j] = t[j - 1] /\ b[j] = u[j - 1]
      BY <1>1, <1>2, <1>3, <2>1, <2>4
    <3> QED
      BY <1>1, <3>1
  <2> QED
    BY <1>1, <2>1, <2>2, <2>3, <2>4
<1>5. Same(a, b)
  BY <1>2, <1>3, <1>4, SameIs
<1> QED
  BY <1>5 DEF a, b

LEMMA SameRemove ==
  ASSUME NEW t \in Tables, NEW u \in Tables, Same(t, u), NEW i \in 1..Len(t)
  PROVE  Same(RemoveAt(t, i), RemoveAt(u, i))
<1> DEFINE a == RemoveAt(t, i)  b == RemoveAt(u, i)
<1>1. /\ Len(u) = Len(t) /\ Len(t) \in Nat /\ t \in Seq(Rows) /\ u \in Seq(Rows)
      /\ \A j \in 1..Len(t) : SameRow(t[j], u[j])
  BY SameIs DEF Tables
<1>2. /\ a \in Tables /\ Len(a) = Len(t) - 1
      /\ \A j \in 1..(Len(t) - 1) : a[j] = IF j < i THEN t[j] ELSE t[j + 1]
  BY <1>1, RemoveAtIs DEF Tables
<1>3. /\ b \in Tables /\ Len(b) = Len(t) - 1
      /\ \A j \in 1..(Len(t) - 1) : b[j] = IF j < i THEN u[j] ELSE u[j + 1]
  <2>1. i \in 1..Len(u)
    BY <1>1
  <2> QED
    BY <1>1, <2>1, RemoveAtIs DEF Tables
<1> HIDE DEF a, b
<1>4. ASSUME NEW j \in 1..Len(a) PROVE SameRow(a[j], b[j])
  <2>1. j \in 1..(Len(t) - 1) /\ j \in 1..Len(t) /\ j + 1 \in 1..Len(t)
    BY <1>1, <1>2
  <2> QED
    BY <1>1, <1>2, <1>3, <2>1
<1>5. Same(a, b)
  BY <1>2, <1>3, <1>4, SameIs
<1> QED
  BY <1>5 DEF a, b

LEMMA SameAppend ==
  ASSUME NEW t \in Tables, NEW u \in Tables, Same(t, u), NEW r \in Rows, NEW s \in Rows, SameRow(r, s)
  PROVE  Same(Append(t, r), Append(u, s))
<1> DEFINE a == Append(t, r)  b == Append(u, s)
<1>1. /\ Len(u) = Len(t) /\ Len(t) \in Nat /\ t \in Seq(Rows) /\ u \in Seq(Rows)
      /\ \A j \in 1..Len(t) : SameRow(t[j], u[j])
  BY SameIs DEF Tables
<1>2. /\ a \in Tables /\ Len(a) = Len(t) + 1
      /\ \A j \in 1..Len(t) : a[j] = t[j] /\ a[Len(t) + 1] = r
  BY <1>1, AppendProperties DEF Tables
<1>3. /\ b \in Tables /\ Len(b) = Len(t) + 1
      /\ \A j \in 1..Len(t) : b[j] = u[j] /\ b[Len(t) + 1] = s
  BY <1>1, AppendProperties DEF Tables
<1>6. a[Len(t) + 1] = r /\ b[Len(t) + 1] = s
  BY <1>1, AppendProperties DEF Tables
<1> HIDE DEF a, b
<1>4. ASSUME NEW j \in 1..Len(a) PROVE SameRow(a[j], b[j])
  <2>1. CASE j \in 1..Len(t)
    BY <1>1, <1>2, <1>3, <2>1
  <2>2. CASE j = Len(t) + 1
    BY <1>6, <2>2
  <2> QED
    BY <1>1, <1>2, <2>1, <2>2
<1>5. Same(a, b)
  BY <1>2, <1>3, <1>4, SameIs
<1> QED
  BY <1>5 DEF a, b

LEMMA SameReplace ==
  ASSUME NEW t \in Tables, NEW u \in Tables, Same(t, u), NEW i \in 1..Len(t),
         NEW r \in Rows, NEW s \in Rows, SameRow(r, s)
  PROVE  Same([t EXCEPT ![i] = r], [u EXCEPT ![i] = s])
<1> DEFINE a == [t EXCEPT ![i] = r]  b == [u EXCEPT ![i] = s]
<1>1. /\ Len(u) = Len(t) /\ Len(t) \in Nat /\ t \in Seq(Rows) /\ u \in Seq(Rows)
      /\ \A j \in 1..Len(t) : SameRow(t[j], u[j])
  BY SameIs DEF Tables
<1>2. /\ a \in Tables /\ Len(a) = Len(t)
      /\ \A j \in 1..Len(t) : a[j] = IF j = i THEN r ELSE t[j]
  BY <1>1, ExceptSeq DEF Tables
<1>3. /\ b \in Tables /\ Len(b) = Len(t)
      /\ \A j \in 1..Len(t) : b[j] = IF j = i THEN s ELSE u[j]
  BY <1>1, ExceptSeq DEF Tables
<1> HIDE DEF a, b
<1>4. ASSUME NEW j \in 1..Len(a) PROVE SameRow(a[j], b[j])
  BY <1>1, <1>2, <1>3
<1>5. Same(a, b)
  BY <1>2, <1>3, <1>4, SameIs
<1> QED
  BY <1>5 DEF a, b

LEMMA SameMoved ==
  ASSUME NEW t \in Tables, NEW u \in Tables, Same(t, u), NEW i \in 1..Len(t), NEW j \in 1..Len(t)
  PROVE  Same(Moved(t, i, j), Moved(u, i, j))
<1> DEFINE a == RemoveAt(t, i)  b == RemoveAt(u, i)
<1>1. /\ Len(u) = Len(t) /\ Len(t) \in Nat /\ SameRow(t[i], u[i]) /\ i \in 1..Len(u)
  BY SameIs
<1>2. a \in Tables /\ b \in Tables /\ Same(a, b) /\ Len(a) = Len(t) - 1
  BY <1>1, RemoveIds, RemoveAtIs, SameRemove DEF Tables
<1>3. t[i] \in Rows /\ u[i] \in Rows /\ j \in 1..(Len(a) + 1)
  BY <1>1, <1>2, RowAt
<1> HIDE DEF a, b
<1>4. Same(InsertAt(a, j, t[i]), InsertAt(b, j, u[i]))
  BY <1>1, <1>2, <1>3, SameInsert
<1> QED
  BY <1>4 DEF Moved, a, b

\* What the server accepts on its table u is what the page could ask on its own t, and the
\* tables stay the same but for the cleaning.
LEMMA SameResult ==
  ASSUME NEW t \in Tables, NEW u \in Tables, Same(t, u), NEW n \in 1..MaxOps, NEW o \in Asked(t, n),
         o.at # 0
  PROVE  /\ Legal(o, u) <=> Legal(o, t)
         /\ Legal(o, u) => Same(Local(o, t), Applied(o, u))
<1>0. Len(t) \in Nat /\ Len(u) = Len(t) /\ \A i \in 1..Len(t) : SameRow(t[i], u[i])
  BY SameIs
<1>a. Legal(o, u) <=> Legal(o, t)
  BY <1>0 DEF Legal, Positions
<1>b. SUFFICES ASSUME Legal(o, t) PROVE Same(Local(o, t), Applied(o, u))
  BY <1>a
<1>1. CASE \E i \in {0, 1, Len(t) + 2}, v \in Typed : o = Request(n, "insert", i, 0, Fresh(n, v))
  <2>1. PICK i \in {0, 1, Len(t) + 2}, v \in Typed : o = Request(n, "insert", i, 0, Fresh(n, v))
    BY <1>1
  <2>2. o.kind = "insert" /\ o.at = i /\ o.row = Fresh(n, v)
    BY <2>1 DEF Request
  <2>3. i = 1
    BY <1>0, <1>b, <2>2 DEF Legal
  <2>4. Splice(t, o.at) = 1 /\ 1 \in 1..(Len(t) + 1)
    BY <1>0, <2>2, <2>3 DEF Splice
  <2>5. /\ Fresh(n, v) \in Rows /\ Cleaned(Fresh(n, v)) \in Rows
        /\ SameRow(Fresh(n, v), Cleaned(Fresh(n, v)))
    BY FreshRow, CleanedRow DEF SameRow
  <2>6. /\ Local(o, t) = InsertAt(t, 1, Fresh(n, v))
        /\ Applied(o, u) = InsertAt(u, 1, Cleaned(Fresh(n, v)))
    BY <2>2, <2>3, <2>4 DEF Applied, Local
  <2>7. Same(InsertAt(t, 1, Fresh(n, v)), InsertAt(u, 1, Cleaned(Fresh(n, v))))
    BY <2>4, <2>5, SameInsert
  <2> QED
    BY <2>6, <2>7
<1>2. CASE \E v \in Typed : o = Request(n, "append", Len(t) + 1, 0, Fresh(n, v))
  <2>1. PICK v \in Typed : o = Request(n, "append", Len(t) + 1, 0, Fresh(n, v))
    BY <1>2
  <2>2. o.kind = "append" /\ o.row = Fresh(n, v)
    BY <2>1 DEF Request
  <2>5. /\ Fresh(n, v) \in Rows /\ Cleaned(Fresh(n, v)) \in Rows
        /\ SameRow(Fresh(n, v), Cleaned(Fresh(n, v)))
    BY FreshRow, CleanedRow DEF SameRow
  <2>6. /\ Local(o, t) = Append(t, Fresh(n, v))
        /\ Applied(o, u) = Append(u, Cleaned(Fresh(n, v)))
    BY <2>2 DEF Applied, Local
  <2>7. Same(Append(t, Fresh(n, v)), Append(u, Cleaned(Fresh(n, v))))
    BY <2>5, SameAppend
  <2> QED
    BY <2>6, <2>7
<1>3. CASE \E i \in 1..Len(t) : o = Request(n, "delete", i, 0, t[i])
  <2>1. PICK i \in 1..Len(t) : o = Request(n, "delete", i, 0, t[i])
    BY <1>3
  <2>2. Local(o, t) = RemoveAt(t, i) /\ Applied(o, u) = RemoveAt(u, i)
    BY <2>1 DEF Request, Applied, Local
  <2> QED
    BY <2>2, SameRemove
<1>4. CASE \E i \in 1..Len(t), v \in Typed : o = Request(n, "update", i, 0, [t[i] EXCEPT !.val = v])
  <2>1. PICK i \in 1..Len(t), v \in Typed : o = Request(n, "update", i, 0, [t[i] EXCEPT !.val = v])
    BY <1>4
  <2>2. t[i] \in Rows /\ u[i] \in Rows /\ v \in Vals /\ u \in Seq(Rows) /\ i \in DOMAIN u
    <3>1. i \in 1..Len(u)
      BY <1>0
    <3> QED
      BY <3>1, RowAt, CollectionAssumption DEF Tables
  <2>3. /\ o.kind = "update" /\ o.at = i /\ o.row = Patch(t[i], v)
    BY <2>1, <2>2 DEF Request, Rows, Patch
  <2>4. Patch(t[i], v) \in Rows /\ Patch(t[i], v).id = t[i].id /\ Patch(t[i], v).val = v
    BY <2>2, PatchedRow DEF Patch
  <2>5. Cleaned(o.row).val = Sanitized[v] /\ Sanitized[v] \in Vals
    BY <2>2, <2>3, <2>4, CleanedRow, CollectionAssumption
  <2> DEFINE w == Sanitized[v]
  <2> HIDE DEF w
  <2>6. /\ [u EXCEPT ![i].val = w] = [u EXCEPT ![i] = [u[i] EXCEPT !.val = w]]
        /\ [u[i] EXCEPT !.val = w] = Patch(u[i], w)
        /\ Patch(u[i], w) \in Rows /\ Patch(u[i], w).id = u[i].id /\ Patch(u[i], w).val = w
    <3>1. w \in Vals
      BY <2>5 DEF w
    <3>2. [u EXCEPT ![i].val = w] = [u EXCEPT ![i] = [u[i] EXCEPT !.val = w]]
      BY <2>2
    <3>3. /\ [u[i] EXCEPT !.val = w] = Patch(u[i], w)
          /\ Patch(u[i], w) \in Rows /\ Patch(u[i], w).id = u[i].id
      BY <2>2, <3>1, PatchedRow
    <3> QED
      BY <3>2, <3>3 DEF Patch
  <2>7. /\ Local(o, t) = [t EXCEPT ![i] = Patch(t[i], v)]
        /\ Applied(o, u) = [u EXCEPT ![i].val = w]
    BY <2>3, <2>5 DEF Applied, Local, w
  <2>8. SameRow(Patch(t[i], v), Patch(u[i], w))
    <3>1. u[i].id = t[i].id
      BY <1>0 DEF SameRow
    <3> QED
      BY <2>4, <2>6, <3>1 DEF SameRow, w
  <2>9. Same([t EXCEPT ![i] = Patch(t[i], v)], [u EXCEPT ![i] = Patch(u[i], w)])
    BY <2>4, <2>6, <2>8, SameReplace
  <2> QED
    BY <2>6, <2>7, <2>9
<1>5. CASE \E i \in 1..Len(t), j \in 1..Len(t) : o = Request(n, "reorder", i, j, t[i])
  <2>1. PICK i \in 1..Len(t), j \in 1..Len(t) : o = Request(n, "reorder", i, j, t[i])
    BY <1>5
  <2>2. Local(o, t) = Moved(t, i, j) /\ Applied(o, u) = Moved(u, i, j)
    BY <2>1 DEF Request, Applied, Local
  <2> QED
    BY <2>2, SameMoved
<1> QED
  BY <1>1, <1>2, <1>3, <1>4, <1>5, AskedIs, ZenonT(60)

\* Only an insertion beyond the end is refused there, and it is undone exactly.
LEMMA UndoExact ==
  ASSUME NEW t \in Tables, NEW n \in 1..MaxOps, NEW o \in Asked(t, n), o.at # 0, ~Legal(o, t),
         Len(Start) + n \notin IdsOf(t)
  PROVE  Undone(Undo(o, t), Local(o, t)) = t
<1>0. Len(t) \in Nat
  BY DEF Tables
<1>1. \E i \in {0, 1, Len(t) + 2}, v \in Typed : o = Request(n, "insert", i, 0, Fresh(n, v))
  <2>1. CASE \E v \in Typed : o = Request(n, "append", Len(t) + 1, 0, Fresh(n, v))
    BY <2>1 DEF Request, Legal
  <2>2. CASE \E i \in 1..Len(t) : o = Request(n, "delete", i, 0, t[i])
    BY <2>2 DEF Request, Legal, Positions
  <2>3. CASE \E i \in 1..Len(t), v \in Typed : o = Request(n, "update", i, 0, [t[i] EXCEPT !.val = v])
    BY <2>3 DEF Request, Legal, Positions
  <2>4. CASE \E i \in 1..Len(t), j \in 1..Len(t) : o = Request(n, "reorder", i, j, t[i])
    BY <2>4 DEF Request, Legal, Positions
  <2> QED
    BY <2>1, <2>2, <2>3, <2>4, AskedIs
<1>2. PICK i \in {0, 1, Len(t) + 2}, v \in Typed : o = Request(n, "insert", i, 0, Fresh(n, v))
  BY <1>1
<1>3. o.kind = "insert" /\ o.at = i /\ o.row = Fresh(n, v) /\ i = Len(t) + 2
  BY <1>0, <1>2 DEF Request, Legal
<1>4. Fresh(n, v) \in Rows /\ Fresh(n, v).id = Len(Start) + n
  BY FreshRow
<1> DEFINE k == Len(t) + 1  s == InsertAt(t, k, Fresh(n, v))
<1>5. Local(o, t) = s /\ Undo(o, t).row = Fresh(n, v) /\ Adds(Undo(o, t).op)
  BY <1>0, <1>3 DEF Local, Splice, Undo, Adds
<1>6. /\ s \in Tables /\ Len(s) = k
      /\ \A j \in 1..k : s[j] = IF j < k THEN t[j] ELSE Fresh(n, v)
  <2>1. k \in 1..(Len(t) + 1) /\ t \in Seq(Rows)
    BY <1>0 DEF Tables
  <2>2. /\ s \in Seq(Rows) /\ Len(s) = Len(t) + 1
        /\ \A j \in 1..(Len(t) + 1) : s[j] = IF j < k THEN t[j] ELSE IF j = k THEN Fresh(n, v) ELSE t[j - 1]
    <3>1. \A r \in Rows : /\ InsertAt(t, k, r) \in Seq(Rows) /\ Len(InsertAt(t, k, r)) = Len(t) + 1
                          /\ \A j \in 1..(Len(t) + 1) :
                               InsertAt(t, k, r)[j] = IF j < k THEN t[j] ELSE IF j = k THEN r ELSE t[j - 1]
      <4> HIDE DEF k
      <4> QED
        BY <2>1, InsertAtIs
    <3> QED
      BY <1>4, <3>1
  <2> QED
    BY <1>0, <2>2 DEF Tables
<1> HIDE DEF s
<1>7. \A j \in 1..Len(t) : t[j] # Fresh(n, v)
  BY <1>4, RowAt
<1>8. IndexOf(s, Fresh(n, v)) = k
  <2>1. /\ IndexOf(s, Fresh(n, v)) \in 0..Len(s)
        /\ IndexOf(s, Fresh(n, v)) # 0 => s[IndexOf(s, Fresh(n, v))] = Fresh(n, v)
        /\ IndexOf(s, Fresh(n, v)) = 0 => \A j \in 1..Len(s) : s[j] # Fresh(n, v)
    BY <1>6, RowFound
  <2>2. k \in 1..Len(s) /\ s[k] = Fresh(n, v)
    BY <1>0, <1>6
  <2> QED
    BY <1>0, <1>6, <1>7, <2>1, <2>2
<1>9. RemoveAt(s, k) = t
  <2>1. /\ RemoveAt(s, k) \in Seq(Rows) /\ Len(RemoveAt(s, k)) = Len(t)
        /\ \A j \in 1..(Len(s) - 1) : RemoveAt(s, k)[j] = IF j < k THEN s[j] ELSE s[j + 1]
    <3>1. s \in Seq(Rows) /\ k \in 1..Len(s) /\ Len(s) - 1 = Len(t)
      BY <1>0, <1>6 DEF Tables
    <3> QED
      BY <3>1, RemoveAtIs
  <2>2. \A j \in 1..Len(t) : RemoveAt(s, k)[j] = t[j]
    BY <1>0, <1>6, <2>1
  <2>3. t \in Seq(Rows) /\ Len(RemoveAt(s, k)) = Len(t)
    BY <2>1 DEF Tables
  <2> HIDE DEF k
  <2> QED
    BY <2>1, <2>2, <2>3, SeqEqual
<1>10. Undone(Undo(o, t), s) = RemoveAt(s, k)
  BY <1>0, <1>5, <1>8 DEF Undone, Adds
<1> QED
  BY <1>5, <1>9, <1>10

-----------------------------------------------------------------------------
LEMMA Taken ==
  ASSUME NEW S, NEW s \in Seq(S), s # <<>>
  PROVE  /\ Tail(s) \in Seq(S) /\ Len(Tail(s)) = Len(s) - 1 /\ Len(s) \in Nat /\ Len(s) >= 1
         /\ Head(s) = s[1] /\ Head(s) \in S
         /\ DOMAIN s = 1..Len(s) /\ DOMAIN Tail(s) = 1..(Len(s) - 1)
         /\ \A x \in 1..(Len(s) - 1) : Tail(s)[x] = s[x + 1]
OBVIOUS

\* An inbox with an answer and a broadcast behind it.
Mail(b, a, d) == b \o a \o d

\* What is known of the inbox c that is b with an answer a and a broadcast d behind it.
IsMail(b, a, d, c) ==
  /\ c \in Seq(Messages)
  /\ Len(c) = Len(b) + Len(a) + Len(d)
  /\ DOMAIN c = 1..(Len(b) + Len(a) + Len(d))
  /\ Len(b) \in Nat /\ Len(a) \in Nat /\ Len(d) \in Nat /\ DOMAIN b = 1..Len(b)
  /\ \A x \in 1..Len(b) : c[x] = b[x]
  /\ \A x \in 1..Len(a) : c[Len(b) + x] = a[x]
  /\ \A x \in 1..Len(d) : c[Len(b) + Len(a) + x] = d[x]

LEMMA Joined ==
  ASSUME NEW s \in Seq(Messages), NEW a \in Seq(Messages), NEW b \in Seq(Messages)
  PROVE  IsMail(s, a, b, Mail(s, a, b))
<1>1. Len(s) \in Nat /\ Len(a) \in Nat /\ Len(b) \in Nat /\ DOMAIN s = 1..Len(s)
  OBVIOUS
<1>2. /\ s \o a \in Seq(Messages) /\ Len(s \o a) = Len(s) + Len(a)
      /\ \A x \in 1..(Len(s) + Len(a)) : (s \o a)[x] = IF x <= Len(s) THEN s[x] ELSE a[x - Len(s)]
  BY ConcatProperties
<1> DEFINE c == s \o a
<1> HIDE DEF c
<1>3. /\ c \in Seq(Messages) /\ Len(c) = Len(s) + Len(a)
      /\ \A x \in 1..(Len(s) + Len(a)) : c[x] = IF x <= Len(s) THEN s[x] ELSE a[x - Len(s)]
  BY <1>2 DEF c
<1>4. /\ c \o b \in Seq(Messages) /\ Len(c \o b) = Len(c) + Len(b)
      /\ \A x \in 1..(Len(c) + Len(b)) : (c \o b)[x] = IF x <= Len(c) THEN c[x] ELSE b[x - Len(c)]
  <2>1. c \in Seq(Messages) /\ b \in Seq(Messages)
    BY <1>3
  <2> QED
    BY <2>1, ConcatProperties
<1>5. s \o a \o b = c \o b
  BY DEF c
<1> DEFINE d == c \o b
<1> HIDE DEF d
<1>6. /\ d \in Seq(Messages) /\ Len(d) = Len(s) + Len(a) + Len(b)
      /\ \A x \in 1..(Len(s) + Len(a) + Len(b)) :
           d[x] = IF x <= Len(s) + Len(a) THEN c[x] ELSE b[x - (Len(s) + Len(a))]
  BY <1>1, <1>3, <1>4 DEF d
<1>7. \A x \in 1..Len(s) : d[x] = s[x]
  BY <1>1, <1>3, <1>6
<1>8. ASSUME NEW x \in 1..Len(a) PROVE d[Len(s) + x] = a[x]
  <2>1. /\ Len(s) + x \in 1..(Len(s) + Len(a)) /\ Len(s) + x \in 1..(Len(s) + Len(a) + Len(b))
        /\ Len(s) + x - Len(s) = x /\ ~(Len(s) + x <= Len(s)) /\ Len(s) + x <= Len(s) + Len(a)
    BY <1>1
  <2>2. d[Len(s) + x] = c[Len(s) + x]
    BY <1>6, <2>1
  <2>3. c[Len(s) + x] = a[Len(s) + x - Len(s)]
    BY <1>3, <2>1
  <2> QED
    BY <2>1, <2>2, <2>3
<1>9. ASSUME NEW x \in 1..Len(b) PROVE d[Len(s) + Len(a) + x] = b[x]
  <2>1. /\ Len(s) + Len(a) + x \in 1..(Len(s) + Len(a) + Len(b))
        /\ Len(s) + Len(a) + x - (Len(s) + Len(a)) = x
        /\ ~(Len(s) + Len(a) + x <= Len(s) + Len(a))
    BY <1>1
  <2> QED
    BY <1>6, <2>1
<1>10. DOMAIN d = 1..(Len(s) + Len(a) + Len(b))
  BY <1>6
<1>11. Mail(s, a, b) = d
  BY <1>5 DEF d, Mail
<1>12. IsMail(s, a, b, d)
  BY <1>1, <1>6, <1>7, <1>8, <1>9, <1>10 DEF IsMail
<1> QED
  BY <1>11, <1>12

-----------------------------------------------------------------------------
(* What each step does, and that it keeps the types.                       *)

\* What the types say of one page, and of one connection.
LEMMA PageTyped ==
  ASSUME TypeOK, NEW p \in Pages
  PROVE  /\ Current(p) \in Tables /\ view[p] \in Tables /\ (plan[p] \in Tables \/ plan[p] = None)
         /\ pending[p] \in SUBSET Undos /\ heard[p] \in SUBSET Nat
         /\ conn[p] \in Conns \/ conn[p] = None
         /\ inbox[p] \in Seq(Messages) /\ fetch[p] \in Fetches /\ fetch[p].text \in Tables
         /\ ops \in Nat /\ ops \in 0..MaxOps
         /\ (file \in Tables \/ file \in {Empty, Garbled})
<1>1. plan[p] \in Tables \/ plan[p] = None
  BY DEF TypeOK, Tables
<1>2. Current(p) \in Tables /\ view[p] \in Tables
  BY <1>1 DEF TypeOK, Tables, Current
<1>3. ops \in Nat /\ ops \in 0..MaxOps
  BY CollectionAssumption DEF TypeOK
<1>4. fetch[p] \in Fetches
  BY DEF TypeOK
<1>5. fetch[p].text \in Tables
  BY <1>4 DEF Fetches, Tables
<1> QED
  BY <1>1, <1>2, <1>3, <1>4, <1>5 DEF TypeOK, Undos, Tables

LEMMA ConnTyped ==
  ASSUME TypeOK, NEW c \in Conns
  PROVE  /\ sent[c] \in Seq(Operations) /\ job[c] \in Jobs
         /\ job[c].next \in Tables /\ job[c].n \in Nat /\ job[c].ok \in BOOLEAN
<1>1. job[c] \in Jobs /\ sent[c] \in Seq(Operations)
  BY DEF TypeOK
<1> QED
  BY <1>1 DEF Jobs, Tables

\* A handler's record with its place changed.
At(j, a) == [at |-> a, n |-> j.n, ok |-> j.ok, next |-> j.next]

LEMMA JobSteps ==
  ASSUME TypeOK, NEW c \in Conns
  PROVE  /\ Open(c) => job' = [job EXCEPT ![c] = At(job[c], "write")]
         /\ Write(c) => job' = [job EXCEPT ![c] = At(job[c], "answer")]
         /\ {At(job[c], "write"), At(job[c], "answer")} \subseteq Jobs
<1>1. job[c] \in Jobs /\ DOMAIN job = Conns
  BY DEF TypeOK
<1>2. \A a : [job[c] EXCEPT !.at = a] = At(job[c], a)
  BY <1>1 DEF Jobs, At
<1>3. \A g : [job EXCEPT ![c].at = g] = [job EXCEPT ![c] = [job[c] EXCEPT !.at = g]]
  BY <1>1
<1>4. {At(job[c], "write"), At(job[c], "answer")} \subseteq Jobs
  BY <1>1 DEF Jobs, At
<1> QED
  BY <1>1, <1>2, <1>3, <1>4 DEF Open, Write

\* The plan a mutator makes.
LEMMA Planned ==
  ASSUME TypeOK, NEW p \in Pages, Mutate(p)
  PROVE  /\ ops' = ops + 1 /\ ops + 1 \in 1..MaxOps
         /\ \E o \in Asked(Current(p), ops + 1) :
              /\ o \in Operations /\ o.n = ops + 1
              /\ Undo(o, Current(p)) \in Undos /\ Undo(o, Current(p)).op = o
              /\ Local(o, Current(p)) \in Tables
              /\ plan' = [plan EXCEPT ![p] = Local(o, Current(p))]
              /\ view' = [view EXCEPT ![p] = Local(o, Current(p))]
              /\ conn[p] # None =>
                   /\ sent' = [sent EXCEPT ![conn[p]] = Append(sent[conn[p]], o)]
                   /\ pending' = [pending EXCEPT ![p] = pending[p] \cup {Undo(o, Current(p))}]
                   /\ lost' = lost
              /\ conn[p] = None => /\ UNCHANGED <<sent, pending>>
                                   /\ lost' = [lost EXCEPT ![p] = TRUE]
         /\ early' = [early EXCEPT ![p] = early[p] \/ fetch[p].at \in {"asked", "coming"}]
         /\ UNCHANGED <<file, fetch, conn, inbox, job, troubles, heard, foreign, tangled, refused,
                        overlapped>>
<1>1. PICK o \in Asked(Current(p), ops + 1) :
        /\ plan' = [plan EXCEPT ![p] = Local(o, Current(p))]
        /\ view' = [view EXCEPT ![p] = plan'[p]]
        /\ IF conn[p] # None
           THEN /\ sent' = [sent EXCEPT ![conn[p]] = Append(@, o)]
                /\ pending' = [pending EXCEPT ![p] = @ \cup {Undo(o, Current(p))}]
                /\ UNCHANGED lost
           ELSE /\ lost' = [lost EXCEPT ![p] = TRUE]
                /\ UNCHANGED <<sent, pending>>
  BY DEF Mutate
<1>2. ops + 1 \in 1..MaxOps /\ ops' = ops + 1
  BY CollectionAssumption DEF Mutate, TypeOK
<1>3. /\ o \in Operations /\ o.n = ops + 1 /\ Undo(o, Current(p)) \in Undos
      /\ Undo(o, Current(p)).op = o /\ Local(o, Current(p)) \in Tables
  BY <1>2, PageTyped, LocalTable
<1>4. plan'[p] = Local(o, Current(p))
  BY <1>1 DEF TypeOK
<1>5. /\ early' = [early EXCEPT ![p] = early[p] \/ fetch[p].at \in {"asked", "coming"}]
      /\ UNCHANGED <<file, fetch, conn, inbox, job, troubles, heard, foreign, tangled, refused,
                     overlapped>>
  BY DEF Mutate
<1>6. conn[p] # None => sent' = [sent EXCEPT ![conn[p]] = Append(sent[conn[p]], o)]
                        /\ pending' = [pending EXCEPT ![p] = pending[p] \cup {Undo(o, Current(p))}]
                        /\ lost' = lost
  BY <1>1
<1>7. conn[p] = None => UNCHANGED <<sent, pending>> /\ lost' = [lost EXCEPT ![p] = TRUE]
  BY <1>1
<1> QED
  BY <1>1, <1>2, <1>3, <1>4, <1>5, <1>6, <1>7

LEMMA MutateTypes ==
  ASSUME TypeOK, NEW p \in Pages, Mutate(p)
  PROVE  TypeOK'
<1>1. PICK o \in Operations, t \in Tables, u \in Undos :
        /\ plan' = [plan EXCEPT ![p] = t] /\ view' = [view EXCEPT ![p] = t]
        /\ conn[p] # None => /\ sent' = [sent EXCEPT ![conn[p]] = Append(sent[conn[p]], o)]
                             /\ pending' = [pending EXCEPT ![p] = pending[p] \cup {u}]
                             /\ lost' = lost
        /\ conn[p] = None => UNCHANGED <<sent, pending>> /\ lost' = [lost EXCEPT ![p] = TRUE]
  BY Planned
<1>2. /\ ops' = ops + 1 /\ ops + 1 \in 1..MaxOps
      /\ early' = [early EXCEPT ![p] = early[p] \/ fetch[p].at \in {"asked", "coming"}]
      /\ UNCHANGED <<file, fetch, conn, inbox, job, troubles, heard, foreign, tangled, refused,
                     overlapped>>
  BY Planned
<1>3. plan' \in [Pages -> Seq(Rows) \cup {None}] /\ view' \in [Pages -> Seq(Rows)]
  BY <1>1 DEF TypeOK, Tables
<1>4. /\ sent' \in [Conns -> Seq(Operations)] /\ lost' \in [Pages -> BOOLEAN]
      /\ pending' \in [Pages -> SUBSET [op : Operations, row : Rows]]
  <2>1. CASE conn[p] # None
    <3>1. /\ pending[p] \cup {u} \in SUBSET [op : Operations, row : Rows]
          /\ conn[p] \in Conns
      BY <2>1 DEF TypeOK, Undos
    <3>2. Append(sent[conn[p]], o) \in Seq(Operations)
      BY <3>1 DEF TypeOK
    <3>3. /\ sent' = [sent EXCEPT ![conn[p]] = Append(sent[conn[p]], o)]
          /\ pending' = [pending EXCEPT ![p] = pending[p] \cup {u}] /\ lost' = lost
      BY <1>1, <2>1
    <3>4. sent' \in [Conns -> Seq(Operations)] /\ lost' \in [Pages -> BOOLEAN]
      BY <3>1, <3>2, <3>3 DEF TypeOK
    <3>5. pending' \in [Pages -> SUBSET [op : Operations, row : Rows]]
      BY <3>1, <3>3 DEF TypeOK
    <3> QED
      BY <3>4, <3>5
  <2>2. CASE conn[p] = None
    BY <1>1, <2>2 DEF TypeOK
  <2> QED
    BY <2>1, <2>2
<1>5. ops' \in 0..MaxOps /\ early' \in [Pages -> BOOLEAN]
  BY <1>2 DEF TypeOK
<1> QED
  BY <1>2, <1>3, <1>4, <1>5 DEF TypeOK

\* The operation whose refusal the page hears of.
Struck(p) == {u \in pending[p] : Head(inbox[p]).type = "Reject" /\ u.op.n = Head(inbox[p]).n}

\* What every delivery does.
LEMMA Delivered ==
  ASSUME TypeOK, NEW p \in Pages, Deliver(p)
  PROVE  /\ inbox[p] # <<>> /\ inbox' = [inbox EXCEPT ![p] = Tail(inbox[p])]
         /\ Head(inbox[p]) \in Messages
         /\ pending' = [pending EXCEPT ![p] = pending[p] \ Struck(p)]
         /\ heard' = [heard EXCEPT ![p] = IF Head(inbox[p]).type = "Update" THEN heard[p]
                                          ELSE heard[p] \cup {Head(inbox[p]).n}]
         /\ lost' = [lost EXCEPT ![p] = lost[p] \/ (/\ Head(inbox[p]).type = "Update"
                                                    /\ fetch[p].at = "coming")]
         /\ UNCHANGED <<file, fetch, conn, sent, job, ops, troubles, early, foreign, overlapped>>
<1> DEFINE m == Head(inbox[p])
<1>1. /\ inbox[p] # <<>> /\ inbox' = [inbox EXCEPT ![p] = Tail(inbox[p])]
      /\ heard' = IF m.type = "Update" THEN heard ELSE [heard EXCEPT ![p] = @ \cup {m.n}]
  BY DEF Deliver
<1>2. heard = [heard EXCEPT ![p] = heard[p]]
  BY DEF TypeOK
<1>3. m \in Messages
  <2>1. inbox[p] \in Seq(Messages)
    BY DEF TypeOK
  <2> QED
    BY <1>1, <2>1, Taken
<1>4. heard' = [heard EXCEPT ![p] = IF m.type = "Update" THEN heard[p] ELSE heard[p] \cup {m.n}]
  <2> HIDE DEF m
  <2> QED
    BY <1>1, <1>2
<1>5. /\ pending' = [pending EXCEPT ![p] = pending[p] \ Struck(p)]
      /\ lost' = [lost EXCEPT ![p] = lost[p] \/ (m.type = "Update" /\ fetch[p].at = "coming")]
      /\ UNCHANGED <<file, fetch, conn, sent, job, ops, troubles, early, foreign, overlapped>>
  BY DEF Deliver, counters, Struck
<1> QED
  BY <1>1, <1>3, <1>4, <1>5

\* Only a refusal of something pending changes the plan, and only a broadcast else the view.
LEMMA Called ==
  ASSUME TypeOK, NEW p \in Pages, Deliver(p)
  PROVE  /\ Struck(p) # {} => \E u \in Struck(p) :
              /\ u \in Undos /\ Undone(u, Current(p)) \in Tables
              /\ plan' = [plan EXCEPT ![p] = Undone(u, Current(p))]
              /\ view' = [view EXCEPT ![p] = Undone(u, Current(p))]
              /\ refused' = [refused EXCEPT ![p] = TRUE]
              /\ tangled' = [tangled EXCEPT ![p] = tangled[p] \/ Unheard(p) # Struck(p)]
         /\ Struck(p) = {} =>
              /\ UNCHANGED <<plan, refused, tangled>>
              /\ view' = [view EXCEPT ![p] = IF Head(inbox[p]).type = "Update"
                                             THEN Head(inbox[p]).data ELSE view[p]]
<1> DEFINE m == Head(inbox[p])
<1>1. IF Struck(p) # {}
      THEN LET u == CHOOSE x \in Struck(p) : TRUE
           IN /\ plan' = [plan EXCEPT ![p] = Undone(u, Current(p))]
              /\ view' = [view EXCEPT ![p] = plan'[p]]
              /\ refused' = [refused EXCEPT ![p] = TRUE]
              /\ tangled' = [tangled EXCEPT ![p] = @ \/ Unheard(p) # Struck(p)]
      ELSE /\ view' = IF m.type = "Update" THEN [view EXCEPT ![p] = m.data] ELSE view
           /\ UNCHANGED <<plan, refused, tangled>>
  BY DEF Deliver, Struck
<1>2. CASE Struck(p) # {}
  <2> DEFINE u == CHOOSE x \in Struck(p) : TRUE
  <2>1. u \in Struck(p)
    BY <1>2
  <2>2. /\ plan' = [plan EXCEPT ![p] = Undone(u, Current(p))]
        /\ view' = [view EXCEPT ![p] = plan'[p]]
        /\ refused' = [refused EXCEPT ![p] = TRUE]
        /\ tangled' = [tangled EXCEPT ![p] = tangled[p] \/ Unheard(p) # Struck(p)]
    BY <1>1, <1>2
  <2> HIDE DEF u
  <2>3. u \in Undos /\ Current(p) \in Tables
    BY <2>1, PageTyped DEF Struck
  <2>4. Undone(u, Current(p)) \in Tables
    BY <2>3, UndoneTable
  <2>5. plan'[p] = Undone(u, Current(p))
    BY <2>2 DEF TypeOK
  <2> QED
    BY <1>2, <2>1, <2>2, <2>3, <2>4, <2>5
<1>3. CASE Struck(p) = {}
  <2>1. /\ view' = IF m.type = "Update" THEN [view EXCEPT ![p] = m.data] ELSE view
        /\ UNCHANGED <<plan, refused, tangled>>
    BY <1>1, <1>3
  <2> HIDE DEF m
  <2>2. view = [view EXCEPT ![p] = view[p]]
    BY DEF TypeOK
  <2>3. view' = [view EXCEPT ![p] = IF m.type = "Update" THEN m.data ELSE view[p]]
    BY <2>1, <2>2
  <2> QED
    BY <1>3, <2>1, <2>3 DEF m
<1> QED
  BY <1>2, <1>3

LEMMA DeliverTypes ==
  ASSUME TypeOK, NEW p \in Pages, Deliver(p)
  PROVE  TypeOK'
<1>1. /\ inbox[p] # <<>> /\ inbox' = [inbox EXCEPT ![p] = Tail(inbox[p])]
      /\ Head(inbox[p]) \in Messages
      /\ \E S \in SUBSET pending[p] : pending' = [pending EXCEPT ![p] = S]
      /\ heard' = [heard EXCEPT ![p] = IF Head(inbox[p]).type = "Update" THEN heard[p]
                                       ELSE heard[p] \cup {Head(inbox[p]).n}]
      /\ \E x \in BOOLEAN : lost' = [lost EXCEPT ![p] = x]
      /\ UNCHANGED <<file, fetch, conn, sent, job, ops, troubles, early, foreign, overlapped>>
  <2>1. \A x : (lost[p] \/ x) \in BOOLEAN
    OBVIOUS
  <2> QED
    BY <2>1, Delivered
<1>2. Head(inbox[p]).n \in Nat /\ Head(inbox[p]).data \in Tables
  BY <1>1 DEF Messages, Tables
<1>3. Tail(inbox[p]) \in Seq(Messages)
  <2>1. inbox[p] \in Seq(Messages)
    BY DEF TypeOK
  <2> QED
    BY <1>1, <2>1, Taken
<1>4. inbox' \in [Pages -> Seq(Messages)] /\ heard' \in [Pages -> SUBSET Nat]
  BY <1>1, <1>2, <1>3 DEF TypeOK
<1>5. /\ pending' \in [Pages -> SUBSET [op : Operations, row : Rows]]
      /\ lost' \in [Pages -> BOOLEAN]
  BY <1>1 DEF TypeOK
<1>6. \E t \in Tables, w \in Tables \cup {None}, x, y \in BOOLEAN :
        /\ plan' = [plan EXCEPT ![p] = w] /\ view' = [view EXCEPT ![p] = t]
        /\ refused' = [refused EXCEPT ![p] = x] /\ tangled' = [tangled EXCEPT ![p] = y]
  <2>1. CASE Struck(p) # {}
    <3>1. \A x : (tangled[p] \/ x) \in BOOLEAN
      OBVIOUS
    <3>2. PICK u \in Struck(p) : /\ u \in Undos /\ Undone(u, Current(p)) \in Tables
                         /\ plan' = [plan EXCEPT ![p] = Undone(u, Current(p))]
                         /\ view' = [view EXCEPT ![p] = Undone(u, Current(p))]
                         /\ refused' = [refused EXCEPT ![p] = TRUE]
                         /\ tangled' = [tangled EXCEPT ![p] = tangled[p] \/ Unheard(p) # Struck(p)]
      BY <2>1, Called
    <3> QED
      BY <3>1, <3>2
  <2>2. CASE Struck(p) = {}
    <3>1. /\ UNCHANGED <<plan, refused, tangled>>
          /\ view' = [view EXCEPT ![p] = IF Head(inbox[p]).type = "Update"
                                         THEN Head(inbox[p]).data ELSE view[p]]
      BY <2>2, Called
    <3>2. /\ plan' = [plan EXCEPT ![p] = plan[p]] /\ refused' = [refused EXCEPT ![p] = refused[p]]
          /\ tangled' = [tangled EXCEPT ![p] = tangled[p]]
      BY <3>1 DEF TypeOK
    <3>3. plan[p] \in Tables \cup {None} /\ refused[p] \in BOOLEAN /\ tangled[p] \in BOOLEAN
          /\ (IF Head(inbox[p]).type = "Update" THEN Head(inbox[p]).data ELSE view[p]) \in Tables
      BY <1>2 DEF TypeOK, Tables
    <3> QED
      BY <3>1, <3>2, <3>3
  <2> QED
    BY <2>1, <2>2
<1>7. /\ plan' \in [Pages -> Seq(Rows) \cup {None}] /\ view' \in [Pages -> Seq(Rows)]
      /\ refused' \in [Pages -> BOOLEAN] /\ tangled' \in [Pages -> BOOLEAN]
  BY <1>6 DEF TypeOK, Tables
<1> QED
  BY <1>1, <1>4, <1>5, <1>7 DEF TypeOK

LEMMA PageTypes ==
  ASSUME TypeOK, NEW p \in Pages,
         Load(p) \/ Serve(p) \/ Arrive(p) \/ Disconnect(p) \/ Connect(p)
  PROVE  TypeOK'
<1>0. <<>> \in Seq(Rows) /\ <<>> \in Seq(Messages) /\ \A at \in {"asked", "failed"} : Fetch(at) \in Fetches
  BY DEF Fetch, Fetches
<1>1. CASE Load(p)
  <2>1. /\ plan' = [plan EXCEPT ![p] = None] /\ view' = [view EXCEPT ![p] = <<>>]
        /\ fetch' = [fetch EXCEPT ![p] = Fetch("asked")]
        /\ pending' = [pending EXCEPT ![p] = {}] /\ heard' = [heard EXCEPT ![p] = {}]
        /\ conn' = [conn EXCEPT ![p] = None] /\ inbox' = [inbox EXCEPT ![p] = <<>>]
        /\ troubles' = [troubles EXCEPT ![p] = @ + 1]
        /\ early' = [early EXCEPT ![p] = FALSE] /\ foreign' = [foreign EXCEPT ![p] = FALSE]
        /\ tangled' = [tangled EXCEPT ![p] = FALSE] /\ refused' = [refused EXCEPT ![p] = FALSE]
        /\ lost' = [lost EXCEPT ![p] = FALSE]
        /\ UNCHANGED <<file, sent, job, ops, overlapped>>
    BY <1>1 DEF Load
  <2>2. /\ plan' \in [Pages -> Seq(Rows) \cup {None}] /\ view' \in [Pages -> Seq(Rows)]
        /\ fetch' \in [Pages -> Fetches]
        /\ pending' \in [Pages -> SUBSET [op : Operations, row : Rows]]
        /\ heard' \in [Pages -> SUBSET Nat] /\ conn' \in [Pages -> Conns \cup {None}]
        /\ inbox' \in [Pages -> Seq(Messages)] /\ troubles' \in [Pages -> Nat]
    BY <1>0, <2>1 DEF TypeOK
  <2>3. {early', foreign', tangled', refused', lost'} \subseteq [Pages -> BOOLEAN]
    BY <2>1 DEF TypeOK
  <2> QED
    BY <2>1, <2>2, <2>3 DEF TypeOK
<1>2. CASE Serve(p)
  <2>1. fetch' = [fetch EXCEPT ![p] = IF file \in {Empty, Garbled} THEN Fetch("failed")
                                      ELSE [at |-> "coming", text |-> file]]
    BY <1>2 DEF Serve
  <2>2. file \notin {Empty, Garbled} => [at |-> "coming", text |-> file] \in Fetches
    BY DEF TypeOK, Fetches
  <2>3. fetch' \in [Pages -> Fetches]
    BY <1>0, <2>1, <2>2 DEF TypeOK
  <2> QED
    BY <1>2, <2>3 DEF Serve, TypeOK, counters, histVars, noted
<1>3. CASE Arrive(p)
  <2>1. fetch[p].text \in Seq(Rows) /\ Fetch("shown") \in Fetches
    BY PageTyped DEF Tables, Fetch, Fetches
  <2>2. /\ plan' = [plan EXCEPT ![p] = fetch[p].text] /\ view' = [view EXCEPT ![p] = fetch[p].text]
        /\ fetch' = [fetch EXCEPT ![p] = Fetch("shown")]
        /\ UNCHANGED <<file, pending, conn, inbox, sent, job, ops, troubles, heard, early, foreign,
                       tangled, refused, lost, overlapped>>
    BY <1>3 DEF Arrive, counters, histVars, noted
  <2>3. /\ plan' \in [Pages -> Seq(Rows) \cup {None}] /\ view' \in [Pages -> Seq(Rows)]
        /\ fetch' \in [Pages -> Fetches]
    BY <2>1, <2>2 DEF TypeOK
  <2> QED
    BY <2>2, <2>3 DEF TypeOK
<1>4. CASE Disconnect(p)
  <2>1. /\ conn' = [conn EXCEPT ![p] = None] /\ inbox' = [inbox EXCEPT ![p] = <<>>]
        /\ lost' = [lost EXCEPT ![p] = TRUE] /\ troubles' = [troubles EXCEPT ![p] = @ + 1]
        /\ UNCHANGED <<file, plan, view, fetch, pending, sent, job, ops, heard, early, foreign,
                       tangled, refused, overlapped>>
    BY <1>4 DEF Disconnect
  <2>2. /\ conn' \in [Pages -> Conns \cup {None}] /\ inbox' \in [Pages -> Seq(Messages)]
        /\ lost' \in [Pages -> BOOLEAN] /\ troubles' \in [Pages -> Nat]
    BY <1>0, <2>1 DEF TypeOK
  <2> QED
    BY <2>1, <2>2 DEF TypeOK
<1>5. CASE Connect(p)
  <2>1. PICK c \in Conns : conn' = [conn EXCEPT ![p] = c]
    BY <1>5 DEF Connect
  <2>2. conn' \in [Pages -> Conns \cup {None}]
    BY <2>1 DEF TypeOK
  <2> QED
    BY <1>5, <2>2 DEF Connect, TypeOK, counters, histVars, noted
<1> QED
  BY <1>1, <1>2, <1>3, <1>4, <1>5

\* What the handler makes of the oldest operation.
LEMMA Started ==
  ASSUME TypeOK, NEW c \in Conns, Read(c)
  PROVE  /\ job[c].at = "none" /\ sent[c] # <<>> /\ Head(sent[c]).at # 0
         /\ Head(sent[c]) \in Operations
         /\ sent' = [sent EXCEPT ![c] = Tail(sent[c])]
         /\ \E j \in Jobs :
              /\ job' = [job EXCEPT ![c] = j] /\ j.n = Head(sent[c]).n
              /\ \/ /\ j.at = "open" /\ j.ok /\ file \in Tables /\ Legal(Head(sent[c]), file)
                    /\ j.next = Applied(Head(sent[c]), file)
                 \/ /\ j.at = "answer" /\ ~j.ok /\ j.next = <<>>
                    /\ file \in Tables => ~Legal(Head(sent[c]), file)
         /\ overlapped' = (overlapped \/ \E d \in Conns \ {c} : Busy(d))
         /\ UNCHANGED <<file, plan, view, fetch, pending, conn, inbox, ops, troubles, heard, early,
                        foreign, tangled, refused, lost>>
<1> DEFINE o == Head(sent[c])
<1>1. /\ job[c].at = "none" /\ sent[c] # <<>> /\ o.at # 0 /\ sent' = [sent EXCEPT ![c] = Tail(sent[c])]
      /\ overlapped' = (overlapped \/ \E d \in Conns \ {c} : Busy(d))
      /\ UNCHANGED <<file, plan, view, fetch, pending, conn, inbox, ops, troubles, heard, early,
                     foreign, tangled, refused, lost>>
  BY DEF Read, Busy, pageVars, counters
<1>2. o \in Operations
  <2>1. sent[c] \in Seq(Operations)
    BY DEF TypeOK
  <2> QED
    BY <1>1, <2>1, Taken
<1>3. o.n \in Nat
  BY <1>2 DEF Operations
<1>4. CASE file \notin {Empty, Garbled} /\ Legal(o, file)
  <2>1. job' = [job EXCEPT ![c] = [at |-> "open", n |-> o.n, ok |-> TRUE, next |-> Applied(o, file)]]
    BY <1>4 DEF Read, Finished
  <2>2. file \in Tables
    BY <1>4 DEF TypeOK, Tables
  <2> HIDE DEF o
  <2>3. Applied(o, file) \in Tables
    BY <1>1, <1>2, <1>4, <2>2, AppliedTable
  <2> DEFINE j == [at |-> "open", n |-> o.n, ok |-> TRUE, next |-> Applied(o, file)]
  <2>4. j \in Jobs
    BY <1>3, <2>3 DEF Jobs, Tables
  <2>5. /\ job' = [job EXCEPT ![c] = j] /\ j.n = o.n
        /\ j.at = "open" /\ j.ok /\ file \in Tables /\ Legal(o, file) /\ j.next = Applied(o, file)
    BY <1>4, <2>1, <2>2
  <2> HIDE DEF j
  <2> QED
    BY <1>1, <1>2, <2>4, <2>5 DEF o
<1>5. CASE ~(file \notin {Empty, Garbled} /\ Legal(o, file))
  <2> DEFINE j == [at |-> "answer", n |-> o.n, ok |-> FALSE, next |-> <<>>]
  <2>1. job' = [job EXCEPT ![c] = j]
    BY <1>5 DEF Read, Finished
  <2>2. file \in Tables => ~Legal(o, file)
    BY <1>5, CollectionAssumption DEF Tables
  <2> HIDE DEF o
  <2>4. j \in Jobs
    BY <1>3 DEF Jobs
  <2>5. j.n = o.n /\ j.at = "answer" /\ ~j.ok /\ j.next = <<>>
    OBVIOUS
  <2> HIDE DEF j
  <2> QED
    BY <1>1, <1>2, <2>1, <2>2, <2>4, <2>5 DEF o
<1> QED
  BY <1>4, <1>5

\* What the end of a handler puts into each inbox.
ReplyTo(c, p) == IF conn[p] = c THEN Reply(c) ELSE <<>>

LEMMA Posted ==
  ASSUME TypeOK, NEW c \in Conns, NEW p \in Pages, Answer(c)
  PROVE  /\ job[c].at = "answer" /\ job' = [job EXCEPT ![c] = NoJob]
         /\ inbox'[p] = IF conn[p] # None THEN Mail(inbox[p], ReplyTo(c, p), Update(c)) ELSE inbox[p]
         /\ ReplyTo(c, p) \in Seq(Messages) /\ Len(ReplyTo(c, p)) \in {0, 1}
         /\ Len(ReplyTo(c, p)) = 1 =>
              /\ conn[p] = c
              /\ ReplyTo(c, p)[1].type = IF job[c].ok THEN "Ack" ELSE "Reject"
              /\ ReplyTo(c, p)[1].n = job[c].n
         /\ Len(ReplyTo(c, p)) = 0 => ReplyTo(c, p) = <<>> /\ conn[p] # c
         /\ conn[p] # c => ReplyTo(c, p) = <<>>
         /\ Update(c) \in Seq(Messages) /\ Len(Update(c)) \in {0, 1}
         /\ Len(Update(c)) = 1 => /\ job[c].ok /\ Update(c)[1].type = "Update" /\ Update(c)[1].n = 0
                                  /\ Update(c)[1].data = job[c].next
         /\ Len(Update(c)) = 0 => ~job[c].ok /\ Update(c) = <<>>
         /\ foreign'[p] = (foreign[p] \/ (conn[p] # c /\ job[c].ok))
         /\ lost'[p] = (lost[p] \/ (conn[p] = None /\ fetch[p].at # "asked" /\ job[c].ok))
         /\ UNCHANGED <<file, plan, view, fetch, pending, conn, sent, ops, troubles, heard, early,
                        tangled, refused, overlapped>>
<1>1. job[c].at = "answer" /\ job' = [job EXCEPT ![c] = NoJob]
  BY DEF Answer
<1>2. inbox'[p] = IF conn[p] # None THEN Mail(inbox[p], ReplyTo(c, p), Update(c)) ELSE inbox[p]
  BY DEF Answer, ReplyTo, Mail
<1>3. ReplyTo(c, p) \in Seq(Messages) /\ Update(c) \in Seq(Messages)
  <2>1. /\ [type |-> IF job[c].ok THEN "Ack" ELSE "Reject", n |-> job[c].n, data |-> <<>>] \in Messages
        /\ [type |-> "Update", n |-> 0, data |-> job[c].next] \in Messages
    BY ConnTyped DEF Messages, Tables
  <2> QED
    BY <2>1 DEF ReplyTo, Reply, Update
<1>4. /\ Len(ReplyTo(c, p)) \in {0, 1} /\ (conn[p] # c => ReplyTo(c, p) = <<>>)
      /\ Len(ReplyTo(c, p)) = 1 =>
           /\ conn[p] = c
           /\ ReplyTo(c, p)[1].type = IF job[c].ok THEN "Ack" ELSE "Reject"
           /\ ReplyTo(c, p)[1].n = job[c].n
      /\ Len(ReplyTo(c, p)) = 0 => ReplyTo(c, p) = <<>> /\ conn[p] # c
  BY DEF ReplyTo, Reply
<1>5. /\ Len(Update(c)) \in {0, 1}
      /\ Len(Update(c)) = 1 => /\ job[c].ok /\ Update(c)[1].type = "Update" /\ Update(c)[1].n = 0
                               /\ Update(c)[1].data = job[c].next
      /\ Len(Update(c)) = 0 => ~job[c].ok /\ Update(c) = <<>>
  BY DEF Update
<1>6. /\ foreign'[p] = (foreign[p] \/ (conn[p] # c /\ job[c].ok))
      /\ lost'[p] = (lost[p] \/ (conn[p] = None /\ fetch[p].at # "asked" /\ job[c].ok))
  BY DEF Answer
<1>7. UNCHANGED <<file, plan, view, fetch, pending, conn, sent, ops, troubles, heard, early,
                  tangled, refused, overlapped>>
  BY DEF Answer, pageVars, counters
<1> QED
  BY <1>1, <1>2, <1>3, <1>4, <1>5, <1>6, <1>7

LEMMA HandlerTypes ==
  ASSUME TypeOK, NEW c \in Conns, Handle(c) \/ Hangup(c)
  PROVE  TypeOK'
<1>1. CASE Read(c)
  <2>1. /\ sent[c] # <<>> /\ sent' = [sent EXCEPT ![c] = Tail(sent[c])]
        /\ \E j \in Jobs : job' = [job EXCEPT ![c] = j]
        /\ overlapped' = (overlapped \/ \E d \in Conns \ {c} : Busy(d))
        /\ UNCHANGED <<file, plan, view, fetch, pending, conn, inbox, ops, troubles, heard, early,
                       foreign, tangled, refused, lost>>
    BY <1>1, Started
  <2>2. Tail(sent[c]) \in Seq(Operations)
    BY <2>1, ConnTyped, Taken
  <2>3. overlapped' \in BOOLEAN
    BY <2>1 DEF TypeOK
  <2>4. sent' \in [Conns -> Seq(Operations)] /\ job' \in [Conns -> Jobs]
    BY <2>1, <2>2 DEF TypeOK
  <2> QED
    BY <2>1, <2>3, <2>4 DEF TypeOK
<1>2. CASE Ignore(c)
  <2>1. /\ sent' = [sent EXCEPT ![c] = Tail(sent[c])] /\ sent[c] # <<>>
        /\ lost' = [p \in Pages |-> lost[p] \/ conn[p] = c]
        /\ UNCHANGED <<file, plan, view, fetch, pending, conn, inbox, job, ops, troubles, heard,
                       early, foreign, tangled, refused, overlapped>>
    BY <1>2 DEF Ignore, pageVars, counters
  <2>2. Tail(sent[c]) \in Seq(Operations)
    BY <2>1, ConnTyped, Taken
  <2>3. lost' \in [Pages -> BOOLEAN]
    BY <2>1
  <2>4. sent' \in [Conns -> Seq(Operations)]
    BY <2>1, <2>2 DEF TypeOK
  <2> QED
    BY <2>1, <2>3, <2>4 DEF TypeOK
<1>3. CASE Open(c) \/ Write(c)
  <2>1. /\ foreign' = [p \in Pages |-> foreign[p] \/ conn[p] # c]
        /\ UNCHANGED <<plan, view, fetch, pending, conn, inbox, sent, ops, troubles, heard, early,
                       tangled, refused, lost, overlapped>>
    BY <1>3 DEF Open, Write, pageVars, counters
  <2>2. file' \in {Empty, Garbled, job[c].next}
    BY <1>3 DEF Open, Write
  <2>3. job' \in [Conns -> Jobs]
    BY <1>3, JobSteps, ZenonT(60) DEF TypeOK
  <2>4. file' \in Seq(Rows) \cup {Empty, Garbled}
    BY <2>2, ConnTyped DEF Tables
  <2>5. foreign' \in [Pages -> BOOLEAN]
    BY <2>1
  <2> QED
    BY <2>1, <2>3, <2>4, <2>5 DEF TypeOK
<1>4. CASE Answer(c)
  <2>1. /\ job' = [job EXCEPT ![c] = NoJob]
        /\ foreign' = [p \in Pages |-> foreign[p] \/ (conn[p] # c /\ job[c].ok)]
        /\ lost' = [p \in Pages |-> lost[p] \/ (conn[p] = None /\ fetch[p].at # "asked" /\ job[c].ok)]
        /\ UNCHANGED <<file, plan, view, fetch, pending, conn, sent, ops, troubles, heard, early,
                       tangled, refused, overlapped>>
    BY <1>4 DEF Answer, pageVars, counters
  <2>2. ASSUME NEW p \in Pages PROVE inbox'[p] \in Seq(Messages)
    <3>1. /\ inbox'[p] = IF conn[p] # None THEN Mail(inbox[p], ReplyTo(c, p), Update(c)) ELSE inbox[p]
          /\ ReplyTo(c, p) \in Seq(Messages) /\ Update(c) \in Seq(Messages) /\ inbox[p] \in Seq(Messages)
      BY <1>4, Posted, PageTyped
    <3>2. Mail(inbox[p], ReplyTo(c, p), Update(c)) \in Seq(Messages)
      BY <3>1 DEF Mail
    <3> QED
      BY <3>1, <3>2
  <2>3. inbox' \in [Pages -> Seq(Messages)]
    <3>1. inbox' = [p \in Pages |-> inbox'[p]]
      BY <1>4 DEF Answer
    <3> QED
      BY <2>2, <3>1
  <2>4. job' \in [Conns -> Jobs]
    BY <2>1 DEF TypeOK, NoJob, Jobs
  <2>5. foreign' \in [Pages -> BOOLEAN] /\ lost' \in [Pages -> BOOLEAN]
    BY <2>1
  <2> QED
    BY <2>1, <2>3, <2>4, <2>5 DEF TypeOK
<1>5. CASE Hangup(c)
  <2>1. sent' \in [Conns -> Seq(Operations)]
    BY <1>5 DEF Hangup, TypeOK
  <2> QED
    BY <1>5, <2>1 DEF Hangup, TypeOK, pageVars, counters, histVars, noted
<1> QED
  BY <1>1, <1>2, <1>3, <1>4, <1>5 DEF Handle

\* Every step keeps the types.
LEMMA TypeStep ==
  ASSUME TypeOK, [Next]_vars
  PROVE  TypeOK'
<1>1. CASE Next
  BY <1>1, MutateTypes, DeliverTypes, PageTypes, HandlerTypes DEF Next
<1>2. CASE UNCHANGED vars
  BY <1>2 DEF TypeOK, vars, pageVars, counters, histVars, noted
<1> QED
  BY <1>1, <1>2

LEMMA TypeInit ==
  ASSUME Init
  PROVE  TypeOK
<1>1. NoJob \in Jobs /\ Fetch("shown") \in Fetches
  BY DEF NoJob, Jobs, Fetch, Fetches
<1>2. {early, foreign, tangled, refused, lost} \subseteq [Pages -> BOOLEAN] /\ overlapped \in BOOLEAN
  BY DEF Init
<1>3. /\ plan \in [Pages -> Seq(Rows) \cup {None}] /\ view \in [Pages -> Seq(Rows)]
      /\ file \in Seq(Rows) /\ ops \in 0..MaxOps /\ troubles \in [Pages -> Nat]
  BY CollectionAssumption DEF Init
<1>4. First \in [Pages -> Conns]
  BY CollectionAssumption DEF Injection
<1>5. <<>> \in Seq(Operations) /\ <<>> \in Seq(Messages)
  OBVIOUS
<1>6. /\ sent \in [Conns -> Seq(Operations)] /\ inbox \in [Pages -> Seq(Messages)]
      /\ job \in [Conns -> Jobs] /\ conn \in [Pages -> Conns \cup {None}]
      /\ fetch \in [Pages -> Fetches]
  BY <1>1, <1>4, <1>5 DEF Init
<1>7. /\ pending \in [Pages -> SUBSET [op : Operations, row : Rows]]
      /\ heard \in [Pages -> SUBSET Nat]
  BY DEF Init
<1> QED
  BY <1>2, <1>3, <1>6, <1>7 DEF TypeOK

\* Every text of the file is a table or one of the two that are not, every row that is
\* planned, shown or on its way is a row, and every message is of its form.
THEOREM TypeCorrect == Spec => []TypeOK
<1>1. Init => TypeOK
  BY TypeInit
<1>2. TypeOK /\ [Next]_vars => TypeOK'
  BY TypeStep
<1> QED
  BY <1>1, <1>2, PTL DEF Spec


-----------------------------------------------------------------------------
(* The way of a page to the server: what it sent over its connection, the  *)
(* handler of that, and which connection is whose.                         *)

Sent(p) == IF conn[p] = None THEN <<>> ELSE sent[conn[p]]
JobOf(p) == IF conn[p] = None THEN NoJob ELSE job[conn[p]]

Wired ==
  /\ \A p, q \in Pages : conn[p] = conn[q] /\ conn[p] # None => p = q
  /\ \A p \in Pages : conn[p] = None => inbox[p] = <<>>
  /\ \A c \in Conns : job[c].at = "none" => job[c] = NoJob
  /\ \A c \in Conns : job[c].at \in {"open", "write"} => job[c].ok

LEMMA WayTyped ==
  ASSUME TypeOK, NEW p \in Pages
  PROVE  /\ Sent(p) \in Seq(Operations) /\ JobOf(p) \in Jobs /\ Unheard(p) \in SUBSET Undos
         /\ Unheard(p) \subseteq pending[p]
<1>1. NoJob \in Jobs /\ <<>> \in Seq(Operations)
  BY DEF NoJob, Jobs
<1>2. Sent(p) \in Seq(Operations) /\ JobOf(p) \in Jobs
  BY <1>1, PageTyped, ConnTyped DEF Sent, JobOf
<1> QED
  BY <1>2, PageTyped DEF Unheard

\* A step that leaves a page alone.
Aside(p) ==
  /\ plan'[p] = plan[p] /\ view'[p] = view[p] /\ fetch'[p] = fetch[p]
  /\ pending'[p] = pending[p] /\ heard'[p] = heard[p] /\ conn'[p] = conn[p]
  /\ inbox'[p] = inbox[p] /\ early'[p] = early[p] /\ tangled'[p] = tangled[p]
  /\ refused'[p] = refused[p] /\ lost'[p] = lost[p]
  /\ Sent(p)' = Sent(p) /\ JobOf(p)' = JobOf(p) /\ Unheard(p)' = Unheard(p)

LEMMA StaysAside ==
  ASSUME NEW p \in Pages,
         plan'[p] = plan[p], view'[p] = view[p], fetch'[p] = fetch[p],
         pending'[p] = pending[p], heard'[p] = heard[p], conn'[p] = conn[p],
         inbox'[p] = inbox[p], early'[p] = early[p], tangled'[p] = tangled[p],
         refused'[p] = refused[p], lost'[p] = lost[p],
         conn[p] # None => sent'[conn[p]] = sent[conn[p]] /\ job'[conn[p]] = job[conn[p]]
  PROVE  Aside(p)
<1>1. Sent(p)' = Sent(p) /\ JobOf(p)' = JobOf(p)
  BY DEF Sent, JobOf, NoJob
<1>2. Unheard(p)' = Unheard(p)
  BY DEF Unheard
<1> QED
  BY <1>1, <1>2 DEF Aside

\* Another page's own steps.
LEMMA OthersAside ==
  ASSUME TypeOK, Wired, NEW p \in Pages, NEW q \in Pages, q # p,
         Mutate(q) \/ Deliver(q) \/ Load(q) \/ Serve(q) \/ Arrive(q) \/ Disconnect(q) \/ Connect(q)
  PROVE  Aside(p)
<1>0. /\ conn[p] # None => conn[p] # conn[q] /\ conn[p] \in Conns
      /\ conn[q] # None => conn[q] \in Conns
  BY DEF Wired, TypeOK
<1>1. CASE Mutate(q)
  <2>1. PICK o \in Asked(Current(q), ops + 1) :
          /\ plan' = [plan EXCEPT ![q] = Local(o, Current(q))]
          /\ view' = [view EXCEPT ![q] = Local(o, Current(q))]
          /\ conn[q] # None => /\ sent' = [sent EXCEPT ![conn[q]] = Append(sent[conn[q]], o)]
                               /\ pending' = [pending EXCEPT ![q] = pending[q] \cup {Undo(o, Current(q))}]
                               /\ lost' = lost
          /\ conn[q] = None => UNCHANGED <<sent, pending>> /\ lost' = [lost EXCEPT ![q] = TRUE]
    BY <1>1, Planned
  <2>2. /\ early' = [early EXCEPT ![q] = early[q] \/ fetch[q].at \in {"asked", "coming"}]
        /\ UNCHANGED <<fetch, conn, inbox, job, heard, tangled, refused>>
    BY <1>1, Planned
  <2>3. plan'[p] = plan[p] /\ view'[p] = view[p] /\ early'[p] = early[p]
    BY <2>1, <2>2 DEF TypeOK
  <2>4. /\ pending'[p] = pending[p] /\ lost'[p] = lost[p]
        /\ conn[p] # None => sent'[conn[p]] = sent[conn[p]]
    <3>1. CASE conn[q] # None
      BY <1>0, <2>1, <3>1 DEF TypeOK
    <3>2. CASE conn[q] = None
      BY <1>0, <2>1, <3>2 DEF TypeOK
    <3> QED
      BY <3>1, <3>2
  <2> QED
    BY <2>2, <2>3, <2>4, StaysAside
<1>2. CASE Deliver(q)
  <2>1. \E S, h, x : /\ inbox' = [inbox EXCEPT ![q] = Tail(inbox[q])]
                     /\ pending' = [pending EXCEPT ![q] = S]
                     /\ heard' = [heard EXCEPT ![q] = h] /\ lost' = [lost EXCEPT ![q] = x]
                     /\ UNCHANGED <<fetch, conn, sent, job, early>>
    BY <1>2, Delivered
  <2>2. /\ pending'[p] = pending[p] /\ inbox'[p] = inbox[p] /\ heard'[p] = heard[p]
        /\ lost'[p] = lost[p]
    BY <2>1 DEF TypeOK
  <2>3. /\ plan'[p] = plan[p] /\ view'[p] = view[p] /\ refused'[p] = refused[p]
        /\ tangled'[p] = tangled[p]
    <3>1. CASE Struck(q) # {}
      <4>1. \E t, y : /\ plan' = [plan EXCEPT ![q] = t] /\ view' = [view EXCEPT ![q] = t]
                      /\ refused' = [refused EXCEPT ![q] = TRUE]
                      /\ tangled' = [tangled EXCEPT ![q] = y]
        BY <1>2, <3>1, Called
      <4> QED
        BY <4>1 DEF TypeOK
    <3>2. CASE Struck(q) = {}
      <4>1. \E t : view' = [view EXCEPT ![q] = t] /\ UNCHANGED <<plan, refused, tangled>>
        BY <1>2, <3>2, Called
      <4> QED
        BY <4>1 DEF TypeOK
    <3> QED
      BY <3>1, <3>2
  <2> QED
    BY <2>1, <2>2, <2>3, StaysAside
<1>3. CASE Load(q)
  <2>1. /\ plan'[p] = plan[p] /\ view'[p] = view[p] /\ fetch'[p] = fetch[p]
        /\ pending'[p] = pending[p] /\ heard'[p] = heard[p] /\ conn'[p] = conn[p]
        /\ inbox'[p] = inbox[p] /\ UNCHANGED <<sent, job>>
    BY <1>3 DEF Load, TypeOK
  <2>2. /\ early'[p] = early[p] /\ tangled'[p] = tangled[p] /\ refused'[p] = refused[p]
        /\ lost'[p] = lost[p]
    BY <1>3 DEF Load, TypeOK
  <2> QED
    BY <2>1, <2>2, StaysAside
<1>4. CASE Serve(q)
  <2>1. fetch'[p] = fetch[p]
    BY <1>4 DEF Serve, TypeOK
  <2>2. UNCHANGED <<plan, view, pending, conn, inbox, sent, job, heard, early, tangled, refused, lost>>
    BY <1>4 DEF Serve, histVars, noted
  <2> QED
    BY <2>1, <2>2, StaysAside
<1>5. CASE Arrive(q)
  <2>1. fetch'[p] = fetch[p] /\ plan'[p] = plan[p] /\ view'[p] = view[p]
    BY <1>5 DEF Arrive, TypeOK
  <2>2. UNCHANGED <<pending, conn, inbox, sent, job, heard, early, tangled, refused, lost>>
    BY <1>5 DEF Arrive, histVars, noted
  <2> QED
    BY <2>1, <2>2, StaysAside
<1>6. CASE Disconnect(q)
  <2>1. conn'[p] = conn[p] /\ inbox'[p] = inbox[p] /\ lost'[p] = lost[p]
    BY <1>6 DEF Disconnect, TypeOK
  <2>2. UNCHANGED <<plan, view, fetch, pending, sent, job, heard, early, tangled, refused>>
    BY <1>6 DEF Disconnect
  <2> QED
    BY <2>1, <2>2, StaysAside
<1>7. CASE Connect(q)
  <2>1. conn'[p] = conn[p]
    BY <1>7 DEF Connect, TypeOK
  <2>2. UNCHANGED <<plan, view, fetch, pending, inbox, sent, job, heard, early, tangled, refused, lost>>
    BY <1>7 DEF Connect, histVars, noted
  <2> QED
    BY <2>1, <2>2, StaysAside
<1> QED
  BY <1>1, <1>2, <1>3, <1>4, <1>5, <1>6, <1>7

\* The handler of a connection that is not the page's, up to its answer.
LEMMA HandlerAside ==
  ASSUME TypeOK, NEW p \in Pages, NEW c \in Conns, conn[p] # c,
         Read(c) \/ Ignore(c) \/ Open(c) \/ Write(c) \/ Hangup(c)
  PROVE  Aside(p)
<1>0. conn[p] # None => conn[p] \in Conns
  BY DEF TypeOK
<1>1. CASE Read(c)
  <2>1. /\ \E s, j : sent' = [sent EXCEPT ![c] = s] /\ job' = [job EXCEPT ![c] = j]
        /\ UNCHANGED <<plan, view, fetch, pending, conn, inbox, heard, early, tangled, refused, lost>>
    BY <1>1, Started
  <2>2. conn[p] # None => sent'[conn[p]] = sent[conn[p]] /\ job'[conn[p]] = job[conn[p]]
    BY <1>0, <2>1 DEF TypeOK
  <2> QED
    BY <2>1, <2>2, StaysAside
<1>2. CASE Ignore(c)
  <2>1. /\ sent' = [sent EXCEPT ![c] = Tail(sent[c])]
        /\ lost'[p] = (lost[p] \/ conn[p] = c)
        /\ UNCHANGED <<plan, view, fetch, pending, conn, inbox, job, heard, early, tangled, refused>>
    BY <1>2 DEF Ignore, pageVars
  <2>2. lost[p] \in BOOLEAN
    BY DEF TypeOK
  <2>3. conn[p] # None => sent'[conn[p]] = sent[conn[p]]
    BY <1>0, <2>1 DEF TypeOK
  <2> QED
    BY <2>1, <2>2, <2>3, StaysAside
<1>3. CASE Open(c) \/ Write(c)
  <2>1. /\ \E j : job' = [job EXCEPT ![c] = j]
        /\ UNCHANGED <<plan, view, fetch, pending, conn, inbox, sent, heard, early, tangled, refused,
                       lost>>
    BY <1>3, JobSteps DEF Open, Write, pageVars
  <2>2. conn[p] # None => job'[conn[p]] = job[conn[p]]
    BY <1>0, <2>1 DEF TypeOK
  <2> QED
    BY <2>1, <2>2, StaysAside
<1>4. CASE Hangup(c)
  <2>1. /\ sent' = [sent EXCEPT ![c] = <<>>]
        /\ UNCHANGED <<plan, view, fetch, pending, conn, inbox, job, heard, early, tangled, refused,
                       lost>>
    BY <1>4 DEF Hangup, pageVars, histVars, noted
  <2>2. conn[p] # None => sent'[conn[p]] = sent[conn[p]]
    BY <1>0, <2>1 DEF TypeOK
  <2> QED
    BY <2>1, <2>2, StaysAside
<1> QED
  BY <1>1, <1>2, <1>3, <1>4

\* What the page's own steps and the end of a handler do to its way.
LEMMA OwnConnect ==
  ASSUME TypeOK, Wired, NEW p \in Pages, Connect(p)
  PROVE  /\ Sent(p) = <<>> /\ JobOf(p) = NoJob /\ Sent(p)' = <<>> /\ JobOf(p)' = NoJob
         /\ Unheard(p)' = Unheard(p)
         /\ UNCHANGED <<file, plan, view, fetch, pending, inbox, sent, job, ops, heard, early,
                        foreign, tangled, refused, lost, overlapped>>
<1>1. PICK c \in Conns : /\ conn[p] = None /\ job[c].at = "none" /\ sent[c] = <<>>
                         /\ conn' = [conn EXCEPT ![p] = c]
  BY DEF Connect, Busy
<1>2. UNCHANGED <<file, plan, view, fetch, pending, inbox, sent, job, ops, heard, early,
                  foreign, tangled, refused, lost, overlapped>>
  BY DEF Connect, counters, histVars, noted
<1>3. conn'[p] = c /\ c # None /\ job[c] = NoJob
  BY <1>1, CollectionAssumption DEF TypeOK, Wired
<1>4. Sent(p)' = <<>> /\ JobOf(p)' = NoJob
  BY <1>1, <1>2, <1>3 DEF Sent, JobOf
<1> QED
  BY <1>1, <1>2, <1>4 DEF Sent, JobOf, Unheard

LEMMA OwnLoad ==
  ASSUME TypeOK, NEW p \in Pages, Load(p)
  PROVE  /\ Sent(p)' = <<>> /\ JobOf(p)' = NoJob /\ Unheard(p)' = {} /\ inbox'[p] = <<>>
         /\ heard'[p] = {} /\ conn'[p] = None /\ plan'[p] = None
         /\ fetch'[p] = Fetch("asked") /\ lost'[p] = FALSE
         /\ UNCHANGED <<file, sent, job, ops, overlapped>>
<1>1. /\ conn'[p] = None /\ pending'[p] = {} /\ inbox'[p] = <<>> /\ heard'[p] = {}
      /\ plan'[p] = None
      /\ fetch'[p] = Fetch("asked") /\ lost'[p] = FALSE
      /\ UNCHANGED <<file, sent, job, ops, overlapped>>
  BY DEF Load, TypeOK
<1>2. Sent(p)' = <<>> /\ JobOf(p)' = NoJob /\ Unheard(p)' = {}
  BY <1>1 DEF Sent, JobOf, NoJob, Unheard
<1> QED
  BY <1>1, <1>2

LEMMA OwnDisconnect ==
  ASSUME TypeOK, NEW p \in Pages, Disconnect(p)
  PROVE  lost'[p] /\ UNCHANGED <<file, sent, job, ops, foreign, overlapped>>
BY DEF Disconnect, TypeOK

LEMMA OwnFetch ==
  ASSUME TypeOK, NEW p \in Pages, Serve(p) \/ Arrive(p)
  PROVE  /\ Sent(p)' = Sent(p) /\ JobOf(p)' = JobOf(p) /\ Unheard(p)' = Unheard(p)
         /\ UNCHANGED <<file, pending, conn, inbox, sent, job, ops, heard, early, foreign, tangled,
                        refused, lost, overlapped>>
<1>1. UNCHANGED <<file, pending, conn, inbox, sent, job, ops, heard, early, foreign, tangled,
                  refused, lost, overlapped>>
  BY DEF Serve, Arrive, counters, histVars, noted
<1> QED
  BY <1>1 DEF Sent, JobOf, NoJob, Unheard

LEMMA OwnHandler ==
  ASSUME TypeOK, NEW p \in Pages, NEW c \in Conns, conn[p] = c
  PROVE  /\ Sent(p) = sent[c] /\ JobOf(p) = job[c]
         /\ Ignore(c) => lost'[p]
         /\ ~Hangup(c)
         /\ Read(c) => /\ Sent(p)' = Tail(Sent(p)) /\ JobOf(p)' = job'[c] /\ Unheard(p)' = Unheard(p)
         /\ Open(c) => /\ Sent(p)' = Sent(p) /\ JobOf(p)' = At(JobOf(p), "write")
                       /\ Unheard(p)' = Unheard(p)
         /\ Write(c) => /\ Sent(p)' = Sent(p) /\ JobOf(p)' = At(JobOf(p), "answer")
                        /\ Unheard(p)' = Unheard(p)
<1>0. c # None
  BY CollectionAssumption
<1>1. Sent(p) = sent[c] /\ JobOf(p) = job[c] /\ ~Hangup(c)
  BY <1>0 DEF Sent, JobOf, Hangup, Left
<1>2. Ignore(c) => lost'[p]
  BY DEF Ignore
<1>3. ASSUME Read(c)
      PROVE  Sent(p)' = Tail(Sent(p)) /\ JobOf(p)' = job'[c] /\ Unheard(p)' = Unheard(p)
  <2>1. sent' = [sent EXCEPT ![c] = Tail(sent[c])] /\ UNCHANGED <<conn, pending, heard>>
    BY <1>3, Started
  <2>2. sent'[c] = Tail(sent[c])
    BY <2>1 DEF TypeOK
  <2> QED
    BY <1>0, <2>1, <2>2 DEF Sent, JobOf, Unheard
<1>4. ASSUME Open(c)
      PROVE  /\ Sent(p)' = Sent(p) /\ JobOf(p)' = At(JobOf(p), "write") /\ Unheard(p)' = Unheard(p)
  <2>1. job' = [job EXCEPT ![c] = At(job[c], "write")] /\ UNCHANGED <<sent, conn, pending, heard>>
    BY <1>4, JobSteps DEF Open, pageVars
  <2>2. job'[c] = At(job[c], "write")
    BY <2>1 DEF TypeOK
  <2> QED
    BY <1>0, <2>1, <2>2 DEF Sent, JobOf, Unheard
<1>5. ASSUME Write(c)
      PROVE  /\ Sent(p)' = Sent(p) /\ JobOf(p)' = At(JobOf(p), "answer") /\ Unheard(p)' = Unheard(p)
  <2>1. job' = [job EXCEPT ![c] = At(job[c], "answer")] /\ UNCHANGED <<sent, conn, pending, heard>>
    BY <1>5, JobSteps DEF Write, pageVars
  <2>2. job'[c] = At(job[c], "answer")
    BY <2>1 DEF TypeOK
  <2> QED
    BY <1>0, <2>1, <2>2 DEF Sent, JobOf, Unheard
<1> QED
  BY <1>1, <1>2, <1>3, <1>4, <1>5

LEMMA OwnAnswer ==
  ASSUME TypeOK, NEW p \in Pages, NEW c \in Conns, Answer(c)
  PROVE  /\ Sent(p)' = Sent(p) /\ Unheard(p)' = Unheard(p)
         /\ JobOf(p)' = IF conn[p] = c THEN NoJob ELSE JobOf(p)
         /\ conn[p] = c => JobOf(p) = job[c]
<1>0. c # None /\ (conn[p] # None => conn[p] \in Conns)
  BY CollectionAssumption DEF TypeOK
<1>1. job' = [job EXCEPT ![c] = NoJob] /\ UNCHANGED <<sent, conn, pending, heard>>
  BY Posted
<1>2. \A d \in Conns : job'[d] = IF d = c THEN NoJob ELSE job[d]
  BY <1>1 DEF TypeOK
<1>3. JobOf(p)' = IF conn[p] = c THEN NoJob ELSE JobOf(p)
  <2>1. CASE conn[p] = None
    BY <1>0, <1>1, <2>1 DEF JobOf, NoJob
  <2>2. CASE conn[p] # None
    BY <1>0, <1>1, <1>2, <2>2 DEF JobOf
  <2> QED
    BY <2>1, <2>2
<1> QED
  BY <1>0, <1>1, <1>3 DEF Sent, JobOf, Unheard

(* Operations are numbered. On the way of one page they are in order: s is *)
(* what it sent, j the handler, b its inbox, P what is not heard of, k the *)
(* number of the last one.                                                 *)

Numbers(P) == {u.op.n : u \in P}

InOrder(s, j, b, P, k) ==
  /\ \A x \in DOMAIN s : s[x].n \in 1..k
  /\ \A x, y \in DOMAIN s : x < y => s[x].n < s[y].n
  /\ j.at # "none" => j.n \in 1..k /\ \A x \in DOMAIN s : j.n < s[x].n
  /\ \A x \in DOMAIN b : b[x].type = "Update" => b[x].n = 0
  /\ \A x \in DOMAIN b : b[x].type # "Update" =>
       /\ b[x].n \in 1..k
       /\ j.at # "none" => b[x].n < j.n
       /\ \A y \in DOMAIN s : b[x].n < s[y].n
       /\ \A y \in DOMAIN b : x < y /\ b[y].type # "Update" => b[x].n < b[y].n
  /\ \A u, v \in P : u.op.n = v.op.n => u = v
  /\ \A u \in P : u.op.n \in 1..k

\* While nothing of the page is lost, what it has not heard of is pending.
Awaited(s, j, b, P) ==
  /\ \A x \in DOMAIN s : s[x].n \in Numbers(P)
  /\ j.at # "none" => j.n \in Numbers(P)
  /\ \A x \in DOMAIN b : b[x].type # "Update" => b[x].n \in Numbers(P)

NumbersInv ==
  \A p \in Pages :
    ~lost[p] => /\ InOrder(Sent(p), JobOf(p), inbox[p], Unheard(p), ops)
                /\ Awaited(Sent(p), JobOf(p), inbox[p], Unheard(p))
                /\ heard[p] \subseteq 0..ops

LEMMA OrderLater ==
  ASSUME NEW s \in Seq(Operations), NEW j \in Jobs, NEW b \in Seq(Messages), NEW P \in SUBSET Undos,
         NEW k \in Nat, InOrder(s, j, b, P, k)
  PROVE  InOrder(s, j, b, P, k + 1)
<1>1. \A n \in 1..k : n \in 1..(k + 1)
  OBVIOUS
<1> QED
  BY <1>1 DEF InOrder

\* A planned operation has a number above all others.
LEMMA OrderSent ==
  ASSUME NEW s \in Seq(Operations), NEW j \in Jobs, NEW b \in Seq(Messages), NEW P \in SUBSET Undos,
         NEW k \in Nat, NEW o \in Operations, NEW u \in Undos, u.op = o, o.n = k + 1,
         InOrder(s, j, b, P, k)
  PROVE  /\ InOrder(Append(s, o), j, b, P \cup {u}, k + 1)
         /\ Awaited(s, j, b, P) => Awaited(Append(s, o), j, b, P \cup {u})
<1> DEFINE t == Append(s, o)  Q == P \cup {u}
<1>1. /\ DOMAIN t = 1..(Len(s) + 1) /\ Len(s) \in Nat /\ DOMAIN s = 1..Len(s)
      /\ \A x \in 1..Len(s) : t[x] = s[x]
      /\ t[Len(s) + 1] = o
  BY AppendProperties
<1> HIDE DEF t
<1>2. \A x \in DOMAIN t : (x \in DOMAIN s /\ t[x] = s[x]) \/ (x = Len(s) + 1 /\ t[x] = o)
  BY <1>1
<1>3. \A x \in DOMAIN t : t[x].n \in 1..(k + 1)
  BY <1>2 DEF InOrder
<1>4. ASSUME NEW x \in DOMAIN t, NEW y \in DOMAIN t, x < y PROVE t[x].n < t[y].n
  <2>1. x \in DOMAIN s /\ t[x] = s[x] /\ s[x].n \in 1..k
    BY <1>1, <1>4 DEF InOrder
  <2> QED
    BY <1>2, <1>4, <2>1 DEF InOrder
<1>5. j.at # "none" => j.n \in 1..(k + 1) /\ \A x \in DOMAIN t : j.n < t[x].n
  BY <1>2, SMTT(30) DEF InOrder
<1>6. ASSUME NEW x \in DOMAIN b, b[x].type # "Update"
      PROVE  /\ b[x].n \in 1..(k + 1)
             /\ j.at # "none" => b[x].n < j.n
             /\ \A y \in DOMAIN t : b[x].n < t[y].n
             /\ \A y \in DOMAIN b : x < y /\ b[y].type # "Update" => b[x].n < b[y].n
  BY <1>2, <1>6 DEF InOrder
<1>7. /\ \A v \in P : v.op.n \in 1..k
      /\ \A v, w \in P : v.op.n = w.op.n => v = w
      /\ u.op.n = k + 1
  BY DEF InOrder
<1>8. (\A v, w \in Q : v.op.n = w.op.n => v = w) /\ (\A v \in Q : v.op.n \in 1..(k + 1))
  BY <1>7
<1>9. \A x \in DOMAIN b : b[x].type = "Update" => b[x].n = 0
  BY DEF InOrder
<1>10. Numbers(P) \subseteq Numbers(Q) /\ o.n \in Numbers(Q)
  BY DEF Numbers
<1> HIDE DEF Q
<1>11. InOrder(t, j, b, Q, k + 1)
  BY <1>3, <1>4, <1>5, <1>6, <1>8, <1>9 DEF InOrder
<1>12. Awaited(s, j, b, P) => Awaited(t, j, b, Q)
  BY <1>2, <1>10 DEF Awaited
<1> QED
  BY <1>11, <1>12 DEF t, Q

\* An answer takes away what it answers and nothing that is still awaited.
LEMMA OrderHeard ==
  ASSUME NEW s \in Seq(Operations), NEW j \in Jobs, NEW b \in Seq(Messages), NEW P \in SUBSET Undos,
         NEW k \in Nat, b # <<>>, InOrder(s, j, b, P, k),
         NEW Q, Q = {u \in P : u.op.n # Head(b).n}
  PROVE  /\ InOrder(s, j, Tail(b), Q, k)
         /\ Awaited(s, j, b, P) => Awaited(s, j, Tail(b), Q)
<1> DEFINE c == Tail(b)  m == Head(b)
<1>1. /\ Len(b) \in Nat /\ Len(b) >= 1 /\ DOMAIN b = 1..Len(b) /\ DOMAIN c = 1..(Len(b) - 1)
      /\ \A x \in 1..(Len(b) - 1) : c[x] = b[x + 1]
      /\ m = b[1] /\ m \in Messages
  BY Taken
<1> HIDE DEF c, m
<1>2. \A x \in DOMAIN c : x \in Int /\ x + 1 \in DOMAIN b /\ c[x] = b[x + 1] /\ 1 < x + 1
  BY <1>1
<1>3. 1 \in DOMAIN b
  BY <1>1
<1>4. InOrder(s, j, c, Q, k)
  <2>1. \A x \in DOMAIN c : c[x].type = "Update" => c[x].n = 0
    BY <1>2 DEF InOrder
  <2>2. ASSUME NEW x \in DOMAIN c, c[x].type # "Update"
        PROVE  /\ c[x].n \in 1..k
               /\ j.at # "none" => c[x].n < j.n
               /\ \A y \in DOMAIN s : c[x].n < s[y].n
               /\ \A y \in DOMAIN c : x < y /\ c[y].type # "Update" => c[x].n < c[y].n
    BY <1>2, <2>2 DEF InOrder
  <2> QED
    BY <2>1, <2>2 DEF InOrder
<1>5. ASSUME NEW n \in Numbers(P), n # m.n PROVE n \in Numbers(Q)
  BY <1>5 DEF Numbers, m
<1>6. ASSUME Awaited(s, j, b, P) PROVE Awaited(s, j, c, Q)
  <2>1. m.type = "Update" => m.n = 0
    BY <1>1, <1>3 DEF InOrder
  <2>2. \A x \in DOMAIN s : s[x].n # m.n
    <3>1. ASSUME NEW x \in DOMAIN s PROVE s[x].n # m.n
      <4>1. s[x].n \in 1..k /\ (m.type # "Update" => m.n < s[x].n /\ m.n \in 1..k)
        BY <1>1, <1>3 DEF InOrder
      <4> QED
        BY <2>1, <4>1
    <3> QED
      BY <3>1
  <2>3. j.at # "none" => j.n # m.n
    <3>1. j.at # "none" => j.n \in 1..k /\ (m.type # "Update" => m.n < j.n /\ m.n \in 1..k)
      BY <1>1, <1>3 DEF InOrder
    <3> QED
      BY <2>1, <3>1
  <2>4. ASSUME NEW x \in DOMAIN c, c[x].type # "Update" PROVE c[x].n # m.n
    <3>1. c[x] = b[x + 1] /\ x + 1 \in DOMAIN b /\ 1 < x + 1
      BY <1>2
    <3>2. b[x + 1].n \in 1..k /\ (m.type # "Update" => m.n < b[x + 1].n /\ m.n \in 1..k)
      BY <1>1, <1>3, <2>4, <3>1 DEF InOrder
    <3> QED
      BY <2>1, <3>1, <3>2
  <2>5. \A x \in DOMAIN s : s[x].n \in Numbers(Q)
    BY <1>5, <1>6, <2>2 DEF Awaited
  <2>6. j.at # "none" => j.n \in Numbers(Q)
    BY <1>5, <1>6, <2>3 DEF Awaited
  <2>7. \A x \in DOMAIN c : c[x].type # "Update" => c[x].n \in Numbers(Q)
    BY <1>2, <1>5, <1>6, <2>4 DEF Awaited
  <2> QED
    BY <2>5, <2>6, <2>7 DEF Awaited
<1> QED
  BY <1>4, <1>6 DEF c

\* The handler takes the oldest operation.
LEMMA OrderTaken ==
  ASSUME NEW s \in Seq(Operations), NEW j \in Jobs, NEW b \in Seq(Messages), NEW P \in SUBSET Undos,
         NEW k \in Nat, s # <<>>, j.at = "none", InOrder(s, j, b, P, k),
         NEW i \in Jobs, i.n = Head(s).n
  PROVE  /\ InOrder(Tail(s), i, b, P, k) /\ InOrder(Tail(s), j, b, P, k)
         /\ Awaited(s, j, b, P) => Awaited(Tail(s), i, b, P)
<1> DEFINE c == Tail(s)  m == Head(s)
<1>1. /\ Len(s) \in Nat /\ Len(s) >= 1 /\ DOMAIN s = 1..Len(s) /\ DOMAIN c = 1..(Len(s) - 1)
      /\ \A x \in 1..(Len(s) - 1) : c[x] = s[x + 1]
      /\ m = s[1] /\ m \in Operations
  BY Taken
<1> HIDE DEF c, m
<1>2. \A x \in DOMAIN c : x \in Int /\ x + 1 \in DOMAIN s /\ c[x] = s[x + 1] /\ 1 < x + 1
  BY <1>1
<1>3. 1 \in DOMAIN s /\ i.n = s[1].n
  BY <1>1 DEF m
<1>4. /\ \A x \in DOMAIN c : c[x].n \in 1..k
      /\ \A x, y \in DOMAIN c : x < y => c[x].n < c[y].n
      /\ i.n \in 1..k /\ \A x \in DOMAIN c : i.n < c[x].n
  BY <1>2, <1>3 DEF InOrder
<1>5. ASSUME NEW x \in DOMAIN b, b[x].type # "Update"
      PROVE  /\ b[x].n \in 1..k
             /\ b[x].n < i.n
             /\ \A y \in DOMAIN c : b[x].n < c[y].n
             /\ \A y \in DOMAIN b : x < y /\ b[y].type # "Update" => b[x].n < b[y].n
  BY <1>2, <1>3, <1>5 DEF InOrder
<1>6. InOrder(c, i, b, P, k) /\ InOrder(c, j, b, P, k)
  BY <1>4, <1>5 DEF InOrder
<1>7. Awaited(s, j, b, P) => Awaited(c, i, b, P)
  BY <1>2, <1>3 DEF Awaited
<1> QED
  BY <1>6, <1>7 DEF c

\* An answer goes behind those that are on their way; a broadcast has no number.
LEMMA OrderPosted ==
  ASSUME NEW s \in Seq(Operations), NEW j \in Jobs, NEW b \in Seq(Messages), NEW P \in SUBSET Undos,
         NEW k \in Nat, InOrder(s, j, b, P, k),
         NEW a \in Seq(Messages), Len(a) \in {0, 1},
         Len(a) = 1 => j.at # "none" /\ a[1].type # "Update" /\ a[1].n = j.n,
         NEW d \in Seq(Messages), Len(d) \in {0, 1}, Len(d) = 1 => d[1].type = "Update" /\ d[1].n = 0
  PROVE  /\ InOrder(s, NoJob, Mail(b, a, d), P, k)
         /\ a = <<>> => InOrder(s, j, Mail(b, a, d), P, k)
         /\ Awaited(s, j, b, P) => Awaited(s, NoJob, Mail(b, a, d), P)
         /\ a = <<>> /\ Awaited(s, j, b, P) => Awaited(s, j, Mail(b, a, d), P)
<1> DEFINE c == Mail(b, a, d)
<1>1. /\ DOMAIN c = 1..(Len(b) + Len(a) + Len(d)) /\ Len(b) \in Nat /\ DOMAIN b = 1..Len(b)
      /\ \A x \in 1..Len(b) : c[x] = b[x]
      /\ \A x \in 1..Len(a) : c[Len(b) + x] = a[x]
      /\ \A x \in 1..Len(d) : c[Len(b) + Len(a) + x] = d[x]
  <2>1. IsMail(b, a, d, c)
    BY Joined
  <2> HIDE DEF c
  <2> QED
    BY <2>1 DEF IsMail
<1> HIDE DEF c
<1>2. ASSUME NEW x \in DOMAIN c
      PROVE  \/ x \in DOMAIN b /\ c[x] = b[x]
             \/ x = Len(b) + 1 /\ Len(a) = 1 /\ c[x] = a[1]
             \/ x > Len(b) /\ Len(d) = 1 /\ c[x] = d[1]
  <2>1. CASE x <= Len(b)
    BY <1>1, <2>1
  <2>2. CASE x > Len(b) /\ Len(a) = 1 /\ x = Len(b) + 1
    BY <1>1, <2>2
  <2>3. CASE x > Len(b) /\ ~(Len(a) = 1 /\ x = Len(b) + 1)
    <3>1. Len(d) = 1 /\ x = Len(b) + Len(a) + 1
      <4>1. x \in 1..(Len(b) + Len(a) + Len(d))
        BY <1>1
      <4>2. CASE Len(a) = 0
        BY <1>1, <2>3, <4>1, <4>2
      <4>3. CASE Len(a) = 1
        BY <1>1, <2>3, <4>1, <4>3
      <4> QED
        BY <4>2, <4>3
    <3> QED
      BY <1>1, <2>3, <3>1
  <2> QED
    BY <1>1, <2>1, <2>2, <2>3
<1>3. \A x \in DOMAIN c : c[x].type = "Update" => c[x].n = 0
  BY <1>2 DEF InOrder
<1>4. ASSUME NEW x \in DOMAIN c, c[x].type # "Update"
      PROVE  /\ c[x].n \in 1..k
             /\ \A y \in DOMAIN s : c[x].n < s[y].n
             /\ \A y \in DOMAIN c : x < y /\ c[y].type # "Update" => c[x].n < c[y].n
             /\ a = <<>> /\ j.at # "none" => c[x].n < j.n
  <2>1. CASE x \in DOMAIN b /\ c[x] = b[x]
    <3>1. /\ c[x].n \in 1..k /\ \A y \in DOMAIN s : c[x].n < s[y].n
          /\ j.at # "none" => c[x].n < j.n
      BY <1>4, <2>1 DEF InOrder
    <3>2. ASSUME NEW y \in DOMAIN c, x < y, c[y].type # "Update" PROVE c[x].n < c[y].n
      <4>1. CASE y \in DOMAIN b /\ c[y] = b[y]
        BY <1>4, <2>1, <3>2, <4>1 DEF InOrder
      <4>2. CASE Len(a) = 1 /\ c[y] = a[1]
        BY <3>1, <4>2
      <4> QED
        BY <1>2, <3>2, <4>1, <4>2
    <3> QED
      BY <3>1, <3>2
  <2>2. CASE x = Len(b) + 1 /\ Len(a) = 1 /\ c[x] = a[1]
    <3>1. c[x].n \in 1..k /\ \A y \in DOMAIN s : c[x].n < s[y].n
      BY <2>2 DEF InOrder
    <3>2. ASSUME NEW y \in DOMAIN c, x < y, c[y].type # "Update" PROVE FALSE
      BY <1>1, <1>2, <2>2, <3>2
    <3>3. a # <<>>
      BY <2>2
    <3> QED
      BY <3>1, <3>2, <3>3
  <2> QED
    BY <1>2, <1>4, <2>1, <2>2
<1>5. InOrder(s, NoJob, c, P, k)
  BY <1>3, <1>4 DEF InOrder, NoJob
<1>6. a = <<>> => InOrder(s, j, c, P, k)
  BY <1>3, <1>4 DEF InOrder
<1>7. Awaited(s, j, b, P) => \A x \in DOMAIN c : c[x].type # "Update" => c[x].n \in Numbers(P)
  BY <1>2 DEF Awaited
<1>8. /\ Awaited(s, j, b, P) => Awaited(s, NoJob, c, P)
      /\ Awaited(s, j, b, P) => Awaited(s, j, c, P)
  BY <1>7 DEF Awaited, NoJob
<1> QED
  BY <1>5, <1>6, <1>8 DEF c

-----------------------------------------------------------------------------
-----------------------------------------------------------------------------
(* The way of every page stays wired and in order.                         *)

LEMMA WiredInit ==
  ASSUME Init
  PROVE  Wired
<1>1. /\ First \in [Pages -> Conns] /\ None \notin Conns
      /\ \A p, q \in Pages : First[p] = First[q] => p = q
  BY CollectionAssumption DEF Injection, IsInjective
<1>2. /\ conn = First /\ \A p \in Pages : inbox[p] = <<>>
      /\ \A c \in Conns : job[c] = NoJob
  BY DEF Init
<1> QED
  BY <1>1, <1>2 DEF Wired, NoJob

LEMMA WiredStep ==
  ASSUME TypeOK, Wired, [Next]_vars
  PROVE  Wired'
<1> USE DEF Wired
<1>0. /\ TypeOK' /\ NoJob.at = "none" /\ None \notin Conns
  BY TypeStep, CollectionAssumption DEF NoJob
<1>1. ASSUME UNCHANGED <<conn, inbox, job>> PROVE Wired'
  BY <1>1
<1>2. ASSUME NEW p \in Pages, Mutate(p) PROVE Wired'
  <2>1. UNCHANGED <<conn, inbox, job>>
    BY <1>2, Planned
  <2> QED
    BY <1>1, <2>1
<1>3. ASSUME NEW p \in Pages, Deliver(p) PROVE Wired'
  <2>1. inbox[p] # <<>> /\ inbox' = [inbox EXCEPT ![p] = Tail(inbox[p])] /\ UNCHANGED <<conn, job>>
    BY <1>3, Delivered
  <2>2. \A q \in Pages : q # p => inbox'[q] = inbox[q]
    BY <2>1 DEF TypeOK
  <2> QED
    BY <2>1, <2>2
<1>4. ASSUME NEW p \in Pages, Load(p) \/ Disconnect(p) PROVE Wired'
  <2>1. /\ conn' = [conn EXCEPT ![p] = None] /\ inbox' = [inbox EXCEPT ![p] = <<>>]
        /\ UNCHANGED job
    BY <1>4 DEF Load, Disconnect
  <2>2. \A q \in Pages : /\ conn'[q] = IF q = p THEN None ELSE conn[q]
                         /\ inbox'[q] = IF q = p THEN <<>> ELSE inbox[q]
    BY <2>1 DEF TypeOK
  <2> QED
    BY <2>1, <2>2
<1>5. ASSUME NEW p \in Pages, Serve(p) \/ Arrive(p) PROVE Wired'
  BY <1>1, <1>5 DEF Serve, Arrive
<1>6. ASSUME NEW p \in Pages, Connect(p) PROVE Wired'
  <2>1. PICK c \in Conns : Left(c) /\ conn' = [conn EXCEPT ![p] = c]
    BY <1>6 DEF Connect
  <2>2. UNCHANGED <<inbox, job>>
    BY <1>6 DEF Connect
  <2>3. \A q \in Pages : conn'[q] = (IF q = p THEN c ELSE conn[q]) /\ conn[q] # c
    BY <2>1 DEF TypeOK, Left
  <2> QED
    BY <1>0, <2>2, <2>3
<1>7. ASSUME NEW c \in Conns, Read(c) PROVE Wired'
  <2>1. PICK j \in Jobs : /\ job' = [job EXCEPT ![c] = j]
                          /\ (j.at = "open" /\ j.ok) \/ (j.at = "answer" /\ ~j.ok)
    BY <1>7, Started
  <2>2. UNCHANGED <<conn, inbox>>
    BY <1>7, Started
  <2>3. \A d \in Conns : job'[d] = IF d = c THEN j ELSE job[d]
    BY <2>1 DEF TypeOK
  <2> QED
    BY <2>1, <2>2, <2>3
<1>8. ASSUME NEW c \in Conns, Ignore(c) \/ Hangup(c) PROVE Wired'
  BY <1>1, <1>8 DEF Ignore, Hangup, pageVars
<1>9. ASSUME NEW c \in Conns, Open(c) PROVE Wired'
  <2>1. job[c].at = "open" /\ job' = [job EXCEPT ![c] = At(job[c], "write")] /\ UNCHANGED <<conn, inbox>>
    BY <1>9, JobSteps DEF Open, pageVars
  <2>2. \A d \in Conns : job'[d] = IF d = c THEN At(job[c], "write") ELSE job[d]
    BY <2>1 DEF TypeOK
  <2>3. At(job[c], "write").at = "write" /\ At(job[c], "write").ok
    BY <2>1 DEF At
  <2> QED
    BY <2>1, <2>2, <2>3
<1>10. ASSUME NEW c \in Conns, Write(c) PROVE Wired'
  <2>1. job' = [job EXCEPT ![c] = At(job[c], "answer")] /\ UNCHANGED <<conn, inbox>>
    BY <1>10, JobSteps DEF Write, pageVars
  <2>2. \A d \in Conns : job'[d] = IF d = c THEN At(job[c], "answer") ELSE job[d]
    BY <2>1 DEF TypeOK
  <2>3. At(job[c], "answer").at = "answer"
    BY DEF At
  <2> QED
    BY <2>1, <2>2, <2>3
<1>11. ASSUME NEW c \in Conns, Answer(c) PROVE Wired'
  <2>1. job' = [job EXCEPT ![c] = NoJob] /\ UNCHANGED conn
    BY <1>11 DEF Answer, pageVars
  <2>2. \A d \in Conns : job'[d] = IF d = c THEN NoJob ELSE job[d]
    BY <2>1 DEF TypeOK
  <2>3. \A q \in Pages : conn[q] = None => inbox'[q] = inbox[q]
    BY <1>11 DEF Answer
  <2> QED
    BY <1>0, <2>1, <2>2, <2>3
<1>12. ASSUME UNCHANGED vars PROVE Wired'
  BY <1>1, <1>12 DEF vars, pageVars
<1> QED
  BY <1>2, <1>3, <1>4, <1>5, <1>6, <1>7, <1>8, <1>9, <1>10, <1>11, <1>12 DEF Next, Handle

LEMMA NumbersInit ==
  ASSUME Init
  PROVE  NumbersInv
<1>1. ASSUME NEW p \in Pages
      PROVE  /\ Sent(p) = <<>> /\ JobOf(p) = NoJob /\ inbox[p] = <<>> /\ Unheard(p) = {} /\ heard[p] = {}
  <2>1. conn[p] \in Conns
    BY CollectionAssumption DEF Init, Injection
  <2> QED
    BY <2>1 DEF Init, Sent, JobOf, Unheard
<1>2. /\ InOrder(<<>>, NoJob, <<>>, {}, ops) /\ Awaited(<<>>, NoJob, <<>>, {})
  BY DEF InOrder, Awaited, NoJob
<1> QED
  BY <1>1, <1>2 DEF NumbersInv

\* A new operation, as long as the page has a connection.
LEMMA OwnMutate ==
  ASSUME TypeOK, NumbersInv, NEW p \in Pages, Mutate(p), ~lost'[p]
  PROVE  /\ conn[p] # None /\ ~lost[p] /\ ops' = ops + 1 /\ ops + 1 \in 1..MaxOps
         /\ \E o \in Asked(Current(p), ops + 1) :
              /\ o \in Operations /\ o.n = ops + 1
              /\ Undo(o, Current(p)) \in Undos /\ Undo(o, Current(p)).op = o
              /\ Local(o, Current(p)) \in Tables
              /\ plan'[p] = Local(o, Current(p)) /\ view'[p] = Local(o, Current(p))
              /\ Sent(p)' = Append(Sent(p), o)
              /\ Unheard(p)' = Unheard(p) \cup {Undo(o, Current(p))}
         /\ JobOf(p)' = JobOf(p)
         /\ UNCHANGED <<file, fetch, conn, inbox, job, heard, foreign, tangled, refused, overlapped>>
<1>1. PICK o \in Asked(Current(p), ops + 1) :
        /\ o \in Operations /\ o.n = ops + 1
        /\ Undo(o, Current(p)) \in Undos /\ Undo(o, Current(p)).op = o
        /\ Local(o, Current(p)) \in Tables
        /\ plan' = [plan EXCEPT ![p] = Local(o, Current(p))]
        /\ view' = [view EXCEPT ![p] = Local(o, Current(p))]
        /\ conn[p] # None =>
             /\ sent' = [sent EXCEPT ![conn[p]] = Append(sent[conn[p]], o)]
             /\ pending' = [pending EXCEPT ![p] = pending[p] \cup {Undo(o, Current(p))}]
             /\ lost' = lost
        /\ conn[p] = None => /\ UNCHANGED <<sent, pending>>
                             /\ lost' = [lost EXCEPT ![p] = TRUE]
  BY Planned
<1>2. /\ ops' = ops + 1 /\ ops + 1 \in 1..MaxOps
      /\ UNCHANGED <<file, fetch, conn, inbox, job, heard, foreign, tangled, refused, overlapped>>
  BY Planned
<1>3. conn[p] # None /\ ~lost[p]
  BY <1>1 DEF TypeOK
<1>4. conn[p] \in Conns
  BY <1>3 DEF TypeOK
<1>5. /\ plan'[p] = Local(o, Current(p)) /\ view'[p] = Local(o, Current(p))
      /\ sent'[conn[p]] = Append(sent[conn[p]], o)
      /\ pending'[p] = pending[p] \cup {Undo(o, Current(p))}
  BY <1>1, <1>3, <1>4 DEF TypeOK
<1>6. Sent(p)' = Append(Sent(p), o) /\ JobOf(p)' = JobOf(p)
  BY <1>2, <1>3, <1>5 DEF Sent, JobOf
<1>7. ops + 1 \notin heard[p]
  <2>1. heard[p] \subseteq 0..ops /\ ops \in Nat
    BY <1>3, PageTyped DEF NumbersInv
  <2> QED
    BY <2>1
<1>8. Unheard(p)' = Unheard(p) \cup {Undo(o, Current(p))}
  <2> DEFINE w == Undo(o, Current(p))
  <2>1. w.op.n \notin heard[p] /\ pending'[p] = pending[p] \cup {w} /\ heard'[p] = heard[p]
    BY <1>1, <1>2, <1>5, <1>7
  <2> HIDE DEF w
  <2>2. Unheard(p)' = Unheard(p) \cup {w}
    BY <2>1 DEF Unheard
  <2> QED
    BY <2>2 DEF w
<1> QED
  BY <1>1, <1>2, <1>3, <1>5, <1>6, <1>8

\* An answer or a broadcast. What an answer is for is not heard of until then.
LEMMA OwnDeliver ==
  ASSUME TypeOK, NumbersInv, NEW p \in Pages, Deliver(p), ~lost[p]
  PROVE  /\ inbox[p] # <<>> /\ inbox'[p] = Tail(inbox[p])
         /\ Sent(p)' = Sent(p) /\ JobOf(p)' = JobOf(p)
         /\ Unheard(p)' = {u \in Unheard(p) : u.op.n # Head(inbox[p]).n}
         /\ heard'[p] \subseteq 0..ops
         /\ Head(inbox[p]).type = "Reject" => \E u \in Unheard(p) : Struck(p) = {u}
         /\ Head(inbox[p]).type # "Reject" => Struck(p) = {}
<1> DEFINE m == Head(inbox[p])
<1>1. /\ inbox[p] # <<>> /\ inbox' = [inbox EXCEPT ![p] = Tail(inbox[p])] /\ m \in Messages
      /\ pending' = [pending EXCEPT ![p] = pending[p] \ Struck(p)]
      /\ heard' = [heard EXCEPT ![p] = IF m.type = "Update" THEN heard[p] ELSE heard[p] \cup {m.n}]
      /\ UNCHANGED <<conn, sent, job>>
  BY Delivered
<1>2. /\ inbox'[p] = Tail(inbox[p]) /\ pending'[p] = pending[p] \ Struck(p)
      /\ heard'[p] = IF m.type = "Update" THEN heard[p] ELSE heard[p] \cup {m.n}
  BY <1>1 DEF TypeOK
<1>3. Sent(p)' = Sent(p) /\ JobOf(p)' = JobOf(p)
  BY <1>1 DEF Sent, JobOf, NoJob
<1>4. 1 \in DOMAIN inbox[p] /\ m = inbox[p][1]
  <2>1. inbox[p] \in Seq(Messages)
    BY PageTyped
  <2> QED
    BY <1>1, <2>1, Taken
<1>5. /\ m.type = "Update" => m.n = 0
      /\ m.type # "Update" => m.n \in 1..ops /\ m.n \in Numbers(Unheard(p))
      /\ \A u \in Unheard(p) : u.op.n \in 1..ops
      /\ \A u, v \in Unheard(p) : u.op.n = v.op.n => u = v
      /\ heard[p] \subseteq 0..ops /\ ops \in Nat
  BY <1>4, PageTyped DEF NumbersInv, InOrder, Awaited
<1>6. m.type \in {"Ack", "Reject", "Update"} /\ Struck(p) = {u \in pending[p] : m.type = "Reject" /\ u.op.n = m.n}
  BY <1>1 DEF Messages, Struck
<1> HIDE DEF m
<1>7. heard'[p] \subseteq 0..ops
  BY <1>2, <1>5
<1>8. Unheard(p)' = {u \in Unheard(p) : u.op.n # m.n}
  <2>1. CASE m.type = "Update"
    <3>1. \A u \in Unheard(p) : u.op.n # m.n
      BY <1>5, <2>1
    <3>2. Struck(p) = {}
      BY <1>6, <2>1
    <3> QED
      BY <1>2, <2>1, <3>1, <3>2 DEF Unheard
  <2>2. CASE m.type # "Update"
    BY <1>2, <1>6, <2>2 DEF Unheard
  <2> QED
    BY <2>1, <2>2
<1>9. ASSUME m.type = "Reject" PROVE \E u \in Unheard(p) : Struck(p) = {u}
  <2>1. PICK u \in Unheard(p) : u.op.n = m.n
    BY <1>5, <1>9 DEF Numbers
  <2>2. \A v \in Struck(p) : v \in Unheard(p)
    BY <1>6, <2>1 DEF Unheard
  <2>3. u \in Struck(p)
    BY <1>6, <1>9, <2>1 DEF Unheard
  <2>4. \A v \in Struck(p) : v = u
    BY <1>5, <1>6, <2>1, <2>2
  <2> QED
    BY <2>3, <2>4
<1>10. m.type # "Reject" => Struck(p) = {}
  BY <1>6
<1> QED
  BY <1>1, <1>2, <1>3, <1>7, <1>8, <1>9, <1>10 DEF m

\* The numbers stay in order, and what is not lost stays awaited.
LEMMA NumbersStep ==
  ASSUME TypeOK, Wired, NumbersInv, [Next]_vars
  PROVE  NumbersInv'
<1> SUFFICES ASSUME NEW p \in Pages, ~lost'[p]
             PROVE  /\ InOrder(Sent(p)', JobOf(p)', inbox'[p], Unheard(p)', ops')
                    /\ Awaited(Sent(p)', JobOf(p)', inbox'[p], Unheard(p)')
                    /\ heard'[p] \subseteq 0..ops'
  BY DEF NumbersInv
<1> DEFINE Goal == /\ InOrder(Sent(p)', JobOf(p)', inbox'[p], Unheard(p)', ops')
                   /\ Awaited(Sent(p)', JobOf(p)', inbox'[p], Unheard(p)')
                   /\ heard'[p] \subseteq 0..ops'
<1>0. /\ Sent(p) \in Seq(Operations) /\ JobOf(p) \in Jobs /\ inbox[p] \in Seq(Messages)
      /\ Unheard(p) \in SUBSET Undos /\ ops \in Nat
      /\ ~lost[p] => /\ InOrder(Sent(p), JobOf(p), inbox[p], Unheard(p), ops)
                     /\ Awaited(Sent(p), JobOf(p), inbox[p], Unheard(p))
                     /\ heard[p] \subseteq 0..ops
  BY PageTyped, WayTyped DEF NumbersInv
<1>1. ASSUME Aside(p), ops' = ops PROVE Goal
  BY <1>0, <1>1 DEF Aside
<1>2. ASSUME NEW q \in Pages, Mutate(q) PROVE Goal
  <2>1. CASE q = p
    <3>1. /\ ~lost[p] /\ ops' = ops + 1 /\ JobOf(p)' = JobOf(p) /\ UNCHANGED <<inbox, heard>>
      BY <1>2, <2>1, OwnMutate
    <3>2. PICK o \in Asked(Current(p), ops + 1) :
            /\ o \in Operations /\ o.n = ops + 1
            /\ Undo(o, Current(p)) \in Undos /\ Undo(o, Current(p)).op = o
            /\ Sent(p)' = Append(Sent(p), o)
            /\ Unheard(p)' = Unheard(p) \cup {Undo(o, Current(p))}
      BY <1>2, <2>1, OwnMutate
    <3> DEFINE w == Undo(o, Current(p))
    <3>3. w \in Undos /\ w.op = o /\ Unheard(p)' = Unheard(p) \cup {w}
      BY <3>2
    <3> HIDE DEF w
    <3>4. /\ InOrder(Append(Sent(p), o), JobOf(p), inbox[p], Unheard(p) \cup {w}, ops + 1)
          /\ Awaited(Append(Sent(p), o), JobOf(p), inbox[p], Unheard(p) \cup {w})
      BY <1>0, <3>1, <3>2, <3>3, OrderSent
    <3>5. 0..ops \subseteq 0..(ops + 1)
      BY <1>0
    <3> QED
      BY <1>0, <3>1, <3>2, <3>3, <3>4, <3>5
  <2>2. CASE q # p
    <3>1. Aside(p) /\ ops' = ops + 1
      BY <1>2, <2>2, OthersAside, Planned
    <3>2. InOrder(Sent(p), JobOf(p), inbox[p], Unheard(p), ops + 1)
      BY <1>0, <3>1, OrderLater DEF Aside
    <3>3. 0..ops \subseteq 0..(ops + 1)
      BY <1>0
    <3> QED
      BY <1>0, <3>1, <3>2, <3>3 DEF Aside
  <2> QED
    BY <2>1, <2>2
<1>3. ASSUME NEW q \in Pages, Deliver(q) PROVE Goal
  <2>0. ops' = ops
    BY <1>3, Delivered
  <2>1. CASE q = p
    <3>1. ~lost[p]
      <4>1. lost' = [lost EXCEPT ![p] = lost[p] \/ (/\ Head(inbox[p]).type = "Update"
                                                    /\ fetch[p].at = "coming")]
        BY <1>3, <2>1, Delivered
      <4> QED
        BY <4>1 DEF TypeOK
    <3>2. /\ inbox[p] # <<>> /\ inbox'[p] = Tail(inbox[p])
          /\ Sent(p)' = Sent(p) /\ JobOf(p)' = JobOf(p)
          /\ Unheard(p)' = {u \in Unheard(p) : u.op.n # Head(inbox[p]).n}
          /\ heard'[p] \subseteq 0..ops
      BY <1>3, <2>1, <3>1, OwnDeliver
    <3> DEFINE Q == {u \in Unheard(p) : u.op.n # Head(inbox[p]).n}
    <3>3. Q = {u \in Unheard(p) : u.op.n # Head(inbox[p]).n}
      OBVIOUS
    <3> HIDE DEF Q
    <3>4. /\ InOrder(Sent(p), JobOf(p), Tail(inbox[p]), Q, ops)
          /\ Awaited(Sent(p), JobOf(p), Tail(inbox[p]), Q)
      BY <1>0, <3>1, <3>2, <3>3, OrderHeard
    <3> QED
      BY <2>0, <3>2, <3>3, <3>4
  <2>2. CASE q # p
    BY <1>1, <1>3, <2>0, <2>2, OthersAside
  <2> QED
    BY <2>1, <2>2
<1>4. ASSUME NEW q \in Pages, Load(q) PROVE Goal
  <2>1. CASE q = p
    <3>1. /\ Sent(p)' = <<>> /\ JobOf(p)' = NoJob /\ Unheard(p)' = {} /\ inbox'[p] = <<>>
          /\ heard'[p] = {}
      BY <1>4, <2>1, OwnLoad
    <3>2. InOrder(<<>>, NoJob, <<>>, {}, ops') /\ Awaited(<<>>, NoJob, <<>>, {})
      BY DEF InOrder, Awaited, NoJob
    <3> QED
      BY <3>1, <3>2
  <2>2. CASE q # p
    <3>1. ops' = ops
      BY <1>4 DEF Load
    <3> QED
      BY <1>1, <1>4, <2>2, <3>1, OthersAside
  <2> QED
    BY <2>1, <2>2
<1>5. ASSUME NEW q \in Pages, Serve(q) \/ Arrive(q) PROVE Goal
  <2>1. CASE q = p
    BY <1>0, <1>5, <2>1, OwnFetch
  <2>2. CASE q # p
    <3>1. ops' = ops
      BY <1>5, OwnFetch
    <3> QED
      BY <1>1, <1>5, <2>2, <3>1, OthersAside
  <2> QED
    BY <2>1, <2>2
<1>6. ASSUME NEW q \in Pages, Disconnect(q) PROVE Goal
  <2>1. q # p /\ ops' = ops
    BY <1>6, OwnDisconnect
  <2> QED
    BY <1>1, <1>6, <2>1, OthersAside
<1>7. ASSUME NEW q \in Pages, Connect(q) PROVE Goal
  <2>1. CASE q = p
    BY <1>0, <1>7, <2>1, OwnConnect
  <2>2. CASE q # p
    <3>1. ops' = ops
      BY <1>7 DEF Connect, counters
    <3> QED
      BY <1>1, <1>7, <2>2, <3>1, OthersAside
  <2> QED
    BY <2>1, <2>2
<1>8. ASSUME NEW c \in Conns, Read(c) PROVE Goal
  <2>0. UNCHANGED <<ops, inbox, heard, lost>>
    BY <1>8, Started
  <2>1. CASE conn[p] = c
    <3>1. /\ Sent(p) = sent[c] /\ JobOf(p) = job[c]
          /\ Sent(p)' = Tail(Sent(p)) /\ JobOf(p)' = job'[c] /\ Unheard(p)' = Unheard(p)
      BY <1>8, <2>1, OwnHandler
    <3>2. PICK j \in Jobs : job' = [job EXCEPT ![c] = j] /\ j.n = Head(sent[c]).n
      BY <1>8, Started
    <3>3. job'[c] = j /\ job[c].at = "none" /\ sent[c] # <<>>
      <4>1. job'[c] = j
        BY <3>2 DEF TypeOK
      <4> QED
        BY <1>8, <4>1, Started
    <3>4. /\ InOrder(Tail(Sent(p)), j, inbox[p], Unheard(p), ops)
          /\ Awaited(Tail(Sent(p)), j, inbox[p], Unheard(p))
      BY <1>0, <2>0, <3>1, <3>2, <3>3, OrderTaken
    <3> QED
      BY <1>0, <2>0, <3>1, <3>3, <3>4
  <2>2. CASE conn[p] # c
    BY <1>1, <1>8, <2>0, <2>2, HandlerAside
  <2> QED
    BY <2>1, <2>2
<1>9. ASSUME NEW c \in Conns, Ignore(c) \/ Hangup(c) PROVE Goal
  <2>1. conn[p] # c
    BY <1>9, OwnHandler
  <2>2. ops' = ops
    BY <1>9 DEF Ignore, Hangup, counters
  <2> QED
    BY <1>1, <1>9, <2>1, <2>2, HandlerAside
<1>10. ASSUME NEW c \in Conns, Open(c) \/ Write(c) PROVE Goal
  <2>0. UNCHANGED <<ops, inbox, heard, lost>> /\ job[c].at # "none"
    BY <1>10 DEF Open, Write, pageVars, counters
  <2>1. CASE conn[p] = c
    <3>1. PICK a \in {"write", "answer"} : /\ Sent(p)' = Sent(p) /\ JobOf(p)' = At(JobOf(p), a)
                                           /\ Unheard(p)' = Unheard(p) /\ JobOf(p) = job[c]
      BY <1>10, <2>1, OwnHandler
    <3>2. At(JobOf(p), a).at # "none" /\ At(JobOf(p), a).n = JobOf(p).n
      BY <3>1 DEF At
    <3> DEFINE i == At(JobOf(p), a)
    <3>3. i.at # "none" /\ i.n = JobOf(p).n /\ JobOf(p).at # "none" /\ JobOf(p)' = i
      BY <2>0, <3>1, <3>2
    <3> HIDE DEF i
    <3>4. /\ InOrder(Sent(p), i, inbox[p], Unheard(p), ops)
          /\ Awaited(Sent(p), i, inbox[p], Unheard(p))
      BY <1>0, <2>0, <3>3 DEF InOrder, Awaited
    <3> QED
      BY <1>0, <2>0, <3>1, <3>3, <3>4
  <2>2. CASE conn[p] # c
    BY <1>1, <1>10, <2>0, <2>2, HandlerAside
  <2> QED
    BY <2>1, <2>2
<1>11. ASSUME NEW c \in Conns, Answer(c) PROVE Goal
  <2> DEFINE a == ReplyTo(c, p)  d == Update(c)
  <2>1. /\ job[c].at = "answer"
        /\ inbox'[p] = IF conn[p] # None THEN Mail(inbox[p], a, d) ELSE inbox[p]
        /\ a \in Seq(Messages) /\ Len(a) \in {0, 1}
        /\ Len(a) = 1 => /\ conn[p] = c /\ a[1].type = IF job[c].ok THEN "Ack" ELSE "Reject"
                         /\ a[1].n = job[c].n
        /\ conn[p] # c => a = <<>>
        /\ d \in Seq(Messages) /\ Len(d) \in {0, 1}
        /\ Len(d) = 1 => d[1].type = "Update" /\ d[1].n = 0
        /\ UNCHANGED <<ops, heard>>
        /\ lost'[p] = (lost[p] \/ (conn[p] = None /\ fetch[p].at # "asked" /\ job[c].ok))
    BY <1>11, Posted
  <2>a. ~lost[p]
    BY <2>1
  <2> HIDE DEF a, d
  <2>2. /\ Sent(p)' = Sent(p) /\ Unheard(p)' = Unheard(p)
        /\ JobOf(p)' = IF conn[p] = c THEN NoJob ELSE JobOf(p)
        /\ conn[p] = c => JobOf(p) = job[c]
    BY <1>11, OwnAnswer
  <2>3. Len(a) = 1 => JobOf(p).at # "none" /\ a[1].type # "Update" /\ a[1].n = JobOf(p).n
    BY <2>1, <2>2
  <2> DEFINE b == Mail(inbox[p], a, d)
  <2>4. /\ InOrder(Sent(p), NoJob, b, Unheard(p), ops)
        /\ a = <<>> => InOrder(Sent(p), JobOf(p), b, Unheard(p), ops)
        /\ Awaited(Sent(p), NoJob, b, Unheard(p))
        /\ a = <<>> => Awaited(Sent(p), JobOf(p), b, Unheard(p))
    BY <1>0, <2>1, <2>3, <2>a, OrderPosted
  <2> HIDE DEF b
  <2>5. CASE conn[p] = None
    <3>1. c # None
      BY CollectionAssumption
    <3> QED
      BY <1>0, <2>1, <2>2, <2>5, <2>a, <3>1
  <2>6. CASE conn[p] # None
    <3>1. inbox'[p] = b
      BY <2>1, <2>6 DEF b
    <3> QED
      BY <1>0, <2>1, <2>2, <2>4, <2>a, <3>1
  <2> QED
    BY <2>5, <2>6
<1>12. ASSUME UNCHANGED vars PROVE Goal
  <2>1. Aside(p) /\ ops' = ops
    BY <1>12, StaysAside DEF vars, pageVars, counters, histVars, noted
  <2> QED
    BY <1>1, <2>1
<1> HIDE DEF Goal
<1>13. Goal
  BY <1>2, <1>3, <1>4, <1>5, <1>6, <1>7, <1>8, <1>9, <1>10, <1>11, <1>12 DEF Next, Handle
<1> QED
  BY <1>13 DEF Goal

-----------------------------------------------------------------------------
(* Pages agree, as long as one handler works at a time.                    *)

\* One handler at a time finds in the file what it put there.
OneWriter ==
  ~overlapped =>
    /\ \A c, d \in Conns : Busy(c) /\ Busy(d) => c = d
    /\ \A c \in Conns : job[c].at = "answer" /\ job[c].ok => file = job[c].next
    /\ \A c \in Conns : job[c].at = "write" => file = Empty

\* A page that renders v shows t once it has worked through its inbox b.
Shows(v, b, t) ==
  \/ v = t /\ \A x \in DOMAIN b : b[x].type # "Update"
  \/ \E x \in DOMAIN b : /\ b[x].type = "Update" /\ b[x].data = t
                         /\ \A y \in DOMAIN b : b[y].type = "Update" => y <= x

Refusing(j) == j.at = "answer" /\ ~j.ok
Unrefused(j, b) == ~Refusing(j) /\ \A x \in DOMAIN b : b[x].type # "Reject"

\* No handler is changing the file or has to tell that it did.
Calm == ~overlapped /\ \A c \in Conns : Busy(c) => Refusing(job[c])

\* What the page renders, or is going to once the text it asked for has come.
Owed(p) == IF fetch[p].at = "asked" THEN file
           ELSE IF fetch[p].at = "coming" THEN fetch[p].text ELSE view[p]

AgreeInv ==
  Calm => \A p \in Pages :
    ~lost[p] /\ ~refused[p] /\ Unrefused(JobOf(p), inbox[p]) /\ Sent(p) = <<>>
      /\ fetch[p].at # "failed"
      => Shows(Owed(p), inbox[p], file)

LEMMA TurnInit ==
  ASSUME Init
  PROVE  OneWriter /\ AgreeInv
<1>1. OneWriter
  BY DEF Init, OneWriter, Busy, NoJob
<1>2. ASSUME NEW p \in Pages PROVE Shows(Owed(p), inbox[p], file)
  <2>1. fetch[p].at = "shown" /\ inbox[p] = <<>> /\ view[p] = file
    BY DEF Init, Fetch
  <2> QED
    BY <2>1 DEF Shows, Owed
<1> QED
  BY <1>1, <1>2 DEF AgreeInv

LEMMA TurnStep ==
  ASSUME TypeOK, OneWriter, [Next]_vars
  PROVE  OneWriter'
<1> SUFFICES ASSUME ~overlapped'
             PROVE  /\ \A c, d \in Conns : Busy(c)' /\ Busy(d)' => c = d
                    /\ \A c \in Conns : job'[c].at = "answer" /\ job'[c].ok => file' = job'[c].next
                    /\ \A c \in Conns : job'[c].at = "write" => file' = Empty
  BY DEF OneWriter
<1> DEFINE Goal == /\ \A c, d \in Conns : job'[c].at # "none" /\ job'[d].at # "none" => c = d
                   /\ \A c \in Conns : job'[c].at = "answer" /\ job'[c].ok => file' = job'[c].next
                   /\ \A c \in Conns : job'[c].at = "write" => file' = Empty
<1>0. ~overlapped => /\ \A c, d \in Conns : job[c].at # "none" /\ job[d].at # "none" => c = d
                     /\ \A c \in Conns : job[c].at = "answer" /\ job[c].ok => file = job[c].next
                     /\ \A c \in Conns : job[c].at = "write" => file = Empty
  BY DEF OneWriter, Busy
<1>1. ASSUME UNCHANGED <<file, job, overlapped>> PROVE Goal
  BY <1>0, <1>1
<1>2. ASSUME NEW p \in Pages, Mutate(p) \/ Deliver(p) \/ Load(p) \/ Disconnect(p) PROVE Goal
  <2>1. CASE Mutate(p)
    BY <1>1, <2>1, Planned
  <2>2. CASE Deliver(p)
    BY <1>1, <2>2, Delivered
  <2>3. CASE Load(p)
    BY <1>1, <2>3 DEF Load
  <2>4. CASE Disconnect(p)
    BY <1>1, <2>4 DEF Disconnect
  <2> QED
    BY <1>2, <2>1, <2>2, <2>3, <2>4
<1>3. ASSUME NEW p \in Pages, Serve(p) \/ Arrive(p) \/ Connect(p) PROVE Goal
  BY <1>1, <1>3 DEF Serve, Arrive, Connect, histVars, noted
<1>4. ASSUME NEW c \in Conns, Read(c) PROVE Goal
  <2>1. /\ job[c].at = "none" /\ file' = file
        /\ overlapped' = (overlapped \/ \E d \in Conns \ {c} : Busy(d))
    BY <1>4, Started
  <2>2. PICK j \in Jobs : /\ job' = [job EXCEPT ![c] = j]
                          /\ (j.at = "open" /\ j.ok) \/ (j.at = "answer" /\ ~j.ok)
    BY <1>4, Started
  <2>3. ~overlapped /\ \A d \in Conns : d # c => job[d].at = "none"
    BY <2>1 DEF Busy
  <2>4. \A d \in Conns : job'[d] = IF d = c THEN j ELSE job[d]
    BY <2>2 DEF TypeOK
  <2> QED
    BY <2>2, <2>3, <2>4
<1>5. ASSUME NEW c \in Conns, Ignore(c) \/ Hangup(c) PROVE Goal
  BY <1>1, <1>5 DEF Ignore, Hangup, histVars, noted
<1>6. ASSUME NEW c \in Conns, Open(c) PROVE Goal
  <2>1. /\ job[c].at = "open" /\ file' = Empty /\ overlapped' = overlapped
        /\ job' = [job EXCEPT ![c] = At(job[c], "write")]
    BY <1>6, JobSteps DEF Open
  <2>2. \A d \in Conns : job'[d] = IF d = c THEN At(job[c], "write") ELSE job[d]
    BY <2>1 DEF TypeOK
  <2>3. \A d \in Conns : d # c => job[d].at = "none"
    BY <1>0, <2>1
  <2> QED
    BY <2>1, <2>2, <2>3 DEF At
<1>7. ASSUME NEW c \in Conns, Write(c) PROVE Goal
  <2>1. /\ job[c].at = "write" /\ overlapped' = overlapped
        /\ job' = [job EXCEPT ![c] = At(job[c], "answer")]
        /\ file' \in IF file = Empty THEN {job[c].next} ELSE {job[c].next, Garbled}
    BY <1>7, JobSteps DEF Write
  <2>2. \A d \in Conns : job'[d] = IF d = c THEN At(job[c], "answer") ELSE job[d]
    BY <2>1 DEF TypeOK
  <2>3. /\ \A d \in Conns : d # c => job[d].at = "none"
        /\ file' = job[c].next
    BY <1>0, <2>1
  <2> QED
    BY <2>1, <2>2, <2>3 DEF At
<1>8. ASSUME NEW c \in Conns, Answer(c) PROVE Goal
  <2>1. job' = [job EXCEPT ![c] = NoJob] /\ file' = file /\ overlapped' = overlapped
    BY <1>8 DEF Answer
  <2>2. \A d \in Conns : job'[d] = IF d = c THEN NoJob ELSE job[d]
    BY <2>1 DEF TypeOK
  <2> QED
    BY <1>0, <2>1, <2>2 DEF NoJob
<1>9. ASSUME UNCHANGED vars PROVE Goal
  BY <1>1, <1>9 DEF vars, histVars, noted
<1> HIDE DEF Goal
<1>10. Goal
  BY <1>2, <1>3, <1>4, <1>5, <1>6, <1>7, <1>8, <1>9 DEF Next, Handle
<1> QED
  BY <1>10 DEF Goal, Busy

LEMMA ShowsHeard ==
  ASSUME NEW v, NEW b \in Seq(Messages), NEW t, b # <<>>, Shows(v, b, t)
  PROVE  Shows(IF Head(b).type = "Update" THEN Head(b).data ELSE v, Tail(b), t)
<1> DEFINE c == Tail(b)  m == Head(b)
<1>1. /\ Len(b) \in Nat /\ Len(b) >= 1 /\ DOMAIN b = 1..Len(b) /\ DOMAIN c = 1..(Len(b) - 1)
      /\ \A x \in 1..(Len(b) - 1) : c[x] = b[x + 1]
      /\ m = b[1]
  BY Taken
<1> HIDE DEF c, m
<1>2. \A x \in DOMAIN c : x \in Int /\ x + 1 \in DOMAIN b /\ c[x] = b[x + 1]
  BY <1>1
<1>3. 1 \in DOMAIN b
  BY <1>1
<1>4. CASE v = t /\ \A x \in DOMAIN b : b[x].type # "Update"
  <2>1. m.type # "Update" /\ \A x \in DOMAIN c : c[x].type # "Update"
    BY <1>1, <1>2, <1>3, <1>4
  <2> QED
    BY <1>4, <2>1 DEF Shows, c, m
<1>5. ASSUME NEW x \in DOMAIN b, b[x].type = "Update", b[x].data = t,
             \A y \in DOMAIN b : b[y].type = "Update" => y <= x
      PROVE  Shows(IF m.type = "Update" THEN m.data ELSE v, c, t)
  <2>1. CASE x = 1
    <3>1. m.type = "Update" /\ m.data = t
      BY <1>1, <1>5, <2>1
    <3>2. ASSUME NEW y \in DOMAIN c PROVE c[y].type # "Update"
      <4>1. y \in Nat /\ y >= 1 /\ y + 1 \in DOMAIN b /\ c[y] = b[y + 1]
        BY <1>1, <1>2
      <4>2. ~(y + 1 <= x)
        BY <2>1, <4>1
      <4> QED
        BY <1>5, <4>1, <4>2
    <3> QED
      BY <3>1, <3>2 DEF Shows
  <2>2. CASE x # 1
    <3>1. x - 1 \in DOMAIN c /\ c[x - 1] = b[x]
      BY <1>1, <1>2, <2>2
    <3>2. ASSUME NEW y \in DOMAIN c, c[y].type = "Update" PROVE y <= x - 1
      <4>1. y \in Int /\ y + 1 \in DOMAIN b /\ c[y] = b[y + 1]
        BY <1>2
      <4>2. y + 1 <= x /\ x \in Int
        BY <1>1, <1>5, <3>2, <4>1
      <4> QED
        BY <4>1, <4>2
    <3>3. \E z \in DOMAIN c : /\ c[z].type = "Update" /\ c[z].data = t
                              /\ \A y \in DOMAIN c : c[y].type = "Update" => y <= z
      BY <1>5, <3>1, <3>2
    <3> QED
      BY <3>3 DEF Shows
  <2> QED
    BY <2>1, <2>2
<1> QED
  BY <1>4, <1>5 DEF Shows, c, m

\* What is broadcast last is what the page will show.
LEMMA ShowsPosted ==
  ASSUME NEW v, NEW b \in Seq(Messages), NEW t,
         NEW a \in Seq(Messages), Len(a) \in {0, 1}, Len(a) = 1 => a[1].type # "Update",
         NEW d \in Seq(Messages), Len(d) \in {0, 1}, Len(d) = 1 => d[1].type = "Update"
  PROVE  /\ Len(d) = 0 /\ Shows(v, b, t) => Shows(v, Mail(b, a, d), t)
         /\ Len(d) = 1 => Shows(v, Mail(b, a, d), d[1].data)
<1> DEFINE c == Mail(b, a, d)
<1>1. /\ DOMAIN c = 1..(Len(b) + Len(a) + Len(d)) /\ Len(b) \in Nat /\ DOMAIN b = 1..Len(b)
      /\ \A x \in 1..Len(b) : c[x] = b[x]
      /\ \A x \in 1..Len(a) : c[Len(b) + x] = a[x]
      /\ \A x \in 1..Len(d) : c[Len(b) + Len(a) + x] = d[x]
  <2>1. IsMail(b, a, d, c)
    BY Joined
  <2> HIDE DEF c
  <2> QED
    BY <2>1 DEF IsMail
<1> HIDE DEF c
<1>2. ASSUME Len(d) = 1 PROVE Shows(v, c, d[1].data)
  <2> DEFINE z == Len(b) + Len(a) + 1
  <2>1. z \in DOMAIN c /\ c[z] = d[1] /\ \A y \in DOMAIN c : y <= z
    <3>1. /\ Len(a) \in Nat /\ z = Len(b) + Len(a) + 1
          /\ DOMAIN c = 1..z /\ z \in Nat /\ z >= 1 /\ 1 \in 1..Len(d)
      BY <1>1, <1>2
    <3>2. c[z] = d[1]
      BY <1>1, <3>1
    <3> HIDE DEF z
    <3> QED
      BY <3>1, <3>2
  <2> HIDE DEF z
  <2>2. \E x \in DOMAIN c : /\ c[x].type = "Update" /\ c[x].data = d[1].data
                            /\ \A y \in DOMAIN c : c[y].type = "Update" => y <= x
    BY <1>2, <2>1
  <2> QED
    BY <2>2 DEF Shows
<1>3. ASSUME Len(d) = 0, Shows(v, b, t) PROVE Shows(v, c, t)
  <2>1. ASSUME NEW x \in DOMAIN c PROVE (x \in DOMAIN b /\ c[x] = b[x]) \/ c[x].type # "Update"
    <3>1. CASE x <= Len(b)
      BY <1>1, <3>1
    <3>2. CASE x > Len(b)
      <4>1. Len(a) = 1 /\ x = Len(b) + 1
        BY <1>1, <1>3, <3>2
      <4> QED
        BY <1>1, <4>1
    <3> QED
      BY <1>1, <3>1, <3>2
  <2>2. \A x \in DOMAIN b : x \in DOMAIN c /\ c[x] = b[x]
    BY <1>1, <1>3
  <2>3. CASE v = t /\ \A x \in DOMAIN b : b[x].type # "Update"
    BY <2>1, <2>3 DEF Shows
  <2>4. ASSUME NEW x \in DOMAIN b, b[x].type = "Update", b[x].data = t,
               \A y \in DOMAIN b : b[y].type = "Update" => y <= x
        PROVE  Shows(v, c, t)
    <3>1. x \in DOMAIN c /\ c[x] = b[x]
      BY <2>2
    <3>2. \A y \in DOMAIN c : c[y].type = "Update" => y <= x
      BY <2>1, <2>4
    <3> QED
      BY <2>4, <3>1, <3>2 DEF Shows
  <2> QED
    BY <1>3, <2>3, <2>4 DEF Shows
<1> QED
  BY <1>2, <1>3 DEF c

LEMMA ShowsLast ==
  ASSUME NEW v, NEW b, NEW t, Shows(v, b, t)
  PROVE  Shows(t, b, t)
BY DEF Shows

\* A page that hears of a message and is refused nothing was owed no refusal before.
LEMMA RefusalHeard ==
  ASSUME NEW b \in Seq(Messages), b # <<>>, Head(b).type # "Reject", NEW j, Unrefused(j, Tail(b))
  PROVE  Unrefused(j, b)
<1>1. ASSUME NEW x \in DOMAIN b PROVE b[x].type # "Reject"
  <2>1. /\ Len(b) \in Nat /\ DOMAIN b = 1..Len(b)
        /\ DOMAIN Tail(b) = 1..(Len(b) - 1)
        /\ \A y \in 1..(Len(b) - 1) : Tail(b)[y] = b[y + 1]
        /\ Head(b) = b[1]
    BY Taken
  <2>2. CASE x = 1
    BY <2>1, <2>2
  <2>3. CASE x # 1
    <3>1. x - 1 \in DOMAIN Tail(b) /\ Tail(b)[x - 1] = b[x]
      BY <2>1, <2>3
    <3> QED
      BY <3>1 DEF Unrefused
  <2> QED
    BY <2>2, <2>3
<1> QED
  BY <1>1 DEF Unrefused

\* A page that works through its inbox while it waits for the file, or shows it.
LEMMA AgreeHeard ==
  ASSUME TypeOK, NumbersInv, NEW p \in Pages, Deliver(p), ~lost'[p], ~refused'[p],
         Unrefused(JobOf(p)', inbox'[p]), fetch[p].at # "failed",
         Unrefused(JobOf(p), inbox[p]) /\ ~refused[p] => Shows(Owed(p), inbox[p], file)
  PROVE  Shows(Owed(p)', inbox'[p], file')
<1> DEFINE m == Head(inbox[p])
<1>1. /\ file' = file /\ fetch' = fetch
      /\ lost'[p] = (lost[p] \/ (m.type = "Update" /\ fetch[p].at = "coming"))
  BY Delivered DEF TypeOK
<1>2. /\ inbox[p] # <<>> /\ inbox'[p] = Tail(inbox[p]) /\ JobOf(p)' = JobOf(p)
      /\ m.type = "Reject" => \E u \in Unheard(p) : Struck(p) = {u}
      /\ m.type # "Reject" => Struck(p) = {}
  BY <1>1, OwnDeliver
<1>3. Struck(p) # {} => refused'[p]
  <2>1. Struck(p) # {} => refused' = [refused EXCEPT ![p] = TRUE]
    BY Called
  <2> QED
    BY <2>1 DEF TypeOK
<1>4. m.type # "Reject" /\ Struck(p) = {}
  BY <1>2, <1>3
<1>5. /\ refused'[p] = refused[p]
      /\ view'[p] = IF m.type = "Update" THEN m.data ELSE view[p]
  BY <1>4, Called DEF TypeOK
<1>6. inbox[p] \in Seq(Messages)
  BY PageTyped
<1>7. Unrefused(JobOf(p), inbox[p])
  BY <1>2, <1>4, <1>6, RefusalHeard
<1>8. Shows(Owed(p), inbox[p], file)
  BY <1>5, <1>7
<1>9. Shows(IF m.type = "Update" THEN m.data ELSE Owed(p), Tail(inbox[p]), file)
  BY <1>2, <1>6, <1>8, ShowsHeard
<1> HIDE DEF m
<1>10. fetch[p].at \in {"asked", "coming", "shown"}
  BY PageTyped DEF Fetches
<1>11. CASE fetch[p].at = "asked"
  <2>1. Owed(p)' = file
    BY <1>1, <1>11 DEF Owed
  <2>2. Shows(file, Tail(inbox[p]), file)
    BY <1>9, ShowsLast
  <2> QED
    BY <1>1, <1>2, <2>1, <2>2
<1>12. CASE fetch[p].at = "coming"
  <2>1. m.type # "Update" /\ Owed(p) = fetch[p].text /\ Owed(p)' = fetch[p].text
    BY <1>1, <1>12 DEF Owed
  <2> QED
    BY <1>1, <1>2, <1>9, <2>1
<1>13. CASE fetch[p].at = "shown"
  <2>1. Owed(p) = view[p] /\ Owed(p)' = view'[p]
    BY <1>1, <1>13 DEF Owed
  <2> QED
    BY <1>1, <1>2, <1>5, <1>9, <2>1
<1> QED
  BY <1>10, <1>11, <1>12, <1>13

\* The end of a handler, at a page it tells or does not.
LEMMA AgreeAnswered ==
  ASSUME TypeOK, Wired, OneWriter, NEW p \in Pages, NEW c \in Conns, Answer(c),
         ~overlapped, ~lost'[p], Unrefused(JobOf(p)', inbox'[p]), fetch[p].at # "failed",
         ~job[c].ok /\ Unrefused(JobOf(p), inbox[p]) => Shows(Owed(p), inbox[p], file)
  PROVE  Shows(Owed(p)', inbox'[p], file')
<1> DEFINE a == ReplyTo(c, p)  d == Update(c)
<1>1. /\ job[c].at = "answer"
      /\ inbox'[p] = IF conn[p] # None THEN Mail(inbox[p], a, d) ELSE inbox[p]
      /\ a \in Seq(Messages) /\ Len(a) \in {0, 1}
      /\ Len(a) = 1 => a[1].type = IF job[c].ok THEN "Ack" ELSE "Reject"
      /\ Len(a) = 0 => conn[p] # c
      /\ conn[p] # c => a = <<>>
      /\ d \in Seq(Messages) /\ Len(d) \in {0, 1}
      /\ Len(d) = 1 => job[c].ok /\ d[1].type = "Update" /\ d[1].data = job[c].next
      /\ Len(d) = 0 => ~job[c].ok /\ d = <<>>
      /\ lost'[p] = (lost[p] \/ (conn[p] = None /\ fetch[p].at # "asked" /\ job[c].ok))
      /\ UNCHANGED <<file, view, fetch>>
  BY Posted
<1> HIDE DEF a, d
<1>2. /\ JobOf(p)' = IF conn[p] = c THEN NoJob ELSE JobOf(p)
      /\ conn[p] = c => JobOf(p) = job[c]
  BY OwnAnswer
<1>3. /\ inbox[p] \in Seq(Messages) /\ c # None /\ (conn[p] = None => inbox[p] = <<>>)
      /\ Owed(p)' = Owed(p)
  BY <1>1, PageTyped, CollectionAssumption DEF Wired, Owed
<1>4. CASE conn[p] = None
  <2>1. inbox'[p] = <<>> /\ inbox[p] = <<>>
    BY <1>1, <1>3, <1>4
  <2>2. CASE job[c].ok
    <3>1. Owed(p) = file
      BY <1>1, <1>4, <2>2 DEF Owed
    <3> QED
      BY <1>1, <1>3, <2>1, <3>1 DEF Shows
  <2>3. CASE ~job[c].ok
    BY <1>1, <1>2, <1>3, <1>4, <2>1, <2>3
  <2> QED
    BY <2>2, <2>3
<1>5. CASE conn[p] # None
  <2> DEFINE b == Mail(inbox[p], a, d)
  <2>1. inbox'[p] = b
    BY <1>1, <1>5
  <2>2. /\ DOMAIN b = 1..(Len(inbox[p]) + Len(a) + Len(d)) /\ Len(inbox[p]) \in Nat
        /\ \A x \in 1..Len(a) : b[Len(inbox[p]) + x] = a[x]
    <3>1. IsMail(inbox[p], a, d, b)
      BY <1>1, <1>3, Joined
    <3> HIDE DEF b
    <3> QED
      BY <3>1 DEF IsMail
  <2>3. \A v : Len(d) = 1 => Shows(v, b, d[1].data)
    <3>1. Len(a) = 1 => a[1].type # "Update"
      BY <1>1
    <3>2. Len(d) = 1 => d[1].type = "Update"
      BY <1>1
    <3> QED
      BY <1>1, <1>3, <3>1, <3>2, ShowsPosted
  <2> HIDE DEF b
  <2>4. CASE job[c].ok
    <3>1. file = job[c].next
      BY <1>1, <2>4 DEF OneWriter
    <3>2. Len(d) = 1
      BY <1>1, <2>4
    <3> QED
      BY <1>1, <2>1, <2>3, <3>1, <3>2
  <2>5. CASE ~job[c].ok
    <3>1. conn[p] # c
      <4>1. ASSUME conn[p] = c PROVE FALSE
        <5>1. Len(a) = 1 /\ a[1].type = "Reject"
          BY <1>1, <2>5, <4>1
        <5>2. Len(inbox[p]) + 1 \in DOMAIN b /\ b[Len(inbox[p]) + 1] = a[1]
          <6>1. Len(d) \in Nat /\ 1 \in 1..Len(a)
            BY <1>1, <5>1
          <6> QED
            BY <2>2, <5>1, <6>1
        <5> QED
          BY <2>1, <5>1, <5>2 DEF Unrefused
      <4> QED
        BY <4>1
    <3>2. a = <<>> /\ d = <<>>
      BY <1>1, <2>5, <3>1
    <3>3. b = inbox[p]
      BY <1>3, <3>2 DEF b, Mail
    <3> QED
      BY <1>1, <1>2, <1>3, <2>1, <2>5, <3>1, <3>3
  <2> QED
    BY <2>4, <2>5
<1> QED
  BY <1>4, <1>5

\* While the file is calm, a page that has heard and been granted everything shows it, or
\* will once its inbox is empty and the text it asked for has come.
LEMMA AgreeStep ==
  ASSUME TypeOK, Wired, NumbersInv, OneWriter, AgreeInv, [Next]_vars
  PROVE  AgreeInv'
<1> SUFFICES ASSUME ~overlapped', \A c \in Conns : job'[c].at # "none" => Refusing(job'[c]),
                    NEW p \in Pages, ~lost'[p], ~refused'[p], Unrefused(JobOf(p)', inbox'[p]),
                    Sent(p)' = <<>>, fetch'[p].at # "failed"
             PROVE  Shows(Owed(p)', inbox'[p], file')
  BY DEF AgreeInv, Calm, Busy
<1> DEFINE Goal == Shows(Owed(p)', inbox'[p], file')
<1>0. inbox[p] \in Seq(Messages) /\ (conn[p] = None => inbox[p] = <<>>)
  BY PageTyped DEF Wired
<1>1. ASSUME ~overlapped, \A c \in Conns : job[c].at # "none" => Refusing(job[c]),
             ~lost[p], ~refused[p], Unrefused(JobOf(p), inbox[p]), Sent(p) = <<>>,
             fetch[p].at # "failed"
      PROVE  Shows(Owed(p), inbox[p], file)
  BY <1>1 DEF AgreeInv, Calm, Busy
<1>2. ASSUME file' = file, ~overlapped, \A c \in Conns : job[c].at # "none" => Refusing(job[c]),
             Aside(p)
      PROVE  Goal
  <2>1. Owed(p)' = Owed(p)
    BY <1>2 DEF Aside, Owed
  <2> QED
    BY <1>1, <1>2, <2>1 DEF Aside
<1>3. ASSUME NEW q \in Pages, Mutate(q) PROVE Goal
  <2>1. CASE q = p
    <3>1. \E o : Sent(p)' = Append(Sent(p), o)
      BY <1>3, <2>1, OwnMutate
    <3>2. Sent(p) \in Seq(Operations)
      BY WayTyped
    <3>3. Sent(p)' # <<>>
      BY <3>1, <3>2
    <3> QED
      BY <3>3
  <2>2. CASE q # p
    <3>1. UNCHANGED <<file, overlapped, job>>
      BY <1>3, Planned
    <3> QED
      BY <1>2, <1>3, <2>2, <3>1, OthersAside
  <2> QED
    BY <2>1, <2>2
<1>4. ASSUME NEW q \in Pages, Deliver(q) PROVE Goal
  <2>0. UNCHANGED <<file, overlapped, job, fetch>>
    BY <1>4, Delivered
  <2>1. CASE q = p
    <3>1. ~lost[p]
      <4>1. lost'[p] = (lost[p] \/ (Head(inbox[p]).type = "Update" /\ fetch[p].at = "coming"))
        BY <1>4, <2>1, Delivered DEF TypeOK
      <4> QED
        BY <4>1
    <3>2. Sent(p) = <<>>
      BY <1>4, <2>1, <3>1, OwnDeliver
    <3>3. Unrefused(JobOf(p), inbox[p]) /\ ~refused[p] => Shows(Owed(p), inbox[p], file)
      BY <1>1, <2>0, <3>1, <3>2
    <3> QED
      BY <1>4, <2>0, <2>1, <3>3, AgreeHeard
  <2>2. CASE q # p
    BY <1>2, <1>4, <2>0, <2>2, OthersAside
  <2> QED
    BY <2>1, <2>2
<1>5. ASSUME NEW q \in Pages, Load(q) PROVE Goal
  <2>1. UNCHANGED <<file, overlapped, job>>
    BY <1>5 DEF Load
  <2>2. CASE q = p
    <3>1. inbox'[p] = <<>> /\ fetch'[p] = Fetch("asked")
      BY <1>5, <2>2, OwnLoad
    <3>2. Owed(p)' = file'
      BY <3>1 DEF Owed, Fetch
    <3> QED
      BY <3>1, <3>2 DEF Shows
  <2>3. CASE q # p
    BY <1>2, <1>5, <2>1, <2>3, OthersAside
  <2> QED
    BY <2>2, <2>3
<1>6. ASSUME NEW q \in Pages, Serve(q) \/ Arrive(q) PROVE Goal
  <2>1. UNCHANGED <<file, overlapped, job, inbox, lost, refused>>
    BY <1>6, OwnFetch
  <2>2. CASE q = p
    <3>1. fetch[p].at # "failed"
      BY <1>6, <2>2 DEF Serve, Arrive
    <3>2. Shows(Owed(p), inbox[p], file)
      BY <1>1, <1>6, <2>1, <2>2, <3>1, OwnFetch
    <3>3. Owed(p)' = Owed(p)
      <4>1. CASE Serve(p)
        <5>1. fetch[p].at = "asked" /\ fetch'[p] = [at |-> "coming", text |-> file]
          BY <4>1 DEF Serve, TypeOK, Fetch
        <5> QED
          BY <5>1 DEF Owed
      <4>2. CASE Arrive(p)
        <5>1. fetch[p].at = "coming" /\ fetch'[p].at = "shown" /\ view'[p] = fetch[p].text
          BY <4>2 DEF Arrive, TypeOK, Fetch
        <5> QED
          BY <5>1 DEF Owed
      <4> QED
        BY <1>6, <2>2, <4>1, <4>2
    <3> QED
      BY <2>1, <3>2, <3>3
  <2>3. CASE q # p
    BY <1>2, <1>6, <2>1, <2>3, OthersAside
  <2> QED
    BY <2>2, <2>3
<1>7. ASSUME NEW q \in Pages, Disconnect(q) PROVE Goal
  <2>1. q # p /\ UNCHANGED <<file, overlapped, job>>
    BY <1>7, OwnDisconnect
  <2> QED
    BY <1>2, <1>7, <2>1, OthersAside
<1>8. ASSUME NEW q \in Pages, Connect(q) PROVE Goal
  <2>1. UNCHANGED <<file, view, fetch, job, inbox, lost, refused, overlapped>>
    BY <1>8, OwnConnect
  <2>2. CASE q = p
    <3>1. Sent(p) = <<>> /\ JobOf(p) = JobOf(p)'
      BY <1>8, <2>2, OwnConnect
    <3>2. Owed(p)' = Owed(p)
      BY <2>1 DEF Owed
    <3> QED
      BY <1>1, <2>1, <3>1, <3>2
  <2>3. CASE q # p
    BY <1>2, <1>8, <2>1, <2>3, OthersAside
  <2> QED
    BY <2>2, <2>3
<1>9. ASSUME NEW c \in Conns, Read(c) PROVE Goal
  <2>1. /\ job[c].at = "none" /\ file' = file
        /\ overlapped' = (overlapped \/ \E d \in Conns \ {c} : Busy(d))
    BY <1>9, Started
  <2>2. PICK j \in Jobs : /\ job' = [job EXCEPT ![c] = j]
                          /\ j.at = "open" \/ (j.at = "answer" /\ ~j.ok)
    BY <1>9, Started
  <2>3. job'[c] = j
    BY <2>2 DEF TypeOK
  <2>4. Refusing(j)
    <3>1. j.at # "none"
      BY <2>2
    <3> QED
      BY <2>3, <3>1
  <2>5. conn[p] # c
    BY <1>9, <2>3, <2>4, OwnHandler DEF Unrefused
  <2>6. /\ \A d \in Conns : job[d].at # "none" => Refusing(job[d])
        /\ ~overlapped
    BY <2>1 DEF Busy
  <2> QED
    BY <1>2, <1>9, <2>1, <2>5, <2>6, HandlerAside
<1>10. ASSUME NEW c \in Conns, Ignore(c) \/ Hangup(c) PROVE Goal
  <2>1. UNCHANGED <<file, overlapped, job>>
    BY <1>10 DEF Ignore, Hangup, histVars, noted
  <2>2. conn[p] # c
    BY <1>10, OwnHandler
  <2> QED
    BY <1>2, <1>10, <2>1, <2>2, HandlerAside
<1>11. ASSUME NEW c \in Conns, Open(c) \/ Write(c) PROVE FALSE
  <2>1. CASE Open(c)
    <3>1. job'[c] = At(job[c], "write")
      BY <2>1, JobSteps DEF TypeOK
    <3>2. job'[c].at = "write"
      BY <3>1 DEF At
    <3> QED
      BY <3>2 DEF Refusing
  <2>2. CASE Write(c)
    <3>1. job'[c] = At(job[c], "answer") /\ job[c].at = "write"
      <4>1. job' = [job EXCEPT ![c] = At(job[c], "answer")]
        BY <2>2, JobSteps
      <4> QED
        BY <2>2, <4>1 DEF TypeOK, Write
    <3>2. job[c].ok
      BY <3>1 DEF Wired
    <3>3. job'[c].at = "answer" /\ job'[c].ok
      BY <3>1, <3>2 DEF At
    <3> QED
      BY <3>3 DEF Refusing
  <2> QED
    BY <1>11, <2>1, <2>2
<1>12. ASSUME NEW c \in Conns, Answer(c) PROVE Goal
  <2>1. /\ job[c].at = "answer" /\ job' = [job EXCEPT ![c] = NoJob]
        /\ lost'[p] = (lost[p] \/ (conn[p] = None /\ fetch[p].at # "asked" /\ job[c].ok))
        /\ UNCHANGED <<overlapped, refused, fetch>>
    BY <1>12, Posted
  <2>2. Sent(p) = <<>>
    BY <1>12, OwnAnswer
  <2>3. ASSUME ~job[c].ok PROVE \A d \in Conns : job[d].at # "none" => Refusing(job[d])
    <3>1. \A d \in Conns : job'[d] = IF d = c THEN NoJob ELSE job[d]
      BY <2>1 DEF TypeOK
    <3>2. Refusing(job[c])
      BY <2>1, <2>3 DEF Refusing
    <3> QED
      BY <3>1, <3>2
  <2>4. ~job[c].ok /\ Unrefused(JobOf(p), inbox[p]) => Shows(Owed(p), inbox[p], file)
    BY <1>1, <2>1, <2>2, <2>3
  <2> QED
    BY <1>12, <2>1, <2>4, AgreeAnswered
<1>13. ASSUME UNCHANGED vars PROVE Goal
  <2>1. Aside(p) /\ UNCHANGED <<file, overlapped, job>>
    BY <1>13, StaysAside DEF vars, pageVars, counters, histVars, noted
  <2> QED
    BY <1>2, <2>1
<1> HIDE DEF Goal
<1>14. Goal
  BY <1>3, <1>4, <1>5, <1>6, <1>7, <1>8, <1>9, <1>10, <1>11, <1>12, <1>13 DEF Next, Handle
<1> QED
  BY <1>14 DEF Goal

AgreementInv == TypeOK /\ Wired /\ NumbersInv /\ OneWriter /\ AgreeInv

\* When nothing is on its way any more, every page that has heard everything and had nothing
\* refused renders what is in the file, however its fetch and its socket raced with those who
\* edited it, unless two handlers overlapped: the broadcast that follows a write reaches every
\* such page last, or the text it fetched was read after it.
THEOREM PagesAgreeAtRest == Spec => []PagesAgree
<1>1. Init => AgreementInv
  BY TypeInit, WiredInit, NumbersInit, TurnInit DEF AgreementInv
<1>2. AgreementInv /\ [Next]_vars => AgreementInv'
  BY TypeStep, WiredStep, NumbersStep, TurnStep, AgreeStep DEF AgreementInv
<1>3. AgreementInv => PagesAgree
  <2> SUFFICES ASSUME AgreementInv, \A c \in Conns : sent[c] = <<>> /\ ~Busy(c), ~overlapped,
                      NEW p \in Pages, Settled(p), ~lost[p], ~refused[p]
               PROVE  view[p] = file
    BY DEF PagesAgree
  <2>1. /\ Calm /\ inbox[p] = <<>> /\ conn[p] \in Conns /\ conn[p] # None /\ fetch[p].at = "shown"
    BY DEF Calm, Settled, AgreementInv, TypeOK
  <2>2. Sent(p) = <<>> /\ JobOf(p).at = "none"
    BY <2>1 DEF Sent, JobOf, Busy
  <2>3. Unrefused(JobOf(p), inbox[p])
    BY <2>1, <2>2 DEF Unrefused, Refusing
  <2>4. Shows(Owed(p), inbox[p], file) /\ Owed(p) = view[p]
    BY <2>1, <2>2, <2>3 DEF AgreementInv, AgreeInv, Owed
  <2> QED
    BY <2>1, <2>4 DEF Shows
<1> QED
  BY <1>1, <1>2, <1>3, PTL DEF Spec
-----------------------------------------------------------------------------
(* A page that edits alone. No table holds the row of an operation that is *)
(* not planned yet.                                                        *)

NewIds(n) == {Len(Start) + m : m \in n..MaxOps}
Older(t, n) == IdsOf(t) \cap NewIds(n) = {}

OldPage(p, n) ==
  /\ plan[p] # None => Older(plan[p], n)
  /\ Older(view[p], n) /\ Older(fetch[p].text, n)
  /\ \A x \in DOMAIN inbox[p] : Older(inbox[p][x].data, n)
  /\ \A u \in pending[p] : u.row.id \notin NewIds(n)

OldConn(c, n) ==
  /\ Older(job[c].next, n)
  /\ \A x \in DOMAIN sent[c] : sent[c][x].row.id \notin NewIds(n)

OldInv ==
  /\ \A p \in Pages : OldPage(p, ops + 1)
  /\ \A c \in Conns : OldConn(c, ops + 1)
  /\ file \in Tables => Older(file, ops + 1)

LEMMA LaterIds ==
  ASSUME NEW n \in Nat
  PROVE  /\ NewIds(n + 1) \subseteq NewIds(n)
         /\ Len(Start) + n \notin NewIds(n + 1)
         /\ n <= MaxOps => Len(Start) + n \in NewIds(n)
<1>1. Len(Start) \in Nat /\ MaxOps \in Nat
  BY CollectionAssumption
<1> QED
  BY <1>1 DEF NewIds

LEMMA EmptyOlder ==
  ASSUME NEW n
  PROVE  Older(<<>>, n)
BY DEF Older, IdsOf

LEMMA OldInit ==
  ASSUME Init
  PROVE  OldInv
<1>1. Older(Start, 0 + 1)
  <2>1. ASSUME NEW i \in DOMAIN Start, NEW m \in (0 + 1)..MaxOps PROVE Start[i].id # Len(Start) + m
    <3>1. m \in 1..MaxOps
      OBVIOUS
    <3>2. \A n \in 1..MaxOps : \A x \in DOMAIN Start : Start[x].id # Len(Start) + n
      BY CollectionAssumption
    <3> QED
      BY <3>1, <3>2
  <2> QED
    BY <2>1 DEF Older, IdsOf, NewIds
<1>2. ASSUME NEW p \in Pages PROVE OldPage(p, 0 + 1)
  BY <1>1, EmptyOlder DEF Init, OldPage, Fetch
<1>3. ASSUME NEW c \in Conns PROVE OldConn(c, 0 + 1)
  BY EmptyOlder DEF Init, OldConn, NoJob
<1> QED
  BY <1>1, <1>2, <1>3 DEF Init, OldInv

\* A planned operation uses up one identity.
LEMMA OldMutate ==
  ASSUME TypeOK, OldInv, NEW p \in Pages, Mutate(p)
  PROVE  OldInv'
<1>0. ops \in Nat /\ Current(p) \in Tables
  BY PageTyped
<1>1. PICK o \in Asked(Current(p), ops + 1) :
        /\ o \in Operations
        /\ Undo(o, Current(p)) \in Undos /\ Local(o, Current(p)) \in Tables
        /\ plan' = [plan EXCEPT ![p] = Local(o, Current(p))]
        /\ view' = [view EXCEPT ![p] = Local(o, Current(p))]
        /\ conn[p] # None =>
             /\ sent' = [sent EXCEPT ![conn[p]] = Append(sent[conn[p]], o)]
             /\ pending' = [pending EXCEPT ![p] = pending[p] \cup {Undo(o, Current(p))}]
        /\ conn[p] = None => UNCHANGED <<sent, pending>>
  BY Planned
<1>2. ops' = ops + 1 /\ ops + 1 \in 1..MaxOps /\ UNCHANGED <<file, job, fetch, inbox>>
  BY Planned
<1>3. NewIds(ops + 1 + 1) \subseteq NewIds(ops + 1) /\ Len(Start) + (ops + 1) \notin NewIds(ops + 1 + 1)
  BY <1>0, LaterIds
<1>4. /\ IdsOf(Local(o, Current(p))) \subseteq IdsOf(Current(p)) \cup {o.row.id}
      /\ o.row.id \in IdsOf(Current(p)) \cup {Len(Start) + (ops + 1)}
      /\ Undo(o, Current(p)).row.id \in IdsOf(Current(p)) \cup {o.row.id}
  BY <1>0, <1>2, LocalTable
<1>5. Older(Current(p), ops + 1)
  BY DEF OldInv, OldPage, Current
<1>6. /\ o.row.id \notin NewIds(ops + 1 + 1) /\ Undo(o, Current(p)).row.id \notin NewIds(ops + 1 + 1)
      /\ Older(Local(o, Current(p)), ops + 1 + 1)
  BY <1>3, <1>4, <1>5 DEF Older
<1>7. ASSUME NEW q \in Pages PROVE OldPage(q, ops + 1)'
  <2>1. /\ plan[q] # None => Older(plan[q], ops + 1 + 1)
        /\ Older(view[q], ops + 1 + 1) /\ Older(fetch[q].text, ops + 1 + 1)
        /\ \A x \in DOMAIN inbox[q] : Older(inbox[q][x].data, ops + 1 + 1)
        /\ \A u \in pending[q] : u.row.id \notin NewIds(ops + 1 + 1)
    BY <1>3 DEF OldInv, OldPage, Older
  <2>2. \A u \in pending'[q] : u \in pending[q] \/ u = Undo(o, Current(p))
    <3>1. CASE conn[p] = None
      BY <1>1, <3>1
    <3>2. CASE conn[p] # None
      <4>1. pending'[q] = IF q = p THEN pending[p] \cup {Undo(o, Current(p))} ELSE pending[q]
        BY <1>1, <3>2 DEF TypeOK
      <4> QED
        BY <4>1
    <3> QED
      BY <3>1, <3>2
  <2>3. /\ plan'[q] = IF q = p THEN Local(o, Current(p)) ELSE plan[q]
        /\ view'[q] = IF q = p THEN Local(o, Current(p)) ELSE view[q]
    BY <1>1 DEF TypeOK
  <2>4. \A u \in pending'[q] : u.row.id \notin NewIds(ops + 1 + 1)
    BY <1>6, <2>1, <2>2
  <2> QED
    BY <1>2, <1>6, <2>1, <2>3, <2>4 DEF OldPage
<1>8. ASSUME NEW c \in Conns PROVE OldConn(c, ops + 1)'
  <2>1. /\ Older(job[c].next, ops + 1 + 1)
        /\ \A x \in DOMAIN sent[c] : sent[c][x].row.id \notin NewIds(ops + 1 + 1)
    BY <1>3 DEF OldInv, OldConn, Older
  <2>2. CASE conn[p] = c
    <3>1. sent'[c] = Append(sent[c], o)
      <4>1. conn[p] # None
        BY <2>2, CollectionAssumption
      <4> QED
        BY <1>1, <2>2, <4>1 DEF TypeOK
    <3>2. \A x \in DOMAIN Append(sent[c], o) : Append(sent[c], o)[x].row.id \notin NewIds(ops + 1 + 1)
      <4>1. sent[c] \in Seq(Operations)
        BY ConnTyped
      <4>2. /\ DOMAIN Append(sent[c], o) = 1..(Len(sent[c]) + 1) /\ Len(sent[c]) \in Nat
            /\ DOMAIN sent[c] = 1..Len(sent[c])
            /\ \A x \in 1..Len(sent[c]) : Append(sent[c], o)[x] = sent[c][x]
            /\ Append(sent[c], o)[Len(sent[c]) + 1] = o
        BY <1>1, <4>1, AppendProperties
      <4> QED
        BY <1>6, <2>1, <4>2
    <3> QED
      BY <1>2, <2>1, <3>1, <3>2 DEF OldConn
  <2>3. CASE conn[p] # c
    <3>1. sent'[c] = sent[c]
      <4>1. CASE conn[p] = None
        BY <1>1, <4>1
      <4>2. CASE conn[p] # None
        BY <1>1, <2>3, <4>2 DEF TypeOK
      <4> QED
        BY <4>1, <4>2
    <3> QED
      BY <1>2, <2>1, <3>1 DEF OldConn
  <2> QED
    BY <2>2, <2>3
<1>9. file' \in Tables => Older(file', ops' + 1)
  BY <1>2, <1>3 DEF OldInv, Older
<1> QED
  BY <1>7, <1>8, <1>9 DEF OldInv

\* What a page hears of or undoes brings no new row.
LEMMA OldDeliver ==
  ASSUME TypeOK, OldInv, NEW p \in Pages, Deliver(p)
  PROVE  OldInv'
<1>1. /\ inbox[p] # <<>> /\ inbox' = [inbox EXCEPT ![p] = Tail(inbox[p])]
      /\ pending' = [pending EXCEPT ![p] = pending[p] \ Struck(p)]
      /\ UNCHANGED <<file, fetch, sent, job, ops>>
  BY Delivered
<1>2. /\ plan[p] # None => Older(plan[p], ops + 1)
      /\ Older(view[p], ops + 1)
      /\ \A x \in DOMAIN inbox[p] : Older(inbox[p][x].data, ops + 1)
      /\ \A u \in pending[p] : u.row.id \notin NewIds(ops + 1)
  BY DEF OldInv, OldPage
<1>3. /\ DOMAIN inbox[p] = 1..Len(inbox[p]) /\ Len(inbox[p]) \in Nat /\ Len(inbox[p]) >= 1
      /\ DOMAIN Tail(inbox[p]) = 1..(Len(inbox[p]) - 1) /\ Head(inbox[p]) = inbox[p][1]
      /\ \A x \in 1..(Len(inbox[p]) - 1) : Tail(inbox[p])[x] = inbox[p][x + 1]
  <2>1. inbox[p] \in Seq(Messages)
    BY PageTyped
  <2> QED
    BY <1>1, <2>1, Taken
<1>4. \A x \in DOMAIN inbox'[p] : Older(inbox'[p][x].data, ops + 1)
  <2>1. inbox'[p] = Tail(inbox[p])
    BY <1>1 DEF TypeOK
  <2>2. \A x \in 1..(Len(inbox[p]) - 1) : x + 1 \in DOMAIN inbox[p]
    BY <1>3
  <2> QED
    BY <1>2, <1>3, <2>1, <2>2
<1>5. Older(Head(inbox[p]).data, ops + 1)
  <2>1. 1 \in DOMAIN inbox[p]
    BY <1>3
  <2> QED
    BY <1>2, <1>3, <2>1
<1>6. /\ plan'[p] # None => Older(plan'[p], ops + 1)
      /\ Older(view'[p], ops + 1)
      /\ \A q \in Pages : q # p => plan'[q] = plan[q] /\ view'[q] = view[q]
  <2>1. CASE Struck(p) # {}
    <3>1. PICK u \in Struck(p) :
            /\ u \in Undos
            /\ plan' = [plan EXCEPT ![p] = Undone(u, Current(p))]
            /\ view' = [view EXCEPT ![p] = Undone(u, Current(p))]
      BY <2>1, Called
    <3>2. Current(p) \in Tables
      BY PageTyped
    <3>3. IdsOf(Undone(u, Current(p))) \subseteq IdsOf(Current(p)) \cup {u.row.id}
      BY <3>1, <3>2, UndoneTable
    <3>4. Older(Current(p), ops + 1) /\ u.row.id \notin NewIds(ops + 1)
      BY <1>2 DEF Current, Struck
    <3>5. Older(Undone(u, Current(p)), ops + 1)
      BY <3>3, <3>4 DEF Older
    <3> QED
      BY <3>1, <3>5 DEF TypeOK
  <2>2. CASE Struck(p) = {}
    <3>1. /\ plan' = plan
          /\ view' = [view EXCEPT ![p] = IF Head(inbox[p]).type = "Update"
                                         THEN Head(inbox[p]).data ELSE view[p]]
      BY <2>2, Called
    <3> QED
      BY <1>2, <1>5, <3>1 DEF TypeOK
  <2> QED
    BY <2>1, <2>2
<1>7. ASSUME NEW q \in Pages PROVE OldPage(q, ops + 1)'
  <2>1. OldPage(q, ops + 1)
    BY DEF OldInv
  <2>2. pending'[q] \subseteq pending[q]
    BY <1>1 DEF TypeOK
  <2>3. q # p => inbox'[q] = inbox[q]
    BY <1>1 DEF TypeOK
  <2>4. \A u \in pending'[q] : u.row.id \notin NewIds(ops + 1)
    BY <2>1, <2>2 DEF OldPage
  <2>5. /\ plan'[q] # None => Older(plan'[q], ops + 1)
        /\ Older(view'[q], ops + 1)
        /\ \A x \in DOMAIN inbox'[q] : Older(inbox'[q][x].data, ops + 1)
    BY <1>4, <1>6, <2>1, <2>3 DEF OldPage
  <2>6. Older(fetch[q].text, ops + 1)
    BY <2>1 DEF OldPage
  <2> QED
    BY <1>1, <2>4, <2>5, <2>6 DEF OldPage
<1>8. ASSUME NEW c \in Conns PROVE OldConn(c, ops + 1)'
  BY <1>1 DEF OldInv, OldConn
<1> QED
  BY <1>1, <1>7, <1>8 DEF OldInv

\* A page that is loaded, fetches or connects.
LEMMA OldPages ==
  ASSUME TypeOK, OldInv, NEW p \in Pages,
         Load(p) \/ Serve(p) \/ Arrive(p) \/ Disconnect(p) \/ Connect(p)
  PROVE  OldInv'
<1>1. UNCHANGED <<file, sent, job, ops>>
  BY DEF Load, Serve, Arrive, Disconnect, Connect, counters
<1>2. ASSUME NEW q \in Pages PROVE OldPage(q, ops + 1)'
  <2>1. OldPage(q, ops + 1)
    BY DEF OldInv
  <2>2. \/ plan'[q] = plan[q] \/ plan'[q] = None \/ plan'[q] = fetch[q].text
    BY DEF Load, Serve, Arrive, Disconnect, Connect, pageVars, TypeOK
  <2>3. \/ view'[q] = view[q] \/ view'[q] = <<>> \/ view'[q] = fetch[q].text
    BY DEF Load, Serve, Arrive, Disconnect, Connect, pageVars, TypeOK
  <2>4. \/ fetch'[q].text = fetch[q].text \/ fetch'[q].text = <<>>
        \/ file \in Tables /\ fetch'[q].text = file
    BY DEF Load, Serve, Arrive, Disconnect, Connect, pageVars, TypeOK, Fetch, Tables
  <2>5. inbox'[q] = inbox[q] \/ inbox'[q] = <<>>
    BY DEF Load, Serve, Arrive, Disconnect, Connect, TypeOK
  <2>6. pending'[q] \subseteq pending[q]
    BY DEF Load, Serve, Arrive, Disconnect, Connect, pageVars, TypeOK
  <2>7. Older(<<>>, ops + 1) /\ (file \in Tables => Older(file, ops + 1))
    BY EmptyOlder DEF OldInv
  <2>8. /\ plan[q] # None => Older(plan[q], ops + 1)
        /\ Older(view[q], ops + 1) /\ Older(fetch[q].text, ops + 1)
        /\ \A x \in DOMAIN inbox[q] : Older(inbox[q][x].data, ops + 1)
        /\ \A u \in pending[q] : u.row.id \notin NewIds(ops + 1)
    BY <2>1 DEF OldPage
  <2>9. \A x \in DOMAIN inbox'[q] : Older(inbox'[q][x].data, ops + 1)
    BY <2>5, <2>8
  <2>10. \A u \in pending'[q] : u.row.id \notin NewIds(ops + 1)
    BY <2>6, <2>8
  <2>11. /\ plan'[q] # None => Older(plan'[q], ops + 1)
         /\ Older(view'[q], ops + 1) /\ Older(fetch'[q].text, ops + 1)
    BY <2>2, <2>3, <2>4, <2>7, <2>8
  <2> QED
    BY <1>1, <2>9, <2>10, <2>11 DEF OldPage
<1>3. ASSUME NEW c \in Conns PROVE OldConn(c, ops + 1)'
  BY <1>1 DEF OldInv, OldConn
<1>4. file' \in Tables => Older(file', ops' + 1)
  BY <1>1 DEF OldInv
<1> QED
  BY <1>2, <1>3, <1>4 DEF OldInv

\* A handler applies what was sent to what the file holds.
LEMMA OldHandler ==
  ASSUME TypeOK, OldInv, NEW c \in Conns, Handle(c) \/ Hangup(c)
  PROVE  OldInv'
<1>0. /\ UNCHANGED <<plan, view, fetch, pending, ops>>
      /\ ~Answer(c) => UNCHANGED inbox
  BY DEF Handle, Read, Ignore, Open, Write, Answer, Hangup, pageVars, counters
<1>1. ASSUME NEW d \in Conns
      PROVE  /\ Older(job[d].next, ops + 1)
             /\ \A x \in DOMAIN sent[d] : sent[d][x].row.id \notin NewIds(ops + 1)
  BY DEF OldInv, OldConn
<1>2. ASSUME NEW q \in Pages, inbox'[q] = inbox[q] PROVE OldPage(q, ops + 1)'
  BY <1>0, <1>2 DEF OldInv, OldPage
<1>3. file \in Tables => Older(file, ops + 1)
  BY DEF OldInv
<1>4. ASSUME sent[c] # <<>>
      PROVE  /\ Head(sent[c]).row.id \notin NewIds(ops + 1)
             /\ \A x \in DOMAIN Tail(sent[c]) : Tail(sent[c])[x].row.id \notin NewIds(ops + 1)
  <2>1. sent[c] \in Seq(Operations)
    BY ConnTyped
  <2>2. /\ Len(sent[c]) \in Nat /\ Len(sent[c]) >= 1 /\ Head(sent[c]) = sent[c][1]
        /\ DOMAIN sent[c] = 1..Len(sent[c]) /\ DOMAIN Tail(sent[c]) = 1..(Len(sent[c]) - 1)
        /\ \A x \in 1..(Len(sent[c]) - 1) : Tail(sent[c])[x] = sent[c][x + 1]
    BY <1>4, <2>1, Taken
  <2>3. 1 \in DOMAIN sent[c] /\ \A x \in 1..(Len(sent[c]) - 1) : x + 1 \in DOMAIN sent[c]
    BY <2>2
  <2> QED
    BY <1>1, <2>2, <2>3
<1>5. CASE Read(c)
  <2>1. /\ sent[c] # <<>> /\ Head(sent[c]).at # 0 /\ Head(sent[c]) \in Operations
        /\ sent' = [sent EXCEPT ![c] = Tail(sent[c])] /\ file' = file
    BY <1>5, Started
  <2>2. PICK j \in Jobs : /\ job' = [job EXCEPT ![c] = j]
                          /\ \/ /\ file \in Tables /\ Legal(Head(sent[c]), file)
                                /\ j.next = Applied(Head(sent[c]), file)
                             \/ j.next = <<>>
    BY <1>5, Started
  <2>3. Older(j.next, ops + 1)
    <3>1. CASE j.next = <<>>
      BY <3>1, EmptyOlder
    <3>2. CASE /\ file \in Tables /\ Legal(Head(sent[c]), file)
               /\ j.next = Applied(Head(sent[c]), file)
      <4>1. IdsOf(j.next) \subseteq IdsOf(file) \cup {Head(sent[c]).row.id}
        BY <2>1, <3>2, AppliedTable
      <4> QED
        BY <1>3, <1>4, <2>1, <3>2, <4>1 DEF Older
    <3> QED
      BY <2>2, <3>1, <3>2
  <2>4. ASSUME NEW d \in Conns PROVE OldConn(d, ops + 1)'
    <3>1. /\ sent'[d] = IF d = c THEN Tail(sent[c]) ELSE sent[d]
          /\ job'[d] = IF d = c THEN j ELSE job[d]
      BY <2>1, <2>2 DEF TypeOK
    <3> QED
      BY <1>0, <1>1, <1>4, <2>1, <2>3, <3>1 DEF OldConn
  <2>5. ~Answer(c)
    BY <1>5 DEF Read, Answer, Busy
  <2> QED
    BY <1>0, <1>2, <1>3, <2>1, <2>4, <2>5 DEF OldInv
<1>6. CASE Ignore(c) \/ Hangup(c)
  <2>1. /\ sent[c] # <<>> /\ UNCHANGED <<file, job, inbox>>
        /\ sent' = [sent EXCEPT ![c] = Tail(sent[c])] \/ sent' = [sent EXCEPT ![c] = <<>>]
    BY <1>6 DEF Ignore, Hangup
  <2>2. ASSUME NEW d \in Conns PROVE OldConn(d, ops + 1)'
    <3>1. sent'[d] = sent[d] \/ sent'[d] = <<>> \/ (d = c /\ sent'[d] = Tail(sent[c]))
      BY <2>1 DEF TypeOK
    <3>2. \A x \in DOMAIN sent'[d] : sent'[d][x].row.id \notin NewIds(ops + 1)
      <4>1. CASE sent'[d] = sent[d]
        BY <1>1, <4>1
      <4>2. CASE sent'[d] = <<>>
        <5>1. DOMAIN sent'[d] = {}
          BY <4>2
        <5> QED
          BY <5>1
      <4>3. CASE sent'[d] = Tail(sent[c])
        BY <1>4, <2>1, <4>3
      <4> QED
        BY <3>1, <4>1, <4>2, <4>3
    <3> QED
      BY <1>0, <1>1, <2>1, <3>2 DEF OldConn
  <2> QED
    BY <1>0, <1>2, <1>3, <2>1, <2>2 DEF OldInv
<1>7. CASE Open(c) \/ Write(c)
  <2>1. UNCHANGED <<sent, inbox>> /\ file' \in {Empty, Garbled, job[c].next}
    BY <1>7 DEF Open, Write
  <2>2. file' \in Tables => Older(file', ops + 1)
    BY <1>1, <2>1, CollectionAssumption DEF Tables
  <2>3. ASSUME NEW d \in Conns PROVE OldConn(d, ops + 1)'
    <3>1. \E a : job' = [job EXCEPT ![c] = At(job[c], a)]
      BY <1>7, JobSteps
    <3>2. job'[d].next = job[d].next
      BY <3>1 DEF TypeOK, At
    <3> QED
      BY <1>0, <1>1, <2>1, <3>2 DEF OldConn
  <2> QED
    BY <1>0, <1>2, <2>1, <2>2, <2>3 DEF OldInv
<1>8. CASE Answer(c)
  <2>1. job' = [job EXCEPT ![c] = NoJob] /\ UNCHANGED <<file, sent>>
    BY <1>8 DEF Answer
  <2>2. ASSUME NEW d \in Conns PROVE OldConn(d, ops + 1)'
    <3>1. job'[d] = IF d = c THEN NoJob ELSE job[d]
      BY <2>1 DEF TypeOK
    <3>2. Older(job'[d].next, ops + 1)
      BY <1>1, <3>1, EmptyOlder DEF NoJob
    <3> QED
      BY <1>0, <1>1, <2>1, <3>2 DEF OldConn
  <2>3. ASSUME NEW q \in Pages PROVE OldPage(q, ops + 1)'
    <3>1. CASE conn[q] = None
      <4>1. inbox'[q] = inbox[q]
        BY <1>8, <3>1, Posted
      <4> QED
        BY <1>2, <4>1
    <3>2. CASE conn[q] # None
      <4> DEFINE a == ReplyTo(c, q)  d == Update(c)
      <4>1. inbox'[q] = Mail(inbox[q], a, d)
        BY <1>8, <3>2, Posted
      <4>2. /\ a \in Seq(Messages) /\ Len(a) \in {0, 1} /\ d \in Seq(Messages) /\ Len(d) \in {0, 1}
            /\ Len(d) = 1 => d[1].data = job[c].next
        BY <1>8, Posted
      <4>3. Len(a) = 1 => a[1].data = <<>>
        <5>1. a = <<>> \/ a = Reply(c)
          BY DEF ReplyTo
        <5> QED
          BY <5>1 DEF Reply
      <4> HIDE DEF a, d
      <4>4. IsMail(inbox[q], a, d, inbox'[q])
        <5>1. inbox[q] \in Seq(Messages)
          BY PageTyped
        <5> QED
          BY <4>1, <4>2, <5>1, Joined
      <4>5. \A x \in DOMAIN inbox[q] : Older(inbox[q][x].data, ops + 1)
        BY DEF OldInv, OldPage
      <4>6. /\ \A x \in 1..Len(a) : Older(a[x].data, ops + 1)
            /\ \A x \in 1..Len(d) : Older(d[x].data, ops + 1)
        <5>1. \A x \in 1..Len(a) : x = 1 /\ Len(a) = 1
          <6>1. CASE Len(a) = 0
            BY <6>1
          <6>2. CASE Len(a) = 1
            BY <6>2
          <6> QED
            BY <4>2, <6>1, <6>2
        <5>2. \A x \in 1..Len(d) : x = 1 /\ Len(d) = 1
          <6>1. CASE Len(d) = 0
            BY <6>1
          <6>2. CASE Len(d) = 1
            BY <6>2
          <6> QED
            BY <4>2, <6>1, <6>2
        <5>3. Older(<<>>, ops + 1) /\ Older(job[c].next, ops + 1)
          BY <1>1, EmptyOlder
        <5> QED
          BY <4>2, <4>3, <5>1, <5>2, <5>3
      <4>7. \A x \in DOMAIN inbox'[q] : Older(inbox'[q][x].data, ops + 1)
        <5> SUFFICES ASSUME NEW x \in DOMAIN inbox'[q] PROVE Older(inbox'[q][x].data, ops + 1)
          OBVIOUS
        <5>1. \/ x \in DOMAIN inbox[q] /\ inbox'[q][x] = inbox[q][x]
              \/ \E y \in 1..Len(a) : inbox'[q][x] = a[y]
              \/ \E y \in 1..Len(d) : inbox'[q][x] = d[y]
          <6>1. x \in 1..(Len(inbox[q]) + Len(a) + Len(d)) /\ Len(inbox[q]) \in Nat
            BY <4>4 DEF IsMail
          <6>2. CASE x \in 1..Len(inbox[q])
            BY <4>4, <6>2 DEF IsMail
          <6>3. CASE x = Len(inbox[q]) + 1 /\ Len(a) = 1
            BY <4>4, <6>3 DEF IsMail
          <6>4. CASE x = Len(inbox[q]) + Len(a) + 1 /\ Len(d) = 1
            BY <4>4, <6>4 DEF IsMail
          <6> QED
            BY <4>2, <6>1, <6>2, <6>3, <6>4
        <5> QED
          BY <4>5, <4>6, <5>1
      <4>8. /\ plan[q] # None => Older(plan[q], ops + 1)
            /\ Older(view[q], ops + 1) /\ Older(fetch[q].text, ops + 1)
            /\ \A u \in pending[q] : u.row.id \notin NewIds(ops + 1)
        BY DEF OldInv, OldPage
      <4> QED
        BY <1>0, <4>7, <4>8 DEF OldPage
    <3> QED
      BY <3>1, <3>2
  <2> QED
    BY <1>0, <1>3, <2>1, <2>2, <2>3 DEF OldInv
<1> QED
  BY <1>5, <1>6, <1>7, <1>8 DEF Handle

LEMMA OldStep ==
  ASSUME TypeOK, OldInv, [Next]_vars
  PROVE  OldInv'
<1>1. CASE Next
  BY <1>1, OldMutate, OldDeliver, OldPages, OldHandler DEF Next
<1>2. CASE UNCHANGED vars
  BY <1>2 DEF vars, pageVars, counters, OldInv, OldPage, OldConn
<1> QED
  BY <1>1, <1>2

-----------------------------------------------------------------------------
(* What a page that edits alone is in: s, j, b and P as before, pl what it *)
(* plans on, v what it renders, f the text of the file.                    *)

\* The table the next operation of the page will meet.
Base(j, f) == IF j.at \in {"open", "write"} THEN j.next ELSE f

\* Its plan is the operations on their way, one after the other, on that table, which has
\* had some contents cleaned.
Chain(S, s, base, pl, P) ==
  /\ Len(S) = Len(s) + 1 /\ Same(S[1], base) /\ S[Len(s) + 1] = pl
  /\ \A x \in DOMAIN s : /\ s[x] \in Asked(S[x], s[x].n) /\ S[x + 1] = Local(s[x], S[x])
                         /\ Undo(s[x], S[x]) \in P
                         /\ Len(Start) + s[x].n \notin IdsOf(S[x])

Clean(s, j, b, P, pl, v, f) ==
  /\ Unrefused(j, b)
  /\ \E S \in Seq(Tables) : Chain(S, s, Base(j, f), pl, P)
  /\ s = <<>> /\ j.at = "none" => \E t \in Tables : Shows(v, b, t) /\ Same(t, f)

\* Its last operation is refused and nothing was planned since.
Exact(s, j, b, P, pl, f) ==
  /\ s = <<>>
  /\ \E u \in P, t \in Tables :
       /\ u.op.at # 0 /\ u.op \in Asked(t, u.op.n) /\ ~Legal(u.op, t)
       /\ Same(t, f) /\ Len(Start) + u.op.n \notin IdsOf(t)
       /\ pl = Local(u.op, t) /\ u = Undo(u.op, t)
       /\ \/ Refusing(j) /\ j.n = u.op.n /\ \A x \in DOMAIN b : b[x].type # "Reject"
          \/ /\ j.at = "none" /\ Len(b) > 0
             /\ b[Len(b)].type = "Reject" /\ b[Len(b)].n = u.op.n
             /\ \A x \in DOMAIN b : x # Len(b) => b[x].type # "Reject"

\* An operation is refused behind which others are pending.
Late(j, b, P) ==
  \E n, m \in Numbers(P) :
    /\ n < m
    /\ (Refusing(j) /\ j.n = n) \/ \E x \in DOMAIN b : b[x].type = "Reject" /\ b[x].n = n

\* Its own handler finds the file as it left it.
Mine(j, f) ==
  /\ j.at = "write" => f = Empty
  /\ j.at = "answer" /\ j.ok => f = j.next
  /\ j.at # "write" => f \in Tables

Alone(s, j, b, P, pl, v, f) ==
  Mine(j, f) /\ (Clean(s, j, b, P, pl, v, f) \/ Exact(s, j, b, P, pl, f) \/ Late(j, b, P))

\* A page that shows the file and has nothing on its way.
LEMMA AloneAtRest ==
  ASSUME NEW t \in Tables, NEW f \in Tables, Same(t, f), NEW j \in Jobs, j.at = "none", NEW P
  PROVE  Alone(<<>>, j, <<>>, P, t, t, f)
<1> DEFINE S == <<t>>
<1>1. S \in Seq(Tables) /\ Len(S) = 1 /\ S[1] = t
  OBVIOUS
<1> HIDE DEF S
<1>2. Chain(S, <<>>, Base(j, f), t, P)
  BY <1>1 DEF Chain, Base
<1>3. Unrefused(j, <<>>) /\ Shows(t, <<>>, t)
  BY DEF Unrefused, Refusing, Shows
<1>4. Mine(j, f)
  BY DEF Mine
<1>5. Clean(<<>>, j, <<>>, P, t, t, f)
  BY <1>1, <1>2, <1>3 DEF Clean
<1> QED
  BY <1>4, <1>5 DEF Alone

\* It plans another operation.
LEMMA AlonePlans ==
  ASSUME NEW s \in Seq(Operations), NEW j \in Jobs, NEW b \in Seq(Messages), NEW P \in SUBSET Undos,
         NEW pl \in Tables, NEW v, NEW f, NEW w, NEW k \in Nat, k + 1 <= MaxOps,
         InOrder(s, j, b, P, k), Older(pl, k + 1), Alone(s, j, b, P, pl, v, f),
         NEW o \in Asked(pl, k + 1), o \in Operations, o.n = k + 1, Undo(o, pl).op = o, Local(o, pl) \in Tables
  PROVE  Alone(Append(s, o), j, b, P \cup {Undo(o, pl)}, Local(o, pl), w, f)
<1> DEFINE t == Append(s, o)  Q == P \cup {Undo(o, pl)}
<1>1. /\ DOMAIN t = 1..(Len(s) + 1) /\ Len(s) \in Nat /\ DOMAIN s = 1..Len(s) /\ Len(t) = Len(s) + 1
      /\ \A x \in 1..Len(s) : t[x] = s[x]
      /\ t[Len(s) + 1] = o /\ t # <<>>
  BY AppendProperties
<1> HIDE DEF t
<1>2. CASE Clean(s, j, b, P, pl, v, f)
  <2>1. PICK S \in Seq(Tables) : Chain(S, s, Base(j, f), pl, P)
    BY <1>2 DEF Clean
  <2> DEFINE T == Append(S, Local(o, pl))
  <2>2. /\ T \in Seq(Tables) /\ Len(T) = Len(S) + 1
        /\ \A x \in 1..Len(S) : T[x] = S[x]
        /\ T[Len(S) + 1] = Local(o, pl)
    BY AppendProperties
  <2> HIDE DEF T
  <2>3. Len(S) = Len(s) + 1 /\ Same(S[1], Base(j, f)) /\ S[Len(s) + 1] = pl
    BY <2>1 DEF Chain
  <2>4. Len(T) = Len(t) + 1 /\ Same(T[1], Base(j, f)) /\ T[Len(t) + 1] = Local(o, pl)
    BY <1>1, <2>2, <2>3
  <2>5. ASSUME NEW x \in DOMAIN t
        PROVE  /\ t[x] \in Asked(T[x], t[x].n) /\ T[x + 1] = Local(t[x], T[x])
               /\ Undo(t[x], T[x]) \in Q /\ Len(Start) + t[x].n \notin IdsOf(T[x])
    <3>1. CASE x \in DOMAIN s
      <4>1. t[x] = s[x] /\ T[x] = S[x] /\ T[x + 1] = S[x + 1]
        BY <1>1, <2>2, <2>3, <3>1
      <4>2. /\ s[x] \in Asked(S[x], s[x].n) /\ S[x + 1] = Local(s[x], S[x])
            /\ Undo(s[x], S[x]) \in P /\ Len(Start) + s[x].n \notin IdsOf(S[x])
        BY <2>1, <3>1 DEF Chain
      <4> QED
        BY <4>1, <4>2
    <3>2. CASE x = Len(s) + 1
      <4>1. t[x] = o /\ T[x] = pl /\ T[x + 1] = Local(o, pl)
        BY <1>1, <2>2, <2>3, <3>2
      <4>2. Len(Start) + (k + 1) \notin IdsOf(pl)
        BY LaterIds DEF Older
      <4> QED
        BY <4>1, <4>2
    <3> QED
      BY <1>1, <3>1, <3>2
  <2>6. Chain(T, t, Base(j, f), Local(o, pl), Q)
    BY <2>4, <2>5 DEF Chain
  <2>7. Clean(t, j, b, Q, Local(o, pl), w, f)
    BY <1>1, <1>2, <2>2, <2>6 DEF Clean
  <2> QED
    BY <2>7 DEF Alone, t
<1>3. /\ \A n \in Numbers(P) : n \in Numbers(Q) /\ n < k + 1
      /\ k + 1 \in Numbers(Q)
  BY DEF Numbers, InOrder
<1>4. CASE Exact(s, j, b, P, pl, f)
  <2>1. PICK u \in P, t0 \in Tables :
          \/ Refusing(j) /\ j.n = u.op.n
          \/ Len(b) > 0 /\ b[Len(b)].type = "Reject" /\ b[Len(b)].n = u.op.n
    BY <1>4 DEF Exact
  <2>2. u.op.n \in Numbers(P)
    BY DEF Numbers
  <2>3. Len(b) > 0 => Len(b) \in DOMAIN b
    OBVIOUS
  <2>4. Late(j, b, Q)
    BY <1>3, <2>1, <2>2, <2>3 DEF Late
  <2> QED
    BY <2>4 DEF Alone
<1>5. CASE Late(j, b, P)
  <2>1. Late(j, b, Q)
    BY <1>3, <1>5 DEF Late
  <2> QED
    BY <2>1 DEF Alone
<1> QED
  BY <1>2, <1>4, <1>5 DEF Alone

\* It hears of an operation, or of one that was written.
LEMMA AloneHears ==
  ASSUME NEW s \in Seq(Operations), NEW j \in Jobs, NEW b \in Seq(Messages), NEW P \in SUBSET Undos,
         NEW pl, NEW v, NEW f, NEW k \in Nat, b # <<>>, Head(b).type # "Reject",
         InOrder(s, j, b, P, k), Alone(s, j, b, P, pl, v, f),
         NEW Q, Q = {u \in P : u.op.n # Head(b).n}
  PROVE  Alone(s, j, Tail(b), Q, pl, IF Head(b).type = "Update" THEN Head(b).data ELSE v, f)
<1> DEFINE c == Tail(b)  m == Head(b)  w == IF Head(b).type = "Update" THEN Head(b).data ELSE v
<1>1. /\ Len(b) \in Nat /\ Len(b) >= 1 /\ DOMAIN b = 1..Len(b) /\ DOMAIN c = 1..(Len(b) - 1)
      /\ Len(c) = Len(b) - 1
      /\ \A x \in 1..(Len(b) - 1) : c[x] = b[x + 1]
      /\ m = b[1]
  BY Taken
<1>a. \A t \in Tables : Shows(v, b, t) => Shows(w, c, t)
  BY ShowsHeard
<1> HIDE DEF c, m, w
<1>2. \A x \in DOMAIN c : x \in Int /\ x + 1 \in DOMAIN b /\ c[x] = b[x + 1] /\ 1 < x + 1
  BY <1>1
<1>3. 1 \in DOMAIN b /\ m.type # "Reject"
  BY <1>1 DEF m
<1>4. ASSUME NEW u \in P, u.op.n # m.n PROVE u \in Q
  BY <1>4 DEF m
<1>5. /\ m.type = "Update" => m.n = 0
      /\ m.type # "Update" => /\ m.n \in 1..k /\ (j.at # "none" => m.n < j.n)
                              /\ \A y \in DOMAIN s : m.n < s[y].n
                              /\ \A y \in DOMAIN b : 1 < y /\ b[y].type # "Update" => m.n < b[y].n
      /\ \A y \in DOMAIN s : s[y].n \in 1..k
      /\ \A u \in P : u.op.n \in 1..k
      /\ j.at # "none" => j.n \in 1..k
      /\ \A y \in DOMAIN b : b[y].type # "Update" => b[y].n \in 1..k
  BY <1>1, <1>3 DEF InOrder
<1>6. CASE Clean(s, j, b, P, pl, v, f)
  <2>1. PICK S \in Seq(Tables) : Chain(S, s, Base(j, f), pl, P)
    BY <1>6 DEF Clean
  <2>2. ASSUME NEW x \in DOMAIN s PROVE Undo(s[x], S[x]) \in Q
    <3>1. Undo(s[x], S[x]) \in P /\ Undo(s[x], S[x]).op = s[x]
      BY <2>1 DEF Chain, Undo
    <3>2. s[x].n # m.n
      BY <1>5
    <3> QED
      BY <1>4, <3>1, <3>2
  <2>3. Chain(S, s, Base(j, f), pl, Q)
    BY <2>1, <2>2 DEF Chain
  <2>4. Unrefused(j, c)
    BY <1>2, <1>6 DEF Clean, Unrefused
  <2>5. Clean(s, j, c, Q, pl, w, f)
    BY <1>6, <1>a, <2>3, <2>4 DEF Clean
  <2> QED
    BY <2>5 DEF Alone, c, w
<1>7. CASE Exact(s, j, b, P, pl, f)
  <2>1. PICK u \in P, t \in Tables :
       /\ u.op.at # 0 /\ u.op \in Asked(t, u.op.n) /\ ~Legal(u.op, t)
       /\ Same(t, f) /\ Len(Start) + u.op.n \notin IdsOf(t)
       /\ pl = Local(u.op, t) /\ u = Undo(u.op, t)
       /\ \/ Refusing(j) /\ j.n = u.op.n /\ \A x \in DOMAIN b : b[x].type # "Reject"
          \/ /\ j.at = "none" /\ Len(b) > 0
             /\ b[Len(b)].type = "Reject" /\ b[Len(b)].n = u.op.n
             /\ \A x \in DOMAIN b : x # Len(b) => b[x].type # "Reject"
    BY <1>7 DEF Exact
  <2>2. CASE Refusing(j) /\ j.n = u.op.n /\ \A x \in DOMAIN b : b[x].type # "Reject"
    <3>1. u.op.n # m.n
      BY <1>5, <2>2 DEF Refusing
    <3>2. u \in Q /\ \A x \in DOMAIN c : c[x].type # "Reject"
      BY <1>2, <1>4, <2>2, <3>1
    <3>3. Exact(s, j, c, Q, pl, f)
      BY <1>7, <2>1, <2>2, <3>2 DEF Exact
    <3> QED
      BY <3>3 DEF Alone, c
  <2>3. CASE /\ j.at = "none" /\ Len(b) > 0
             /\ b[Len(b)].type = "Reject" /\ b[Len(b)].n = u.op.n
             /\ \A x \in DOMAIN b : x # Len(b) => b[x].type # "Reject"
    <3>1. Len(b) # 1
      BY <1>1, <1>3, <2>3
    <3>2. Len(b) \in DOMAIN b /\ 1 < Len(b) /\ b[Len(b)].type # "Update"
      BY <1>1, <2>3, <3>1
    <3>3. u.op.n # m.n
      BY <1>5, <2>3, <3>2
    <3>4. /\ Len(c) > 0 /\ c[Len(c)] = b[Len(b)]
          /\ \A x \in DOMAIN c : x # Len(c) => c[x].type # "Reject"
      BY <1>1, <1>2, <2>3, <3>2
    <3>5. u \in Q
      BY <1>4, <3>3
    <3>6. \/ Refusing(j) /\ j.n = u.op.n /\ \A x \in DOMAIN c : c[x].type # "Reject"
          \/ /\ j.at = "none" /\ Len(c) > 0
             /\ c[Len(c)].type = "Reject" /\ c[Len(c)].n = u.op.n
             /\ \A x \in DOMAIN c : x # Len(c) => c[x].type # "Reject"
      BY <2>3, <3>4
    <3>7. Exact(s, j, c, Q, pl, f)
      BY <1>7, <2>1, <3>5, <3>6 DEF Exact
    <3> QED
      BY <3>7 DEF Alone, c
  <2> QED
    BY <2>1, <2>2, <2>3
<1>8. CASE Late(j, b, P)
  <2>1. PICK n \in Numbers(P), l \in Numbers(P) :
          /\ n < l
          /\ (Refusing(j) /\ j.n = n) \/ \E x \in DOMAIN b : b[x].type = "Reject" /\ b[x].n = n
    BY <1>8 DEF Late
  <2>2. n \in 1..k /\ l \in 1..k
    BY <1>5 DEF Numbers
  <2>3. (m.type = "Update" /\ m.n = 0) \/ m.n < n
    <3>1. CASE m.type = "Update"
      BY <1>5, <3>1
    <3>2. CASE m.type # "Update" /\ Refusing(j) /\ j.n = n
      BY <1>5, <3>2 DEF Refusing
    <3>3. ASSUME m.type # "Update", NEW x \in DOMAIN b, b[x].type = "Reject", b[x].n = n PROVE m.n < n
      <4>1. x # 1 /\ 1 < x
        BY <1>1, <1>3, <3>3
      <4> QED
        BY <1>5, <3>3, <4>1
    <3> QED
      BY <2>1, <3>1, <3>2, <3>3
  <2>4. m.n # n /\ m.n # l
    <3>1. CASE m.type = "Update" /\ m.n = 0
      BY <2>2, <3>1
    <3>2. CASE m.type # "Update" /\ m.n < n
      BY <1>5, <2>1, <2>2, <3>2
    <3>3. CASE m.type = "Update" /\ m.n < n
      BY <1>5, <2>2, <3>3
    <3> QED
      BY <2>3, <3>1, <3>2, <3>3
  <2>5. n \in Numbers(Q) /\ l \in Numbers(Q)
    BY <1>4, <2>4 DEF Numbers
  <2>6. (Refusing(j) /\ j.n = n) \/ \E x \in DOMAIN c : c[x].type = "Reject" /\ c[x].n = n
    <3>1. ASSUME NEW x \in DOMAIN b, b[x].type = "Reject", b[x].n = n
          PROVE  \E y \in DOMAIN c : c[y].type = "Reject" /\ c[y].n = n
      <4>1. x # 1
        BY <1>1, <1>3, <3>1
      <4>2. x - 1 \in DOMAIN c /\ c[x - 1] = b[x]
        BY <1>1, <4>1
      <4> QED
        BY <3>1, <4>2
    <3> QED
      BY <2>1, <3>1
  <2>7. Late(j, c, Q)
    BY <2>1, <2>5, <2>6 DEF Late
  <2> QED
    BY <1>8, <2>7 DEF Alone, c
<1> QED
  BY <1>6, <1>7, <1>8 DEF Alone

\* It hears of a refusal and nothing else is pending: the file is what it shows.
LEMMA AloneUndoes ==
  ASSUME NEW s \in Seq(Operations), NEW j \in Jobs, NEW b \in Seq(Messages), NEW pl, NEW v, NEW f,
         NEW u \in Undos, NEW k \in Nat, k <= MaxOps, b # <<>>, Head(b).type = "Reject",
         InOrder(s, j, b, {u}, k), Alone(s, j, b, {u}, pl, v, f)
  PROVE  Alone(s, j, Tail(b), {}, Undone(u, pl), Undone(u, pl), f)
<1>1. /\ Len(b) \in Nat /\ Len(b) >= 1 /\ DOMAIN b = 1..Len(b) /\ Len(Tail(b)) = Len(b) - 1
      /\ Head(b) = b[1] /\ Tail(b) \in Seq(Messages)
  BY Taken
<1>2. 1 \in DOMAIN b
  BY <1>1
<1>3. ~Clean(s, j, b, {u}, pl, v, f)
  BY <1>1, <1>2 DEF Clean, Unrefused
<1>4. ~Late(j, b, {u})
  <2>1. \A n \in Numbers({u}) : n = u.op.n
    BY DEF Numbers
  <2>2. u.op.n \in 1..k
    BY DEF InOrder
  <2>3. ASSUME NEW n \in Numbers({u}), NEW m \in Numbers({u}), n < m PROVE FALSE
    <3>1. n = u.op.n /\ m = u.op.n
      BY <2>1
    <3>2. \A x \in 1..k : ~(x < x)
      OBVIOUS
    <3> QED
      BY <2>2, <2>3, <3>1, <3>2
  <2> QED
    BY <2>3 DEF Late
<1>5. Exact(s, j, b, {u}, pl, f) /\ Mine(j, f)
  BY <1>3, <1>4 DEF Alone
<1>6. PICK t \in Tables :
         /\ u.op.at # 0 /\ u.op \in Asked(t, u.op.n) /\ ~Legal(u.op, t)
         /\ Same(t, f) /\ Len(Start) + u.op.n \notin IdsOf(t)
         /\ pl = Local(u.op, t) /\ u = Undo(u.op, t)
         /\ j.at = "none" /\ \A x \in DOMAIN b : x # Len(b) => b[x].type # "Reject"
  BY <1>1, <1>2, <1>5 DEF Exact
<1>a. s = <<>>
  BY <1>5 DEF Exact
<1>7. Tail(b) = <<>>
  <2>1. Len(b) = 1
    BY <1>1, <1>2, <1>6
  <2>2. Len(Tail(b)) = 0
    BY <1>1, <2>1
  <2> QED
    BY <1>1, <2>2, EmptySeq
<1>8. f \in Tables
  BY <1>5, <1>6 DEF Mine
<1>9. Undone(u, pl) = t
  <2>1. u.op.n \in 1..MaxOps
    <3>1. u.op.n \in 1..k
      BY DEF InOrder
    <3> QED
      BY <3>1, CollectionAssumption
  <2>2. Undone(Undo(u.op, t), Local(u.op, t)) = t
    BY <1>6, <2>1, UndoExact
  <2> QED
    BY <1>6, <2>2
<1>10. Alone(<<>>, j, <<>>, {}, t, t, f)
  BY <1>6, <1>8, AloneAtRest
<1> QED
  BY <1>7, <1>9, <1>10, <1>a

\* The handler takes its oldest operation.
LEMMA AloneTaken ==
  ASSUME NEW s \in Seq(Operations), NEW j \in Jobs, NEW b \in Seq(Messages), NEW P \in SUBSET Undos,
         NEW pl, NEW v, NEW f, NEW k \in Nat, k <= MaxOps, s # <<>>, j.at = "none", Head(s).at # 0,
         InOrder(s, j, b, P, k), Awaited(s, j, b, P), Alone(s, j, b, P, pl, v, f),
         NEW i \in Jobs, i.n = Head(s).n,
         \/ /\ i.at = "open" /\ i.ok /\ Legal(Head(s), f) /\ i.next = Applied(Head(s), f)
         \/ i.at = "answer" /\ ~i.ok /\ (f \in Tables => ~Legal(Head(s), f))
  PROVE  Alone(Tail(s), i, b, P, pl, v, f)
<1> DEFINE c == Tail(s)  o == Head(s)
<1>1. /\ Len(s) \in Nat /\ Len(s) >= 1 /\ DOMAIN s = 1..Len(s) /\ DOMAIN c = 1..(Len(s) - 1)
      /\ c \in Seq(Operations) /\ Len(c) = Len(s) - 1
      /\ \A x \in 1..(Len(s) - 1) : c[x] = s[x + 1]
      /\ o = s[1] /\ o \in Operations
  BY Taken
<1> HIDE DEF c, o
<1>2. /\ i.n = o.n /\ o.at # 0
      /\ \/ /\ i.at = "open" /\ i.ok /\ Legal(o, f) /\ i.next = Applied(o, f)
         \/ i.at = "answer" /\ ~i.ok /\ (f \in Tables => ~Legal(o, f))
  BY DEF o
<1>3. f \in Tables
  BY DEF Alone, Mine
<1>4. Mine(i, f)
  BY <1>2, <1>3 DEF Mine
<1>5. 1 \in DOMAIN s /\ o.n \in 1..MaxOps
  <2>1. 1 \in DOMAIN s
    BY <1>1
  <2>2. o.n \in 1..k
    BY <1>1, <2>1 DEF InOrder
  <2> QED
    BY <2>1, <2>2, CollectionAssumption
<1>6. CASE Clean(s, j, b, P, pl, v, f)
  <2>1. PICK S \in Seq(Tables) : Chain(S, s, Base(j, f), pl, P)
    BY <1>6 DEF Clean
  <2>2. /\ Len(S) = Len(s) + 1 /\ Same(S[1], f) /\ S[Len(s) + 1] = pl
        /\ S[1] \in Tables /\ S[2] \in Tables
        /\ o \in Asked(S[1], o.n) /\ S[2] = Local(o, S[1]) /\ Undo(o, S[1]) \in P
        /\ Len(Start) + o.n \notin IdsOf(S[1])
    <3>1. Len(S) = Len(s) + 1 /\ Same(S[1], f) /\ S[Len(s) + 1] = pl
      BY <2>1 DEF Chain, Base
    <3>2. /\ s[1] \in Asked(S[1], s[1].n) /\ S[1 + 1] = Local(s[1], S[1])
          /\ Undo(s[1], S[1]) \in P /\ Len(Start) + s[1].n \notin IdsOf(S[1])
      BY <1>5, <2>1 DEF Chain
    <3>3. S[1 + 1] = S[2]
      OBVIOUS
    <3>4. 1 \in 1..Len(S) /\ 2 \in 1..Len(S)
      BY <1>1, <3>1
    <3> QED
      BY <1>1, <3>1, <3>2, <3>3, <3>4
  <2>a. /\ Legal(o, f) <=> Legal(o, S[1])
        /\ Legal(o, f) => Same(S[2], Applied(o, f))
    BY <1>2, <1>3, <1>5, <2>2, SameResult
  <2>3. CASE i.at = "open" /\ i.ok /\ Legal(o, f) /\ i.next = Applied(o, f)
    <3> DEFINE T == Tail(S)
    <3>1. Same(S[2], i.next)
      BY <2>3, <2>a
    <3>2. /\ T \in Seq(Tables) /\ Len(T) = Len(S) - 1
          /\ \A x \in 1..(Len(S) - 1) : T[x] = S[x + 1]
      <4>1. S # <<>>
        BY <1>1, <2>2
      <4> QED
        BY <4>1, Taken
    <3> HIDE DEF T
    <3>a. Len(T) = Len(c) + 1 /\ T[1] = S[1 + 1] /\ T[Len(c) + 1] = S[Len(s) + 1]
      <4>1. 1 \in 1..(Len(S) - 1) /\ Len(s) \in 1..(Len(S) - 1) /\ Len(c) + 1 = Len(s)
        BY <1>1, <2>2
      <4> QED
        BY <1>1, <2>2, <3>2, <4>1
    <3>3. Len(T) = Len(c) + 1 /\ Same(T[1], i.next) /\ T[Len(c) + 1] = pl
      <4>1. S[1 + 1] = S[2]
        OBVIOUS
      <4> QED
        BY <2>2, <3>1, <3>a, <4>1
    <3>4. ASSUME NEW x \in DOMAIN c
          PROVE  /\ c[x] \in Asked(T[x], c[x].n) /\ T[x + 1] = Local(c[x], T[x])
                 /\ Undo(c[x], T[x]) \in P /\ Len(Start) + c[x].n \notin IdsOf(T[x])
      <4>1. /\ c[x] = s[x + 1] /\ x + 1 \in DOMAIN s
            /\ T[x] = S[x + 1] /\ T[x + 1] = S[x + 1 + 1]
        <5>1. x \in 1..(Len(s) - 1) /\ Len(s) \in Nat
          BY <1>1
        <5>2. x \in 1..(Len(S) - 1) /\ x + 1 \in 1..(Len(S) - 1)
          BY <2>2, <5>1
        <5>3. T[x] = S[x + 1] /\ T[x + 1] = S[x + 1 + 1]
          BY <3>2, <5>2
        <5> QED
          BY <1>1, <5>1, <5>3
      <4>2. /\ s[x + 1] \in Asked(S[x + 1], s[x + 1].n) /\ S[x + 1 + 1] = Local(s[x + 1], S[x + 1])
            /\ Undo(s[x + 1], S[x + 1]) \in P /\ Len(Start) + s[x + 1].n \notin IdsOf(S[x + 1])
        BY <2>1, <4>1 DEF Chain
      <4> QED
        BY <4>1, <4>2
    <3>5. Chain(T, c, Base(i, f), pl, P)
      BY <2>3, <3>3, <3>4 DEF Chain, Base
    <3>6. Unrefused(i, b)
      BY <1>6, <2>3 DEF Clean, Unrefused, Refusing
    <3>7. Clean(c, i, b, P, pl, v, f)
      BY <2>3, <3>2, <3>5, <3>6 DEF Clean
    <3> QED
      BY <1>4, <3>7 DEF Alone, c
  <2>4. CASE i.at = "answer" /\ ~i.ok /\ (f \in Tables => ~Legal(o, f))
    <3>1. Refusing(i) /\ ~Legal(o, S[1])
      BY <1>3, <2>4, <2>a DEF Refusing
    <3>2. CASE c = <<>>
      <4>1. pl = Local(o, S[1])
        <5>1. Len(s) = 1
          <6>1. Len(c) = 0
            BY <3>2
          <6>2. Len(s) \in Nat /\ Len(c) = Len(s) - 1
            BY <1>1
          <6>3. \A x \in Nat : 0 = x - 1 => x = 1
            OBVIOUS
          <6> QED
            BY <6>1, <6>2, <6>3
        <5>2. Len(s) + 1 = 2
          BY <5>1
        <5>3. S[Len(s) + 1] = S[2]
          BY <5>2
        <5> QED
          BY <2>2, <5>3
      <4>2. Undo(o, S[1]).op = o
        BY DEF Undo
      <4>3. \A x \in DOMAIN b : b[x].type # "Reject"
        BY <1>6 DEF Clean, Unrefused
      <4> DEFINE u == Undo(o, S[1])
      <4>4. /\ u \in P /\ u.op = o /\ u = Undo(u.op, S[1])
        BY <2>2, <4>2
      <4> HIDE DEF u
      <4>5. Exact(c, i, b, P, pl, f)
        BY <1>2, <2>2, <3>1, <3>2, <4>1, <4>3, <4>4 DEF Exact
      <4> QED
        BY <1>4, <4>5 DEF Alone, c
    <3>3. CASE c # <<>>
      <4>1. Len(s) >= 2 /\ 2 \in DOMAIN s
        BY <1>1, <3>3
      <4>2. o.n < s[2].n /\ o.n \in Numbers(P) /\ s[2].n \in Numbers(P)
        BY <1>1, <1>5, <4>1 DEF InOrder, Awaited
      <4>3. Late(i, b, P)
        BY <1>2, <3>1, <4>2 DEF Late
      <4> QED
        BY <1>4, <4>3 DEF Alone, c
    <3> QED
      BY <3>2, <3>3
  <2> QED
    BY <1>2, <2>3, <2>4
<1>7. ~Exact(s, j, b, P, pl, f)
  BY DEF Exact
<1>8. CASE Late(j, b, P)
  <2>1. Late(i, b, P)
    BY <1>8 DEF Late, Refusing
  <2> QED
    BY <1>4, <2>1 DEF Alone, c
<1> QED
  BY <1>6, <1>7, <1>8 DEF Alone

\* The handler opens the file and writes it.
LEMMA AloneWrites ==
  ASSUME NEW s, NEW j \in Jobs, NEW b, NEW P, NEW pl, NEW v, NEW f, Alone(s, j, b, P, pl, v, f)
  PROVE  /\ j.at = "open" => Alone(s, At(j, "write"), b, P, pl, v, Empty)
         /\ j.at = "write" => f = Empty
         /\ j.at = "write" /\ j.ok => Alone(s, At(j, "answer"), b, P, pl, v, j.next)
<1>1. Mine(j, f)
  BY DEF Alone
<1>2. CASE j.at = "open"
  <2> DEFINE i == At(j, "write")
  <2>1. i.at = "write" /\ i.next = j.next
    BY DEF At
  <2> HIDE DEF i
  <2>2. Mine(i, Empty)
    BY <2>1 DEF Mine
  <2>3. ~Exact(s, j, b, P, pl, f)
    BY <1>2 DEF Exact, Refusing
  <2>4. CASE Clean(s, j, b, P, pl, v, f)
    <3>1. Base(i, Empty) = Base(j, f) /\ Unrefused(i, b)
      BY <1>2, <2>1, <2>4 DEF Base, Clean, Unrefused, Refusing
    <3>2. Clean(s, i, b, P, pl, v, Empty)
      BY <2>1, <2>4, <3>1 DEF Clean
    <3> QED
      BY <1>2, <2>2, <3>2 DEF Alone, i
  <2>5. CASE Late(j, b, P)
    <3>1. Late(i, b, P)
      BY <1>2, <2>5 DEF Late, Refusing
    <3> QED
      BY <1>2, <2>2, <3>1 DEF Alone, i
  <2> QED
    BY <2>3, <2>4, <2>5 DEF Alone
<1>3. CASE j.at = "write" /\ j.ok
  <2> DEFINE i == At(j, "answer")
  <2>1. i.at = "answer" /\ i.next = j.next /\ i.ok
    BY <1>3 DEF At
  <2> HIDE DEF i
  <2>2. Mine(i, j.next)
    BY <2>1 DEF Mine, Jobs, Tables
  <2>3. ~Exact(s, j, b, P, pl, f)
    BY <1>3 DEF Exact, Refusing
  <2>4. CASE Clean(s, j, b, P, pl, v, f)
    <3>1. Base(i, j.next) = Base(j, f) /\ Unrefused(i, b)
      BY <1>3, <2>1, <2>4 DEF Base, Clean, Unrefused, Refusing
    <3>2. Clean(s, i, b, P, pl, v, j.next)
      BY <2>1, <2>4, <3>1 DEF Clean
    <3> QED
      BY <1>3, <2>2, <3>2 DEF Alone, i, Mine
  <2>5. CASE Late(j, b, P)
    <3>1. Late(i, b, P)
      BY <1>3, <2>5 DEF Late, Refusing
    <3> QED
      BY <1>3, <2>2, <3>1 DEF Alone, i, Mine
  <2> QED
    BY <1>1, <1>3, <2>3, <2>4, <2>5 DEF Alone, Mine
<1> QED
  BY <1>1, <1>2, <1>3 DEF Mine

\* The handler answers and broadcasts.
LEMMA AloneAnswered ==
  ASSUME NEW s, NEW j \in Jobs, NEW b \in Seq(Messages), NEW P, NEW pl, NEW v, NEW f,
         j.at = "answer", Alone(s, j, b, P, pl, v, f),
         NEW a \in Seq(Messages), Len(a) = 1, a[1].type = IF j.ok THEN "Ack" ELSE "Reject", a[1].n = j.n,
         NEW d \in Seq(Messages), Len(d) \in {0, 1},
         Len(d) = 1 => j.ok /\ d[1].type = "Update" /\ d[1].data = j.next,
         Len(d) = 0 => ~j.ok
  PROVE  Alone(s, NoJob, Mail(b, a, d), P, pl, v, f)
<1> DEFINE c == Mail(b, a, d)
<1>1. /\ DOMAIN c = 1..(Len(b) + 1 + Len(d)) /\ Len(b) \in Nat /\ DOMAIN b = 1..Len(b)
      /\ Len(c) = Len(b) + 1 + Len(d)
      /\ \A x \in 1..Len(b) : c[x] = b[x]
      /\ c[Len(b) + 1] = a[1]
      /\ \A x \in 1..Len(d) : c[Len(b) + 1 + x] = d[x]
  <2>1. 1 \in 1..Len(a) /\ Len(a) = 1
    OBVIOUS
  <2>2. /\ DOMAIN c = 1..(Len(b) + Len(a) + Len(d)) /\ Len(b) \in Nat /\ DOMAIN b = 1..Len(b)
        /\ Len(c) = Len(b) + Len(a) + Len(d)
        /\ \A x \in 1..Len(b) : c[x] = b[x]
        /\ \A x \in 1..Len(a) : c[Len(b) + x] = a[x]
        /\ \A x \in 1..Len(d) : c[Len(b) + Len(a) + x] = d[x]
    <3>1. IsMail(b, a, d, c)
      BY Joined
    <3> HIDE DEF c
    <3> QED
      BY <3>1 DEF IsMail
  <2> HIDE DEF c
  <2>3. c[Len(b) + 1] = a[1]
    BY <2>1, <2>2
  <2> QED
    BY <2>1, <2>2, <2>3
<1>2. Len(d) = 1 => Shows(v, c, d[1].data)
  BY ShowsPosted
<1> HIDE DEF c
<1>3. Mine(NoJob, f)
  BY DEF Alone, Mine, NoJob
<1>4. CASE Clean(s, j, b, P, pl, v, f)
  <2>1. j.ok /\ Len(d) = 1 /\ f = j.next
    BY <1>4 DEF Clean, Unrefused, Refusing, Alone, Mine
  <2>2. Base(NoJob, f) = Base(j, f)
    BY DEF Base, NoJob
  <2>3. ASSUME NEW x \in DOMAIN c PROVE c[x].type # "Reject"
    <3>1. CASE x \in DOMAIN b
      BY <1>1, <1>4, <3>1 DEF Clean, Unrefused
    <3>2. CASE x = Len(b) + 1
      BY <1>1, <2>1, <3>2
    <3>3. CASE x = Len(b) + 1 + 1
      <4>1. c[x] = d[1]
        BY <1>1, <2>1, <3>3
      <4> QED
        BY <2>1, <4>1
    <3> QED
      BY <1>1, <2>1, <3>1, <3>2, <3>3
  <2>4. Unrefused(NoJob, c)
    BY <2>3 DEF Unrefused, Refusing, NoJob
  <2>5. f \in Tables /\ Same(f, f) /\ Shows(v, c, f)
    <3>1. f \in Tables
      BY <1>4, <2>1 DEF Jobs, Tables
    <3> QED
      BY <1>2, <2>1, <3>1, SameIs
  <2>6. Clean(s, NoJob, c, P, pl, v, f)
    BY <1>4, <2>2, <2>4, <2>5 DEF Clean
  <2> QED
    BY <1>3, <2>6 DEF Alone, c
<1>5. CASE Exact(s, j, b, P, pl, f)
  <2>1. PICK u \in P, t \in Tables :
       /\ u.op.at # 0 /\ u.op \in Asked(t, u.op.n) /\ ~Legal(u.op, t)
       /\ Same(t, f) /\ Len(Start) + u.op.n \notin IdsOf(t)
       /\ pl = Local(u.op, t) /\ u = Undo(u.op, t)
       /\ Refusing(j) /\ j.n = u.op.n /\ \A x \in DOMAIN b : b[x].type # "Reject"
    BY <1>5 DEF Exact
  <2>2. Len(d) = 0 /\ a[1].type = "Reject"
    BY <2>1 DEF Refusing
  <2>3. /\ Len(c) = Len(b) + 1 /\ Len(c) > 0 /\ c[Len(c)].type = "Reject" /\ c[Len(c)].n = u.op.n
        /\ \A x \in DOMAIN c : x # Len(c) => x \in DOMAIN b /\ c[x] = b[x]
    BY <1>1, <2>1, <2>2
  <2>4. /\ NoJob.at = "none" /\ Len(c) > 0
        /\ c[Len(c)].type = "Reject" /\ c[Len(c)].n = u.op.n
        /\ \A x \in DOMAIN c : x # Len(c) => c[x].type # "Reject"
    BY <2>1, <2>3 DEF NoJob
  <2>5. Exact(s, NoJob, c, P, pl, f)
    BY <1>5, <2>1, <2>4 DEF Exact
  <2> QED
    BY <1>3, <2>5 DEF Alone, c
<1>6. CASE Late(j, b, P)
  <2>1. PICK n \in Numbers(P), m \in Numbers(P) :
          /\ n < m
          /\ (Refusing(j) /\ j.n = n) \/ \E x \in DOMAIN b : b[x].type = "Reject" /\ b[x].n = n
    BY <1>6 DEF Late
  <2>2. \E x \in DOMAIN c : c[x].type = "Reject" /\ c[x].n = n
    <3>1. CASE Refusing(j) /\ j.n = n
      <4>1. Len(b) + 1 \in DOMAIN c /\ c[Len(b) + 1] = a[1] /\ a[1].type = "Reject" /\ a[1].n = n
        BY <1>1, <3>1 DEF Refusing
      <4> QED
        BY <4>1
    <3>2. ASSUME NEW x \in DOMAIN b, b[x].type = "Reject", b[x].n = n
          PROVE  \E y \in DOMAIN c : c[y].type = "Reject" /\ c[y].n = n
      <4>1. x \in DOMAIN c /\ c[x] = b[x]
        BY <1>1
      <4> QED
        BY <3>2, <4>1
    <3> QED
      BY <2>1, <3>1, <3>2
  <2>3. Late(NoJob, c, P)
    BY <2>1, <2>2 DEF Late
  <2> QED
    BY <1>3, <2>3 DEF Alone, c
<1> QED
  BY <1>4, <1>5, <1>6 DEF Alone

\* A page that has not got the text of the file yet has nothing on its way; then it is alone.
Lone(p) ==
  /\ fetch[p].at \in {"asked", "coming"} =>
       Sent(p) = <<>> /\ JobOf(p) = NoJob /\ inbox[p] = <<>> /\ Unheard(p) = {}
  /\ fetch[p].at = "coming" => fetch[p].text = file
  /\ fetch[p].at = "shown" =>
       /\ plan[p] \in Tables
       /\ Alone(Sent(p), JobOf(p), inbox[p], Unheard(p), plan[p], view[p], file)

LoneInv ==
  \A p \in Pages : ~lost[p] /\ ~foreign[p] /\ ~tangled[p] /\ ~early[p] => Lone(p)

LEMMA LoneInit ==
  ASSUME Init
  PROVE  LoneInv
<1> SUFFICES ASSUME NEW p \in Pages PROVE Lone(p)
  BY DEF LoneInv
<1>1. Start \in Tables /\ NoJob \in Jobs /\ NoJob.at = "none" /\ Same(Start, Start)
  <2>1. Start \in Tables
    BY CollectionAssumption DEF Tables
  <2> QED
    BY <2>1, SameIs DEF NoJob, Jobs
<1>2. Alone(<<>>, NoJob, <<>>, {}, Start, Start, Start)
  BY <1>1, AloneAtRest
<1>3. Sent(p) = <<>> /\ JobOf(p) = NoJob /\ inbox[p] = <<>> /\ Unheard(p) = {}
  <2>1. conn[p] \in Conns
    BY CollectionAssumption DEF Init, Injection
  <2> QED
    BY <2>1 DEF Init, Sent, JobOf, Unheard
<1>4. plan[p] = Start /\ view[p] = Start /\ file = Start /\ fetch[p].at = "shown"
  BY DEF Init, Fetch
<1> QED
  BY <1>1, <1>2, <1>3, <1>4 DEF Lone

\* The page plans another operation.
LEMMA LoneMutate ==
  ASSUME TypeOK, NumbersInv, OldInv, NEW p \in Pages, Lone(p), Mutate(p), ~lost'[p], ~early'[p]
  PROVE  Lone(p)'
<1>0. /\ conn[p] # None /\ ~lost[p] /\ ops + 1 \in 1..MaxOps
      /\ JobOf(p)' = JobOf(p)
      /\ UNCHANGED <<file, fetch, inbox>>
  BY OwnMutate
<1>1. fetch[p].at \notin {"asked", "coming"}
  <2>1. early' = [early EXCEPT ![p] = early[p] \/ fetch[p].at \in {"asked", "coming"}]
    BY Planned
  <2>2. early'[p] = (early[p] \/ fetch[p].at \in {"asked", "coming"})
    BY <2>1 DEF TypeOK
  <2> QED
    BY <2>2
<1>2. CASE fetch[p].at = "shown"
  <2>1. /\ plan[p] \in Tables /\ Current(p) = plan[p]
        /\ Alone(Sent(p), JobOf(p), inbox[p], Unheard(p), plan[p], view[p], file)
    <3>1. plan[p] \in Tables /\ plan[p] # None
      BY <1>2, CollectionAssumption DEF Lone, Tables
    <3> QED
      BY <1>2, <3>1 DEF Lone, Current
  <2>2. PICK o \in Asked(Current(p), ops + 1) :
          /\ o \in Operations /\ o.n = ops + 1
          /\ Undo(o, Current(p)).op = o
          /\ Local(o, Current(p)) \in Tables
          /\ plan'[p] = Local(o, Current(p)) /\ view'[p] = Local(o, Current(p))
          /\ Sent(p)' = Append(Sent(p), o)
          /\ Unheard(p)' = Unheard(p) \cup {Undo(o, Current(p))}
    BY OwnMutate
  <2>3. /\ InOrder(Sent(p), JobOf(p), inbox[p], Unheard(p), ops)
        /\ Sent(p) \in Seq(Operations) /\ JobOf(p) \in Jobs /\ Unheard(p) \in SUBSET Undos
        /\ inbox[p] \in Seq(Messages) /\ ops \in Nat /\ ops + 1 <= MaxOps
    BY <1>0, WayTyped, PageTyped, CollectionAssumption DEF NumbersInv
  <2>4. Older(plan[p], ops + 1)
    <3>1. plan[p] # None
      BY <2>1, CollectionAssumption DEF Tables
    <3> QED
      BY <3>1 DEF OldInv, OldPage
  <2>5. \A w : Alone(Append(Sent(p), o), JobOf(p), inbox[p],
                     Unheard(p) \cup {Undo(o, plan[p])}, Local(o, plan[p]), w, file)
    BY <2>1, <2>2, <2>3, <2>4, AlonePlans
  <2> QED
    BY <1>0, <1>2, <2>1, <2>2, <2>5 DEF Lone
<1>3. CASE fetch[p].at \notin {"asked", "coming", "shown"}
  BY <1>0, <1>3 DEF Lone
<1> QED
  BY <1>1, <1>2, <1>3

\* The page hears of something: an answer, its own broadcast, or its last operation's refusal.
LEMMA LoneDeliver ==
  ASSUME TypeOK, NumbersInv, NEW p \in Pages, Lone(p), Deliver(p), ~lost[p], ~tangled'[p]
  PROVE  Lone(p)'
<1>0. /\ inbox[p] # <<>> /\ inbox'[p] = Tail(inbox[p])
      /\ Sent(p)' = Sent(p) /\ JobOf(p)' = JobOf(p)
      /\ Unheard(p)' = {u \in Unheard(p) : u.op.n # Head(inbox[p]).n}
      /\ Head(inbox[p]).type = "Reject" => \E u \in Unheard(p) : Struck(p) = {u}
      /\ Head(inbox[p]).type # "Reject" => Struck(p) = {}
  BY OwnDeliver
<1>1. UNCHANGED <<file, fetch>>
  BY Delivered
<1>2. fetch[p].at \notin {"asked", "coming"}
  BY <1>0 DEF Lone
<1>3. CASE fetch[p].at = "shown"
  <2>1. /\ plan[p] \in Tables /\ Current(p) = plan[p]
        /\ Alone(Sent(p), JobOf(p), inbox[p], Unheard(p), plan[p], view[p], file)
    <3>1. plan[p] \in Tables /\ plan[p] # None
      BY <1>3, CollectionAssumption DEF Lone, Tables
    <3> QED
      BY <1>3, <3>1 DEF Lone, Current
  <2>2. /\ InOrder(Sent(p), JobOf(p), inbox[p], Unheard(p), ops)
        /\ Sent(p) \in Seq(Operations) /\ JobOf(p) \in Jobs /\ Unheard(p) \in SUBSET Undos
        /\ inbox[p] \in Seq(Messages) /\ ops \in Nat /\ ops <= MaxOps
    BY WayTyped, PageTyped, CollectionAssumption DEF NumbersInv
  <2>3. CASE Head(inbox[p]).type # "Reject"
    <3>1. /\ plan' = plan
          /\ view' = [view EXCEPT ![p] = IF Head(inbox[p]).type = "Update"
                                         THEN Head(inbox[p]).data ELSE view[p]]
      BY <1>0, <2>3, Called
    <3>2. view'[p] = IF Head(inbox[p]).type = "Update" THEN Head(inbox[p]).data ELSE view[p]
      BY <3>1 DEF TypeOK
    <3> DEFINE Q == {u \in Unheard(p) : u.op.n # Head(inbox[p]).n}
    <3>3. Q = {u \in Unheard(p) : u.op.n # Head(inbox[p]).n}
      OBVIOUS
    <3> HIDE DEF Q
    <3>4. Alone(Sent(p), JobOf(p), Tail(inbox[p]), Q, plan[p],
                IF Head(inbox[p]).type = "Update" THEN Head(inbox[p]).data ELSE view[p], file)
      BY <1>0, <2>1, <2>2, <2>3, <3>3, AloneHears
    <3> QED
      BY <1>0, <1>1, <1>3, <2>1, <3>1, <3>2, <3>3, <3>4 DEF Lone
  <2>4. CASE Head(inbox[p]).type = "Reject"
    <3>1. PICK u \in Unheard(p) : Struck(p) = {u}
      BY <1>0, <2>4
    <3>2. \E x \in Struck(p) :
            /\ plan' = [plan EXCEPT ![p] = Undone(x, Current(p))]
            /\ view' = [view EXCEPT ![p] = Undone(x, Current(p))]
            /\ tangled' = [tangled EXCEPT ![p] = tangled[p] \/ Unheard(p) # Struck(p)]
            /\ Undone(x, Current(p)) \in Tables
      BY <3>1, Called
    <3>3. /\ plan'[p] = Undone(u, plan[p]) /\ view'[p] = Undone(u, plan[p])
          /\ tangled'[p] = (tangled[p] \/ Unheard(p) # {u})
          /\ Undone(u, plan[p]) \in Tables
      BY <2>1, <3>1, <3>2 DEF TypeOK
    <3>4. Unheard(p) = {u}
      BY <3>3
    <3>5. u.op.n = Head(inbox[p]).n
      BY <3>1 DEF Struck
    <3>6. Unheard(p)' = {}
      BY <1>0, <3>4, <3>5
    <3>7. /\ Alone(Sent(p), JobOf(p), inbox[p], {u}, plan[p], view[p], file)
          /\ InOrder(Sent(p), JobOf(p), inbox[p], {u}, ops) /\ u \in Undos
      BY <2>1, <2>2, <3>4
    <3>8. Alone(Sent(p), JobOf(p), Tail(inbox[p]), {}, Undone(u, plan[p]), Undone(u, plan[p]), file)
      BY <1>0, <2>2, <2>4, <3>7, AloneUndoes
    <3> QED
      BY <1>0, <1>1, <1>3, <3>3, <3>6, <3>8 DEF Lone
  <2> QED
    BY <2>3, <2>4
<1>4. CASE fetch[p].at \notin {"asked", "coming", "shown"}
  BY <1>1, <1>4 DEF Lone
<1> QED
  BY <1>2, <1>3, <1>4

\* The page is loaded, its file is read, and it shows it.
LEMMA LoneFetches ==
  ASSUME TypeOK, Wired, NEW p \in Pages, Load(p) \/ (Lone(p) /\ (Serve(p) \/ Arrive(p) \/ Connect(p)))
  PROVE  Lone(p)'
<1>1. CASE Load(p)
  <2>1. /\ Sent(p)' = <<>> /\ JobOf(p)' = NoJob /\ Unheard(p)' = {} /\ inbox'[p] = <<>>
        /\ fetch'[p] = Fetch("asked")
    BY <1>1, OwnLoad
  <2> QED
    BY <2>1 DEF Lone, Fetch
<1>2. CASE Lone(p) /\ (Serve(p) \/ Arrive(p))
  <2>1. /\ Sent(p)' = Sent(p) /\ JobOf(p)' = JobOf(p) /\ Unheard(p)' = Unheard(p)
        /\ UNCHANGED <<file, inbox>>
    BY <1>2, OwnFetch
  <2>2. fetch[p].at \in {"asked", "coming"}
    BY <1>2 DEF Serve, Arrive
  <2>3. Sent(p) = <<>> /\ JobOf(p) = NoJob /\ inbox[p] = <<>> /\ Unheard(p) = {}
    BY <1>2, <2>2 DEF Lone
  <2>4. CASE Serve(p)
    <3>1. fetch'[p] = Fetch("failed") \/ fetch'[p] = [at |-> "coming", text |-> file]
      BY <2>4 DEF Serve, TypeOK
    <3> QED
      BY <2>1, <2>3, <3>1 DEF Lone, Fetch
  <2>5. CASE Arrive(p)
    <3>1. /\ fetch[p].at = "coming" /\ fetch'[p].at = "shown"
          /\ plan'[p] = fetch[p].text /\ view'[p] = fetch[p].text
      BY <2>5 DEF Arrive, TypeOK, Fetch
    <3>2. fetch[p].text = file /\ file \in Tables
      BY <1>2, <3>1, PageTyped DEF Lone
    <3>3. Alone(<<>>, NoJob, <<>>, {}, file, file, file)
      <4>1. NoJob \in Jobs /\ NoJob.at = "none"
        BY DEF NoJob, Jobs
      <4> QED
        BY <3>2, <4>1, SameIs, AloneAtRest
    <3> QED
      BY <2>1, <2>3, <3>1, <3>2, <3>3 DEF Lone
  <2> QED
    BY <1>2, <2>4, <2>5
<1>3. CASE Lone(p) /\ Connect(p)
  <2>1. /\ Sent(p) = Sent(p)' /\ JobOf(p) = JobOf(p)' /\ Unheard(p)' = Unheard(p)
        /\ UNCHANGED <<file, plan, view, fetch, inbox>>
    BY <1>3, OwnConnect
  <2> QED
    BY <1>3, <2>1 DEF Lone
<1> QED
  BY <1>1, <1>2, <1>3

\* Its handler takes an operation, writes and answers.
LEMMA LoneHandled ==
  ASSUME TypeOK, Wired, NumbersInv, NEW p \in Pages, Lone(p), ~lost[p],
         NEW c \in Conns, conn[p] = c, Read(c) \/ Open(c) \/ Write(c) \/ Answer(c)
  PROVE  Lone(p)'
<1>1. Sent(p) = sent[c] /\ JobOf(p) = job[c] /\ conn[p] # None
  BY OwnHandler, CollectionAssumption
<1>2. UNCHANGED <<plan, view, fetch>>
  BY DEF Read, Open, Write, Answer, pageVars
<1>3. fetch[p].at \notin {"asked", "coming"}
  <2>1. sent[c] # <<>> \/ job[c].at # "none"
    BY DEF Read, Open, Write, Answer
  <2> QED
    BY <1>1, <2>1 DEF Lone, NoJob
<1>4. /\ InOrder(Sent(p), JobOf(p), inbox[p], Unheard(p), ops)
      /\ Awaited(Sent(p), JobOf(p), inbox[p], Unheard(p))
      /\ Sent(p) \in Seq(Operations) /\ JobOf(p) \in Jobs /\ Unheard(p) \in SUBSET Undos
      /\ inbox[p] \in Seq(Messages) /\ ops \in Nat /\ ops <= MaxOps
  BY WayTyped, PageTyped, CollectionAssumption DEF NumbersInv
<1>5. CASE fetch[p].at # "shown"
  BY <1>2, <1>3, <1>5 DEF Lone
<1>6. CASE fetch[p].at = "shown"
  <2>0. /\ plan[p] \in Tables
        /\ Alone(Sent(p), JobOf(p), inbox[p], Unheard(p), plan[p], view[p], file)
    BY <1>6 DEF Lone
  <2> SUFFICES Alone(Sent(p)', JobOf(p)', inbox'[p], Unheard(p)', plan[p], view[p], file')
    BY <1>2, <1>6, <2>0 DEF Lone
  <2>1. CASE Read(c)
    <3>1. /\ job[c].at = "none" /\ sent[c] # <<>> /\ Head(sent[c]).at # 0
          /\ file' = file /\ inbox' = inbox
      BY <2>1, Started
    <3>2. PICK j \in Jobs :
            /\ job' = [job EXCEPT ![c] = j] /\ j.n = Head(sent[c]).n
            /\ \/ /\ j.at = "open" /\ j.ok /\ file \in Tables /\ Legal(Head(sent[c]), file)
                  /\ j.next = Applied(Head(sent[c]), file)
               \/ /\ j.at = "answer" /\ ~j.ok /\ j.next = <<>>
                  /\ file \in Tables => ~Legal(Head(sent[c]), file)
      BY <2>1, Started
    <3>3. Sent(p)' = Tail(Sent(p)) /\ JobOf(p)' = j /\ Unheard(p)' = Unheard(p)
      <4>1. job'[c] = j
        BY <3>2 DEF TypeOK
      <4> QED
        BY <2>1, <4>1, OwnHandler
    <3>4. \/ /\ j.at = "open" /\ j.ok /\ Legal(Head(Sent(p)), file)
             /\ j.next = Applied(Head(Sent(p)), file)
          \/ j.at = "answer" /\ ~j.ok /\ (file \in Tables => ~Legal(Head(Sent(p)), file))
      BY <1>1, <3>2
    <3>5. Alone(Tail(Sent(p)), j, inbox[p], Unheard(p), plan[p], view[p], file)
      BY <1>1, <1>4, <2>0, <3>1, <3>2, <3>4, AloneTaken
    <3> QED
      BY <3>1, <3>3, <3>5
  <2>2. /\ JobOf(p).at = "open" =>
             Alone(Sent(p), At(JobOf(p), "write"), inbox[p], Unheard(p), plan[p], view[p], Empty)
        /\ JobOf(p).at = "write" => file = Empty
        /\ JobOf(p).at = "write" /\ JobOf(p).ok =>
             Alone(Sent(p), At(JobOf(p), "answer"), inbox[p], Unheard(p), plan[p], view[p],
                   JobOf(p).next)
    BY <1>4, <2>0, AloneWrites
  <2>3. CASE Open(c)
    <3>1. job[c].at = "open" /\ file' = Empty /\ inbox' = inbox
      BY <2>3 DEF Open
    <3>2. Sent(p)' = Sent(p) /\ JobOf(p)' = At(JobOf(p), "write") /\ Unheard(p)' = Unheard(p)
      BY <2>3, OwnHandler
    <3> QED
      BY <1>1, <2>2, <3>1, <3>2
  <2>4. CASE Write(c)
    <3>1. /\ job[c].at = "write" /\ inbox' = inbox
          /\ file' \in IF file = Empty THEN {job[c].next} ELSE {job[c].next, Garbled}
      BY <2>4 DEF Write
    <3>2. Sent(p)' = Sent(p) /\ JobOf(p)' = At(JobOf(p), "answer") /\ Unheard(p)' = Unheard(p)
      BY <2>4, OwnHandler
    <3>3. job[c].ok
      BY <3>1 DEF Wired
    <3>4. file' = job[c].next
      BY <1>1, <2>2, <3>1
    <3> QED
      BY <1>1, <2>2, <3>1, <3>2, <3>3, <3>4
  <2>5. CASE Answer(c)
    <3> DEFINE a == ReplyTo(c, p)  d == Update(c)
    <3>1. /\ job[c].at = "answer" /\ file' = file
          /\ inbox'[p] = Mail(inbox[p], a, d)
      BY <1>1, <2>5, Posted
    <3>2. /\ a \in Seq(Messages) /\ Len(a) \in {0, 1}
          /\ Len(a) = 1 => /\ a[1].type = IF job[c].ok THEN "Ack" ELSE "Reject"
                           /\ a[1].n = job[c].n
          /\ Len(a) = 0 => conn[p] # c
      BY <2>5, Posted
    <3>3. /\ d \in Seq(Messages) /\ Len(d) \in {0, 1}
          /\ Len(d) = 1 => job[c].ok /\ d[1].type = "Update" /\ d[1].data = job[c].next
          /\ Len(d) = 0 => ~job[c].ok
      BY <2>5, Posted
    <3>4. Sent(p)' = Sent(p) /\ JobOf(p)' = NoJob /\ Unheard(p)' = Unheard(p)
      BY <2>5, OwnAnswer
    <3> HIDE DEF a, d
    <3>5. Len(a) = 1 /\ a[1].type = (IF JobOf(p).ok THEN "Ack" ELSE "Reject") /\ a[1].n = JobOf(p).n
      BY <1>1, <3>2
    <3>6. /\ Len(d) = 1 => JobOf(p).ok /\ d[1].type = "Update" /\ d[1].data = JobOf(p).next
          /\ Len(d) = 0 => ~JobOf(p).ok
      BY <1>1, <3>3
    <3>7. Alone(Sent(p), NoJob, Mail(inbox[p], a, d), Unheard(p), plan[p], view[p], file)
      BY <1>1, <1>4, <2>0, <3>1, <3>2, <3>3, <3>5, <3>6, AloneAnswered
    <3> QED
      BY <3>1, <3>4, <3>7
  <2> QED
    BY <2>1, <2>3, <2>4, <2>5
<1> QED
  BY <1>5, <1>6

\* Nothing of the page or of the file has changed.
LEMMA LoneAside ==
  ASSUME NEW p \in Pages, Lone(p), Aside(p), file' = file
  PROVE  Lone(p)'
BY DEF Lone, Aside

\* The end of a handler that refused what another page asked for.
LEMMA LoneUntold ==
  ASSUME TypeOK, NEW p \in Pages, Lone(p), NEW c \in Conns, conn[p] # c, Answer(c), ~foreign'[p]
  PROVE  Lone(p)'
<1>1. foreign'[p] = (foreign[p] \/ (conn[p] # c /\ job[c].ok))
  BY Posted
<1>2. ~job[c].ok
  BY <1>1
<1>3. ReplyTo(c, p) = <<>> /\ Update(c) = <<>>
  BY <1>2 DEF ReplyTo, Update
<1>4. inbox'[p] = inbox[p]
  <2>1. inbox'[p] = IF conn[p] # None THEN Mail(inbox[p], ReplyTo(c, p), Update(c)) ELSE inbox[p]
    BY Posted
  <2>2. inbox[p] \in Seq(Messages)
    BY PageTyped
  <2> QED
    BY <1>3, <2>1, <2>2 DEF Mail
<1>5. Sent(p)' = Sent(p) /\ JobOf(p)' = JobOf(p) /\ Unheard(p)' = Unheard(p)
  BY OwnAnswer
<1>6. UNCHANGED <<file, plan, view, fetch>>
  BY Posted
<1> QED
  BY <1>4, <1>5, <1>6 DEF Lone

\* No step takes a page that edits alone, lost nothing and was never refused too late out of it.
LEMMA LoneStep ==
  ASSUME TypeOK, Wired, NumbersInv, OldInv, LoneInv, [Next]_vars
  PROVE  LoneInv'
<1> SUFFICES ASSUME NEW p \in Pages, ~lost'[p], ~foreign'[p], ~tangled'[p], ~early'[p]
             PROVE  Lone(p)'
  BY DEF LoneInv
<1>0. ASSUME ~lost[p], ~foreign[p], ~tangled[p], ~early[p] PROVE Lone(p)
  BY <1>0 DEF LoneInv
<1>1. ASSUME file' = file, foreign'[p] = foreign[p], Aside(p) PROVE Lone(p)'
  <2>1. lost[p] = lost'[p] /\ tangled[p] = tangled'[p] /\ early[p] = early'[p]
    BY <1>1 DEF Aside
  <2>2. Lone(p)
    BY <1>0, <1>1, <2>1
  <2> QED
    BY <1>1, <2>2, LoneAside
<1>2. ASSUME NEW q \in Pages, Mutate(q) PROVE Lone(p)'
  <2>1. UNCHANGED <<file, foreign, tangled>>
    BY <1>2, Planned
  <2>2. CASE q = p
    <3>1. ~lost[p]
      BY <1>2, <2>2, OwnMutate
    <3>2. ~early[p]
      <4>1. early' = [early EXCEPT ![p] = early[p] \/ fetch[p].at \in {"asked", "coming"}]
        BY <1>2, <2>2, Planned
      <4>2. early'[p] = (early[p] \/ fetch[p].at \in {"asked", "coming"})
        BY <4>1 DEF TypeOK
      <4> QED
        BY <4>2
    <3>3. Lone(p)
      BY <1>0, <2>1, <3>1, <3>2
    <3> QED
      BY <1>2, <2>2, <3>3, LoneMutate
  <2>3. CASE q # p
    <3>1. Aside(p)
      BY <1>2, <2>3, OthersAside
    <3> QED
      BY <1>1, <2>1, <3>1
  <2> QED
    BY <2>2, <2>3
<1>3. ASSUME NEW q \in Pages, Deliver(q) PROVE Lone(p)'
  <2>1. UNCHANGED <<file, foreign, early>>
    BY <1>3, Delivered
  <2>2. CASE q = p
    <3>1. lost' = [lost EXCEPT ![p] = lost[p] \/ (/\ Head(inbox[p]).type = "Update"
                                                  /\ fetch[p].at = "coming")]
      BY <1>3, <2>2, Delivered
    <3>2. ~lost[p]
      BY <3>1 DEF TypeOK
    <3>3. ~tangled[p]
      <4>1. tangled' = tangled \/ \E S : tangled' = [tangled EXCEPT ![p] = tangled[p] \/ S]
        BY <1>3, <2>2, Called
      <4> QED
        BY <4>1 DEF TypeOK
    <3>4. Lone(p)
      BY <1>0, <2>1, <3>2, <3>3
    <3> QED
      BY <1>3, <2>2, <3>2, <3>4, LoneDeliver
  <2>3. CASE q # p
    <3>1. Aside(p)
      BY <1>3, <2>3, OthersAside
    <3> QED
      BY <1>1, <2>1, <3>1
  <2> QED
    BY <2>2, <2>3
<1>4. ASSUME NEW q \in Pages, Load(q) PROVE Lone(p)'
  <2>1. CASE q = p
    BY <1>4, <2>1, LoneFetches
  <2>2. CASE q # p
    <3>1. Aside(p)
      BY <1>4, <2>2, OthersAside
    <3>2. file' = file /\ foreign'[p] = foreign[p]
      BY <1>4, <2>2 DEF Load, TypeOK
    <3> QED
      BY <1>1, <3>1, <3>2
  <2> QED
    BY <2>1, <2>2
<1>5. ASSUME NEW q \in Pages, Serve(q) \/ Arrive(q) \/ Connect(q) PROVE Lone(p)'
  <2>1. UNCHANGED <<file, foreign, lost, tangled, early>>
    BY <1>5 DEF Serve, Arrive, Connect, histVars, noted
  <2>2. CASE q = p
    <3>1. Lone(p)
      BY <1>0, <2>1
    <3> QED
      BY <1>5, <2>2, <3>1, LoneFetches
  <2>3. CASE q # p
    <3>1. Aside(p)
      BY <1>5, <2>3, OthersAside
    <3> QED
      BY <1>1, <2>1, <3>1
  <2> QED
    BY <2>2, <2>3
<1>6. ASSUME NEW q \in Pages, Disconnect(q) PROVE Lone(p)'
  <2>1. q # p /\ UNCHANGED <<file, foreign>>
    BY <1>6, OwnDisconnect
  <2>2. Aside(p)
    BY <1>6, <2>1, OthersAside
  <2> QED
    BY <1>1, <2>1, <2>2
<1>7. ASSUME NEW c \in Conns, Read(c) PROVE Lone(p)'
  <2>1. UNCHANGED <<file, foreign, lost, tangled, early>>
    BY <1>7, Started
  <2>2. CASE conn[p] = c
    <3>1. Lone(p) /\ ~lost[p]
      BY <1>0, <2>1
    <3> QED
      BY <1>7, <2>2, <3>1, LoneHandled
  <2>3. CASE conn[p] # c
    <3>1. Aside(p)
      BY <1>7, <2>3, HandlerAside
    <3> QED
      BY <1>1, <2>1, <3>1
  <2> QED
    BY <2>2, <2>3
<1>8. ASSUME NEW c \in Conns, Ignore(c) \/ Hangup(c) PROVE Lone(p)'
  <2>1. UNCHANGED <<file, foreign>>
    BY <1>8 DEF Ignore, Hangup, histVars, noted
  <2>2. conn[p] # c
    BY <1>8, OwnHandler
  <2>3. Aside(p)
    BY <1>8, <2>2, HandlerAside
  <2> QED
    BY <1>1, <2>1, <2>3
<1>9. ASSUME NEW c \in Conns, Open(c) \/ Write(c) PROVE Lone(p)'
  <2>1. /\ foreign' = [q \in Pages |-> foreign[q] \/ conn[q] # c]
        /\ UNCHANGED <<lost, tangled, early>>
    BY <1>9 DEF Open, Write
  <2>2. conn[p] = c /\ ~foreign[p]
    BY <2>1
  <2>3. Lone(p) /\ ~lost[p]
    BY <1>0, <2>1, <2>2
  <2> QED
    BY <1>9, <2>2, <2>3, LoneHandled
<1>10. ASSUME NEW c \in Conns, Answer(c) PROVE Lone(p)'
  <2>1. /\ foreign'[p] = (foreign[p] \/ (conn[p] # c /\ job[c].ok))
        /\ lost'[p] = (lost[p] \/ (conn[p] = None /\ fetch[p].at # "asked" /\ job[c].ok))
        /\ UNCHANGED <<tangled, early>>
    BY <1>10, Posted
  <2>2. Lone(p) /\ ~lost[p]
    BY <1>0, <2>1
  <2>3. CASE conn[p] = c
    BY <1>10, <2>2, <2>3, LoneHandled
  <2>4. CASE conn[p] # c
    BY <1>10, <2>2, <2>4, LoneUntold
  <2> QED
    BY <2>3, <2>4
<1>11. ASSUME UNCHANGED vars PROVE Lone(p)'
  <2>1. Aside(p) /\ UNCHANGED <<file, foreign>>
    BY <1>11, StaysAside DEF vars, pageVars, counters, histVars, noted
  <2> QED
    BY <1>1, <2>1
<1> QED
  BY <1>2, <1>3, <1>4, <1>5, <1>6, <1>7, <1>8, <1>9, <1>10, <1>11 DEF Next, Handle

LonelinessInv == TypeOK /\ Wired /\ NumbersInv /\ OldInv /\ LoneInv

\* A page that edits alone ends with the same rows in signal, registry and file, up to the
\* cleaning of what it brought in: what it plans on is always its operations on their way
\* applied to the table they will meet, before cleaning, and a refusal it hears of before it
\* goes on undoes exactly the operation that was refused.
THEOREM LonePageHasFile == Spec => []LonePageShowsFile
<1>1. Init => LonelinessInv
  BY TypeInit, WiredInit, NumbersInit, OldInit, LoneInit DEF LonelinessInv
<1>2. LonelinessInv /\ [Next]_vars => LonelinessInv'
  BY TypeStep, WiredStep, NumbersStep, OldStep, LoneStep DEF LonelinessInv
<1>3. LonelinessInv => LonePageShowsFile
  <2> SUFFICES ASSUME LonelinessInv, NEW p \in Pages,
                      Settled(p), ~lost[p], ~foreign[p], ~tangled[p], ~early[p]
               PROVE  file \in Seq(Rows) /\ Same(plan[p], file) /\ Same(view[p], file)
    BY DEF LonePageShowsFile
  <2>1. /\ conn[p] # None /\ inbox[p] = <<>> /\ Unheard(p) = {} /\ fetch[p].at = "shown"
        /\ sent[conn[p]] = <<>> /\ job[conn[p]].at = "none"
    BY DEF Settled, Busy
  <2>2. Sent(p) = <<>> /\ JobOf(p) = job[conn[p]] /\ JobOf(p).at = "none"
    BY <2>1 DEF Sent, JobOf
  <2>3. Alone(<<>>, JobOf(p), <<>>, {}, plan[p], view[p], file)
    BY <2>1, <2>2 DEF LonelinessInv, LoneInv, Lone
  <2>4. ~Exact(<<>>, JobOf(p), <<>>, {}, plan[p], file) /\ ~Late(JobOf(p), <<>>, {})
    BY DEF Exact, Late, Numbers
  <2>5. Clean(<<>>, JobOf(p), <<>>, {}, plan[p], view[p], file) /\ file \in Tables
    BY <2>2, <2>3, <2>4 DEF Alone, Mine
  <2>6. Same(plan[p], file)
    <3>1. PICK S \in Seq(Tables) : Chain(S, <<>>, Base(JobOf(p), file), plan[p], {})
      BY <2>5 DEF Clean
    <3>2. Same(S[1], file) /\ S[1] = plan[p]
      BY <2>2, <3>1 DEF Chain, Base
    <3> QED
      BY <3>2
  <2>7. Same(view[p], file)
    BY <2>2, <2>5 DEF Clean, Shows
  <2> QED
    BY <2>5, <2>6, <2>7 DEF Tables
<1> QED
  BY <1>1, <1>2, <1>3, PTL DEF Spec
===============================================================================
