-------------------------- MODULE EditorServerProofs --------------------------
(***************************************************************************)
(* What holds of the language server for any documents, shards, macros,    *)
(* texts and number of handlers in progress.                               *)
(***************************************************************************)
EXTENDS EditorServer, TLAPS

USE EditorAssumption

-----------------------------------------------------------------------------
(* The inductive invariant.                                                *)

Registry == [Macros -> Forms \cup {None}]

Jobs == [at : {"none", "loading", "read", "sleeping"}, kind : Kinds, doc : Docs,
         text : Texts, read : Contents, old : BOOLEAN, gen : Nat]

\* A message that has not come has no handler.
Numbered == \A t \in Messages : t > n => job[t] = NoJob

\* t is going to index a text of d and to publish.
Carries(j, d) == j.at \in {"loading", "read"} /\ j.kind # "query" /\ j.doc = d

\* t is going to publish what d is then.
Publishes(j, d, g) == Carries(j, d) \/ (j.at = "sleeping" /\ j.doc = d /\ j.gen = g)

\* What is not shown yet is going to be.
DiagnosticsOwed ==
  \A d \in Docs : shown[d] = text[d].ver \/ \E t \in Messages : Publishes(job[t], d, gen[d])

\* Of a text that came alone no other text waits, and it is indexed or waits itself.
IndexOwed ==
  \A d \in Docs : text[d].defs # Unparsed /\ ~crowded[d] =>
    /\ \A t \in Messages : Carries(job[t], d) => job[t].text = text[d]
    /\ indexed[d] = text[d].ver \/ \E t \in Messages : Carries(job[t], d)

\* A load that is not old has what is on disk; the old ones have been noticed.
LoadsFresh ==
  /\ \A t \in Messages : job[t].old => job[t].at = "read"
  /\ \A t \in Messages : job[t].at = "read" /\ ~job[t].old => job[t].read = prelude
  /\ ~owed /\ ~raced => \A t \in Messages : ~job[t].old

IndInv == TypeOK /\ Numbered /\ DiagnosticsOwed /\ IndexOwed /\ LoadsFresh /\ ServedAsDefined

-----------------------------------------------------------------------------
(* The operators of the model.                                             *)

LEMMA Constants ==
  /\ Closed \in Texts /\ NoJob \in Jobs
  /\ NoJob.at = "none" /\ ~NoJob.old /\ NoForms \in Registry
BY DEF Closed, Texts, Contents, NoJob, Jobs, Kinds, NoForms, Registry

LEMMA SleepingFacts ==
  ASSUME NEW d \in Docs, NEW g \in Nat
  PROVE  /\ Sleeping(d, g) \in Jobs /\ ~Sleeping(d, g).old /\ Sleeping(d, g).at = "sleeping"
         /\ Sleeping(d, g).doc = d /\ Sleeping(d, g).gen = g
BY DEF Sleeping, Jobs, Closed, Texts, Contents, Kinds

LEMMA LoadingFacts ==
  ASSUME NEW kind \in Kinds, NEW d \in Docs, NEW x \in Texts
  PROVE  /\ Loading(kind, d, x) \in Jobs /\ ~Loading(kind, d, x).old
         /\ Loading(kind, d, x).at = "loading" /\ Loading(kind, d, x).kind = kind
         /\ Loading(kind, d, x).doc = d /\ Loading(kind, d, x).text = x
BY DEF Loading, Jobs, Texts, Contents, Kinds

LEMMA HasReadFacts ==
  ASSUME NEW j \in Jobs, NEW c \in Contents
  PROVE  /\ HasRead(j, c) \in Jobs /\ ~HasRead(j, c).old /\ HasRead(j, c).at = "read"
         /\ HasRead(j, c).kind = j.kind /\ HasRead(j, c).doc = j.doc
         /\ HasRead(j, c).text = j.text /\ HasRead(j, c).read = c
BY DEF HasRead, Jobs, Texts, Contents, Kinds

\* Both ways of adding forms leave a registry; the fresh base is served, and stays.
LEMMA RegistryFacts ==
  ASSUME NEW c \in Contents, NEW s \in Registry
  PROVE  /\ Registered(c, s) \in Registry /\ Merged(c, s) \in Registry
         /\ \A m \in Macros : s[m] # None => Registered(c, s)[m] = s[m]
         /\ c # Unparsed => \A m \in Macros : c[m] # None => Merged(c, s)[m] = c[m]
         /\ c = Unparsed => Merged(c, s) = s
<1>1. CASE c = Unparsed
  BY <1>1 DEF Registered, Merged
<1>2. CASE c # Unparsed
  <2>1. c \in Registry
    BY <1>2 DEF Contents, Registry
  <2> QED BY <1>2, <2>1 DEF Registered, Merged, Registry
<1> QED BY <1>1, <1>2

\* The handler t has become j.
Becomes(t, j) == job' = [job EXCEPT ![t] = j]

LEMMA BecomesFacts ==
  ASSUME TypeOK, NEW t \in Messages, NEW j \in Jobs, Becomes(t, j)
  PROVE  /\ job' \in [Messages -> Jobs] /\ job'[t] = j
         /\ \A u \in Messages \ {t} : job'[u] = job[u]
BY DEF TypeOK, Becomes, Jobs

\* What the rest of a handler can do.
LEMMA ContinueFacts ==
  ASSUME TypeOK, text' \in [Docs -> Texts], NEW t \in Messages, NEW kind \in Kinds,
         NEW d \in Docs, NEW x \in Texts, NEW s \in Registry, Continue(t, kind, d, x, s)
  PROVE  /\ served' \in {s, Registered(x.defs, s)} /\ served' \in Registry
         /\ gen' \in [Docs -> Nat] /\ shown' \in [Docs -> Nat] /\ indexed' \in [Docs -> Nat]
         /\ \A e \in Docs \ {d} : gen'[e] = gen[e] /\ shown'[e] = shown[e] /\ indexed'[e] = indexed[e]
         /\ kind # "query" => indexed'[d] = IF x.defs = Unparsed THEN indexed[d] ELSE x.ver
         /\ kind = "query" => gen'[d] = gen[d] /\ shown'[d] = shown[d] /\ indexed'[d] = indexed[d]
         /\ kind = "open" => shown'[d] = text'[d].ver
         /\ \E j \in Jobs : /\ Becomes(t, j) /\ ~j.old /\ j.at \in {"none", "sleeping"}
                            /\ kind = "change" => j.at = "sleeping" /\ j.doc = d /\ j.gen = gen'[d]
<1> USE DEF TypeOK, Kinds
<1>0. x.defs \in Contents /\ x.ver \in Nat /\ text'[d].ver \in Nat
  BY DEF Texts
<1>1. Registered(x.defs, s) \in Registry
  BY <1>0, RegistryFacts
<1>2. /\ Indexed(d, x) \in [Docs -> Nat]
      /\ \A e \in Docs \ {d} : Indexed(d, x)[e] = indexed[e]
      /\ Indexed(d, x)[d] = IF x.defs = Unparsed THEN indexed[d] ELSE x.ver
  BY <1>0 DEF Indexed
<1>3. CASE kind = "query"
  BY <1>3, Constants DEF Continue, Becomes
<1>4. CASE kind = "open"
  <2>1. shown' = [shown EXCEPT ![d] = text'[d].ver]
    BY <1>4 DEF Continue, Publish
  <2>2. Becomes(t, NoJob) /\ served' = Registered(x.defs, s) /\ indexed' = Indexed(d, x) /\ gen' = gen
    BY <1>4 DEF Continue, Becomes
  <2>3. shown' \in [Docs -> Nat] /\ shown'[d] = text'[d].ver
        /\ \A e \in Docs \ {d} : shown'[e] = shown[e]
    BY <1>0, <2>1
  <2>4. \E j \in Jobs : /\ Becomes(t, j) /\ ~j.old /\ j.at \in {"none", "sleeping"}
                        /\ kind = "change" => j.at = "sleeping" /\ j.doc = d /\ j.gen = gen'[d]
    BY <1>4, <2>2, Constants
  <2>5. gen' \in [Docs -> Nat] /\ \A e \in Docs : gen'[e] = gen[e]
    BY <2>2
  <2>6. indexed' \in [Docs -> Nat] /\ \A e \in Docs \ {d} : indexed'[e] = indexed[e]
    BY <1>2, <2>2
  <2>7. indexed'[d] = IF x.defs = Unparsed THEN indexed[d] ELSE x.ver
    BY <1>2, <2>2
  <2> HIDE DEF TypeOK
  <2>8. served' \in {s, Registered(x.defs, s)} /\ served' \in Registry
    BY <1>1, <2>1, <2>2
  <2>9. \A e \in Docs \ {d} : gen'[e] = gen[e] /\ shown'[e] = shown[e] /\ indexed'[e] = indexed[e]
    BY <2>3, <2>5, <2>6
  <2>10. kind # "query" /\ (kind = "open" => shown'[d] = text'[d].ver)
    BY <1>4, <2>3
  <2> QED BY <2>3, <2>4, <2>5, <2>6, <2>7, <2>8, <2>9, <2>10
<1>5. CASE kind = "change"
  <2> DEFINE j == Sleeping(d, Bumped(d))
  <2>1. /\ Becomes(t, j) /\ served' = Registered(x.defs, s) /\ indexed' = Indexed(d, x)
        /\ shown' = shown /\ gen' = [gen EXCEPT ![d] = gen[d] + 1]
    BY <1>5 DEF Continue, Becomes
  <2>2. j \in Jobs /\ ~j.old /\ j.at = "sleeping" /\ j.doc = d /\ j.gen = gen[d] + 1
    BY SleepingFacts DEF Bumped
  <2> HIDE DEF j
  <2>3. gen' \in [Docs -> Nat] /\ gen'[d] = gen[d] + 1 /\ \A e \in Docs \ {d} : gen'[e] = gen[e]
    BY <2>1
  <2>4. \E i \in Jobs : /\ Becomes(t, i) /\ ~i.old /\ i.at \in {"none", "sleeping"}
                        /\ kind = "change" => i.at = "sleeping" /\ i.doc = d /\ i.gen = gen'[d]
    BY <2>1, <2>2, <2>3
  <2>5. shown' \in [Docs -> Nat] /\ \A e \in Docs : shown'[e] = shown[e]
    BY <2>1
  <2>6. indexed' \in [Docs -> Nat] /\ \A e \in Docs \ {d} : indexed'[e] = indexed[e]
    BY <1>2, <2>1
  <2>7. indexed'[d] = IF x.defs = Unparsed THEN indexed[d] ELSE x.ver
    BY <1>2, <2>1
  <2> HIDE DEF TypeOK
  <2>8. served' \in {s, Registered(x.defs, s)} /\ served' \in Registry
    BY <1>1, <2>1, <2>2
  <2>9. \A e \in Docs \ {d} : gen'[e] = gen[e] /\ shown'[e] = shown[e] /\ indexed'[e] = indexed[e]
    BY <2>3, <2>5, <2>6
  <2>10. kind # "query" /\ (kind = "open" => shown'[d] = text'[d].ver)
    BY <1>5, <2>3
  <2> QED BY <2>3, <2>4, <2>5, <2>6, <2>7, <2>8, <2>9, <2>10
<1> QED BY <1>3, <1>4, <1>5

-----------------------------------------------------------------------------
(* The steps.                                                              *)

LEMMA InitOK == Init => IndInv
<1> SUFFICES ASSUME Init PROVE IndInv
  OBVIOUS
<1>1. prelude \in Contents /\ NoForms \in Registry /\ \A t \in Messages : job[t] = NoJob
  BY Constants DEF Init
<1>2. served \in Registry
  BY <1>1, RegistryFacts DEF Init
<1>3. TypeOK
  <2>1. job \in [Messages -> Jobs] /\ text \in [Docs -> Texts]
    BY Constants DEF Init
  <2>2. /\ gen \in [Docs -> Nat] /\ shown \in [Docs -> Nat] /\ indexed \in [Docs -> Nat]
        /\ crowded \in [Docs -> BOOLEAN]
    BY DEF Init
  <2>3. n \in 0..MaxMessages /\ saves \in 0..MaxSaves
    BY DEF Init
  <2>4. loaded \in BOOLEAN /\ owed \in BOOLEAN /\ stuck \in BOOLEAN /\ raced \in BOOLEAN
    BY DEF Init
  <2> QED BY <1>1, <1>2, <2>1, <2>2, <2>3, <2>4 DEF TypeOK, Jobs, Registry
<1>4. ServedAsDefined
  BY <1>1, RegistryFacts DEF Init, ServedAsDefined
<1>5. \A d \in Docs : shown[d] = 0 /\ text[d] = Closed
  BY DEF Init
<1>6. DiagnosticsOwed /\ IndexOwed
  BY <1>5 DEF DiagnosticsOwed, IndexOwed, Closed
<1>7. Numbered /\ LoadsFresh
  BY <1>1, Constants DEF Numbered, LoadsFresh
<1> QED BY <1>3, <1>4, <1>6, <1>7 DEF IndInv

\* A message that is taken is numbered and had no handler.
LEMMA Arrives ==
  ASSUME IndInv, Arrive
  PROVE  /\ n' \in Messages /\ n' \in 0..MaxMessages /\ job[n'] = NoJob
         /\ \A t \in Messages : t > n' => job[t] = NoJob /\ t # n'
BY DEF IndInv, Arrive, Messages, TypeOK, Numbered

\* The invariant after a handler t of d has become j, which is not old, and a registry
\* was served that keeps what the one before it has and what t has read.
LEMMA HandlerStep ==
  ASSUME IndInv, NEW t \in Messages, NEW j \in Jobs, Becomes(t, j), NEW d \in Docs,
         job[t].doc = d \/ job[t] = NoJob, \A e \in Docs \ {d} : ~Carries(j, e),
         ~j.old, j.at # "read",
         t <= n', n' \in 0..MaxMessages, n' >= n,
         text' \in [Docs -> Texts], gen' \in [Docs -> Nat], shown' \in [Docs -> Nat],
         indexed' \in [Docs -> Nat], served' \in Registry, crowded' \in [Docs -> BOOLEAN],
         \A e \in Docs \ {d} : /\ text'[e] = text[e] /\ gen'[e] = gen[e] /\ shown'[e] = shown[e]
                               /\ indexed'[e] = indexed[e] /\ crowded'[e] = crowded[e],
         loaded' \in BOOLEAN, raced' \in BOOLEAN, ServedAsDefined',
         prelude' = prelude, owed' = owed, stuck' = stuck, saves' = saves,
         ~raced' => ~raced \/ \A u \in Messages : ~job[u].old,
         shown'[d] = text'[d].ver \/ \E u \in Messages : Publishes(job'[u], d, gen'[d]),
         text'[d].defs # Unparsed /\ ~crowded'[d] =>
           /\ \A u \in Messages : Carries(job'[u], d) => job'[u].text = text'[d]
           /\ indexed'[d] = text'[d].ver \/ \E u \in Messages : Carries(job'[u], d)
  PROVE  IndInv'
<1> USE DEF IndInv
<1>1. /\ job' \in [Messages -> Jobs] /\ job'[t] = j
      /\ \A u \in Messages \ {t} : job'[u] = job[u]
  BY BecomesFacts
<1>2. TypeOK'
  BY <1>1 DEF TypeOK, Jobs, Registry
<1>3. Numbered'
  <2> SUFFICES ASSUME NEW u \in Messages, u > n' PROVE job'[u] = NoJob
    BY DEF Numbered
  <2>0. u \in Int /\ t \in Int /\ n \in Int /\ n' \in Int
    BY DEF TypeOK, Messages
  <2> HIDE DEF IndInv
  <2>1. u # t /\ u > n
    BY <2>0
  <2> QED BY <1>1, <2>1 DEF IndInv, Numbered
<1>4. \A e \in Docs \ {d} : ~Carries(job[t], e) /\ ~Publishes(job[t], e, gen[e])
  BY DEF Carries, Publishes, NoJob
<1>5. DiagnosticsOwed'
  <2> SUFFICES ASSUME NEW e \in Docs \ {d}
               PROVE  shown'[e] = text'[e].ver \/ \E u \in Messages : Publishes(job'[u], e, gen'[e])
    BY DEF DiagnosticsOwed
  <2> QED BY <1>1, <1>4 DEF DiagnosticsOwed
<1>6. IndexOwed'
  <2> SUFFICES ASSUME NEW e \in Docs \ {d}, text'[e].defs # Unparsed, ~crowded'[e]
               PROVE  /\ \A u \in Messages : Carries(job'[u], e) => job'[u].text = text'[e]
                      /\ indexed'[e] = text'[e].ver \/ \E u \in Messages : Carries(job'[u], e)
    BY DEF IndexOwed
  <2> QED BY <1>1, <1>4 DEF IndexOwed
<1>7. LoadsFresh'
  BY <1>1 DEF LoadsFresh
<1> QED BY <1>2, <1>3, <1>5, <1>6, <1>7

-----------------------------------------------------------------------------
(* Messages.                                                               *)

\* A registry that counts as loaded and fresh serves the prelude also with more behind it.
LEMMA StillServed ==
  ASSUME TypeOK, ServedAsDefined, NEW c \in Contents,
         served' \in {served, Registered(c, served)},
         loaded' => loaded, prelude' = prelude, owed' = owed, ~raced' /\ loaded' => ~raced
  PROVE  ServedAsDefined'
<1>1. \A m \in Macros : served[m] # None => served'[m] = served[m]
  BY RegistryFacts DEF TypeOK, Registry
<1>2. ASSUME loaded, ~owed, ~raced, prelude # Unparsed, NEW m \in Macros, prelude[m] # None
      PROVE  served'[m] = prelude[m]
  BY <1>1, <1>2 DEF ServedAsDefined
<1> QED BY <1>2 DEF ServedAsDefined

\* A handler that starts with a text of its document.
LEMMA BeginOK ==
  ASSUME IndInv, Arrive, NEW d \in Docs, NEW x \in Texts, NEW kind \in {"open", "change"},
         text' = [text EXCEPT ![d] = x], crowded' = [crowded EXCEPT ![d] = Behind(d)],
         NEW ready \in BOOLEAN, Begin(kind, d, x, ready),
         loaded' \in BOOLEAN, loaded' => loaded, raced' \in BOOLEAN,
         raced' = raced \/ ~loaded',
         ~raced' => ~raced \/ \A u \in Messages : ~job[u].old,
         UNCHANGED <<prelude, owed, stuck, saves>>
  PROVE  IndInv'
<1> USE DEF IndInv
<1>0. /\ n' \in Messages /\ n' \in 0..MaxMessages /\ job[n'] = NoJob /\ n' = n + 1
      /\ text' \in [Docs -> Texts] /\ text'[d] = x /\ crowded' \in [Docs -> BOOLEAN]
      /\ crowded'[d] = Behind(d)
      /\ \A e \in Docs \ {d} : text'[e] = text[e] /\ crowded'[e] = crowded[e]
  BY Arrives DEF Arrive, TypeOK, Behind
<1>1. \A u \in Messages : Carries(job[u], d) => Behind(d)
  BY DEF Carries, Behind, Waiting
<1>3. CASE ready
  <2>1. Continue(n', kind, d, x, served)
    BY <1>3 DEF Begin
  <2>2. served \in Registry /\ x.defs \in Contents
    BY DEF TypeOK, Registry, Texts
  <2>3. PICK j \in Jobs : /\ Becomes(n', j) /\ ~j.old /\ j.at \in {"none", "sleeping"}
                          /\ kind = "change" => j.at = "sleeping" /\ j.doc = d /\ j.gen = gen'[d]
    BY <1>0, <2>1, <2>2, ContinueFacts DEF Kinds
  <2>4. /\ served' \in {served, Registered(x.defs, served)} /\ served' \in Registry
        /\ gen' \in [Docs -> Nat] /\ shown' \in [Docs -> Nat] /\ indexed' \in [Docs -> Nat]
        /\ \A e \in Docs \ {d} : gen'[e] = gen[e] /\ shown'[e] = shown[e] /\ indexed'[e] = indexed[e]
        /\ indexed'[d] = IF x.defs = Unparsed THEN indexed[d] ELSE x.ver
        /\ kind = "open" => shown'[d] = x.ver
    BY <1>0, <2>1, <2>2, ContinueFacts DEF Kinds
  <2>5. ServedAsDefined'
    <3>1. ~raced' /\ loaded' => ~raced
      OBVIOUS
    <3>2. prelude' = prelude /\ owed' = owed /\ TypeOK /\ ServedAsDefined
      OBVIOUS
    <3> HIDE DEF IndInv
    <3> QED BY <2>2, <2>4, <3>1, <3>2, StillServed
  <2>6. job'[n'] = j /\ \A u \in Messages \ {n'} : job'[u] = job[u]
    BY <1>0, <2>3, BecomesFacts
  <2>7. shown'[d] = text'[d].ver \/ \E u \in Messages : Publishes(job'[u], d, gen'[d])
    BY <1>0, <2>3, <2>4, <2>6 DEF Publishes
  <2>8. ASSUME x.defs # Unparsed, ~crowded'[d]
        PROVE  /\ \A u \in Messages : Carries(job'[u], d) => job'[u].text = text'[d]
               /\ indexed'[d] = text'[d].ver
    BY <1>0, <1>1, <2>3, <2>4, <2>6, <2>8 DEF Carries
  <2> QED BY <1>0, <2>3, <2>4, <2>5, <2>7, <2>8, HandlerStep DEF Carries, Arrive, TypeOK
<1>4. CASE ~ready
  <2> DEFINE j == Loading(kind, d, x)
  <2>1. Becomes(n', j) /\ UNCHANGED <<served, gen, shown, indexed>>
    BY <1>4 DEF Begin, Becomes
  <2>2. j \in Jobs /\ ~j.old /\ j.at = "loading" /\ j.kind = kind /\ j.doc = d /\ j.text = x
    BY LoadingFacts DEF Kinds
  <2> HIDE DEF j
  <2>3. job'[n'] = j /\ \A u \in Messages \ {n'} : job'[u] = job[u]
    BY <1>0, <2>1, <2>2, BecomesFacts
  <2>4. ServedAsDefined'
    BY <2>1, StillServed, <1>0 DEF TypeOK, Texts
  <2>5. Carries(job'[n'], d) /\ \A e \in Docs \ {d} : ~Carries(j, e)
    BY <2>2, <2>3 DEF Carries
  <2>6. ASSUME ~crowded'[d] PROVE \A u \in Messages : Carries(job'[u], d) => job'[u].text = x
    BY <1>0, <1>1, <2>2, <2>3, <2>6
  <2>7. shown'[d] = text'[d].ver \/ \E u \in Messages : Publishes(job'[u], d, gen'[d])
    BY <1>0, <2>5 DEF Publishes
  <2> QED BY <1>0, <2>1, <2>2, <2>4, <2>5, <2>6, <2>7, HandlerStep DEF Arrive, TypeOK, Registry
<1> QED BY <1>3, <1>4

LEMMA OpenOK ==
  ASSUME IndInv, NEW d \in Docs, Open(d) PROVE IndInv'
<1>1. PICK c \in Drafts : Text(d, [ver |-> n', defs |-> c])
                          /\ Begin("open", d, [ver |-> n', defs |-> c], loaded)
  BY DEF Open
<1>2. n' \in Nat /\ [ver |-> n', defs |-> c] \in Texts /\ loaded \in BOOLEAN /\ raced \in BOOLEAN
  BY DEF Open, Arrive, Texts, IndInv, TypeOK
<1>3. /\ UNCHANGED <<prelude, owed, stuck, saves>> /\ loaded' = loaded /\ raced' = raced
      /\ Arrive
  BY DEF Open
<1> QED BY <1>1, <1>2, <1>3, BeginOK DEF Text

LEMMA ChangeOK ==
  ASSUME IndInv, NEW d \in Docs, Change(d) PROVE IndInv'
<1>1. \E c \in Drafts : LET x == [ver |-> n', defs |-> c]
                        IN Text(d, x) /\ Begin("change", d, x, loaded /\ d # Prelude)
  BY DEF Change
<1>2. \A c \in Drafts : [ver |-> n', defs |-> c] \in Texts
  BY DEF Change, Arrive, Texts, IndInv, TypeOK
<1>3. (loaded /\ d # Prelude) \in BOOLEAN
  OBVIOUS
<1>4. PICK x \in Texts, ready \in BOOLEAN : Text(d, x) /\ Begin("change", d, x, ready)
  BY <1>1, <1>2, <1>3
<1>5. /\ loaded' \in BOOLEAN /\ (loaded' => loaded) /\ raced' \in BOOLEAN
      /\ raced' = raced \/ ~loaded'
      /\ ~raced' => ~raced \/ \A u \in Messages : ~job[u].old
  BY DEF Change, Invalidate, IndInv, TypeOK
<1>6. /\ text' = [text EXCEPT ![d] = x] /\ crowded' = [crowded EXCEPT ![d] = Behind(d)]
      /\ Arrive /\ UNCHANGED <<prelude, owed, stuck, saves>>
  BY <1>4 DEF Text, Change
<1> QED BY <1>4, <1>5, <1>6, BeginOK

LEMMA QueryOK ==
  ASSUME IndInv, NEW d \in Docs, Query(d) PROVE IndInv'
<1> USE DEF IndInv
<1>0. /\ n' \in Messages /\ n' \in 0..MaxMessages /\ job[n'] = NoJob /\ n' = n + 1
      /\ text' = text /\ crowded' = crowded /\ loaded' = loaded /\ raced' = raced
      /\ prelude' = prelude /\ owed' = owed /\ stuck' = stuck /\ saves' = saves
      /\ text[d] \in Texts /\ loaded \in BOOLEAN /\ served \in Registry
      /\ Begin("query", d, text[d], loaded)
  BY Arrives DEF Query, Arrive, TypeOK, Registry
<1>1. \E j \in Jobs : /\ Becomes(n', j) /\ ~j.old /\ j.at \in {"none", "loading"}
                      /\ j.at = "none" \/ j.kind = "query"
  <2>1. CASE loaded
    <3>1. Becomes(n', NoJob)
      BY <1>0, <2>1 DEF Begin, Continue, Becomes
    <3> QED BY <3>1, Constants
  <2>2. CASE ~loaded
    <3> DEFINE j == Loading("query", d, text[d])
    <3>1. Becomes(n', j)
      BY <1>0, <2>2 DEF Begin, Becomes
    <3>2. j \in Jobs /\ ~j.old /\ j.at = "loading" /\ j.kind = "query"
      BY <1>0, LoadingFacts DEF Kinds
    <3> QED BY <3>1, <3>2
  <2> QED BY <2>1, <2>2
<1>2. served' = served /\ gen' = gen /\ shown' = shown /\ indexed' = indexed
  BY <1>0 DEF Begin, Continue
<1>3. PICK j \in Jobs : /\ Becomes(n', j) /\ ~j.old /\ j.at \in {"none", "loading"}
                        /\ j.at = "none" \/ j.kind = "query"
  BY <1>1
<1>4. job'[n'] = j /\ \A u \in Messages \ {n'} : job'[u] = job[u]
  BY <1>0, <1>3, BecomesFacts
<1>5. \A e \in Docs : ~Carries(job[n'], e) /\ ~Publishes(job[n'], e, gen[e]) /\ ~Carries(j, e)
  BY <1>0, <1>3 DEF Carries, Publishes, NoJob
<1>6. shown'[d] = text'[d].ver \/ \E u \in Messages : Publishes(job'[u], d, gen'[d])
  BY <1>0, <1>2, <1>4, <1>5 DEF DiagnosticsOwed
<1>7. text'[d].defs # Unparsed /\ ~crowded'[d] =>
           /\ \A u \in Messages : Carries(job'[u], d) => job'[u].text = text'[d]
           /\ indexed'[d] = text'[d].ver \/ \E u \in Messages : Carries(job'[u], d)
  BY <1>0, <1>2, <1>4, <1>5 DEF IndexOwed
<1>8. ServedAsDefined'
  BY <1>0, <1>2 DEF ServedAsDefined
<1> QED BY <1>0, <1>2, <1>3, <1>5, <1>6, <1>7, <1>8, HandlerStep DEF TypeOK

LEMMA CloseOK ==
  ASSUME IndInv, NEW d \in Docs, Close(d) PROVE IndInv'
<1> USE DEF IndInv
<1>1. /\ job' = job /\ gen' = gen /\ indexed' = indexed /\ crowded' = crowded
      /\ UNCHANGED base /\ raced' = raced /\ stuck' = stuck /\ saves' = saves
      /\ n' = n + 1 /\ n' \in 0..MaxMessages
  BY DEF Close, Arrive, TypeOK
<1>2. /\ text' \in [Docs -> Texts] /\ text'[d] = Closed
      /\ \A e \in Docs \ {d} : text'[e] = text[e]
  BY Constants DEF Close, TypeOK
<1>3. text'[d].ver \in Nat
  BY <1>2 DEF Closed
<1>4. /\ shown' \in [Docs -> Nat] /\ shown'[d] = text'[d].ver
      /\ \A e \in Docs \ {d} : shown'[e] = shown[e]
  BY <1>3 DEF Close, Publish, TypeOK
<1>5. TypeOK'
  BY <1>1, <1>2, <1>4 DEF TypeOK, base
<1>6. Numbered'
  BY <1>1 DEF Numbered, Messages, TypeOK
<1>7. DiagnosticsOwed'
  BY <1>1, <1>2, <1>4 DEF DiagnosticsOwed
<1>8. IndexOwed'
  BY <1>1, <1>2 DEF IndexOwed, Closed
<1>9. LoadsFresh' /\ ServedAsDefined'
  BY <1>1 DEF LoadsFresh, ServedAsDefined, base
<1> QED BY <1>5, <1>6, <1>7, <1>8, <1>9

LEMMA BlockOK ==
  ASSUME IndInv, NEW d \in Docs, Block(d) PROVE IndInv'
<1> USE DEF IndInv
<1>1. UNCHANGED <<docs, base, job, raced, crowded, saves>> /\ stuck' /\ n' = n + 1
      /\ n' \in 0..MaxMessages
  BY DEF Block, Arrive, TypeOK
<1>2. TypeOK'
  BY <1>1 DEF TypeOK, base, docs, Block
<1>3. Numbered'
  BY <1>1 DEF Numbered, Messages, TypeOK
<1>4. DiagnosticsOwed' /\ IndexOwed'
  BY <1>1 DEF DiagnosticsOwed, IndexOwed, docs
<1>5. LoadsFresh' /\ ServedAsDefined'
  BY <1>1 DEF LoadsFresh, ServedAsDefined, base
<1> QED BY <1>2, <1>3, <1>4, <1>5

-----------------------------------------------------------------------------
(* The registry and the waits.                                             *)

LEMMA WatchedOK ==
  ASSUME IndInv, Watched PROVE IndInv'
<1> USE DEF IndInv
<1>1. /\ UNCHANGED <<docs, served, prelude, job, stuck, crowded, n, saves>>
      /\ ~owed' /\ ~loaded' /\ raced' = \E t \in Messages : job[t].old
  BY DEF Watched, Invalidate
<1>2. TypeOK'
  BY <1>1 DEF TypeOK, docs, Watched, Invalidate
<1>3. Numbered' /\ DiagnosticsOwed' /\ IndexOwed'
  BY <1>1 DEF Numbered, DiagnosticsOwed, IndexOwed, docs
<1>4. LoadsFresh' /\ ServedAsDefined'
  BY <1>1 DEF LoadsFresh, ServedAsDefined
<1> QED BY <1>2, <1>3, <1>4

LEMMA LoadOK ==
  ASSUME IndInv, NEW t \in Messages, Load(t) PROVE IndInv'
<1> USE DEF IndInv
<1> DEFINE j == HasRead(job[t], prelude)
<1>1. /\ UNCHANGED <<docs, base, stuck, raced, crowded, n, saves>> /\ Becomes(t, j)
      /\ job[t].at = "loading" /\ job[t] \in Jobs /\ prelude \in Contents
  BY DEF Load, Becomes, TypeOK, Jobs
<1>2. /\ j \in Jobs /\ ~j.old /\ j.at = "read" /\ j.kind = job[t].kind /\ j.doc = job[t].doc
      /\ j.text = job[t].text /\ j.read = prelude
  BY <1>1, HasReadFacts
<1> HIDE DEF j
<1>3. /\ job' \in [Messages -> Jobs] /\ job'[t] = j /\ job[t] # NoJob
      /\ \A u \in Messages \ {t} : job'[u] = job[u]
  BY <1>1, <1>2, BecomesFacts, Constants
<1>4. TypeOK'
  BY <1>1, <1>3 DEF TypeOK, Jobs, docs, base
<1>5. Numbered'
  BY <1>1, <1>3 DEF Numbered
<1>6. \A u \in Messages, e \in Docs : /\ Carries(job'[u], e) <=> Carries(job[u], e)
                                      /\ Publishes(job'[u], e, gen[e]) <=> Publishes(job[u], e, gen[e])
                                      /\ Carries(job[u], e) => job'[u].text = job[u].text
  BY <1>1, <1>2, <1>3 DEF Carries, Publishes
<1>7. DiagnosticsOwed'
  BY <1>1, <1>6 DEF DiagnosticsOwed, docs
<1>8. IndexOwed'
  BY <1>1, <1>6 DEF IndexOwed, docs
<1>9. LoadsFresh'
  BY <1>1, <1>2, <1>3 DEF LoadsFresh, base
<1>10. ServedAsDefined'
  BY <1>1 DEF ServedAsDefined, base
<1> QED BY <1>4, <1>5, <1>7, <1>8, <1>9, <1>10

LEMMA ResumeOK ==
  ASSUME IndInv, NEW t \in Messages, Resume(t) PROVE IndInv'
<1> USE DEF IndInv
<1> DEFINE d == job[t].doc
           x == job[t].text
           kind == job[t].kind
           s == Merged(job[t].read, served)
<1>1. /\ job[t] \in Jobs /\ job[t].at = "read" /\ loaded' /\ text' = text
      /\ UNCHANGED <<prelude, owed, stuck, raced, crowded, n, saves>>
      /\ Continue(t, kind, d, x, s)
  BY DEF Resume, TypeOK, Jobs
<1>2. d \in Docs /\ x \in Texts /\ kind \in Kinds /\ job[t].read \in Contents
  BY <1>1 DEF Jobs
<1>3. s \in Registry /\ x.defs \in Contents
  BY <1>2, RegistryFacts DEF TypeOK, Registry, Texts
<1>4. text \in [Docs -> Texts] /\ text' \in [Docs -> Texts]
  BY <1>1 DEF TypeOK
<1> HIDE DEF d, x, kind, s
<1>5. PICK j \in Jobs : /\ Becomes(t, j) /\ ~j.old /\ j.at \in {"none", "sleeping"}
                        /\ kind = "change" => j.at = "sleeping" /\ j.doc = d /\ j.gen = gen'[d]
  BY <1>1, <1>2, <1>3, <1>4, ContinueFacts
<1>6. /\ served' \in {s, Registered(x.defs, s)} /\ served' \in Registry
      /\ gen' \in [Docs -> Nat] /\ shown' \in [Docs -> Nat] /\ indexed' \in [Docs -> Nat]
      /\ \A e \in Docs \ {d} : gen'[e] = gen[e] /\ shown'[e] = shown[e] /\ indexed'[e] = indexed[e]
      /\ kind # "query" => indexed'[d] = IF x.defs = Unparsed THEN indexed[d] ELSE x.ver
      /\ kind = "query" => gen'[d] = gen[d] /\ shown'[d] = shown[d] /\ indexed'[d] = indexed[d]
      /\ kind = "open" => shown'[d] = text'[d].ver
  BY <1>1, <1>2, <1>3, <1>4, ContinueFacts
<1>7. job'[t] = j /\ \A u \in Messages \ {t} : job'[u] = job[u]
  BY <1>5, BecomesFacts
<1>8. \A e \in Docs : /\ ~Carries(j, e)
                      /\ Carries(job[t], e) <=> kind # "query" /\ d = e
                      /\ Publishes(job[t], e, gen[e]) <=> kind # "query" /\ d = e
  BY <1>1, <1>5 DEF Carries, Publishes, d, kind
<1>9. shown'[d] = text'[d].ver \/ \E u \in Messages : Publishes(job'[u], d, gen'[d])
  <2>1. CASE kind = "query"
    BY <1>1, <1>2, <1>6, <1>7, <1>8, <2>1 DEF DiagnosticsOwed
  <2>2. CASE kind = "change"
    BY <1>5, <1>7, <2>2 DEF Publishes
  <2>3. CASE kind = "open"
    BY <1>6, <2>3
  <2> QED BY <1>2, <2>1, <2>2, <2>3 DEF Kinds
<1>10. ASSUME text'[d].defs # Unparsed, ~crowded'[d]
       PROVE  /\ \A u \in Messages : Carries(job'[u], d) => job'[u].text = text'[d]
              /\ indexed'[d] = text'[d].ver \/ \E u \in Messages : Carries(job'[u], d)
  <2>1. /\ \A u \in Messages : Carries(job[u], d) => job[u].text = text[d]
        /\ indexed[d] = text[d].ver \/ \E u \in Messages : Carries(job[u], d)
    BY <1>1, <1>2, <1>10 DEF IndexOwed
  <2>2. kind # "query" => x = text[d]
    BY <1>2, <1>8, <2>1 DEF x
  <2>3. \A u \in Messages : Carries(job'[u], d) => u # t /\ job'[u] = job[u]
    BY <1>2, <1>7, <1>8
  <2>4. CASE kind = "query"
    <3>1. \A u \in Messages : Carries(job[u], d) => Carries(job'[u], d)
      BY <1>2, <1>7, <1>8, <2>4
    <3> QED BY <1>1, <1>6, <2>1, <2>3, <2>4, <3>1
  <2>5. CASE kind # "query"
    <3>1. indexed'[d] = text'[d].ver
      BY <1>1, <1>6, <1>10, <2>2, <2>5
    <3> QED BY <1>1, <2>1, <2>3, <3>1
  <2> QED BY <2>4, <2>5
<1>11. ServedAsDefined'
  <2> SUFFICES ASSUME ~owed, ~raced, prelude # Unparsed,
                      NEW m \in Macros, prelude[m] # None
               PROVE  served'[m] = prelude[m]
    BY <1>1 DEF ServedAsDefined
  <2>1. job[t].read = prelude
    BY <1>1 DEF LoadsFresh
  <2>2. s[m] = prelude[m]
    BY <2>1, <1>2, RegistryFacts DEF s, TypeOK, Registry
  <2>3. served'[m] = s[m]
    BY <1>3, <1>6, <2>2, RegistryFacts
  <2> QED BY <2>2, <2>3
<1>12. t <= n /\ n \in 0..MaxMessages /\ n' = n
  BY <1>1, Constants DEF Numbered, TypeOK, Messages
<1>13. crowded \in [Docs -> BOOLEAN] /\ raced \in BOOLEAN
  BY DEF TypeOK
<1> HIDE DEF IndInv
<1> QED BY <1>1, <1>2, <1>4, <1>5, <1>6, <1>8, <1>9, <1>10, <1>11, <1>12, <1>13, HandlerStep DEF d

LEMMA WakeOK ==
  ASSUME IndInv, NEW t \in Messages, Wake(t) PROVE IndInv'
<1> USE DEF IndInv
<1> DEFINE d == job[t].doc
<1>1. /\ job[t].at = "sleeping" /\ d \in Docs /\ Becomes(t, NoJob) /\ text' = text
      /\ UNCHANGED <<gen, indexed, base, stuck, raced, crowded, n, saves>>
  BY DEF Wake, TypeOK, Becomes
<1>2. text[d].ver \in Nat
  BY <1>1 DEF TypeOK, Texts
<1>3. /\ shown' \in [Docs -> Nat] /\ \A e \in Docs \ {d} : shown'[e] = shown[e]
      /\ gen[d] = job[t].gen => shown'[d] = text[d].ver
      /\ gen[d] # job[t].gen => shown'[d] = shown[d]
  BY <1>1, <1>2 DEF Wake, Publish, TypeOK
<1>4. job'[t] = NoJob /\ \A u \in Messages \ {t} : job'[u] = job[u]
  BY <1>1, Constants, BecomesFacts
<1>5. /\ \A e \in Docs : ~Carries(job[t], e) /\ ~Carries(NoJob, e)
      /\ Publishes(job[t], d, gen[d]) <=> gen[d] = job[t].gen
  BY <1>1, Constants DEF Carries, Publishes
<1> HIDE DEF d
<1>6. shown'[d] = text'[d].ver \/ \E u \in Messages : Publishes(job'[u], d, gen'[d])
  BY <1>1, <1>3, <1>4, <1>5 DEF DiagnosticsOwed
<1>7. text'[d].defs # Unparsed /\ ~crowded'[d] =>
        /\ \A u \in Messages : Carries(job'[u], d) => job'[u].text = text'[d]
        /\ indexed'[d] = text'[d].ver \/ \E u \in Messages : Carries(job'[u], d)
  BY <1>1, <1>4, <1>5 DEF IndexOwed
<1>8. ServedAsDefined'
  BY <1>1 DEF ServedAsDefined, base
<1>9. t <= n /\ n \in 0..MaxMessages /\ n' = n
  <2>1. job[t] # NoJob
    BY <1>1, Constants
  <2>2. t \in Int /\ n \in Int /\ n \in 0..MaxMessages
    BY DEF TypeOK, Messages
  <2> QED BY <1>1, <2>1, <2>2 DEF Numbered
<1>10. /\ text' \in [Docs -> Texts] /\ gen' \in [Docs -> Nat] /\ indexed' \in [Docs -> Nat]
       /\ served' \in Registry /\ crowded' \in [Docs -> BOOLEAN]
       /\ loaded' \in BOOLEAN /\ raced' \in BOOLEAN
  BY <1>1 DEF TypeOK, Registry, base
<1>11. job[t].doc = d
  BY DEF d
<1> HIDE DEF IndInv
<1> QED BY <1>1, <1>3, <1>5, <1>6, <1>7, <1>8, <1>9, <1>10, <1>11, Constants, HandlerStep DEF base

LEMMA SaveOK ==
  ASSUME IndInv, Save PROVE IndInv'
<1> USE DEF IndInv
<1>1. /\ UNCHANGED <<docs, served, loaded, stuck, raced, crowded, n>>
      /\ owed' /\ prelude' \in Contents /\ saves' \in 0..MaxSaves
  BY DEF Save, TypeOK
<1>2. \A t \in Messages : job[t] \in Jobs
  BY DEF TypeOK, Jobs
<1>3. /\ job' \in [Messages -> Jobs]
      /\ \A t \in Messages : job'[t] = IF job[t].at = "read" THEN [job[t] EXCEPT !.old = TRUE] ELSE job[t]
  BY <1>2 DEF Save, Jobs
<1>4. \A t \in Messages : /\ job'[t].at = job[t].at /\ job'[t].kind = job[t].kind
                          /\ job'[t].doc = job[t].doc /\ job'[t].text = job[t].text
                          /\ job'[t].gen = job[t].gen
                          /\ job'[t].old <=> (job[t].old \/ job[t].at = "read")
  BY <1>2, <1>3 DEF Jobs
<1>5. TypeOK'
  BY <1>1, <1>3 DEF TypeOK, Jobs, docs, Save
<1>6. Numbered'
  BY <1>1, <1>3, Constants DEF Numbered
<1>7. DiagnosticsOwed' /\ IndexOwed'
  BY <1>1, <1>4 DEF DiagnosticsOwed, IndexOwed, Carries, Publishes, docs
<1>8. LoadsFresh'
  BY <1>1, <1>4 DEF LoadsFresh
<1>9. ServedAsDefined'
  BY <1>1 DEF ServedAsDefined
<1> QED BY <1>5, <1>6, <1>7, <1>8, <1>9

-----------------------------------------------------------------------------
(* The invariant and what it implies.                                      *)

LEMMA StepOK ==
  ASSUME IndInv, [Next]_vars PROVE IndInv'
<1>1. ASSUME NEW d \in Docs, Open(d) \/ Change(d) \/ Close(d) \/ Query(d) \/ Block(d)
      PROVE  IndInv'
  BY <1>1, OpenOK, ChangeOK, CloseOK, QueryOK, BlockOK
<1>2. ASSUME NEW t \in Messages, Handle(t) PROVE IndInv'
  BY <1>2, LoadOK, ResumeOK, WakeOK DEF Handle
<1>3. CASE Watched \/ Save
  BY <1>3, WatchedOK, SaveOK
<1>4. CASE UNCHANGED vars
  BY <1>4 DEF vars, docs, base, IndInv, TypeOK, Numbered, DiagnosticsOwed, IndexOwed,
              LoadsFresh, ServedAsDefined
<1> QED BY <1>1, <1>2, <1>3, <1>4 DEF Next

\* IndInv is an invariant: whatever a document has that is not shown or indexed yet is
\* with a handler under way, and only a load that is marked old has an older prelude.
THEOREM Inductive == Spec => []IndInv
BY InitOK, StepOK, PTL DEF Spec

\* The state keeps its types for any documents, macros and numbers of messages.
THEOREM TypeCorrect == Spec => []TypeOK
BY Inductive, PTL DEF IndInv

\* With nothing under way the editor shows the diagnostics of the text it has
\* (publish_diagnostics_debounced and publish_diagnostics_for).
THEOREM DiagnosticsMatch == Spec => []DiagnosticsCurrent
<1>1. IndInv => DiagnosticsCurrent
  <2> SUFFICES ASSUME IndInv, NEW d \in Docs, Quiet(d) PROVE shown[d] = text[d].ver
    BY DEF DiagnosticsCurrent
  <2>1. \A t \in Messages : ~Publishes(job[t], d, gen[d])
    BY DEF Quiet, Running, Publishes, Carries
  <2> QED BY <2>1 DEF IndInv, DiagnosticsOwed
<1> QED BY <1>1, Inductive, PTL

\* With nothing under way the index holds the text the editor has, unless that text came
\* behind one that was still waiting (index_content).
THEOREM IndexMatches == Spec => []IndexCurrentUnlessCrowded
<1>1. IndInv => IndexCurrentUnlessCrowded
  <2> SUFFICES ASSUME IndInv, NEW d \in Docs, Quiet(d), text[d].defs # Unparsed, ~crowded[d]
               PROVE  indexed[d] = text[d].ver
    BY DEF IndexCurrentUnlessCrowded
  <2>1. \A t \in Messages : ~Carries(job[t], d)
    BY DEF Quiet, Running, Carries
  <2> QED BY <2>1 DEF IndInv, IndexOwed
<1> QED BY <1>1, Inductive, PTL

\* While the registry counts as loaded, it serves what _prelude.st defines, unless a save
\* is unreported or was reported in the middle of a load (ensure_base_registry).
THEOREM PreludeServed == Spec => []ServedAsDefined
BY Inductive, PTL DEF IndInv

-----------------------------------------------------------------------------
(* When the thread blocks itself.                                          *)

\* A thread that waits for a shard waits for a query of its own, which nobody else can resume.
StalledByQuery == stuck => \E t \in Messages : Waiting(t) /\ job[t].kind = "query"

LEMMA StallStep == IndInv /\ StalledByQuery /\ [Next]_vars => StalledByQuery'
<1> SUFFICES ASSUME IndInv, StalledByQuery, [Next]_vars, stuck'
             PROVE  \E t \in Messages : Waiting(t)' /\ job'[t].kind = "query"
  BY DEF StalledByQuery
<1> USE DEF Waiting
<1>1. CASE ~stuck
  <2>1. PICK d \in Docs : Block(d)
    BY <1>1 DEF Next, Open, Change, Close, Query, Handle, Load, Resume, Wake, Watched, Save, vars
  <2>2. job' = job /\ \E t \in Messages : Waiting(t) /\ job[t].kind = "query"
    BY <2>1 DEF Block, Held
  <2> QED
    BY <2>2
<1>2. CASE stuck
  <2>1. PICK t \in Messages : Waiting(t) /\ job[t].kind = "query"
    BY <1>2 DEF StalledByQuery
  <2>2. job[t] \in Jobs /\ prelude \in Contents
    BY DEF IndInv, TypeOK, Jobs
  <2>3. CASE \E u \in Messages : Load(u)
    <3>1. PICK u \in Messages : Becomes(u, HasRead(job[u], prelude))
      BY <2>3 DEF Load, Becomes
    <3>2. CASE u = t
      <4>1. /\ HasRead(job[t], prelude) \in Jobs /\ HasRead(job[t], prelude).at = "read"
            /\ HasRead(job[t], prelude).kind = "query"
        BY <2>1, <2>2, HasReadFacts
      <4>2. job'[t] = HasRead(job[t], prelude)
        BY <3>1, <3>2 DEF Becomes, IndInv, TypeOK
      <4> QED
        BY <4>1, <4>2
    <3>3. CASE u # t
      <4>1. job'[t] = job[t]
        BY <3>1, <3>3 DEF Becomes, IndInv, TypeOK
      <4> QED
        BY <2>1, <4>1
    <3> QED
      BY <3>2, <3>3
  <2>4. CASE Save
    <3>1. job'[t] = IF job[t].at = "read" THEN [job[t] EXCEPT !.old = TRUE] ELSE job[t]
      BY <2>4 DEF Save
    <3>2. job'[t].at = job[t].at /\ job'[t].kind = job[t].kind
      BY <2>2, <3>1 DEF Jobs
    <3> QED
      BY <2>1, <3>2
  <2>5. CASE UNCHANGED vars
    BY <2>1, <2>5 DEF vars
  <2> QED
    BY <1>2, <2>3, <2>4, <2>5
    DEF Next, Open, Change, Close, Query, Block, Arrive, Handle, Resume, Wake, Watched
<1> QED
  BY <1>1, <1>2

\* The thread never blocks itself but on a completion, hover or definition that waits for the
\* registry with its document in hand.
THEOREM StallsBehindQueries == Spec => []StalledByQuery
<1>1. Init => StalledByQuery
  BY DEF Init, StalledByQuery
<1> QED
  BY <1>1, StallStep, Inductive, PTL DEF Spec

===============================================================================
