---------------------------- MODULE RuntimeProofs ----------------------------
(***************************************************************************)
(* Theorems about the browser's runtime: the signal call (SignalCall), for *)
(* any number of fires and retries, and the optimistic lists over a socket *)
(* (Realtime), for any pages, values, operations and closed sockets.       *)
(*                                                                         *)
(* The lists: what a page shows is the server's list but for what is on    *)
(* its way (Fits, Agrees): the items and values that messages to the page  *)
(* still bring or that its own requests, refused or not answered, changed. *)
(* Own items stand for requests without an answer that are no later, each  *)
(* for one of its own (Backed), so that the first own item may make room   *)
(* for any new item of the server's, and none is left when nothing is on   *)
(* its way. PageInv says this of one page, whatever the others do; the     *)
(* lemmas on it (PageTold, PageAsked, PageInserted, ...) take a page's     *)
(* state as parameters and know nothing of steps.                          *)
(***************************************************************************)
EXTENDS SignalCall, Realtime, SequenceTheorems, FiniteSetTheorems, TLAPS

-----------------------------------------------------------------------------
(* The signal call.                                                        *)


\* Generations are handed out in order; only the queue lets a call wait for its
\* start, and such a call or one under way counts.
FiredInOrder ==
    \A c \in Calls :
        /\ c > generation => phase[c] = "none"
        /\ phase[c] = "queued" => policy = "queue"
        /\ phase[c] \in {"queued"} \union UnderWay => c \in counted

\* The pending flag is a call's that no newer fire and no cancel has aborted.
PendingIsLive ==
    pending /\ Thrown = {} =>
        \E c \in Calls : phase[c] \in Unsettled /\ (policy = "latest" => phase[c] # "doomed")

\* Who is where in the queue: every call that was chained has its place, and
\* before one that was sent nobody counts any more.
LineOrder ==
    /\ \A i \in DOMAIN line : phase[line[i]] \notin {"none"} \union Firing
    /\ \A i, j \in DOMAIN line : i # j => line[i] # line[j]
    /\ policy = "queue" =>
          \A c \in Calls : phase[c] \notin {"none"} \union Firing => \E i \in DOMAIN line : line[i] = c
    /\ \A i, j \in DOMAIN line : i < j /\ phase[line[j]] # "queued" => line[i] \notin counted

\* Without nesting the queue is in the order of the generations, and only the
\* newest call is inside its event.
LineAscends ==
    ~nested =>
        /\ \A i, j \in DOMAIN line : i < j => line[i] < line[j]
        /\ \A c \in Calls : phase[c] \in Firing => c = generation

\* Under latest over http the one call under way is the newest, and inFlight
\* holds its controller: this is what the next fire and a cancel abort.
HeldIsNewest ==
    policy = "latest" /\ transport = "http" /\ ~reentered /\ ~nested =>
        \A c \in Calls :
            /\ phase[c] \in {"waiting", "replied"} \union Firing => c = generation
            /\ phase[c] \in {"waiting"} \union Firing => pending
            /\ phase[c] = "waiting" => inFlight = c

\* The handler knows the newest generation as soon as it has heard of it; late
\* replies exist over ws only.
HandlerKnows ==
    /\ policy = "latest" /\ ~nested =>
          /\ (\A c \in Calls : phase[c] # "firing") => owner = generation
          /\ \A c \in Calls : phase[c] \in Firing => c = generation
    /\ late # {} => transport = "ws" /\ timed

CallInv ==
    /\ TypeOK
    /\ FiredInOrder
    /\ PendingIsLive
    /\ LineOrder
    /\ LineAscends
    /\ HeldIsNewest
    /\ HandlerKnows

-----------------------------------------------------------------------------
\* The ranges the counters move in.
LEMMA Ranges ==
    /\ 0 \in 0..MaxFires /\ 0 \in 0..RetryMax
    /\ Calls \subseteq 0..MaxFires
    /\ \A n \in 0..MaxFires : n # 0 => n \in Calls
    /\ \A n \in 0..MaxFires : n < MaxFires => n + 1 \in Calls
    /\ \A a \in 0..RetryMax : a < RetryMax => a + 1 \in 0..RetryMax
    BY SignalAssumption DEF Calls

\* A rejected attempt keeps the types of what it touches.
LEMMA RejectTypes ==
    ASSUME TypeOK, NEW c \in Calls, Reject(c)
    PROVE  /\ phase' \in [Calls -> Phases] /\ attempt' \in [Calls -> 0..RetryMax]
           /\ pending' \in BOOLEAN /\ error' \in 0..MaxFires /\ inFlight' \in 0..MaxFires
<1> USE Ranges DEF TypeOK, Phases, Firing, UnderWay, Settled, Unsettled, Goto
<1>1. CASE attempt[c] < RetryMax
  <2>1. attempt[c] + 1 \in 0..RetryMax
    BY <1>1
  <2>2. attempt' = [attempt EXCEPT ![c] = attempt[c] + 1] /\ pending' = pending /\ error' = error
    BY <1>1 DEF Reject
  <2>3. phase' \in [Calls -> Phases]
    BY <1>1 DEF Reject
  <2>4. inFlight' \in 0..MaxFires
    BY <1>1 DEF Reject, Hold
  <2> QED
    BY <2>1, <2>2, <2>3, <2>4
<1>2. CASE ~(attempt[c] < RetryMax)
  <2>1. attempt' = attempt /\ pending' = FALSE /\ error' = c /\ inFlight' = 0
    BY <1>2 DEF Reject
  <2>2. phase' \in [Calls -> Phases]
    BY <1>2 DEF Reject
  <2> QED
    BY <2>1, <2>2
<1> QED
    BY <1>1, <1>2

\* A call that joins the queue comes last.
LEMMA LineAppend ==
    ASSUME NEW s \in Seq(Calls), NEW c \in Calls
    PROVE  /\ Append(s, c) \in Seq(Calls)
           /\ DOMAIN s = 1..Len(s) /\ Len(s) \in Nat
           /\ DOMAIN Append(s, c) = 1..(Len(s) + 1)
           /\ \A i \in 1..Len(s) : Append(s, c)[i] = s[i]
           /\ Append(s, c)[Len(s) + 1] = c
    BY AppendProperties

\* A fire touches the new call, and aborts at most the one whose controller is
\* held.
LEMMA FireIs ==
    ASSUME CallInv, Fire
    PROVE  /\ generation + 1 \in Calls /\ generation' = generation + 1
           /\ phase[generation + 1] = "none" /\ phase'[generation + 1] = "firing"
           /\ \A d \in Calls : d # generation + 1 =>
                 \/ phase'[d] = phase[d]
                 \/ phase[d] = "waiting" /\ phase'[d] = "doomed" /\ policy = "latest"
           /\ \A d \in Calls : d # generation + 1 /\ policy = "latest" /\ d = inFlight => phase'[d] # "waiting"
<1> USE SignalAssumption DEF CallInv, TypeOK, Calls
<1>1. generation + 1 \in Calls /\ generation' = generation + 1 /\ phase[generation + 1] = "none"
    BY DEF Fire, FiredInOrder
<1> DEFINE before == IF policy = "latest" THEN AbortHeld(phase) ELSE phase
<1>2. before \in [Calls -> Phases]
    BY DEF AbortHeld, Phases, Unsettled, UnderWay
<1>3. phase' = [before EXCEPT ![generation + 1] = "firing"]
    BY DEF Fire
<1>4. \A d \in Calls : \/ before[d] = phase[d]
                       \/ phase[d] = "waiting" /\ before[d] = "doomed" /\ policy = "latest"
    BY DEF AbortHeld
<1>5. \A d \in Calls : policy = "latest" /\ d = inFlight => before[d] # "waiting"
    BY DEF AbortHeld
<1> HIDE DEF before
<1> QED
    BY <1>1, <1>2, <1>3, <1>4, <1>5

\* So does a cancel, with no new call.
LEMMA CancelIs ==
    ASSUME CallInv, Cancel
    PROVE  \A d \in Calls : phase'[d] = phase[d] \/ (phase[d] = "waiting" /\ phase'[d] = "doomed")
    BY DEF CallInv, TypeOK, Cancel, AbortHeld

\* A rejected call waits again or has failed.
LEMMA RejectIs ==
    ASSUME TypeOK, NEW c \in Calls, Reject(c)
    PROVE  /\ phase'[c] \in {"waiting", "failed"}
           /\ \A d \in Calls : d # c => phase'[d] = phase[d]
    BY DEF TypeOK, Reject, Goto

\* The queue keeps its order as long as it is the same line, nobody in it counts
\* anew and whoever is sent has nobody before it that counts.
LEMMA LineKept ==
    ASSUME CallInv, policy' = policy, line' = line,
           \A d \in Calls : phase[d] \notin {"none"} \union Firing => phase'[d] \notin {"none"} \union Firing,
           policy = "queue" =>
               \A d \in Calls : phase'[d] \notin {"none"} \union Firing => phase[d] \notin {"none"} \union Firing,
           \A i \in DOMAIN line : line[i] \in counted' => line[i] \in counted,
           \A j \in DOMAIN line : phase'[line[j]] # "queued" =>
               phase[line[j]] # "queued" \/ \A i \in DOMAIN line : i < j => line[i] \notin counted
    PROVE  LineOrder'
<1> USE DEF CallInv, TypeOK, LineOrder
<1>1. \A i \in DOMAIN line : line[i] \in Calls
    OBVIOUS
<1> QED
    BY <1>1

\* The call behind one that does not count has nobody before it that does.
LEMMA StartsNext ==
    ASSUME CallInv, NEW c \in Calls, Startable(c)
    PROVE  \A i, j \in DOMAIN line : line[j] = c /\ i < j => line[i] \notin counted
<1> USE DEF CallInv, TypeOK, LineOrder
<1> SUFFICES ASSUME NEW i \in DOMAIN line, NEW j \in DOMAIN line, line[j] = c, i < j
             PROVE  line[i] \notin counted
    OBVIOUS
<1>1. DOMAIN line = 1..Len(line) /\ Len(line) \in Nat
    OBVIOUS
<1>2. j > 1 /\ j - 1 \in DOMAIN line
    BY <1>1
<1>3. line[j - 1] \notin counted
    BY <1>1, <1>2 DEF Startable
<1>4. CASE i = j - 1
    BY <1>3, <1>4
<1>5. CASE i < j - 1
  <2>1. line[j - 1] \in Calls /\ phase[line[j - 1]] # "queued"
    BY <1>1, <1>2, <1>3 DEF FiredInOrder
  <2> QED
    BY <1>1, <1>2, <1>5, <2>1
<1> QED
    BY <1>1, <1>2, <1>4, <1>5

\* Every step keeps the types.
LEMMA TypeStep ==
    ASSUME CallInv, [Next]_vars
    PROVE  TypeOK'
<1> USE Ranges DEF CallInv, TypeOK, Phases, Firing, UnderWay, Settled, Unsettled, Goto,
        declaration, flags, handler, history
<1>1. CASE Fire
    BY <1>1 DEF Fire, AbortHeld
<1>2. CASE Cancel
    BY <1>2 DEF Cancel, AbortHeld
<1>3. ASSUME NEW c \in Calls, Hear(c) PROVE TypeOK'
    BY <1>3 DEF Hear, Top
<1>4. ASSUME NEW c \in Calls, Count(c) PROVE TypeOK'
  <2>1. counted' \subseteq Calls
    BY <1>4 DEF Count
  <2>3. line' \in Seq(Calls)
    <3>1. line' = line \/ line' = Append(line, c)
      BY <1>4 DEF Count
    <3> HIDE DEF Calls
    <3> QED
      BY <3>1, LineAppend
  <2>2. phase' \in [Calls -> Phases] /\ inFlight' \in 0..MaxFires
    BY <1>4 DEF Count, Hold
  <2> QED
    BY <2>1, <2>2, <2>3, <1>4 DEF Count
<1>5. ASSUME NEW c \in Calls, CountThrows(c) PROVE TypeOK'
    BY <1>5 DEF CountThrows
<1>6. ASSUME NEW c \in Calls, StartQueued(c) PROVE TypeOK'
    BY <1>6 DEF StartQueued, Startable, Hold
<1>7. ASSUME NEW c \in Calls, StartThrows(c) PROVE TypeOK'
    BY <1>7 DEF StartThrows, Startable
<1>8. ASSUME NEW c \in Calls, Settle(c) PROVE TypeOK'
    BY <1>8 DEF Settle
<1>9. ASSUME NEW c \in Calls, Aborted(c) PROVE TypeOK'
  <2>1. CASE policy = "latest"
    BY <2>1, <1>9 DEF Aborted
  <2>2. CASE policy # "latest"
    <3>1. Reject(c)
      BY <2>2, <1>9 DEF Aborted
    <3> QED
      BY <3>1, RejectTypes, <1>9 DEF Aborted
  <2> QED
    BY <2>1, <2>2
<1>10. ASSUME NEW c \in Calls, TimesOut(c) PROVE TypeOK'
  <2>1. Reject(c)
    BY <1>10 DEF TimesOut
  <2>2. <<c, attempt[c]>> \in Calls \X (0..RetryMax)
    OBVIOUS
  <2>3. late' \subseteq Calls \X (0..RetryMax)
    BY <2>2, <1>10 DEF TimesOut
  <2>4. /\ policy' = policy /\ transport' = transport /\ timed' = timed
        /\ generation' = generation /\ counted' = counted /\ line' = line
        /\ owner' = owner /\ applied' = applied /\ reentered' = reentered /\ nested' = nested
    BY <1>10 DEF TimesOut
  <2> HIDE DEF Phases, Firing, UnderWay, Settled, Unsettled
  <2> QED
    BY <2>1, <2>3, <2>4, RejectTypes
<1>11. ASSUME NEW c \in Calls, Uncount(c) PROVE TypeOK'
    BY <1>11 DEF Uncount
<1>12. ASSUME NEW c \in Calls, Publish(c) PROVE TypeOK'
    BY <1>12 DEF Publish, Accepts
<1>13. ASSUME NEW c \in Calls, AttemptFails(c) PROVE TypeOK'
  <2>1. Reject(c)
    BY <1>13 DEF AttemptFails
  <2> QED
    BY <2>1, RejectTypes, <1>13 DEF AttemptFails
<1>14. ASSUME NEW c \in Calls, LateReply(c) PROVE TypeOK'
    BY <1>14 DEF LateReply
<1>15. CASE UNCHANGED vars
    BY <1>15 DEF vars
<1> QED
    BY <1>1, <1>2, <1>3, <1>4, <1>5, <1>6, <1>7, <1>8,
       <1>9, <1>10, <1>11, <1>12, <1>13, <1>14, <1>15
    DEF Next, Loop

\* A call leaves "none" when it is fired, and is counted from its event to its
\* end.
LEMMA FiredStep ==
    ASSUME CallInv, TypeOK', [Next]_vars
    PROVE  FiredInOrder'
<1> USE SignalAssumption DEF CallInv, TypeOK, Calls, Phases, Firing, UnderWay, Settled, Unsettled,
        Goto, declaration, flags, handler, history,
        FiredInOrder, Due
<1>1. CASE Fire
    BY <1>1 DEF Fire, AbortHeld
<1>2. CASE Cancel
    BY <1>2 DEF Cancel, AbortHeld
<1>3. ASSUME NEW c \in Calls, Hear(c) PROVE FiredInOrder'
    BY <1>3 DEF Hear, Top
<1>4. ASSUME NEW c \in Calls, Count(c) PROVE FiredInOrder'
    BY <1>4 DEF Count, Hold
<1>5. ASSUME NEW c \in Calls, CountThrows(c) PROVE FiredInOrder'
    BY <1>5 DEF CountThrows
<1>6. ASSUME NEW c \in Calls, StartQueued(c) PROVE FiredInOrder'
    BY <1>6 DEF StartQueued, Startable, Hold
<1>7. ASSUME NEW c \in Calls, StartThrows(c) PROVE FiredInOrder'
    BY <1>7 DEF StartThrows, Startable
<1>8. ASSUME NEW c \in Calls, Settle(c) PROVE FiredInOrder'
    BY <1>8 DEF Settle
<1>9. ASSUME NEW c \in Calls, Aborted(c) PROVE FiredInOrder'
    BY <1>9 DEF Aborted, Reject, Hold
<1>10. ASSUME NEW c \in Calls, TimesOut(c) PROVE FiredInOrder'
    BY <1>10 DEF TimesOut, Reject, Hold
<1>11. ASSUME NEW c \in Calls, Uncount(c) PROVE FiredInOrder'
    BY <1>11 DEF Uncount
<1>12. ASSUME NEW c \in Calls, Publish(c) PROVE FiredInOrder'
    BY <1>12 DEF Publish, Accepts
<1>13. ASSUME NEW c \in Calls, AttemptFails(c) PROVE FiredInOrder'
    BY <1>13 DEF AttemptFails, Reject, Hold
<1>14. ASSUME NEW c \in Calls, LateReply(c) PROVE FiredInOrder'
    BY <1>14 DEF LateReply
<1>15. CASE UNCHANGED vars
    BY <1>15 DEF vars
<1> QED
    BY <1>1, <1>2, <1>3, <1>4, <1>5, <1>6, <1>7, <1>8,
       <1>9, <1>10, <1>11, <1>12, <1>13, <1>14, <1>15
    DEF Next, Loop

\* Whatever ends a call clears the flag, except a superseding abort, and that
\* one hits a call another one has replaced.
LEMMA PendingStep ==
    ASSUME CallInv, TypeOK', [Next]_vars
    PROVE  PendingIsLive'
<1> USE SignalAssumption DEF CallInv, TypeOK, Calls, Phases, Firing, UnderWay, Settled, Unsettled,
        Goto, declaration, flags, handler, history,
        FiredInOrder, PendingIsLive, Thrown
<1>1. CASE Fire
    BY <1>1 DEF Fire, AbortHeld
<1>2. CASE Cancel
    BY <1>2 DEF Cancel, AbortHeld
<1>3. ASSUME NEW c \in Calls, Hear(c) PROVE PendingIsLive'
    BY <1>3 DEF Hear, Top
<1>4. ASSUME NEW c \in Calls, Count(c) PROVE PendingIsLive'
    BY <1>4 DEF Count, Hold
<1>5. ASSUME NEW c \in Calls, CountThrows(c) PROVE PendingIsLive'
    BY <1>5 DEF CountThrows
<1>6. ASSUME NEW c \in Calls, StartQueued(c) PROVE PendingIsLive'
    BY <1>6 DEF StartQueued, Startable, Hold
<1>7. ASSUME NEW c \in Calls, StartThrows(c) PROVE PendingIsLive'
  <2>1. phase'[c] = "thrown"
    BY <1>7 DEF StartThrows, Startable
  <2> QED
    BY <2>1
<1>8. ASSUME NEW c \in Calls, Settle(c) PROVE PendingIsLive'
    BY <1>8 DEF Settle
<1>9. ASSUME NEW c \in Calls, Aborted(c) PROVE PendingIsLive'
    BY <1>9 DEF Aborted, Reject, Hold
<1>10. ASSUME NEW c \in Calls, TimesOut(c) PROVE PendingIsLive'
    BY <1>10 DEF TimesOut, Reject, Hold
<1>11. ASSUME NEW c \in Calls, Uncount(c) PROVE PendingIsLive'
    BY <1>11 DEF Uncount
<1>12. ASSUME NEW c \in Calls, Publish(c) PROVE PendingIsLive'
    BY <1>12 DEF Publish, Accepts
<1>13. ASSUME NEW c \in Calls, AttemptFails(c) PROVE PendingIsLive'
    BY <1>13 DEF AttemptFails, Reject, Hold
<1>14. ASSUME NEW c \in Calls, LateReply(c) PROVE PendingIsLive'
    BY <1>14 DEF LateReply
<1>15. CASE UNCHANGED vars
    BY <1>15 DEF vars
<1> QED
    BY <1>1, <1>2, <1>3, <1>4, <1>5, <1>6, <1>7, <1>8,
       <1>9, <1>10, <1>11, <1>12, <1>13, <1>14, <1>15
    DEF Next, Loop

\* It keeps its order when one call is sent, in its turn, or goes on from there.
LEMMA LineMoves ==
    ASSUME CallInv, NEW c \in Calls, policy' = policy, line' = line, counted' = counted,
           \/ phase[c] \in UnderWay
           \/ phase[c] = "queued" /\ Startable(c),
           phase'[c] \in UnderWay \union Settled \union {"thrown"},
           \A d \in Calls : d # c => phase'[d] = phase[d]
    PROVE  LineOrder'
<1>1. \A d \in Calls : phase[d] \notin {"none"} \union Firing <=> phase'[d] \notin {"none"} \union Firing
    BY DEF UnderWay, Settled, Firing
<1>2. \A j \in DOMAIN line : line[j] \in Calls
    BY DEF CallInv, TypeOK
<1>3. \A j \in DOMAIN line : phase'[line[j]] # "queued" =>
          phase[line[j]] # "queued" \/ \A i \in DOMAIN line : i < j => line[i] \notin counted
  <2>1. CASE phase[c] \in UnderWay
    BY <1>2, <2>1 DEF UnderWay
  <2>2. CASE phase[c] = "queued" /\ Startable(c)
    BY <1>2, <2>2, StartsNext
  <2> QED
    BY <2>1, <2>2
<1> QED
    BY <1>1, <1>3, LineKept

\* It keeps its order when a call is fired or counted elsewhere than in a queue.
LEMMA LineStays ==
    ASSUME CallInv, policy' = policy, line' = line,
           \A d \in Calls : phase[d] \notin {"none"} \union Firing =>
               phase'[d] \notin {"none"} \union Firing /\ (phase'[d] # "queued" => phase[d] # "queued"),
           policy = "queue" =>
               \A d \in Calls : phase'[d] \notin {"none"} \union Firing => phase[d] \notin {"none"} \union Firing,
           \A d \in Calls : d \in counted' =>
               d \in counted \/ phase[d] \in {"none"} \union Firing
    PROVE  LineOrder'
<1>1. \A j \in DOMAIN line : line[j] \in Calls /\ phase[line[j]] \notin {"none"} \union Firing
    BY DEF CallInv, TypeOK, LineOrder
<1>2. \A i \in DOMAIN line : line[i] \in counted' => line[i] \in counted
    BY <1>1
<1>3. \A j \in DOMAIN line : phase'[line[j]] # "queued" => phase[line[j]] # "queued"
    BY <1>1
<1> QED
    BY <1>2, <1>3, LineKept

\* What a call finds when it joins the queue.
LEMMA JoinIs ==
    ASSUME CallInv, NEW c \in Calls, Count(c), policy = "queue"
    PROVE  /\ counted' = counted \union {c} /\ policy' = policy
           /\ generation' = generation /\ nested' = nested
           /\ phase[c] = "heard" /\ phase'[c] = "queued"
           /\ \A d \in Calls : d # c => phase'[d] = phase[d]
           /\ DOMAIN line = 1..Len(line) /\ Len(line) \in Nat
           /\ DOMAIN line' = 1..(Len(line) + 1)
           /\ \A i \in 1..Len(line) : line'[i] = line[i] /\ line[i] \in Calls /\ line[i] # c
           /\ line'[Len(line) + 1] = c
<1>1. line' = Append(line, c) /\ line \in Seq(Calls) /\ phase \in [Calls -> Phases]
    BY DEF Count, CallInv, TypeOK
<1>2. /\ DOMAIN line = 1..Len(line) /\ Len(line) \in Nat
      /\ DOMAIN line' = 1..(Len(line) + 1)
      /\ \A i \in 1..Len(line) : line'[i] = line[i]
      /\ line'[Len(line) + 1] = c
    BY <1>1, LineAppend
<1>3. \A i \in 1..Len(line) : line[i] \in Calls
    BY <1>1
<1>4. phase[c] = "heard"
    BY DEF Count
<1>5. \A i \in 1..Len(line) : line[i] # c
    BY <1>2, <1>4 DEF CallInv, LineOrder, Firing
<1>6. phase'[c] = "queued" /\ \A d \in Calls : d # c => phase'[d] = phase[d]
    BY <1>1 DEF Count, Goto
<1>7. /\ counted' = counted \union {c} /\ policy' = policy
      /\ generation' = generation /\ nested' = nested
    BY DEF Count, declaration, history
<1> QED
    BY <1>2, <1>3, <1>4, <1>5, <1>6, <1>7

\* Who joins comes last, so the order of the others stays.
LEMMA LineJoins ==
    ASSUME CallInv, NEW c \in Calls, Count(c), policy = "queue"
    PROVE  LineOrder'
<1> DEFINE n == Len(line)
<1>1. /\ counted' = counted \union {c} /\ policy' = policy
      /\ phase[c] = "heard" /\ phase'[c] = "queued"
      /\ \A d \in Calls : d # c => phase'[d] = phase[d]
      /\ DOMAIN line = 1..n /\ n \in Nat
      /\ DOMAIN line' = 1..(n + 1)
      /\ \A i \in 1..n : line'[i] = line[i] /\ line[i] \in Calls /\ line[i] # c
      /\ line'[n + 1] = c
    BY JoinIs
<1> HIDE DEF n
<1>2. LineOrder
    BY DEF CallInv
<1>3. \A i \in DOMAIN line' : i \in 1..n \/ i = n + 1
    BY <1>1
<1>4. \A i \in DOMAIN line' : phase'[line'[i]] \notin {"none"} \union Firing
  <2>1. \A i \in 1..n : phase'[line'[i]] \notin {"none"} \union Firing
    BY <1>1, <1>2 DEF LineOrder
  <2>2. phase'[line'[n + 1]] \notin {"none"} \union Firing
    BY <1>1 DEF Firing
  <2> QED
    BY <1>3, <2>1, <2>2
<1>5. \A i, j \in DOMAIN line' : i # j => line'[i] # line'[j]
  <2>1. \A i, j \in 1..n : i # j => line'[i] # line'[j]
    BY <1>1, <1>2 DEF LineOrder
  <2> QED
    BY <1>1, <1>3, <2>1
<1>6. ASSUME NEW d \in Calls, phase'[d] \notin {"none"} \union Firing
      PROVE  \E i \in DOMAIN line' : line'[i] = d
  <2>1. CASE d = c
    <3>1. n + 1 \in DOMAIN line'
      BY <1>1
    <3> QED
      BY <1>1, <2>1, <3>1
  <2>2. CASE d # c
    <3>1. PICK i \in DOMAIN line : line[i] = d
      BY <1>1, <1>2, <1>6, <2>2 DEF LineOrder
    <3>2. i \in DOMAIN line' /\ line'[i] = d
      BY <1>1, <3>1
    <3> QED
      BY <3>2
  <2> QED
    BY <2>1, <2>2
<1>7. ASSUME NEW i \in DOMAIN line', NEW j \in DOMAIN line', i < j, phase'[line'[j]] # "queued"
      PROVE  line'[i] \notin counted'
  <2>1. j # n + 1
    BY <1>1, <1>7
  <2>2. i \in 1..n /\ j \in 1..n
    BY <1>1, <1>3, <1>7, <2>1
  <2>3. phase[line[j]] # "queued"
    BY <1>1, <1>7, <2>2
  <2>4. line[i] \notin counted
    BY <1>1, <1>2, <1>7, <2>2, <2>3 DEF LineOrder
  <2> QED
    BY <1>1, <2>2, <2>4
<1> QED
    BY <1>4, <1>5, <1>6, <1>7 DEF LineOrder

\* A call is sent when nobody before it counts, and a retry keeps its place.
LEMMA LineStep ==
    ASSUME CallInv, TypeOK', [Next]_vars
    PROVE  LineOrder'
<1> USE DEF declaration
<1>1. CASE Fire
  <2>1. policy' = policy /\ line' = line /\ counted' = counted
    BY <1>1 DEF Fire
  <2>2. \A d \in Calls : phase[d] \notin {"none"} \union Firing =>
            phase'[d] \notin {"none"} \union Firing /\ (phase'[d] # "queued" => phase[d] # "queued")
    BY <1>1, FireIs DEF Firing
  <2>3. policy = "queue" =>
          \A d \in Calls : phase'[d] \notin {"none"} \union Firing => phase[d] \notin {"none"} \union Firing
    BY <1>1, FireIs DEF Firing
  <2> QED
    BY <2>1, <2>2, <2>3, LineStays
<1>2. CASE Cancel
  <2>1. policy' = policy /\ line' = line /\ counted' = counted
    BY <1>2 DEF Cancel
  <2>2. \A d \in Calls : phase'[d] = phase[d] \/ (phase[d] = "waiting" /\ phase'[d] = "doomed")
    BY <1>2, CancelIs
  <2>3. \A d \in Calls : phase[d] \notin {"none"} \union Firing <=> phase'[d] \notin {"none"} \union Firing
    BY <2>2 DEF Firing
  <2> QED
    BY <2>1, <2>2, <2>3, LineStays
<1>3. ASSUME NEW c \in Calls, Hear(c) PROVE LineOrder'
  <2>1. policy' = policy /\ line' = line /\ counted' = counted
    BY <1>3 DEF Hear
  <2>2. phase[c] = "firing" /\ phase'[c] = "heard" /\ \A d \in Calls : d # c => phase'[d] = phase[d]
    BY <1>3 DEF Hear, Goto, CallInv, TypeOK
  <2>3. \A d \in Calls : phase[d] \notin {"none"} \union Firing <=> phase'[d] \notin {"none"} \union Firing
    BY <2>2 DEF Firing
  <2> QED
    BY <2>1, <2>2, <2>3, LineStays DEF Firing
<1>4. ASSUME NEW c \in Calls, Count(c) PROVE LineOrder'
  <2>1. CASE policy = "queue"
    BY <1>4, <2>1, LineJoins
  <2>2. CASE policy # "queue"
    <3>1. policy' = policy /\ line' = line /\ counted' = counted \union {c}
      BY <1>4, <2>2 DEF Count
    <3>2. phase[c] = "heard" /\ phase'[c] = "waiting" /\ \A d \in Calls : d # c => phase'[d] = phase[d]
      BY <1>4, <2>2 DEF Count, Goto, CallInv, TypeOK
    <3> QED
      BY <2>2, <3>1, <3>2, LineStays DEF Firing
  <2> QED
    BY <2>1, <2>2
<1>5. ASSUME NEW c \in Calls, CountThrows(c) PROVE LineOrder'
  <2>1. policy' = policy /\ line' = line /\ counted' = counted \union {c} /\ policy # "queue"
    BY <1>5 DEF CountThrows
  <2>2. phase[c] = "heard" /\ phase'[c] = "thrown" /\ \A d \in Calls : d # c => phase'[d] = phase[d]
    BY <1>5 DEF CountThrows, Goto, CallInv, TypeOK
  <2> QED
    BY <2>1, <2>2, LineStays DEF Firing
<1>6. ASSUME NEW c \in Calls, StartQueued(c) PROVE LineOrder'
  <2>1. policy' = policy /\ line' = line /\ counted' = counted
    BY <1>6 DEF StartQueued
  <2>2. /\ phase[c] = "queued" /\ Startable(c) /\ phase'[c] \in {"waiting", "thrown"}
        /\ \A d \in Calls : d # c => phase'[d] = phase[d]
    BY <1>6 DEF StartQueued, Startable, Goto, CallInv, TypeOK
  <2> QED
    BY <2>1, <2>2, LineMoves DEF UnderWay
<1>7. ASSUME NEW c \in Calls, StartThrows(c) PROVE LineOrder'
  <2>1. policy' = policy /\ line' = line /\ counted' = counted
    BY <1>7 DEF StartThrows
  <2>2. /\ phase[c] = "queued" /\ Startable(c) /\ phase'[c] \in {"waiting", "thrown"}
        /\ \A d \in Calls : d # c => phase'[d] = phase[d]
    BY <1>7 DEF StartThrows, Startable, Goto, CallInv, TypeOK
  <2> QED
    BY <2>1, <2>2, LineMoves DEF UnderWay
<1>8. ASSUME NEW c \in Calls, Settle(c) PROVE LineOrder'
  <2>1. policy' = policy /\ line' = line /\ counted' = counted
    BY <1>8 DEF Settle
  <2>2. /\ phase[c] \in {"waiting", "replied"} /\ phase'[c] \in {"replied", "ok"}
        /\ \A d \in Calls : d # c => phase'[d] = phase[d]
    BY <1>8 DEF Settle, Goto, CallInv, TypeOK
  <2> QED
    BY <2>1, <2>2, LineMoves DEF UnderWay, Settled
<1>9. ASSUME NEW c \in Calls, Aborted(c) PROVE LineOrder'
  <2>1. policy' = policy /\ line' = line /\ counted' = counted
    BY <1>9 DEF Aborted
  <2>2. /\ phase[c] = "doomed" /\ phase'[c] \in {"waiting", "failed", "superseded"}
        /\ \A d \in Calls : d # c => phase'[d] = phase[d]
    <3>1. CASE policy = "latest"
      BY <1>9, <3>1 DEF Aborted, Goto, CallInv, TypeOK
    <3>2. CASE policy # "latest"
      BY <1>9, <3>2, RejectIs DEF Aborted, CallInv
    <3> QED
      BY <3>1, <3>2
  <2> QED
    BY <2>1, <2>2, LineMoves DEF UnderWay, Settled
<1>10. ASSUME NEW c \in Calls, TimesOut(c) PROVE LineOrder'
  <2>1. policy' = policy /\ line' = line /\ counted' = counted
    BY <1>10 DEF TimesOut
  <2>2. /\ phase[c] = "waiting" /\ phase'[c] \in {"waiting", "failed", "superseded"}
        /\ \A d \in Calls : d # c => phase'[d] = phase[d]
    BY <1>10, RejectIs DEF TimesOut, CallInv
  <2> QED
    BY <2>1, <2>2, LineMoves DEF UnderWay, Settled
<1>11. ASSUME NEW c \in Calls, Uncount(c) PROVE LineOrder'
  <2>1. policy' = policy /\ line' = line /\ phase' = phase /\ counted' \subseteq counted
    BY <1>11 DEF Uncount
  <2> QED
    BY <2>1, LineStays
<1>12. ASSUME NEW c \in Calls, Publish(c) PROVE LineOrder'
  <2>1. policy' = policy /\ line' = line /\ counted' = counted
    BY <1>12 DEF Publish
  <2>2. /\ phase[c] \in {"waiting", "replied"} /\ phase'[c] \in {"replied", "ok"}
        /\ \A d \in Calls : d # c => phase'[d] = phase[d]
    BY <1>12 DEF Publish, Goto, CallInv, TypeOK
  <2> QED
    BY <2>1, <2>2, LineMoves DEF UnderWay, Settled
<1>13. ASSUME NEW c \in Calls, AttemptFails(c) PROVE LineOrder'
  <2>1. policy' = policy /\ line' = line /\ counted' = counted
    BY <1>13 DEF AttemptFails
  <2>2. /\ phase[c] = "waiting" /\ phase'[c] \in {"waiting", "failed", "superseded"}
        /\ \A d \in Calls : d # c => phase'[d] = phase[d]
    BY <1>13, RejectIs DEF AttemptFails, CallInv
  <2> QED
    BY <2>1, <2>2, LineMoves DEF UnderWay, Settled
<1>14. ASSUME NEW c \in Calls, LateReply(c) PROVE LineOrder'
  <2>1. policy' = policy /\ line' = line /\ phase' = phase /\ counted' = counted
    BY <1>14 DEF LateReply
  <2> QED
    BY <2>1, LineStays
<1>15. CASE UNCHANGED vars
    BY <1>15 DEF vars, CallInv, LineOrder
<1> QED
    BY <1>1, <1>2, <1>3, <1>4, <1>5, <1>6, <1>7, <1>8,
       <1>9, <1>10, <1>11, <1>12, <1>13, <1>14, <1>15
    DEF Next, Loop

\* Who joins is the newest, unless fires nest.
LEMMA AscendJoins ==
    ASSUME CallInv, NEW c \in Calls, Count(c), policy = "queue"
    PROVE  LineAscends'
<1> SUFFICES ASSUME ~nested'
             PROVE  /\ \A i, j \in DOMAIN line' : i < j => line'[i] < line'[j]
                    /\ \A d \in Calls : phase'[d] \in Firing => d = generation'
    BY DEF LineAscends
<1> DEFINE n == Len(line)
<1>1. /\ generation' = generation /\ nested' = nested
      /\ phase[c] = "heard" /\ phase'[c] = "queued"
      /\ \A d \in Calls : d # c => phase'[d] = phase[d]
      /\ DOMAIN line = 1..n /\ n \in Nat
      /\ DOMAIN line' = 1..(n + 1)
      /\ \A i \in 1..n : line'[i] = line[i] /\ line[i] \in Calls /\ line[i] # c
      /\ line'[n + 1] = c
    BY JoinIs
<1> HIDE DEF n
<1>2. c = generation
    BY <1>1 DEF CallInv, LineAscends, Firing
<1>3. \A i \in 1..n : line[i] < c
  <2>1. \A i \in 1..n : line[i] <= generation
    <3> SUFFICES ASSUME NEW i \in 1..n PROVE line[i] <= generation
      OBVIOUS
    <3>1. i \in DOMAIN line /\ line[i] \in Calls
      BY <1>1
    <3>2. phase[line[i]] # "none"
      BY <3>1 DEF CallInv, LineOrder
    <3>3. ~(line[i] > generation)
      BY <3>1, <3>2 DEF CallInv, FiredInOrder
    <3> QED
      BY <3>1, <3>3, SignalAssumption DEF CallInv, TypeOK, Calls
  <2> QED
    BY <1>1, <1>2, <2>1 DEF Calls
<1>4. \A i, j \in 1..n : i < j => line[i] < line[j]
    BY <1>1 DEF CallInv, LineAscends
<1>5. \A i, j \in DOMAIN line' : i < j => line'[i] < line'[j]
  <2> SUFFICES ASSUME NEW i \in DOMAIN line', NEW j \in DOMAIN line', i < j
               PROVE  line'[i] < line'[j]
    OBVIOUS
  <2>1. i \in 1..n
    BY <1>1
  <2>2. CASE j = n + 1
    BY <1>1, <1>3, <2>1, <2>2
  <2>3. CASE j # n + 1
    BY <1>1, <1>4, <2>1, <2>3
  <2> QED
    BY <2>2, <2>3
<1>6. \A d \in Calls : phase'[d] \in Firing => d = generation'
    BY <1>1 DEF CallInv, LineAscends, Firing
<1> QED
    BY <1>5, <1>6

\* A call joins the queue before the next one is fired, unless it is fired in its
\* event.
LEMMA AscendStep ==
    ASSUME CallInv, TypeOK', [Next]_vars
    PROVE  LineAscends'
<1> USE SignalAssumption DEF CallInv, TypeOK, Calls, Phases, Firing, UnderWay, Settled, Unsettled,
        Goto, declaration, flags, handler, history,
        FiredInOrder, LineOrder, LineAscends, Nest
<1>1. CASE Fire
  <2> SUFFICES ASSUME ~nested'
               PROVE  /\ \A i, j \in DOMAIN line' : i < j => line'[i] < line'[j]
                      /\ \A c \in Calls : phase'[c] \in Firing => c = generation'
    OBVIOUS
  <2>1. ~nested /\ (\A c \in Calls : phase[c] \notin Firing) /\ line' = line
    BY <1>1 DEF Fire
  <2> QED
    BY <1>1, <2>1, FireIs
<1>2. CASE Cancel
    BY <1>2 DEF Cancel, AbortHeld
<1>3. ASSUME NEW c \in Calls, Hear(c) PROVE LineAscends'
    BY <1>3 DEF Hear, Top
<1>4. ASSUME NEW c \in Calls, Count(c) PROVE LineAscends'
  <2>1. CASE policy # "queue"
    BY <2>1, <1>4 DEF Count
  <2>2. CASE policy = "queue"
    BY <1>4, <2>2, AscendJoins
  <2> QED
    BY <2>1, <2>2
<1>5. ASSUME NEW c \in Calls, CountThrows(c) PROVE LineAscends'
    BY <1>5 DEF CountThrows
<1>6. ASSUME NEW c \in Calls, StartQueued(c) PROVE LineAscends'
    BY <1>6 DEF StartQueued, Startable, Hold
<1>7. ASSUME NEW c \in Calls, StartThrows(c) PROVE LineAscends'
    BY <1>7 DEF StartThrows, Startable
<1>8. ASSUME NEW c \in Calls, Settle(c) PROVE LineAscends'
    BY <1>8 DEF Settle
<1>9. ASSUME NEW c \in Calls, Aborted(c) PROVE LineAscends'
    BY <1>9 DEF Aborted, Reject, Hold
<1>10. ASSUME NEW c \in Calls, TimesOut(c) PROVE LineAscends'
    BY <1>10 DEF TimesOut, Reject, Hold
<1>11. ASSUME NEW c \in Calls, Uncount(c) PROVE LineAscends'
    BY <1>11 DEF Uncount
<1>12. ASSUME NEW c \in Calls, Publish(c) PROVE LineAscends'
    BY <1>12 DEF Publish, Accepts
<1>13. ASSUME NEW c \in Calls, AttemptFails(c) PROVE LineAscends'
    BY <1>13 DEF AttemptFails, Reject, Hold
<1>14. ASSUME NEW c \in Calls, LateReply(c) PROVE LineAscends'
    BY <1>14 DEF LateReply
<1>15. CASE UNCHANGED vars
    BY <1>15 DEF vars
<1> QED
    BY <1>1, <1>2, <1>3, <1>4, <1>5, <1>6, <1>7, <1>8,
       <1>9, <1>10, <1>11, <1>12, <1>13, <1>14, <1>15
    DEF Next, Loop

\* Under latest over http a fire aborts exactly the call under way.
LEMMA HeldStep ==
    ASSUME CallInv, TypeOK', [Next]_vars
    PROVE  HeldIsNewest'
<1> USE SignalAssumption DEF CallInv, TypeOK, Calls, Phases, Firing, UnderWay, Settled, Unsettled,
        Goto, declaration, flags, handler, history,
        FiredInOrder, HeldIsNewest, NewTask, Nest
<1>1. CASE Fire
  <2> SUFFICES ASSUME policy = "latest", transport = "http", ~reentered', ~nested'
               PROVE  \A c \in Calls :
                        /\ phase'[c] \in {"waiting", "replied"} \union Firing => c = generation'
                        /\ phase'[c] \in {"waiting"} \union Firing => pending'
                        /\ phase'[c] = "waiting" => inFlight' = c
    BY <1>1 DEF Fire
  <2>1. \A c \in Calls : phase[c] \notin {"replied"} \union Firing
    BY <1>1 DEF Fire
  <2>2. ~reentered /\ ~nested /\ pending' = TRUE
    BY <1>1 DEF Fire
  <2>3. \A c \in Calls : phase[c] = "waiting" => c = inFlight
    BY <2>2
  <2> QED
    BY <1>1, <2>1, <2>2, <2>3, FireIs
<1>2. CASE Cancel
    BY <1>2 DEF Cancel, AbortHeld
<1>3. ASSUME NEW c \in Calls, Hear(c) PROVE HeldIsNewest'
    BY <1>3 DEF Hear, Top
<1>4. ASSUME NEW c \in Calls, Count(c) PROVE HeldIsNewest'
    BY <1>4 DEF Count, Hold
<1>5. ASSUME NEW c \in Calls, CountThrows(c) PROVE HeldIsNewest'
    BY <1>5 DEF CountThrows
<1>6. ASSUME NEW c \in Calls, StartQueued(c) PROVE HeldIsNewest'
    BY <1>6 DEF StartQueued, Startable, Hold
<1>7. ASSUME NEW c \in Calls, StartThrows(c) PROVE HeldIsNewest'
    BY <1>7 DEF StartThrows, Startable
<1>8. ASSUME NEW c \in Calls, Settle(c) PROVE HeldIsNewest'
    BY <1>8 DEF Settle
<1>9. ASSUME NEW c \in Calls, Aborted(c) PROVE HeldIsNewest'
    BY <1>9 DEF Aborted, Reject, Hold
<1>10. ASSUME NEW c \in Calls, TimesOut(c) PROVE HeldIsNewest'
    BY <1>10 DEF TimesOut, Reject, Hold
<1>11. ASSUME NEW c \in Calls, Uncount(c) PROVE HeldIsNewest'
    BY <1>11 DEF Uncount
<1>12. ASSUME NEW c \in Calls, Publish(c) PROVE HeldIsNewest'
    BY <1>12 DEF Publish, Accepts
<1>13. ASSUME NEW c \in Calls, AttemptFails(c) PROVE HeldIsNewest'
    BY <1>13 DEF AttemptFails, Reject, Hold
<1>14. ASSUME NEW c \in Calls, LateReply(c) PROVE HeldIsNewest'
    BY <1>14 DEF LateReply
<1>15. CASE UNCHANGED vars
    BY <1>15 DEF vars
<1> QED
    BY <1>1, <1>2, <1>3, <1>4, <1>5, <1>6, <1>7, <1>8,
       <1>9, <1>10, <1>11, <1>12, <1>13, <1>14, <1>15
    DEF Next, Loop

\* The fire event reaches the handlers before any reply.
LEMMA HandlerStep ==
    ASSUME CallInv, TypeOK', [Next]_vars
    PROVE  HandlerKnows'
<1> USE SignalAssumption DEF CallInv, TypeOK, Calls, Phases, Firing, UnderWay, Settled, Unsettled,
        Goto, declaration, flags, handler, history,
        FiredInOrder, HandlerKnows, Nest
<1>1. CASE Fire
  <2>1. late' = late /\ transport' = transport /\ timed' = timed /\ policy' = policy
    BY <1>1 DEF Fire
  <2>2. ~nested' => ~nested /\ \A c \in Calls : phase[c] \notin Firing
    BY <1>1 DEF Fire
  <2> QED
    BY <1>1, <2>1, <2>2, FireIs
<1>2. CASE Cancel
    BY <1>2 DEF Cancel, AbortHeld
<1>3. ASSUME NEW c \in Calls, Hear(c) PROVE HandlerKnows'
    BY <1>3 DEF Hear, Top
<1>4. ASSUME NEW c \in Calls, Count(c) PROVE HandlerKnows'
    BY <1>4 DEF Count, Hold
<1>5. ASSUME NEW c \in Calls, CountThrows(c) PROVE HandlerKnows'
    BY <1>5 DEF CountThrows
<1>6. ASSUME NEW c \in Calls, StartQueued(c) PROVE HandlerKnows'
    BY <1>6 DEF StartQueued, Startable, Hold
<1>7. ASSUME NEW c \in Calls, StartThrows(c) PROVE HandlerKnows'
    BY <1>7 DEF StartThrows, Startable
<1>8. ASSUME NEW c \in Calls, Settle(c) PROVE HandlerKnows'
    BY <1>8 DEF Settle
<1>9. ASSUME NEW c \in Calls, Aborted(c) PROVE HandlerKnows'
    BY <1>9 DEF Aborted, Reject, Hold
<1>10. ASSUME NEW c \in Calls, TimesOut(c) PROVE HandlerKnows'
    BY <1>10 DEF TimesOut, Reject, Hold
<1>11. ASSUME NEW c \in Calls, Uncount(c) PROVE HandlerKnows'
    BY <1>11 DEF Uncount
<1>12. ASSUME NEW c \in Calls, Publish(c) PROVE HandlerKnows'
    BY <1>12 DEF Publish, Accepts
<1>13. ASSUME NEW c \in Calls, AttemptFails(c) PROVE HandlerKnows'
    BY <1>13 DEF AttemptFails, Reject, Hold
<1>14. ASSUME NEW c \in Calls, LateReply(c) PROVE HandlerKnows'
    BY <1>14 DEF LateReply
<1>15. CASE UNCHANGED vars
    BY <1>15 DEF vars
<1> QED
    BY <1>1, <1>2, <1>3, <1>4, <1>5, <1>6, <1>7, <1>8,
       <1>9, <1>10, <1>11, <1>12, <1>13, <1>14, <1>15
    DEF Next, Loop

-----------------------------------------------------------------------------
(* The theorems *)

\* Before the first fire nothing is under way.
LEMMA InitCallInv ==
    ASSUME Init
    PROVE  CallInv
<1> USE SignalAssumption DEF Init, TypeOK, Calls, Phases, Firing, UnderWay, Unsettled
<1>1. TypeOK
  <2>1. /\ generation = 0 /\ error = 0 /\ inFlight = 0 /\ owner = 0
        /\ late = {} /\ applied = {} /\ counted = {} /\ line = <<>>
    OBVIOUS
  <2>2. phase \in [Calls -> Phases] /\ attempt \in [Calls -> 0..RetryMax]
    BY Ranges
  <2>3. line \in Seq(Calls)
    BY <2>1
  <2> QED
    BY <2>1, <2>2, <2>3, Ranges
<1>2. FiredInOrder /\ PendingIsLive
    BY DEF FiredInOrder, PendingIsLive
<1>3. LineOrder /\ LineAscends
    BY DEF LineOrder, LineAscends
<1>4. HeldIsNewest /\ HandlerKnows
    BY DEF HeldIsNewest, HandlerKnows
<1> QED
    BY <1>1, <1>2, <1>3, <1>4 DEF CallInv

\* CallInv is an inductive invariant.
THEOREM CallInvHolds == SafeSpec => []CallInv
<1>1. Init => CallInv
    BY InitCallInv
<1>2. CallInv /\ [Next]_vars => CallInv'
  <2> SUFFICES ASSUME CallInv, [Next]_vars PROVE CallInv'
    OBVIOUS
  <2>1. TypeOK'
    BY TypeStep
  <2> QED
    BY <2>1, FiredStep, PendingStep, LineStep, AscendStep, HeldStep, HandlerStep DEF CallInv
<1> QED
    BY <1>1, <1>2, PTL DEF SafeSpec

\* The pending flag never outlives the calls, under any policy and transport.
THEOREM PendingSettles == SafeSpec => []PendingNotStuck
<1>1. CallInv => PendingNotStuck
    BY DEF CallInv, PendingIsLive, PendingNotStuck, Active
<1> QED
    BY <1>1, CallInvHolds, PTL

\* The calls of a queue signal are sent one at a time, however fires nest, and
\* in the order fired when they do not.
THEOREM QueueSerializes == SafeSpec => []QueueSerial
<1>1. CallInv => QueueSerial
  <2> SUFFICES ASSUME CallInv, policy = "queue" PROVE QueueSerial
    BY DEF QueueSerial
  <2> USE SignalAssumption DEF CallInv, TypeOK, Calls, Phases, Firing, UnderWay, Unsettled, Settled
  <2>1. ASSUME NEW c \in Calls, NEW d \in Calls, c # d,
               phase[c] \in UnderWay, phase[d] \in UnderWay
        PROVE  FALSE
    <3>1. c \in counted /\ d \in counted
      BY <2>1 DEF FiredInOrder
    <3>2. PICK i \in DOMAIN line : line[i] = c
      BY <2>1 DEF LineOrder
    <3>3. PICK j \in DOMAIN line : line[j] = d
      BY <2>1 DEF LineOrder
    <3>4. i \in Nat /\ j \in Nat /\ (i < j \/ j < i)
      BY <2>1, <3>2, <3>3
    <3>5. phase[line[i]] # "queued" /\ phase[line[j]] # "queued"
      BY <2>1, <3>2, <3>3
    <3> QED
      BY <3>1, <3>2, <3>3, <3>4, <3>5 DEF LineOrder
  <2>2. ASSUME ~nested, NEW c \in Calls, NEW d \in Calls, c < d, c \in Active,
               phase[d] \notin {"none", "queued"} \union Firing
        PROVE  FALSE
    <3>1. d <= generation
      BY <2>2 DEF FiredInOrder
    <3>2. phase[c] \in {"queued"} \union UnderWay
      BY <2>2, <3>1 DEF LineAscends, Active
    <3>3. c \in counted
      BY <3>2 DEF FiredInOrder
    <3>4. PICK i \in DOMAIN line : line[i] = c
      BY <3>2 DEF LineOrder
    <3>5. PICK j \in DOMAIN line : line[j] = d
      BY <2>2 DEF LineOrder
    <3>6. i \in Nat /\ j \in Nat
      BY <3>4, <3>5
    <3>7. ~(j < i) /\ i # j
      BY <2>2, <3>4, <3>5, <3>6 DEF LineAscends
    <3>8. phase[line[j]] # "queued"
      BY <2>2, <3>5
    <3>9. i < j
      BY <3>6, <3>7
    <3>10. line[i] \notin counted
      BY <3>4, <3>5, <3>8, <3>9 DEF LineOrder
    <3> QED
      BY <3>3, <3>4, <3>10
  <2> QED
    BY <2>1, <2>2 DEF QueueSerial
<1> QED
    BY <1>1, CallInvHolds, PTL

\* A latest signal over http has one live call, the newest, and shows it.
THEOREM LatestSupersedes == SafeSpec => []SoleUnlessReentered
<1>1. CallInv => SoleUnlessReentered
    BY DEF CallInv, HeldIsNewest, SoleUnlessReentered, LatestIsSole
<1> QED
    BY <1>1, CallInvHolds, PTL

\* A handler of a latest signal acts upon the newest call's reply only.
THEOREM StaleRepliesIgnored == SafeSpec => NewestUnlessLate
<1>1. CallInv /\ [Next]_vars =>
        [policy = "latest" /\ ~(transport = "ws" /\ timed) /\ ~nested =>
            applied' \ applied \subseteq {generation}]_vars
  <2> SUFFICES ASSUME CallInv, [Next]_vars, policy = "latest", ~(transport = "ws" /\ timed), ~nested
               PROVE  applied' \ applied \subseteq {generation}
    OBVIOUS
  <2> USE DEF CallInv, TypeOK, Calls, FiredInOrder, HandlerKnows, NewTask, Nest, Firing
  <2>1. CASE Fire \/ Cancel
    <3>1. applied' = applied
      BY <2>1 DEF Fire, Cancel, handler
    <3> QED
      BY <3>1
  <2>2. ASSUME NEW c \in Calls, Publish(c) PROVE applied' \ applied \subseteq {generation}
    <3>1. owner = generation /\ c <= generation
      BY <2>2 DEF Publish
    <3> QED
      BY <2>2, <3>1 DEF Publish, Accepts
  <2>3. ASSUME NEW c \in Calls, Loop(c) \/ CountThrows(c) \/ StartThrows(c) \/ AttemptFails(c)
        PROVE  applied' = applied
    BY <2>3 DEF Loop, Hear, Count, CountThrows, StartQueued, StartThrows, Settle, Aborted,
                Uncount, TimesOut, AttemptFails, handler
  <2>4. ASSUME NEW c \in Calls, LateReply(c) PROVE FALSE
    BY <2>4 DEF LateReply
  <2>5. CASE UNCHANGED vars
    BY <2>5 DEF vars, handler
  <2> QED
    BY <2>1, <2>2, <2>3, <2>4, <2>5 DEF Next
<1> QED
    BY <1>1, CallInvHolds, PTL DEF SafeSpec, NewestUnlessLate

\* Every variable of the signal and its handlers keeps its type.
THEOREM TypeCorrect == SafeSpec => []TypeOK
<1>1. CallInv => TypeOK
    BY DEF CallInv
<1> QED
    BY <1>1, CallInvHolds, PTL

-----------------------------------------------------------------------------
(* The lists. Below, is is a list that a page may show, t the server's list,*)
(* u and d the messages on their way from and to the page, os its          *)
(* operations without an answer.                                           *)

Temp(n) == <<"temp", n>>
Srv(n) == <<"srv", n>>
IdsOf(is) == {is[i].id : i \in DOMAIN is}
Temps(is) == {n \in Nat : Temp(n) \in IdsOf(is)}

\* The order of own items is that of their operations.
InTurn(is) == \A i, j \in DOMAIN is :
  i < j /\ is[i].id[1] = "temp" /\ is[j].id[1] = "temp" => is[i].id[2] < is[j].id[2]

\* Operations up to k and names up to n are in use.
Within(is, k, n) == \A i \in DOMAIN is :
  is[i].id[2] <= IF is[i].id[1] = "temp" THEN k ELSE n

Distinct(is) == \A i, j \in DOMAIN is : is[i].id = is[j].id => i = j

WellFormed(is, k, n) == Distinct(is) /\ InTurn(is) /\ Within(is, k, n)

\* What d tells of an item.
Makes(d, id) == \E j \in DOMAIN d : d[j].type = "ItemInserted" /\ d[j].item.id = id
Sets(d, id)  == \E j \in DOMAIN d : d[j].type = "ItemUpdated" /\ d[j].id = id
Drops(d, id) == \E j \in DOMAIN d : d[j].type = "ItemDeleted" /\ d[j].id = id

\* Operation k is on its way, its refusal is, its confirmation follows its event.
Asks(u, k) == \E j \in DOMAIN u : u[j].type # "Subscribe" /\ u[j].op = k
Refuses(d, k) == \E j \in DOMAIN d : d[j].type = "Reject" /\ d[j].op = k
Confirms(d, k) == \E j \in DOMAIN d : /\ j + 1 \in DOMAIN d
                                      /\ d[j].type = "ItemInserted"
                                      /\ d[j + 1].type = "Ack" /\ d[j + 1].op = k

\* An operation of the page on id, other than x, is shown and may still be refused.
Wants(u, x, kind, id) == \E j \in DOMAIN u : u[j].type = kind /\ u[j].id = id /\ u[j].op # x
Fails(d, os, x, kind, id) == \E o \in os : /\ o.type = kind /\ o.id = id /\ o.op # x
                                           /\ Refuses(d, o.op)
Hopes(u, d, os, x, kind, id) == Wants(u, x, kind, id) \/ Fails(d, os, x, kind, id)

Inserts(u, k) == \E j \in DOMAIN u : u[j].type = "Insert" /\ u[j].op = k

\* Operations other than x that own items may stand for.
Owed(u, d, x) == {k \in Nat : k # x /\ (Inserts(u, k) \/ Confirms(d, k) \/ Refuses(d, k))}

\* Each member of S stands for one of T that is no later, no two for the same.
Backed(S, T) ==
  \E f \in [S -> T] : /\ \A x, y \in S : f[x] = f[y] => x = y
                      /\ \A x \in S : f[x] <= x

Waits(is) == \A i \in DOMAIN is : is[i].id[1] = "temp" => is[i].wait

\* The items that is may have and t not, or t and is not; those it may show differently.
Moves(u, d, os, x) == {id \in Ids : Makes(d, id) \/ Drops(d, id) \/ Hopes(u, d, os, x, "Delete", id)}
Edits(u, d, os, x) == {id \in Ids : Makes(d, id) \/ Sets(d, id) \/ Hopes(u, d, os, x, "Update", id)}

\* is is t, but for the items in I, the values of those in V and own items that W accounts for.
SameIds(is, t, I) == \A n \in Nat : Srv(n) \in I \/ (Srv(n) \in IdsOf(is) <=> Srv(n) \in IdsOf(t))
SameVals(is, t, V) == \A i \in DOMAIN is, j \in DOMAIN t :
  is[i].id = t[j].id => is[i].id \in V \/ is[i].val = t[j].val
Fits(is, t, I, V, W) == SameIds(is, t, I) /\ SameVals(is, t, V) /\ Waits(is) /\ Backed(Temps(is), W)

\* is is t, but for what d tells and for own operations other than x.
Agrees(is, t, u, d, os, x) == Fits(is, t, Moves(u, d, os, x), Edits(u, d, os, x), Owed(u, d, x))

Greeted(d) == d # <<>> /\ d[1].type = "Snapshot"
Answered(m) == m.type \in {"Ack", "Reject"}

-----------------------------------------------------------------------------
(* The invariant, per page: open and s say that its socket is open and that*)
(* it is subscribed, k and n are the numbers given so far.                 *)

Channel(open, s, u, d) ==
  /\ ~open => ~s /\ u = <<>> /\ d = <<>>
  /\ open /\ ~s => u # <<>> /\ u[1].type = "Subscribe" /\ d = <<>>
  /\ \A j \in DOMAIN u : u[j].type = "Subscribe" => j = 1 /\ ~s
  /\ \A j \in DOMAIN d : d[j].type = "Snapshot" => j = 1

\* An answer is that of an operation without one; what is confirmed concerned no own item.
Known(os, k) ==
  /\ \A o \in os : o.op \in 1..k /\ (o.type = "Insert" => o.id = Temp(o.op))
  /\ \A o, q \in os : o.op = q.op => o = q
Matched(u, d, os) ==
  /\ \A j \in DOMAIN u : u[j].type # "Subscribe" =>
       \E o \in os : o.op = u[j].op /\ o.type = u[j].type /\ o.id = u[j].id
  /\ \A j \in DOMAIN d : Answered(d[j]) =>
       \E o \in os : o.op = d[j].op /\ (d[j].type = "Ack" /\ o.type # "Insert" => o.id[1] = "srv")

\* The server answers in the order it was asked in.
Queued(u, d) ==
  /\ \A i, j \in DOMAIN u : i < j /\ u[i].type # "Subscribe" => u[i].op < u[j].op
  /\ \A i, j \in DOMAIN d : i < j /\ Answered(d[i]) /\ Answered(d[j]) => d[i].op < d[j].op
  /\ \A i \in DOMAIN d, j \in DOMAIN u : Answered(d[i]) /\ u[j].type # "Subscribe" => d[i].op < u[j].op

Numbers(u, d, os, k) == Known(os, k) /\ Matched(u, d, os) /\ Queued(u, d)

\* Items that are announced are new to the page and whatever it may show again, once and first.
Named(d, n) == \A j \in DOMAIN d :
  /\ d[j].type = "ItemInserted" => d[j].item.id[1] = "srv" /\ d[j].item.id[2] <= n
  /\ d[j].type \in {"ItemUpdated", "ItemDeleted"} => d[j].id[1] = "srv" /\ d[j].id[2] <= n
  /\ d[j].type = "Snapshot" => WellFormed(d[j].data, 0, n) /\ Temps(d[j].data) = {}
                                 /\ \A id \in IdsOf(d[j].data) : ~Makes(d, id)
Once(d) == \A i, j \in DOMAIN d : d[i].type = "ItemInserted" =>
  /\ d[j].type = "ItemInserted" /\ d[j].item.id = d[i].item.id => i = j
  /\ d[j].type \in {"ItemUpdated", "ItemDeleted"} /\ d[j].id = d[i].item.id => i < j
New(is, d) == \A id \in IdsOf(is) : ~Makes(d, id)

Lists(is, d, os, k, n) ==
  /\ WellFormed(is, k, n) /\ New(is, d)
  /\ \A o \in os : WellFormed(o.prev, k, n) /\ New(o.prev, d)
  /\ Named(d, n) /\ Once(d)

\* What d tells last of an item is what t has.
Valued(t, id, v) == \A i \in DOMAIN t : t[i].id = id => t[i].val = v
History(d, t) == \A j \in DOMAIN d :
  /\ d[j].type = "ItemInserted" =>
       /\ ~Drops(d, d[j].item.id) => d[j].item.id \in IdsOf(t)
       /\ ~Sets(d, d[j].item.id) => Valued(t, d[j].item.id, d[j].item.val)
  /\ d[j].type = "ItemDeleted" => d[j].id \notin IdsOf(t)
  /\ d[j].type = "ItemUpdated" =>
       \/ Valued(t, d[j].id, d[j].val)
       \/ \E k \in DOMAIN d : j < k /\ d[k].type = "ItemUpdated" /\ d[k].id = d[j].id

\* The page shows t but for what is on its way, and so does what a refusal would restore.
Synced(is, t, u, d, os, r) ==
  /\ Greeted(d) => Agrees(d[1].data, t, u, d, os, 0)
  /\ ~Greeted(d) /\ ~r =>
       /\ Agrees(is, t, u, d, os, 0)
       /\ \A o \in os : ~o.passed /\ (Asks(u, o.op) \/ Refuses(d, o.op)) => Agrees(o.prev, t, u, d, os, o.op)

PageInv(open, s, u, d, os, is, r, t, k, n) ==
  /\ Channel(open, s, u, d)
  /\ Numbers(u, d, os, k)
  /\ Lists(is, d, os, k, n)
  /\ s => History(d, t) /\ Synced(is, t, u, d, os, r)

ServerInv == WellFormed(list, 0, named) /\ Temps(list) = {}

PageOK(c) == PageInv(sock[c] = "open", c \in subs, up[c], down[c], unanswered[c], items[c], rolled[c],
                     list, ops, named)

RealtimeInv == RealtimeTypeOK /\ ServerInv /\ \A c \in Pages : PageOK(c)

LEMMA RemoveAtIs ==
  ASSUME NEW S, NEW s \in Seq(S), NEW i \in 1..Len(s)
  PROVE  /\ RemoveAt(s, i) \in Seq(S)
         /\ Len(RemoveAt(s, i)) = Len(s) - 1
         /\ \A j \in 1..(Len(s) - 1) : RemoveAt(s, i)[j] = IF j < i THEN s[j] ELSE s[j + 1]
<1> DEFINE a == SubSeq(s, 1, i - 1)  c == SubSeq(s, i + 1, Len(s))
<1>1. /\ Len(s) \in Nat /\ i \in Nat /\ \A j \in 1..Len(s) : s[j] \in S
      /\ i - 1 \in Int /\ i + 1 \in Int /\ Len(s) \in Int /\ 1 \in Int
      /\ \A j \in 1..(i - 1) : s[j] \in S
      /\ \A j \in (i + 1)..Len(s) : s[j] \in S
  OBVIOUS
<1>2. a \in Seq(S) /\ Len(a) = i - 1 /\ \A j \in 1..(i - 1) : a[j] = s[j]
  <2>1. /\ a \in Seq(S)
        /\ Len(a) = IF 1 <= i - 1 THEN i - 1 - 1 + 1 ELSE 0
        /\ \A j \in 1..(i - 1 - 1 + 1) : a[j] = s[1 + j - 1]
    BY <1>1, SubSeqProperties
  <2> QED
    BY <1>1, <2>1
<1>3. c \in Seq(S) /\ Len(c) = Len(s) - i /\ \A j \in 1..(Len(s) - i) : c[j] = s[i + j]
  <2>1. /\ c \in Seq(S)
        /\ Len(c) = IF i + 1 <= Len(s) THEN Len(s) - (i + 1) + 1 ELSE 0
        /\ \A j \in 1..(Len(s) - (i + 1) + 1) : c[j] = s[(i + 1) + j - 1]
    BY <1>1, SubSeqProperties
  <2> QED
    BY <1>1, <2>1
<1> HIDE DEF a, c
<1>4. /\ a \o c \in Seq(S) /\ Len(a \o c) = Len(a) + Len(c)
      /\ \A j \in 1..(Len(a) + Len(c)) : (a \o c)[j] = IF j <= Len(a) THEN a[j] ELSE c[j - Len(a)]
  BY <1>2, <1>3, ConcatProperties
<1>a. Len(a) = i - 1 /\ Len(a) + Len(c) = Len(s) - 1
  BY <1>1, <1>2, <1>3
<1>b. /\ a \o c \in Seq(S) /\ Len(a \o c) = Len(s) - 1
      /\ \A j \in 1..(Len(s) - 1) : (a \o c)[j] = IF j <= i - 1 THEN a[j] ELSE c[j - (i - 1)]
  BY <1>4, <1>a
<1>5. RemoveAt(s, i) = a \o c
  BY DEF RemoveAt, a, c
<1>6. ASSUME NEW j \in 1..(Len(s) - 1) PROVE RemoveAt(s, i)[j] = IF j < i THEN s[j] ELSE s[j + 1]
  <2>1. CASE j < i
    BY <1>1, <1>2, <1>5, <1>b, <2>1
  <2>2. CASE j >= i
    <3>1. j - (i - 1) \in 1..(Len(s) - i) /\ i + (j - (i - 1)) = j + 1 /\ ~(j <= i - 1) /\ ~(j < i)
      BY <1>1, <2>2
    <3>2. RemoveAt(s, i)[j] = c[j - (i - 1)]
      BY <1>5, <1>b, <3>1
    <3>3. c[j - (i - 1)] = s[i + (j - (i - 1))]
      BY <1>3, <3>1
    <3> QED
      BY <3>1, <3>2, <3>3
  <2> QED
    BY <1>1, <2>1, <2>2
<1> QED
  BY <1>5, <1>6, <1>b

-----------------------------------------------------------------------------
(* Queues of messages.                                                     *)

LEMMA QueueTail ==
  ASSUME NEW S, NEW s \in Seq(S), s # <<>>
  PROVE  /\ Tail(s) \in Seq(S) /\ 1 \in DOMAIN s /\ Head(s) = s[1] /\ s[1] \in S
         /\ DOMAIN s = 1..Len(s) /\ Len(s) \in Nat
         /\ \A j \in DOMAIN s : j = 1 \/ (j - 1 \in DOMAIN Tail(s) /\ s[j] = Tail(s)[j - 1])
         /\ \A j \in DOMAIN Tail(s) : j \in Nat /\ j >= 1 /\ j + 1 \in DOMAIN s /\ Tail(s)[j] = s[j + 1]
<1>1. /\ Tail(s) \in Seq(S) /\ Len(Tail(s)) = Len(s) - 1 /\ Len(s) \in Nat /\ Len(s) >= 1
      /\ DOMAIN s = 1..Len(s) /\ DOMAIN Tail(s) = 1..(Len(s) - 1)
      /\ \A x \in 1..(Len(s) - 1) : Tail(s)[x] = s[x + 1]
      /\ Head(s) = s[1] /\ s[1] \in S
  OBVIOUS
<1>2. ASSUME NEW j \in DOMAIN s, j # 1 PROVE j - 1 \in 1..(Len(s) - 1) /\ (j - 1) + 1 = j
  BY <1>1, <1>2
<1>3. ASSUME NEW j \in DOMAIN Tail(s) PROVE j \in Nat /\ j >= 1 /\ j + 1 \in DOMAIN s
  BY <1>1
<1>4. 1 \in DOMAIN s
  BY <1>1
<1> QED
  BY <1>1, <1>2, <1>3, <1>4

LEMMA QueueAppend ==
  ASSUME NEW S, NEW s \in Seq(S), NEW e \in S
  PROVE  /\ Append(s, e) \in Seq(S) /\ Append(s, e) # <<>>
         /\ Len(s) \in Nat /\ DOMAIN s = 1..Len(s)
         /\ Len(s) + 1 \in DOMAIN Append(s, e) /\ Append(s, e)[Len(s) + 1] = e
         /\ \A j \in DOMAIN s : j \in DOMAIN Append(s, e) /\ Append(s, e)[j] = s[j]
         /\ \A j \in DOMAIN Append(s, e) : j \in DOMAIN s \/ j = Len(s) + 1
<1>1. /\ Append(s, e) \in Seq(S) /\ Len(Append(s, e)) = Len(s) + 1 /\ Len(s) \in Nat
      /\ DOMAIN s = 1..Len(s) /\ DOMAIN Append(s, e) = 1..(Len(s) + 1)
      /\ Append(s, e)[Len(s) + 1] = e
      /\ \A j \in 1..Len(s) : Append(s, e)[j] = s[j]
  OBVIOUS
<1>2. Append(s, e) # <<>>
  BY <1>1
<1> QED
  BY <1>1, <1>2

\* What d tells is told by its first message or by the others.
LEMMA TailTells ==
  ASSUME NEW d \in Seq(Replies), d # <<>>, NEW id
  PROVE  /\ Makes(d, id) <=> (d[1].type = "ItemInserted" /\ d[1].item.id = id) \/ Makes(Tail(d), id)
         /\ Sets(d, id) <=> (d[1].type = "ItemUpdated" /\ d[1].id = id) \/ Sets(Tail(d), id)
         /\ Drops(d, id) <=> (d[1].type = "ItemDeleted" /\ d[1].id = id) \/ Drops(Tail(d), id)
<1> DEFINE e == Tail(d)
<1>1. /\ 1 \in DOMAIN d
      /\ \A j \in DOMAIN d : j = 1 \/ (j - 1 \in DOMAIN e /\ d[j] = e[j - 1])
      /\ \A j \in DOMAIN e : j + 1 \in DOMAIN d /\ e[j] = d[j + 1]
  BY QueueTail
<1> HIDE DEF e
<1>2. Makes(d, id) <=> (d[1].type = "ItemInserted" /\ d[1].item.id = id) \/ Makes(e, id)
  BY <1>1 DEF Makes
<1>3. Sets(d, id) <=> (d[1].type = "ItemUpdated" /\ d[1].id = id) \/ Sets(e, id)
  BY <1>1 DEF Sets
<1>4. Drops(d, id) <=> (d[1].type = "ItemDeleted" /\ d[1].id = id) \/ Drops(e, id)
  BY <1>1 DEF Drops
<1> QED
  BY <1>2, <1>3, <1>4 DEF e

LEMMA AppendTells ==
  ASSUME NEW d \in Seq(Replies), NEW m \in Replies, NEW id
  PROVE  /\ Makes(Append(d, m), id) <=> (m.type = "ItemInserted" /\ m.item.id = id) \/ Makes(d, id)
         /\ Sets(Append(d, m), id) <=> (m.type = "ItemUpdated" /\ m.id = id) \/ Sets(d, id)
         /\ Drops(Append(d, m), id) <=> (m.type = "ItemDeleted" /\ m.id = id) \/ Drops(d, id)
<1> DEFINE e == Append(d, m)  z == Len(d) + 1
<1>1. /\ z \in DOMAIN e /\ e[z] = m
      /\ \A j \in DOMAIN d : j \in DOMAIN e /\ e[j] = d[j]
      /\ \A j \in DOMAIN e : j \in DOMAIN d \/ j = z
  BY QueueAppend
<1> HIDE DEF e, z
<1>2. Makes(e, id) <=> (m.type = "ItemInserted" /\ m.item.id = id) \/ Makes(d, id)
  BY <1>1 DEF Makes
<1>3. Sets(e, id) <=> (m.type = "ItemUpdated" /\ m.id = id) \/ Sets(d, id)
  BY <1>1 DEF Sets
<1>4. Drops(e, id) <=> (m.type = "ItemDeleted" /\ m.id = id) \/ Drops(d, id)
  BY <1>1 DEF Drops
<1> QED
  BY <1>2, <1>3, <1>4 DEF e

\* The same for answers; a confirmation that goes unnoticed stood behind its event.
LEMMA TailAnswers ==
  ASSUME NEW d \in Seq(Replies), d # <<>>, NEW k
  PROVE  /\ Refuses(d, k) <=> (d[1].type = "Reject" /\ d[1].op = k) \/ Refuses(Tail(d), k)
         /\ Confirms(Tail(d), k) => Confirms(d, k)
         /\ Confirms(d, k) /\ d[1].type # "ItemInserted" => Confirms(Tail(d), k)
         /\ Confirms(d, k) => Confirms(Tail(d), k) \/ (2 \in DOMAIN d /\ d[1].type = "ItemInserted")
         /\ Confirms(Tail(d), k) => \E j \in DOMAIN d : j > 1 /\ d[j].type = "Ack" /\ d[j].op = k
         /\ Refuses(Tail(d), k) => \E j \in DOMAIN d : j > 1 /\ d[j].type = "Reject" /\ d[j].op = k
<1> DEFINE e == Tail(d)
<1>1. /\ 1 \in DOMAIN d /\ DOMAIN d = 1..Len(d) /\ Len(d) \in Nat
      /\ \A j \in DOMAIN d : j = 1 \/ (j - 1 \in DOMAIN e /\ d[j] = e[j - 1])
      /\ \A j \in DOMAIN e : j \in Nat /\ j >= 1 /\ j + 1 \in DOMAIN d /\ e[j] = d[j + 1]
  BY QueueTail
<1> HIDE DEF e
<1>2. Refuses(d, k) <=> (d[1].type = "Reject" /\ d[1].op = k) \/ Refuses(e, k)
  BY <1>1 DEF Refuses
<1>3. ASSUME Confirms(e, k)
      PROVE  Confirms(d, k) /\ \E j \in DOMAIN d : j > 1 /\ d[j].type = "Ack" /\ d[j].op = k
  <2>1. PICK j \in DOMAIN e : /\ j + 1 \in DOMAIN e /\ e[j].type = "ItemInserted"
                              /\ e[j + 1].type = "Ack" /\ e[j + 1].op = k
    BY <1>3 DEF Confirms
  <2>2. /\ j \in Nat /\ j >= 1 /\ j + 1 \in DOMAIN d /\ e[j] = d[j + 1]
        /\ (j + 1) + 1 \in DOMAIN d /\ e[j + 1] = d[(j + 1) + 1] /\ (j + 1) + 1 > 1
    BY <1>1, <2>1
  <2> QED
    BY <2>1, <2>2 DEF Confirms
<1>4. ASSUME Confirms(d, k), ~Confirms(e, k)
      PROVE  2 \in DOMAIN d /\ d[1].type = "ItemInserted"
  <2>1. PICK j \in DOMAIN d : /\ j + 1 \in DOMAIN d /\ d[j].type = "ItemInserted"
                              /\ d[j + 1].type = "Ack" /\ d[j + 1].op = k
    BY <1>4 DEF Confirms
  <2>2. ASSUME j # 1 PROVE FALSE
    <3>1. /\ j - 1 \in DOMAIN e /\ d[j] = e[j - 1] /\ (j + 1) - 1 \in DOMAIN e
          /\ d[j + 1] = e[(j + 1) - 1] /\ (j + 1) - 1 = (j - 1) + 1
      BY <1>1, <2>1, <2>2
    <3> QED
      BY <1>4, <2>1, <3>1 DEF Confirms
  <2> QED
    BY <2>1, <2>2
<1>5. ASSUME Refuses(e, k) PROVE \E j \in DOMAIN d : j > 1 /\ d[j].type = "Reject" /\ d[j].op = k
  <2>1. PICK j \in DOMAIN e : e[j].type = "Reject" /\ e[j].op = k
    BY <1>5 DEF Refuses
  <2>2. j + 1 \in DOMAIN d /\ j + 1 > 1 /\ d[j + 1] = e[j]
    BY <1>1, <2>1
  <2> QED
    BY <2>1, <2>2
<1> QED
  BY <1>2, <1>3, <1>4, <1>5 DEF e

LEMMA AppendAnswers ==
  ASSUME NEW d \in Seq(Replies), NEW m \in Replies, NEW k
  PROVE  /\ Refuses(Append(d, m), k) <=> (m.type = "Reject" /\ m.op = k) \/ Refuses(d, k)
         /\ Confirms(d, k) => Confirms(Append(d, m), k)
         /\ Confirms(Append(d, m), k) => Confirms(d, k) \/ (m.type = "Ack" /\ m.op = k)
         /\ \A e \in Replies :
              /\ e.type = "ItemInserted" /\ m.type = "Ack" /\ m.op = k => Confirms(Append(Append(d, e), m), k)
              /\ e.type \in {"ItemUpdated", "ItemDeleted"} /\ Confirms(Append(Append(d, e), m), k) => Confirms(d, k)
<1> DEFINE b == Append(d, m)  z == Len(d) + 1
<1>1. /\ z \in DOMAIN b /\ b[z] = m /\ DOMAIN d = 1..Len(d) /\ Len(d) \in Nat
      /\ \A j \in DOMAIN d : j \in DOMAIN b /\ b[j] = d[j]
      /\ \A j \in DOMAIN b : j \in DOMAIN d \/ j = z
  BY QueueAppend
<1>2. Refuses(b, k) <=> (m.type = "Reject" /\ m.op = k) \/ Refuses(d, k)
  <2> HIDE DEF b, z
  <2> QED
    BY <1>1 DEF Refuses
<1>3. Confirms(d, k) => Confirms(b, k)
  <2> HIDE DEF b, z
  <2> QED
    BY <1>1 DEF Confirms
<1>4. ASSUME Confirms(b, k) PROVE Confirms(d, k) \/ (m.type = "Ack" /\ m.op = k)
  <2> HIDE DEF b
  <2>1. PICK j \in DOMAIN b : /\ j + 1 \in DOMAIN b /\ b[j].type = "ItemInserted"
                              /\ b[j + 1].type = "Ack" /\ b[j + 1].op = k
    BY <1>4 DEF Confirms
  <2>2. CASE j + 1 = z
    BY <1>1, <2>1, <2>2
  <2>3. CASE j + 1 # z
    <3>1. j + 1 \in DOMAIN d /\ j \in DOMAIN d
      BY <1>1, <2>1, <2>3
    <3> QED
      BY <1>1, <2>1, <3>1 DEF Confirms
  <2> QED
    BY <2>2, <2>3
<1>5. ASSUME NEW e \in Replies
      PROVE  /\ e.type = "ItemInserted" /\ m.type = "Ack" /\ m.op = k => Confirms(Append(Append(d, e), m), k)
             /\ e.type \in {"ItemUpdated", "ItemDeleted"} /\ Confirms(Append(Append(d, e), m), k) => Confirms(d, k)
  <2> DEFINE f == Append(d, e)  g == Append(f, m)
  <2>1. /\ f \in Seq(Replies) /\ z \in DOMAIN f /\ f[z] = e
        /\ \A j \in DOMAIN d : j \in DOMAIN f /\ f[j] = d[j]
        /\ \A j \in DOMAIN f : j \in DOMAIN d \/ j = z
        /\ DOMAIN f = 1..Len(f) /\ Len(f) = z
    BY QueueAppend
  <2> HIDE DEF f
  <2>2. /\ z + 1 \in DOMAIN g /\ g[z + 1] = m
        /\ \A j \in DOMAIN f : j \in DOMAIN g /\ g[j] = f[j]
        /\ \A j \in DOMAIN g : j \in DOMAIN f \/ j = z + 1
    BY <2>1, QueueAppend
  <2> HIDE DEF g
  <2>3. e.type = "ItemInserted" /\ m.type = "Ack" /\ m.op = k => Confirms(g, k)
    BY <2>1, <2>2 DEF Confirms
  <2>4. ASSUME e.type \in {"ItemUpdated", "ItemDeleted"}, Confirms(g, k) PROVE Confirms(d, k)
    <3>1. PICK j \in DOMAIN g : /\ j + 1 \in DOMAIN g /\ g[j].type = "ItemInserted"
                                /\ g[j + 1].type = "Ack" /\ g[j + 1].op = k
      BY <2>4 DEF Confirms
    <3>2. j \in DOMAIN f /\ j # z /\ j \in DOMAIN d
      BY <1>1, <2>1, <2>2, <2>4, <3>1
    <3>3. j + 1 \in DOMAIN f /\ j + 1 # z
      <4>1. j + 1 \in DOMAIN f
        BY <1>1, <2>2, <3>1, <3>2
      <4>2. ASSUME j + 1 = z PROVE FALSE
        <5>1. g[j + 1] = e
          BY <2>1, <2>2, <4>2
        <5> QED
          BY <2>4, <3>1, <5>1
      <4> QED
        BY <4>1, <4>2
    <3>4. j + 1 \in DOMAIN d
      BY <2>1, <3>3
    <3> QED
      BY <2>1, <2>2, <3>1, <3>2, <3>4 DEF Confirms
  <2> QED
    BY <2>3, <2>4 DEF f, g
<1> QED
  BY <1>2, <1>3, <1>4, <1>5 DEF b

\* The same for what a page asks for.
LEMMA TailAsks ==
  ASSUME NEW u \in Seq(Requests), u # <<>>, NEW k, NEW x, NEW kind \in Kinds, NEW id
  PROVE  /\ Asks(u, k) <=> (u[1].type # "Subscribe" /\ u[1].op = k) \/ Asks(Tail(u), k)
         /\ Inserts(u, k) <=> (u[1].type = "Insert" /\ u[1].op = k) \/ Inserts(Tail(u), k)
         /\ Wants(u, x, kind, id)
              <=> (u[1].type = kind /\ u[1].id = id /\ u[1].op # x) \/ Wants(Tail(u), x, kind, id)
<1> DEFINE e == Tail(u)
<1>1. /\ 1 \in DOMAIN u
      /\ \A j \in DOMAIN u : j = 1 \/ (j - 1 \in DOMAIN e /\ u[j] = e[j - 1])
      /\ \A j \in DOMAIN e : j + 1 \in DOMAIN u /\ e[j] = u[j + 1]
  BY QueueTail
<1> HIDE DEF e
<1>2. Asks(u, k) <=> (u[1].type # "Subscribe" /\ u[1].op = k) \/ Asks(e, k)
  BY <1>1 DEF Asks
<1>3. Inserts(u, k) <=> (u[1].type = "Insert" /\ u[1].op = k) \/ Inserts(e, k)
  BY <1>1 DEF Inserts
<1>4. Wants(u, x, kind, id) <=> (u[1].type = kind /\ u[1].id = id /\ u[1].op # x) \/ Wants(e, x, kind, id)
  BY <1>1 DEF Wants
<1> QED
  BY <1>2, <1>3, <1>4 DEF e

LEMMA AppendAsks ==
  ASSUME NEW u \in Seq(Requests), NEW m \in Requests, NEW k, NEW x, NEW kind \in Kinds, NEW id
  PROVE  /\ Asks(Append(u, m), k) <=> (m.type # "Subscribe" /\ m.op = k) \/ Asks(u, k)
         /\ Inserts(Append(u, m), k) <=> (m.type = "Insert" /\ m.op = k) \/ Inserts(u, k)
         /\ Wants(Append(u, m), x, kind, id)
              <=> (m.type = kind /\ m.id = id /\ m.op # x) \/ Wants(u, x, kind, id)
<1> DEFINE e == Append(u, m)  z == Len(u) + 1
<1>1. /\ z \in DOMAIN e /\ e[z] = m
      /\ \A j \in DOMAIN u : j \in DOMAIN e /\ e[j] = u[j]
      /\ \A j \in DOMAIN e : j \in DOMAIN u \/ j = z
  BY QueueAppend
<1> HIDE DEF e, z
<1>2. Asks(e, k) <=> (m.type # "Subscribe" /\ m.op = k) \/ Asks(u, k)
  BY <1>1 DEF Asks
<1>3. Inserts(e, k) <=> (m.type = "Insert" /\ m.op = k) \/ Inserts(u, k)
  BY <1>1 DEF Inserts
<1>4. Wants(e, x, kind, id) <=> (m.type = kind /\ m.id = id /\ m.op # x) \/ Wants(u, x, kind, id)
  BY <1>1 DEF Wants
<1> QED
  BY <1>2, <1>3, <1>4 DEF e

-----------------------------------------------------------------------------
(* Own items and the operations they stand for.                            *)

LEMMA BackedFewer ==
  ASSUME NEW S, NEW T, Backed(S, T), NEW A \in SUBSET S, NEW B, T \subseteq B
  PROVE  Backed(A, B)
<1>1. PICK f \in [S -> T] : (\A x, y \in S : f[x] = f[y] => x = y) /\ \A x \in S : f[x] <= x
  BY DEF Backed
<1> DEFINE g == [x \in A |-> f[x]]
<1>2. g \in [A -> B] /\ (\A x, y \in A : g[x] = g[y] => x = y) /\ \A x \in A : g[x] <= x
  BY <1>1
<1> QED
  BY <1>2 DEF Backed

LEMMA BackedNone ==
  ASSUME NEW T
  PROVE  Backed({}, T)
<1> DEFINE g == [x \in {} |-> x]
<1>1. g \in [{} -> T] /\ (\A x, y \in {} : g[x] = g[y] => x = y) /\ \A x \in {} : g[x] <= x
  OBVIOUS
<1> QED
  BY <1>1 DEF Backed

\* One more operation may have one more item.
LEMMA BackedMore ==
  ASSUME NEW S, NEW T, Backed(S, T), NEW k \in Nat, k \notin T,
         NEW A \in SUBSET (S \cup {k}), NEW B, T \subseteq B, k \in B
  PROVE  Backed(A, B)
<1>1. PICK f \in [S -> T] : (\A x, y \in S : f[x] = f[y] => x = y) /\ \A x \in S : f[x] <= x
  BY DEF Backed
<1> DEFINE g == [x \in A |-> IF x \in S THEN f[x] ELSE k]
<1>2. \A x \in A : g[x] = IF x \in S THEN f[x] ELSE k
  OBVIOUS
<1>3. \A x \in A : x \notin S => x = k
  OBVIOUS
<1>4. g \in [A -> B]
  BY <1>1
<1>5. \A x \in S : f[x] \in T /\ f[x] # k
  BY <1>1
<1> HIDE DEF g
<1>6. ASSUME NEW x \in A, NEW y \in A, g[x] = g[y] PROVE x = y
  BY <1>1, <1>2, <1>3, <1>5, <1>6
<1>7. ASSUME NEW x \in A PROVE g[x] <= x
  BY <1>1, <1>2, <1>3
<1> QED
  BY <1>4, <1>6, <1>7 DEF Backed

\* Whatever operation is done with, the first item may go for it.
AllBut(T, k, B) == T \ {k} \subseteq B

LEMMA BackedFirst ==
  ASSUME NEW S \in SUBSET Nat, NEW T \in SUBSET Nat, Backed(S, T),
         NEW a \in S, \A x \in S : a <= x, NEW k,
         NEW A \in SUBSET (S \ {a}), NEW B, AllBut(T, k, B)
  PROVE  Backed(A, B)
<1>1. PICK f \in [S -> T] : (\A x, y \in S : f[x] = f[y] => x = y) /\ \A x \in S : f[x] <= x
  BY DEF Backed
<1> DEFINE g == [x \in A |-> IF f[x] = k THEN f[a] ELSE f[x]]
<1>2. \A x \in A : g[x] = IF f[x] = k THEN f[a] ELSE f[x]
  OBVIOUS
<1>3. \A x \in A : x \in S /\ x # a /\ f[x] \in Nat /\ f[x] \in T /\ f[x] # f[a]
  BY <1>1
<1>4. f[a] \in T /\ f[a] \in Nat /\ f[a] <= a
  BY <1>1
<1>5. ASSUME NEW x \in A PROVE g[x] \in B
  <2>1. g[x] \in T /\ g[x] # k
    BY <1>2, <1>3, <1>4
  <2> QED
    BY <2>1 DEF AllBut
<1>6. g \in [A -> B]
  BY <1>5
<1> HIDE DEF g
<1>7. ASSUME NEW x \in A, NEW y \in A, g[x] = g[y] PROVE x = y
  <2>1. CASE f[x] = k
    BY <1>1, <1>2, <1>3, <1>7, <2>1
  <2>2. CASE f[x] # k
    BY <1>1, <1>2, <1>3, <1>7, <2>2
  <2> QED
    BY <2>1, <2>2
<1>8. ASSUME NEW x \in A PROVE g[x] <= x
  <2>1. a <= x /\ a \in Nat /\ x \in Nat /\ f[x] <= x
    BY <1>1, <1>3
  <2> QED
    BY <1>2, <1>3, <1>4, <2>1
<1> QED
  BY <1>6, <1>7, <1>8 DEF Backed

\* An operation that is answered, like all before it, has no item.
LEMMA BackedLater ==
  ASSUME NEW S \in SUBSET Nat, NEW T \in SUBSET Nat, Backed(S, T), NEW k \in Nat, \A x \in T : k < x
  PROVE  k \notin S
<1>1. PICK f \in [S -> T] : \A x \in S : f[x] <= x
  BY DEF Backed
<1> SUFFICES ASSUME k \in S PROVE FALSE
  OBVIOUS
<1>2. f[k] \in T /\ f[k] \in Nat /\ f[k] <= k /\ k < f[k]
  BY <1>1
<1> QED
  BY <1>2

LEMMA BackedByNone ==
  ASSUME NEW S, Backed(S, {})
  PROVE  S = {}
<1>1. PICK f \in [S -> {}] : TRUE
  BY DEF Backed
<1> QED
  BY <1>1

-----------------------------------------------------------------------------
(* Lists.                                                                  *)

LEMMA LeastIndex ==
  ASSUME NEW I \in SUBSET Nat, I # {}
  PROVE  Min(I) \in I /\ \A j \in I : Min(I) <= j
<1>1. PICK x \in I : \A y \in I : ~(<<y, x>> \in OpToRel(<, Nat))
  BY NatLessThanWellFounded, WFMin
<1>2. ASSUME NEW y \in I PROVE x <= y
  <2>1. x \in Nat /\ y \in Nat
    OBVIOUS
  <2>2. ASSUME y < x PROVE FALSE
    <3>1. <<y, x>> \in Nat \X Nat /\ <<y, x>>[1] < <<y, x>>[2]
      BY <2>1, <2>2
    <3>2. <<y, x>> \in OpToRel(<, Nat)
      BY <3>1 DEF OpToRel
    <3> QED
      BY <1>1, <3>2
  <2> QED
    BY <2>1, <2>2
<1> QED
  BY <1>1, <1>2 DEF Min

LEMMA IdForms ==
  /\ \A n \in Nat : /\ Temp(n) \in Ids /\ Temp(n)[1] = "temp" /\ Temp(n)[2] = n
                    /\ Srv(n) \in Ids /\ Srv(n)[1] = "srv" /\ Srv(n)[2] = n
  /\ \A id \in Ids : /\ id[1] \in {"temp", "srv"} /\ id[2] \in Nat
                     /\ id[1] = "temp" <=> id = Temp(id[2])
                     /\ id[1] = "srv" <=> id = Srv(id[2])
BY DEF Ids, Temp, Srv

LEMMA ListItems ==
  ASSUME NEW is \in Seq(Items)
  PROVE  /\ DOMAIN is = 1..Len(is) /\ Len(is) \in Nat /\ DOMAIN is \in SUBSET Nat
         /\ \A i \in DOMAIN is : /\ is[i] \in Items /\ is[i].id \in Ids /\ is[i].val \in Values
                                 /\ is[i].id \in IdsOf(is)
         /\ IdsOf(is) \in SUBSET Ids /\ Temps(is) \in SUBSET Nat
         /\ \A i \in DOMAIN is : is[i].id[1] = "temp" => is[i].id = Temp(is[i].id[2]) /\ is[i].id[2] \in Temps(is)
<1>1. DOMAIN is = 1..Len(is) /\ Len(is) \in Nat /\ \A i \in DOMAIN is : is[i] \in Items
  OBVIOUS
<1>2. \A i \in DOMAIN is : is[i].id \in Ids /\ is[i].val \in Values /\ is[i].id \in IdsOf(is)
  BY <1>1 DEF Items, IdsOf
<1>3. IdsOf(is) \in SUBSET Ids /\ Temps(is) \in SUBSET Nat
  BY <1>2 DEF IdsOf, Temps
<1>4. ASSUME NEW i \in DOMAIN is, is[i].id[1] = "temp"
      PROVE  is[i].id = Temp(is[i].id[2]) /\ is[i].id[2] \in Temps(is)
  <2>1. is[i].id = Temp(is[i].id[2]) /\ is[i].id[2] \in Nat
    BY <1>2, <1>4, IdForms
  <2> QED
    BY <1>2, <2>1 DEF Temps
<1> QED
  BY <1>1, <1>2, <1>3, <1>4

\* findIndex by id.
LEMMA IdAt ==
  ASSUME NEW is \in Seq(Items), NEW id
  PROVE  \/ /\ IndexOf({k \in DOMAIN is : is[k].id = id}) = 0 /\ id \notin IdsOf(is)
         \/ /\ IndexOf({k \in DOMAIN is : is[k].id = id}) \in DOMAIN is
            /\ IndexOf({k \in DOMAIN is : is[k].id = id}) # 0
            /\ is[IndexOf({k \in DOMAIN is : is[k].id = id})].id = id
            /\ id \in IdsOf(is)
<1> DEFINE I == {k \in DOMAIN is : is[k].id = id}
<1>1. I \in SUBSET Nat /\ I \subseteq DOMAIN is /\ 0 \notin DOMAIN is
  BY ListItems
<1>2. CASE I = {}
  <2>1. id \notin IdsOf(is)
    BY <1>2 DEF IdsOf
  <2> QED
    BY <1>2, <2>1 DEF IndexOf
<1>3. CASE I # {}
  <2>1. Min(I) \in I
    BY <1>1, <1>3, LeastIndex
  <2>2. Min(I) \in DOMAIN is /\ is[Min(I)].id = id
    BY <2>1
  <2>3. id \in IdsOf(is)
    BY <2>2 DEF IdsOf
  <2> QED
    BY <1>1, <1>3, <2>2, <2>3 DEF IndexOf
<1> QED
  BY <1>2, <1>3

\* The first own item without an answer.
LEMMA OwnAt ==
  ASSUME NEW is \in Seq(Items), InTurn(is), Waits(is)
  PROVE  LET at == IndexOf({k \in DOMAIN is : is[k].wait /\ is[k].id[1] = "temp"})
         IN \/ at = 0 /\ Temps(is) = {}
            \/ /\ at \in DOMAIN is /\ at # 0 /\ is[at].id[1] = "temp"
               /\ is[at].id[2] \in Temps(is) /\ \A x \in Temps(is) : is[at].id[2] <= x
<1> DEFINE I == {k \in DOMAIN is : is[k].wait /\ is[k].id[1] = "temp"}
<1>1. I \in SUBSET Nat /\ I \subseteq DOMAIN is /\ 0 \notin DOMAIN is
  BY ListItems
<1>2. ASSUME NEW x \in Temps(is) PROVE \E k \in I : is[k].id[2] = x
  <2>1. PICK k \in DOMAIN is : is[k].id = Temp(x)
    BY DEF Temps, IdsOf
  <2>2. is[k].id[1] = "temp" /\ is[k].id[2] = x
    BY <2>1, IdForms DEF Temps
  <2> QED
    BY <2>2 DEF Waits
<1>3. CASE I = {}
  BY <1>2, <1>3 DEF IndexOf
<1>4. CASE I # {}
  <2> DEFINE a == Min(I)
  <2>1. a \in I /\ \A k \in I : a <= k
    BY <1>1, <1>4, LeastIndex
  <2> HIDE DEF a
  <2>2. a \in DOMAIN is /\ is[a].id[1] = "temp" /\ a # 0 /\ a \in Nat
    BY <1>1, <2>1
  <2>3. is[a].id[2] \in Temps(is) /\ is[a].id[2] \in Nat
    BY <2>2, ListItems DEF Temps
  <2>4. ASSUME NEW x \in Temps(is) PROVE is[a].id[2] <= x
    <3>1. PICK k \in I : is[k].id[2] = x
      BY <1>2
    <3>2. a <= k /\ k \in Nat /\ k \in DOMAIN is /\ is[k].id[1] = "temp" /\ x \in Nat
      BY <1>1, <2>1, <3>1 DEF Temps
    <3>3. a = k \/ a < k
      BY <2>2, <3>2
    <3>4. CASE a < k
      <4>1. is[a].id[2] < is[k].id[2]
        BY <2>2, <3>2, <3>4 DEF InTurn
      <4> QED
        BY <2>3, <3>1, <3>2, <4>1
    <3> QED
      BY <2>3, <3>1, <3>2, <3>3, <3>4
  <2>5. IndexOf(I) = a
    BY <1>4 DEF IndexOf, a
  <2> QED
    BY <2>2, <2>3, <2>4, <2>5
<1> QED
  BY <1>3, <1>4

\* A list with the same ids at the same places.
LEMMA SameShape ==
  ASSUME NEW is \in Seq(Items), NEW js \in Seq(Items), DOMAIN js = DOMAIN is,
         \A i \in DOMAIN is : js[i].id = is[i].id
  PROVE  /\ IdsOf(js) = IdsOf(is) /\ Temps(js) = Temps(is)
         /\ \A k, n : WellFormed(is, k, n) => WellFormed(js, k, n)
<1>1. IdsOf(js) = IdsOf(is)
  BY DEF IdsOf
<1>2. Temps(js) = Temps(is)
  BY <1>1 DEF Temps
<1>3. Distinct(is) => Distinct(js)
  BY DEF Distinct
<1>4. InTurn(is) => InTurn(js)
  BY DEF InTurn
<1>5. ASSUME NEW k, NEW n, Within(is, k, n) PROVE Within(js, k, n)
  BY <1>5 DEF Within
<1> QED
  BY <1>1, <1>2, <1>3, <1>4, <1>5 DEF WellFormed

\* At most one item is taken out.
Skip(at, j) == IF at = 0 \/ j < at THEN j ELSE j + 1

LEMMA WithoutIs ==
  ASSUME NEW is \in Seq(Items), Distinct(is), NEW id
  PROVE  /\ Without(is, id) \in Seq(Items)
         /\ IdsOf(Without(is, id)) = IdsOf(is) \ {id}
         /\ \E at \in Nat : \A j \in DOMAIN Without(is, id) :
              Skip(at, j) \in DOMAIN is /\ Without(is, id)[j] = is[Skip(at, j)]
         /\ \A i \in DOMAIN is : is[i].id # id => \E j \in DOMAIN Without(is, id) : Without(is, id)[j] = is[i]
<1> DEFINE at == IndexOf({k \in DOMAIN is : is[k].id = id})
<1> DEFINE r == Without(is, id)
<1>0. r = IF at = 0 THEN is ELSE RemoveAt(is, at)
  BY DEF Without
<1>a. \/ at = 0 /\ id \notin IdsOf(is)
      \/ at \in DOMAIN is /\ at # 0 /\ is[at].id = id
  BY IdAt
<1> HIDE DEF at, r
<1>1. CASE at = 0 /\ id \notin IdsOf(is)
  <2>1. r = is /\ IdsOf(r) = IdsOf(is) \ {id} /\ \A j \in DOMAIN r : Skip(0, j) = j
    BY <1>0, <1>1 DEF Skip
  <2> QED
    BY <2>1 DEF r
<1>2. CASE at \in DOMAIN is /\ at # 0 /\ is[at].id = id
  <2>1. /\ DOMAIN is = 1..Len(is) /\ Len(is) \in Nat /\ at \in 1..Len(is)
    BY <1>2, ListItems, SMTT(40)
  <2>a. r = RemoveAt(is, at)
    BY <1>0, <1>2
  <2>2. /\ r \in Seq(Items) /\ Len(r) = Len(is) - 1
        /\ \A j \in 1..(Len(is) - 1) : r[j] = IF j < at THEN is[j] ELSE is[j + 1]
    BY <2>1, <2>a, RemoveAtIs
  <2>3. DOMAIN r = 1..(Len(is) - 1)
    BY <2>1, <2>2
  <2>4. ASSUME NEW j \in DOMAIN r
        PROVE  Skip(at, j) \in DOMAIN is /\ r[j] = is[Skip(at, j)] /\ Skip(at, j) # at
    BY <1>2, <2>1, <2>2, <2>3 DEF Skip
  <2>5. ASSUME NEW i \in DOMAIN is, i # at PROVE \E j \in DOMAIN r : r[j] = is[i]
    <3>1. CASE i < at
      <4>1. i \in DOMAIN r
        BY <2>1, <2>3, <3>1
      <4> QED
        BY <2>2, <2>3, <3>1, <4>1
    <3>2. CASE ~(i < at)
      <4>1. i - 1 \in DOMAIN r /\ ~(i - 1 < at) /\ (i - 1) + 1 = i
        BY <2>1, <2>3, <2>5, <3>2
      <4> QED
        BY <2>2, <2>3, <4>1
    <3> QED
      BY <3>1, <3>2
  <2>6. ASSUME NEW x \in IdsOf(r) PROVE x \in IdsOf(is) /\ x # id
    <3>1. PICK j \in DOMAIN r : x = r[j].id
      BY DEF IdsOf
    <3>2. x = is[Skip(at, j)].id /\ Skip(at, j) \in DOMAIN is /\ Skip(at, j) # at
      BY <2>4, <3>1
    <3> QED
      BY <1>2, <3>2 DEF IdsOf, Distinct
  <2>7. ASSUME NEW x \in IdsOf(is), x # id PROVE x \in IdsOf(r)
    <3>1. PICK i \in DOMAIN is : x = is[i].id
      BY DEF IdsOf
    <3>2. PICK j \in DOMAIN r : r[j] = is[i]
      BY <1>2, <2>5, <2>7, <3>1
    <3> QED
      BY <3>1, <3>2 DEF IdsOf
  <2>8. IdsOf(r) = IdsOf(is) \ {id}
    BY <2>6, <2>7
  <2>9. at \in Nat
    BY <2>1
  <2>10. ASSUME NEW i \in DOMAIN is, is[i].id # id PROVE \E j \in DOMAIN r : r[j] = is[i]
    BY <1>2, <2>5, <2>10
  <2> QED
    BY <2>2, <2>4, <2>8, <2>9, <2>10 DEF r
<1> QED
  BY <1>a, <1>1, <1>2

LEMMA WithoutKeeps ==
  ASSUME NEW is \in Seq(Items), Distinct(is), NEW id
  PROVE  /\ \A k, n : WellFormed(is, k, n) => WellFormed(Without(is, id), k, n)
         /\ Waits(is) => Waits(Without(is, id))
         /\ Temps(Without(is, id)) \in SUBSET Temps(is)
         /\ \A j \in DOMAIN Without(is, id) : \E i \in DOMAIN is : Without(is, id)[j] = is[i]
<1> DEFINE r == Without(is, id)
<1>1. PICK at \in Nat : \A j \in DOMAIN r : Skip(at, j) \in DOMAIN is /\ r[j] = is[Skip(at, j)]
  BY WithoutIs
<1>2. r \in Seq(Items) /\ IdsOf(r) = IdsOf(is) \ {id}
  BY WithoutIs
<1> HIDE DEF r
<1>3. DOMAIN r \in SUBSET Nat /\ DOMAIN is \in SUBSET Nat
  BY <1>2, ListItems
<1>4. \A i, j \in DOMAIN r : (Skip(at, i) = Skip(at, j) => i = j) /\ (i < j => Skip(at, i) < Skip(at, j))
  BY <1>3 DEF Skip
<1>5. Distinct(r)
  BY <1>1, <1>4 DEF Distinct
<1>6. InTurn(is) => InTurn(r)
  BY <1>1, <1>4 DEF InTurn
<1>7. ASSUME NEW k, NEW n, Within(is, k, n) PROVE Within(r, k, n)
  BY <1>1, <1>7 DEF Within
<1>8. Waits(is) => Waits(r)
  BY <1>1 DEF Waits
<1>9. Temps(r) \in SUBSET Temps(is)
  BY <1>2 DEF Temps
<1>10. \A j \in DOMAIN r : \E i \in DOMAIN is : r[j] = is[i]
  BY <1>1
<1> QED
  BY <1>5, <1>6, <1>7, <1>8, <1>9, <1>10 DEF WellFormed, r

\* An own item, or one of the server's, at the end.
LEMMA AppendIs ==
  ASSUME NEW is \in Seq(Items), NEW e \in Items, e.id \notin IdsOf(is)
  PROVE  /\ Append(is, e) \in Seq(Items)
         /\ IdsOf(Append(is, e)) = IdsOf(is) \cup {e.id}
         /\ \A j \in DOMAIN Append(is, e) : Append(is, e)[j] = e \/ (j \in DOMAIN is /\ Append(is, e)[j] = is[j])
         /\ Waits(is) /\ (e.id[1] = "temp" => e.wait) => Waits(Append(is, e))
         /\ \A k, l, n, m \in Nat :
              /\ WellFormed(is, k, n) /\ k <= l /\ n <= m
              /\ e.id = Srv(m) \/ (e.id = Temp(l) /\ k < l)
              => WellFormed(Append(is, e), l, m)
<1> DEFINE r == Append(is, e)  z == Len(is) + 1
<1>1. /\ r \in Seq(Items) /\ z \in DOMAIN r /\ r[z] = e
      /\ \A j \in DOMAIN is : j \in DOMAIN r /\ r[j] = is[j]
      /\ \A j \in DOMAIN r : j \in DOMAIN is \/ j = z
      /\ DOMAIN is = 1..Len(is) /\ Len(is) \in Nat
  BY QueueAppend
<1>2. z \notin DOMAIN is /\ z \in Nat /\ \A j \in DOMAIN is : j \in Nat /\ ~(z < j)
  BY <1>1
<1> HIDE DEF r, z
<1>3. ASSUME NEW j \in DOMAIN r PROVE r[j] = e \/ (j \in DOMAIN is /\ r[j] = is[j])
  <2>1. CASE j \in DOMAIN is
    BY <1>1, <2>1
  <2>2. CASE j = z
    BY <1>1, <2>2
  <2> QED
    BY <1>1, <2>1, <2>2
<1>4. IdsOf(r) = IdsOf(is) \cup {e.id}
  BY <1>1 DEF IdsOf
<1>5. Waits(is) /\ (e.id[1] = "temp" => e.wait) => Waits(r)
  BY <1>3 DEF Waits
<1>6. ASSUME NEW k \in Nat, NEW l \in Nat, NEW n \in Nat, NEW m \in Nat, WellFormed(is, k, n), k <= l, n <= m,
             e.id = Srv(m) \/ (e.id = Temp(l) /\ k < l)
      PROVE  WellFormed(r, l, m)
  <2>1. Distinct(r)
    <3> SUFFICES ASSUME NEW i \in DOMAIN r, NEW j \in DOMAIN r, r[i].id = r[j].id PROVE i = j
      BY DEF Distinct
    <3>1. \A x \in DOMAIN is : is[x].id # e.id
      BY DEF IdsOf
    <3> QED
      BY <1>1, <1>6, <3>1 DEF WellFormed, Distinct
  <2>2. ASSUME NEW i \in DOMAIN is, is[i].id[1] = "temp" PROVE is[i].id[2] \in Nat /\ is[i].id[2] <= k
    BY <1>6, <2>2, ListItems, IdForms DEF WellFormed, Within
  <2>3. e.id[1] = "temp" => e.id[2] = l /\ k < l
    BY <1>6, IdForms
  <2>4. InTurn(r)
    <3> SUFFICES ASSUME NEW i \in DOMAIN r, NEW j \in DOMAIN r, i < j, r[i].id[1] = "temp", r[j].id[1] = "temp"
                 PROVE  r[i].id[2] < r[j].id[2]
      BY DEF InTurn
    <3>1. i \in DOMAIN is /\ r[i] = is[i]
      BY <1>1, <1>2
    <3>2. CASE j \in DOMAIN is
      BY <1>1, <1>6, <3>1, <3>2 DEF WellFormed, InTurn
    <3>3. CASE j = z
      <4>1. r[j].id[2] = l /\ k < l /\ is[i].id[2] \in Nat /\ is[i].id[2] <= k
        BY <1>1, <2>2, <2>3, <3>1, <3>3
      <4> QED
        BY <3>1, <4>1
    <3> QED
      BY <1>1, <3>2, <3>3
  <2>5. Within(r, l, m)
    <3> SUFFICES ASSUME NEW i \in DOMAIN r PROVE r[i].id[2] <= IF r[i].id[1] = "temp" THEN l ELSE m
      BY DEF Within
    <3>1. CASE r[i] = e
      BY <1>6, <3>1, IdForms
    <3>2. CASE i \in DOMAIN is /\ r[i] = is[i]
      <4>1. is[i].id[2] \in Nat /\ is[i].id[2] <= IF is[i].id[1] = "temp" THEN k ELSE n
        BY <1>6, <3>2, ListItems, IdForms DEF WellFormed, Within
      <4> QED
        BY <1>6, <3>2, <4>1
    <3> QED
      BY <1>3, <3>1, <3>2
  <2> QED
    BY <2>1, <2>4, <2>5 DEF WellFormed
<1> QED
  BY <1>1, <1>3, <1>4, <1>5, <1>6 DEF r

\* An item of the server's in the place of an own one.
IsReplaced(is, at, e, r) ==
  /\ r \in Seq(Items)
  /\ IdsOf(r) = (IdsOf(is) \ {is[at].id}) \cup {e.id}
  /\ \A j \in DOMAIN r : r[j] = e \/ (j \in DOMAIN is /\ r[j] = is[j])
  /\ Waits(is) => Waits(r)
  /\ \A k, n \in Nat : WellFormed(is, k, n) /\ e.id[2] <= n => WellFormed(r, k, n)

LEMMA ReplacedIs ==
  ASSUME NEW is \in Seq(Items), NEW at \in DOMAIN is, is[at].id[1] = "temp", Distinct(is),
         NEW e \in Items, e.id[1] = "srv", e.id \notin IdsOf(is),
         NEW r \in Seq(Items), DOMAIN r = DOMAIN is, r[at] = e, \A j \in DOMAIN is : j # at => r[j] = is[j]
  PROVE  IsReplaced(is, at, e, r)
<1>1. \A j \in DOMAIN is : j # at => r[j] = is[j]
  OBVIOUS
<1>2. ASSUME NEW j \in DOMAIN r PROVE r[j] = e \/ (j \in DOMAIN is /\ r[j] = is[j])
  <2>1. CASE j = at
    BY <2>1
  <2>2. CASE j # at
    BY <1>1, <2>2
  <2> QED
    BY <2>1, <2>2
<1>3. IdsOf(r) = (IdsOf(is) \ {is[at].id}) \cup {e.id}
  <2>1. ASSUME NEW x \in IdsOf(r) PROVE x \in (IdsOf(is) \ {is[at].id}) \cup {e.id}
    <3>1. PICK j \in DOMAIN r : x = r[j].id
      BY DEF IdsOf
    <3> QED
      BY <1>1, <3>1 DEF IdsOf, Distinct
  <2>2. ASSUME NEW x \in IdsOf(is), x # is[at].id PROVE x \in IdsOf(r)
    <3>1. PICK j \in DOMAIN is : x = is[j].id
      BY DEF IdsOf
    <3> QED
      BY <1>1, <2>2, <3>1 DEF IdsOf
  <2>3. e.id \in IdsOf(r)
    BY <1>1 DEF IdsOf
  <2> QED
    BY <2>1, <2>2, <2>3
<1>4. Waits(is) => Waits(r)
  BY <1>2 DEF Waits
<1>5. ASSUME NEW k \in Nat, NEW n \in Nat, WellFormed(is, k, n), e.id[2] <= n PROVE WellFormed(r, k, n)
  <2>1. \A x \in DOMAIN is : is[x].id # e.id
    BY DEF IdsOf
  <2>2. Distinct(r)
    BY <1>1, <2>1 DEF Distinct
  <2>3. InTurn(r)
    BY <1>1, <1>5 DEF WellFormed, InTurn
  <2>4. Within(r, k, n)
    BY <1>1, <1>5 DEF WellFormed, Within
  <2> QED
    BY <2>2, <2>3, <2>4 DEF WellFormed
<1> QED
  BY <1>1, <1>2, <1>3, <1>4, <1>5 DEF IsReplaced

\* _handleItemInserted.
LEMMA InsertedIs ==
  ASSUME NEW is \in Seq(Items), NEW e \in Items, e.id[1] = "srv", e.id \notin IdsOf(is),
         NEW k \in Nat, NEW n \in Nat, WellFormed(is, k, n), e.id[2] <= n
  PROVE  /\ Inserted(is, e) \in Seq(Items) /\ WellFormed(Inserted(is, e), k, n)
         /\ \A m \in Nat : Srv(m) \in IdsOf(Inserted(is, e)) <=> Srv(m) = e.id \/ Srv(m) \in IdsOf(is)
         /\ IdsOf(Inserted(is, e)) \subseteq IdsOf(is) \cup {e.id}
         /\ \A j \in DOMAIN Inserted(is, e) :
              Inserted(is, e)[j] = e \/ (j \in DOMAIN is /\ Inserted(is, e)[j] = is[j])
         /\ Waits(is) =>
              /\ Waits(Inserted(is, e))
              /\ \/ Temps(is) = {} /\ Temps(Inserted(is, e)) = {}
                 \/ \E a \in Temps(is) : /\ \A x \in Temps(is) : a <= x
                                         /\ Temps(Inserted(is, e)) \subseteq Temps(is) \ {a}
<1> DEFINE at == IndexOf({i \in DOMAIN is : is[i].wait /\ is[i].id[1] = "temp"})
<1> DEFINE r == Inserted(is, e)
<1>1. r = IF at = 0 THEN Append(is, e) ELSE [is EXCEPT ![at] = e]
  BY DEF Inserted
<1>2. at = 0 \/ (at \in DOMAIN is /\ is[at].id[1] = "temp")
  <2> DEFINE I == {i \in DOMAIN is : is[i].wait /\ is[i].id[1] = "temp"}
  <2>1. I \in SUBSET Nat
    BY ListItems
  <2>2. I # {} => Min(I) \in I
    BY <2>1, LeastIndex
  <2>3. at = IF I = {} THEN 0 ELSE Min(I)
    BY DEF IndexOf
  <2>4. \A x \in I : x \in DOMAIN is /\ is[x].id[1] = "temp"
    OBVIOUS
  <2>5. at = 0 \/ at \in I
    BY <2>2, <2>3
  <2> HIDE DEF at, I
  <2> QED
    BY <2>4, <2>5
<1>3. Waits(is) => \/ at = 0 /\ Temps(is) = {}
                   \/ /\ at \in DOMAIN is /\ at # 0 /\ is[at].id[1] = "temp"
                      /\ is[at].id[2] \in Temps(is) /\ \A x \in Temps(is) : is[at].id[2] <= x
  BY OwnAt DEF WellFormed
<1> HIDE DEF at, r
<1>4. /\ e.id \in Ids /\ e.id = Srv(e.id[2]) /\ e.id[2] \in Nat
      /\ \A m \in Nat : Srv(m)[1] = "srv" /\ Temp(m)[1] = "temp" /\ Temp(m)[2] = m
  BY IdForms DEF Items
<1>5. CASE at = 0
  <2>1. r = Append(is, e)
    BY <1>1, <1>5
  <2>2. /\ r \in Seq(Items) /\ IdsOf(r) = IdsOf(is) \cup {e.id} /\ (Waits(is) => Waits(r))
        /\ \A j \in DOMAIN r : r[j] = e \/ (j \in DOMAIN is /\ r[j] = is[j])
    BY <1>4, <2>1, AppendIs
  <2>3. WellFormed(r, k, n)
    <3>1. Distinct(r)
      <4>1. /\ \A j \in DOMAIN is : r[j] = is[j] /\ is[j].id # e.id
            /\ \A j \in DOMAIN r : j \in DOMAIN is \/ (j = Len(is) + 1 /\ r[j] = e)
        BY <2>1, QueueAppend DEF IdsOf
      <4> QED
        BY <4>1 DEF Distinct, WellFormed
    <3>2. InTurn(r)
      <4>1. \A j \in DOMAIN r : r[j].id[1] = "temp" => j \in DOMAIN is /\ r[j] = is[j]
        BY <1>4, <2>2
      <4> QED
        BY <4>1 DEF InTurn, WellFormed
    <3>3. Within(r, k, n)
      BY <1>4, <2>2 DEF Within, WellFormed
    <3> QED
      BY <3>1, <3>2, <3>3 DEF WellFormed
  <2>4. Temps(r) = Temps(is)
    BY <1>4, <2>2 DEF Temps
  <2>5. Waits(is) => Temps(is) = {}
    BY <1>3, <1>5
  <2> QED
    BY <1>4, <2>2, <2>3, <2>4, <2>5 DEF r
<1>6. CASE at # 0
  <2>1. r = [is EXCEPT ![at] = e] /\ at \in DOMAIN is /\ is[at].id[1] = "temp"
    BY <1>1, <1>2, <1>6
  <2>2. /\ r \in Seq(Items) /\ IdsOf(r) = (IdsOf(is) \ {is[at].id}) \cup {e.id} /\ (Waits(is) => Waits(r))
        /\ \A j \in DOMAIN r : r[j] = e \/ (j \in DOMAIN is /\ r[j] = is[j])
        /\ WellFormed(r, k, n)
    <3>1. Distinct(is)
      BY DEF WellFormed
    <3>3. r \in Seq(Items) /\ DOMAIN r = DOMAIN is /\ r[at] = e /\ \A j \in DOMAIN is : j # at => r[j] = is[j]
      BY <2>1
    <3>2. IsReplaced(is, at, e, r)
      BY <2>1, <3>1, <3>3, ReplacedIs
    <3> QED
      BY <3>2 DEF IsReplaced
  <2>3. is[at].id = Temp(is[at].id[2]) /\ is[at].id[2] \in Nat
    BY <2>1, ListItems
  <2>4. Temps(r) \subseteq Temps(is) \ {is[at].id[2]}
    BY <1>4, <2>2, <2>3 DEF Temps
  <2>5. Waits(is) => is[at].id[2] \in Temps(is) /\ \A x \in Temps(is) : is[at].id[2] <= x
    BY <1>3, <1>6
  <2>6. \A m \in Nat : Srv(m) \in IdsOf(r) <=> Srv(m) = e.id \/ Srv(m) \in IdsOf(is)
    BY <1>4, <2>1, <2>2
  <2> QED
    BY <2>2, <2>4, <2>5, <2>6 DEF r
<1> QED
  BY <1>5, <1>6

LEMMA UpdatedIs ==
  ASSUME NEW is \in Seq(Items), NEW id \in Ids, NEW v \in Values
  PROVE  /\ Updated(is, id, v) \in Seq(Items) /\ DOMAIN Updated(is, id, v) = DOMAIN is
         /\ \A i \in DOMAIN is : Updated(is, id, v)[i].id = is[i].id
         /\ Distinct(is) => \A i \in DOMAIN is : Updated(is, id, v)[i].val = IF is[i].id = id THEN v ELSE is[i].val
         /\ id[1] = "srv" /\ Waits(is) => Waits(Updated(is, id, v))
<1> DEFINE at == IndexOf({k \in DOMAIN is : is[k].id = id})
<1> DEFINE r == Updated(is, id, v)
<1>1. r = IF at = 0 THEN is ELSE [is EXCEPT ![at].val = v, ![at].wait = FALSE]
  BY DEF Updated
<1>2. \/ at = 0 /\ id \notin IdsOf(is)
      \/ at \in DOMAIN is /\ at # 0 /\ is[at].id = id
  BY IdAt
<1> HIDE DEF at, r
<1>3. CASE at = 0 /\ id \notin IdsOf(is)
  <2>1. r = is /\ \A i \in DOMAIN is : is[i].id # id
    BY <1>1, <1>3 DEF IdsOf
  <2> QED
    BY <2>1 DEF r
<1>4. CASE at \in DOMAIN is /\ at # 0 /\ is[at].id = id
  <2> DEFINE e == [[is[at] EXCEPT !.val = v] EXCEPT !.wait = FALSE]
  <2>1. is[at] \in Items
    BY <1>4, ListItems
  <2>a. e = [[is[at] EXCEPT !.val = v] EXCEPT !.wait = FALSE]
    OBVIOUS
  <2>3. r = [is EXCEPT ![at] = e]
    BY <1>1, <1>4
  <2> HIDE DEF e
  <2>2. e \in Items /\ e.id = id /\ e.val = v
    <3> DEFINE i == is[at]
    <3>1. i \in Items /\ i.id = id /\ e = [[i EXCEPT !.val = v] EXCEPT !.wait = FALSE]
      BY <1>4, <2>1, <2>a
    <3> HIDE DEF i
    <3> QED
      BY <3>1 DEF Items
  <2>4. /\ r \in Seq(Items) /\ DOMAIN r = DOMAIN is /\ r[at] = e
        /\ \A i \in DOMAIN is : i # at => r[i] = is[i]
    BY <1>4, <2>2, <2>3
  <2>5. \A i \in DOMAIN is : r[i].id = is[i].id
    BY <1>4, <2>2, <2>4
  <2>6. Distinct(is) => \A i \in DOMAIN is : r[i].val = IF is[i].id = id THEN v ELSE is[i].val
    BY <1>4, <2>2, <2>4 DEF Distinct
  <2>7. id[1] = "srv" /\ Waits(is) => Waits(r)
    BY <2>2, <2>4 DEF Waits
  <2> QED
    BY <2>4, <2>5, <2>6, <2>7 DEF r
<1> QED
  BY <1>2, <1>3, <1>4

LEMMA AckedIs ==
  ASSUME NEW is \in Seq(Items), NEW o \in Operations
  PROVE  /\ Acked(is, o) \in Seq(Items) /\ DOMAIN Acked(is, o) = DOMAIN is
         /\ \A i \in DOMAIN is : Acked(is, o)[i].id = is[i].id /\ Acked(is, o)[i].val = is[i].val
         /\ (o.id[1] = "srv" \/ o.id \notin IdsOf(is)) /\ Waits(is) => Waits(Acked(is, o))
<1> DEFINE at == IndexOf({k \in DOMAIN is : is[k].id = o.id})
<1> DEFINE r == Acked(is, o)
<1>1. r = IF o.type = "Delete" \/ at = 0 THEN is ELSE [is EXCEPT ![at].wait = FALSE]
  BY DEF Acked
<1>2. \/ at = 0 /\ o.id \notin IdsOf(is)
      \/ at \in DOMAIN is /\ at # 0 /\ is[at].id = o.id
  BY IdAt
<1> HIDE DEF at, r
<1>3. CASE r = is
  BY <1>3 DEF r
<1>4. CASE r # is
  <2> DEFINE e == [is[at] EXCEPT !.wait = FALSE]
  <2>1. is[at] \in Items /\ at \in DOMAIN is /\ is[at].id = o.id
    BY <1>1, <1>2, <1>4, ListItems
  <2>a. e = [is[at] EXCEPT !.wait = FALSE]
    OBVIOUS
  <2>3. r = [is EXCEPT ![at] = e]
    BY <1>1, <1>4
  <2> HIDE DEF e
  <2>2. e \in Items /\ e.id = is[at].id /\ e.val = is[at].val
    <3> DEFINE i == is[at]
    <3>1. i \in Items /\ e = [i EXCEPT !.wait = FALSE]
      BY <2>1, <2>a
    <3> HIDE DEF i
    <3>2. e \in Items /\ e.id = i.id /\ e.val = i.val
      BY <3>1 DEF Items
    <3> QED
      BY <3>2 DEF i
  <2>4. /\ r \in Seq(Items) /\ DOMAIN r = DOMAIN is /\ r[at] = e
        /\ \A i \in DOMAIN is : i # at => r[i] = is[i]
    BY <2>1, <2>2, <2>3
  <2>5. \A i \in DOMAIN is : r[i].id = is[i].id /\ r[i].val = is[i].val
    BY <2>2, <2>4
  <2>6. o.id \in IdsOf(is)
    BY <2>1 DEF IdsOf
  <2>7. o.id[1] = "srv" /\ Waits(is) => Waits(r)
    BY <2>1, <2>2, <2>4 DEF Waits
  <2> QED
    BY <2>4, <2>5, <2>6, <2>7 DEF r
<1> QED
  BY <1>3, <1>4

-----------------------------------------------------------------------------
(* A page's list and the server's.                                         *)

LEMMA FitsMore ==
  ASSUME NEW is, NEW t, NEW I, NEW V, NEW W, Fits(is, t, I, V, W),
         NEW J, I \subseteq J, NEW X, V \subseteq X, NEW Y, W \subseteq Y
  PROVE  Fits(is, t, J, X, Y)
<1>1. SameIds(is, t, J) /\ SameVals(is, t, X)
  BY DEF Fits, SameIds, SameVals
<1>2. Backed(Temps(is), Y)
  BY BackedFewer DEF Fits
<1> QED
  BY <1>1, <1>2 DEF Fits

\* What the server tells a page is what it does to its list.
LEMMA FitsInserted ==
  ASSUME NEW is \in Seq(Items), NEW t \in Seq(Items), NEW I, NEW V, NEW W, Fits(is, t, I, V, W),
         NEW e \in Items
  PROVE  Fits(is, Append(t, e), I \cup {e.id}, V \cup {e.id}, W)
<1> DEFINE r == Append(t, e)
<1>1. /\ \A j \in DOMAIN t : j \in DOMAIN r /\ r[j] = t[j]
      /\ \A j \in DOMAIN r : r[j] = e \/ (j \in DOMAIN t /\ r[j] = t[j])
  <2>1. /\ Len(t) + 1 \in DOMAIN r /\ r[Len(t) + 1] = e
        /\ \A j \in DOMAIN t : j \in DOMAIN r /\ r[j] = t[j]
        /\ \A j \in DOMAIN r : j \in DOMAIN t \/ j = Len(t) + 1
    BY QueueAppend
  <2> HIDE DEF r
  <2> QED
    BY <2>1
<1> HIDE DEF r
<1>2. ASSUME NEW n \in Nat, Srv(n) \notin I, Srv(n) # e.id PROVE Srv(n) \in IdsOf(r) <=> Srv(n) \in IdsOf(t)
  BY <1>1, <1>2 DEF IdsOf
<1>3. SameIds(is, r, I \cup {e.id})
  BY <1>2 DEF Fits, SameIds
<1>4. SameVals(is, r, V \cup {e.id})
  BY <1>1 DEF Fits, SameVals
<1> QED
  BY <1>3, <1>4 DEF Fits, r

LEMMA FitsUpdated ==
  ASSUME NEW is \in Seq(Items), NEW t, NEW I, NEW V, NEW W, Fits(is, t, I, V, W),
         NEW id, NEW r, DOMAIN r = DOMAIN t,
         \A j \in DOMAIN t : r[j].id = t[j].id /\ (t[j].id # id => r[j].val = t[j].val)
  PROVE  Fits(is, r, I, V \cup {id}, W)
<1>1. IdsOf(r) = IdsOf(t)
  BY DEF IdsOf
<1>2. SameIds(is, r, I)
  BY <1>1 DEF Fits, SameIds
<1>3. SameVals(is, r, V \cup {id})
  BY DEF Fits, SameVals
<1> QED
  BY <1>2, <1>3 DEF Fits

LEMMA FitsDeleted ==
  ASSUME NEW is \in Seq(Items), NEW t \in Seq(Items), Distinct(t), NEW I, NEW V, NEW W, Fits(is, t, I, V, W), NEW id
  PROVE  Fits(is, Without(t, id), I \cup {id}, V, W)
<1> DEFINE r == Without(t, id)
<1>1. IdsOf(r) = IdsOf(t) \ {id} /\ \A j \in DOMAIN r : \E i \in DOMAIN t : r[j] = t[i]
  BY WithoutIs, WithoutKeeps
<1> HIDE DEF r
<1>2. SameIds(is, r, I \cup {id})
  BY <1>1 DEF Fits, SameIds
<1>3. SameVals(is, r, V)
  <2> SUFFICES ASSUME NEW i \in DOMAIN is, NEW j \in DOMAIN r, is[i].id = r[j].id
               PROVE  is[i].id \in V \/ is[i].val = r[j].val
    BY DEF SameVals
  <2>1. PICK m \in DOMAIN t : r[j] = t[m]
    BY <1>1
  <2> QED
    BY <2>1 DEF Fits, SameVals
<1> QED
  BY <1>2, <1>3 DEF Fits, r

\* What a page does is what it asks for.
LEMMA FitsInsert ==
  ASSUME NEW is \in Seq(Items), NEW t, NEW I, NEW V, NEW W, Fits(is, t, I, V, W),
         NEW k \in Nat, k \notin W, NEW e \in Items, e.id = Temp(k), e.wait, e.id \notin IdsOf(is), e.id \notin IdsOf(t)
  PROVE  Fits(Append(is, e), t, I, V, W \cup {k})
<1> DEFINE r == Append(is, e)
<1>1. /\ IdsOf(r) = IdsOf(is) \cup {e.id}
      /\ \A j \in DOMAIN r : r[j] = e \/ (j \in DOMAIN is /\ r[j] = is[j])
      /\ Waits(r)
  BY AppendIs DEF Fits
<1> HIDE DEF r
<1>2. \A n \in Nat : Srv(n) # e.id /\ (Temp(n) = e.id => n = k)
  BY IdForms
<1>3. SameIds(is, t, I) /\ SameVals(is, t, V) /\ Backed(Temps(is), W)
  BY DEF Fits
<1>4. SameIds(r, t, I)
  BY <1>1, <1>2, <1>3 DEF SameIds
<1>5. SameVals(r, t, V)
  <2> SUFFICES ASSUME NEW i \in DOMAIN r, NEW j \in DOMAIN t, r[i].id = t[j].id
               PROVE  r[i].id \in V \/ r[i].val = t[j].val
    BY DEF SameVals
  <2>1. r[i] # e
    BY DEF IdsOf
  <2>2. i \in DOMAIN is /\ r[i] = is[i]
    BY <1>1, <2>1
  <2> QED
    BY <1>3, <2>2 DEF SameVals
<1>6. Temps(r) \in SUBSET (Temps(is) \cup {k})
  BY <1>1, <1>2 DEF Temps
<1>7. Backed(Temps(r), W \cup {k})
  BY <1>3, <1>6, BackedMore
<1> QED
  BY <1>1, <1>4, <1>5, <1>7 DEF Fits, r

LEMMA FitsUpdate ==
  ASSUME NEW is \in Seq(Items), NEW t, NEW I, NEW V, NEW W, Fits(is, t, I, V, W),
         NEW id, NEW r, DOMAIN r = DOMAIN is, Waits(r),
         \A i \in DOMAIN is : r[i].id = is[i].id /\ (is[i].id # id => r[i].val = is[i].val)
  PROVE  Fits(r, t, I, V \cup {id}, W)
<1>1. IdsOf(r) = IdsOf(is)
  BY DEF IdsOf
<1>2. SameIds(r, t, I)
  BY <1>1 DEF Fits, SameIds
<1>3. SameVals(r, t, V \cup {id})
  BY DEF Fits, SameVals
<1>4. Temps(r) = Temps(is)
  BY <1>1 DEF Temps
<1> QED
  BY <1>2, <1>3, <1>4 DEF Fits

LEMMA FitsDelete ==
  ASSUME NEW is \in Seq(Items), Distinct(is), NEW t, NEW I, NEW V, NEW W, Fits(is, t, I, V, W), NEW id
  PROVE  Fits(Without(is, id), t, I \cup {id}, V, W)
<1> DEFINE r == Without(is, id)
<1>1. /\ IdsOf(r) = IdsOf(is) \ {id} /\ \A j \in DOMAIN r : \E i \in DOMAIN is : r[j] = is[i]
      /\ Waits(r) /\ Temps(r) \in SUBSET Temps(is)
  BY WithoutIs, WithoutKeeps DEF Fits
<1> HIDE DEF r
<1>2. SameIds(r, t, I \cup {id})
  BY <1>1 DEF Fits, SameIds
<1>3. SameVals(r, t, V)
  <2> SUFFICES ASSUME NEW i \in DOMAIN r, NEW j \in DOMAIN t, r[i].id = t[j].id
               PROVE  r[i].id \in V \/ r[i].val = t[j].val
    BY DEF SameVals
  <2>1. PICK m \in DOMAIN is : r[i] = is[m]
    BY <1>1
  <2> QED
    BY <2>1 DEF Fits, SameVals
<1>4. Backed(Temps(r), W)
  BY <1>1, BackedFewer DEF Fits
<1> QED
  BY <1>1, <1>2, <1>3, <1>4 DEF Fits, r

\* What a page is told brings its list to the server's.
LEMMA FitsInsertedHere ==
  ASSUME NEW is \in Seq(Items), NEW t, NEW I, NEW V, NEW W \in SUBSET Nat, Fits(is, t, I, V, W),
         NEW e \in Items, e.id[1] = "srv", e.id \notin IdsOf(is),
         NEW k \in Nat, NEW n \in Nat, WellFormed(is, k, n), e.id[2] <= n,
         NEW J, I \subseteq J \cup {e.id}, e.id \in J \/ e.id \in IdsOf(t),
         NEW X, V \subseteq X \cup {e.id}, e.id \in X \/ Valued(t, e.id, e.val),
         NEW Y, NEW w, AllBut(W, w, Y)
  PROVE  Fits(Inserted(is, e), t, J, X, Y)
<1> DEFINE r == Inserted(is, e)
<1>1. /\ \A m \in Nat : Srv(m) \in IdsOf(r) <=> Srv(m) = e.id \/ Srv(m) \in IdsOf(is)
      /\ \A j \in DOMAIN r : r[j] = e \/ (j \in DOMAIN is /\ r[j] = is[j])
      /\ Waits(r)
      /\ \/ Temps(is) = {} /\ Temps(r) = {}
         \/ \E a \in Temps(is) : (\A x \in Temps(is) : a <= x) /\ Temps(r) \subseteq Temps(is) \ {a}
  BY InsertedIs DEF Fits
<1> HIDE DEF r
<1>2. SameIds(is, t, I) /\ SameVals(is, t, V) /\ Backed(Temps(is), W) /\ Temps(is) \in SUBSET Nat
  BY ListItems DEF Fits
<1>3. SameIds(r, t, J)
  BY <1>1, <1>2 DEF SameIds
<1>4. SameVals(r, t, X)
  <2> SUFFICES ASSUME NEW i \in DOMAIN r, NEW j \in DOMAIN t, r[i].id = t[j].id
               PROVE  r[i].id \in X \/ r[i].val = t[j].val
    BY DEF SameVals
  <2>1. CASE r[i] = e
    BY <2>1 DEF Valued
  <2>2. CASE i \in DOMAIN is /\ r[i] = is[i]
    <3>1. is[i].id # e.id
      BY <2>2 DEF IdsOf
    <3> QED
      BY <1>2, <2>2, <3>1 DEF SameVals
  <2> QED
    BY <1>1, <2>1, <2>2
<1>5. Backed(Temps(r), Y)
  <2>1. CASE Temps(r) = {}
    BY <2>1, BackedNone
  <2>2. CASE \E a \in Temps(is) : (\A x \in Temps(is) : a <= x) /\ Temps(r) \subseteq Temps(is) \ {a}
    <3>1. PICK a \in Temps(is) : (\A x \in Temps(is) : a <= x) /\ Temps(r) \subseteq Temps(is) \ {a}
      BY <2>2
    <3>2. Temps(r) \in SUBSET (Temps(is) \ {a})
      BY <3>1
    <3> DEFINE S == Temps(is)  A == Temps(r)
    <3>3. /\ S \in SUBSET Nat /\ W \in SUBSET Nat /\ Backed(S, W) /\ a \in S /\ A \in SUBSET (S \ {a})
          /\ AllBut(W, w, Y)
      BY <1>2, <3>1, <3>2
    <3>4. \A x \in S : a <= x
      BY <3>1
    <3> HIDE DEF S, A
    <3>5. Backed(A, Y)
      BY ONLY <3>3, <3>4, BackedFirst
    <3> QED
      BY <3>5 DEF A
  <2> QED
    BY <1>1, <2>1, <2>2
<1> QED
  BY <1>1, <1>3, <1>4, <1>5 DEF Fits, r

LEMMA FitsUpdatedHere ==
  ASSUME NEW is \in Seq(Items), Distinct(is), NEW t, NEW I, NEW V, NEW W, Fits(is, t, I, V, W),
         NEW id \in Ids, id[1] = "srv", NEW v \in Values,
         NEW X, V \subseteq X \cup {id}, id \in X \/ Valued(t, id, v)
  PROVE  Fits(Updated(is, id, v), t, I, X, W)
<1> DEFINE r == Updated(is, id, v)
<1>1. /\ r \in Seq(Items) /\ DOMAIN r = DOMAIN is /\ Waits(r)
      /\ \A i \in DOMAIN is : r[i].id = is[i].id /\ r[i].val = IF is[i].id = id THEN v ELSE is[i].val
  BY UpdatedIs DEF Fits
<1> HIDE DEF r
<1>2. IdsOf(r) = IdsOf(is) /\ Temps(r) = Temps(is)
  BY <1>1, SameShape
<1>3. SameIds(r, t, I)
  BY <1>2 DEF Fits, SameIds
<1>4. SameVals(r, t, X)
  <2> SUFFICES ASSUME NEW i \in DOMAIN r, NEW j \in DOMAIN t, r[i].id = t[j].id
               PROVE  r[i].id \in X \/ r[i].val = t[j].val
    BY DEF SameVals
  <2>1. i \in DOMAIN is /\ r[i].id = is[i].id
    BY <1>1
  <2>2. CASE is[i].id = id
    BY <1>1, <2>1, <2>2 DEF Valued
  <2>3. CASE is[i].id # id
    BY <1>1, <2>1, <2>3 DEF Fits, SameVals
  <2> QED
    BY <2>2, <2>3
<1> QED
  BY <1>1, <1>2, <1>3, <1>4 DEF Fits, r

LEMMA FitsDeletedHere ==
  ASSUME NEW is \in Seq(Items), Distinct(is), NEW t, NEW I, NEW V, NEW W, Fits(is, t, I, V, W), NEW id,
         NEW J, I \subseteq J \cup {id}, id \in J \/ id \notin IdsOf(t)
  PROVE  Fits(Without(is, id), t, J, V, W)
<1> DEFINE r == Without(is, id)
<1>1. IdsOf(r) = IdsOf(is) \ {id}
  BY WithoutIs
<1>2. Fits(r, t, I \cup {id}, V, W)
  BY FitsDelete
<1> HIDE DEF r
<1>3. SameIds(is, t, I)
  BY DEF Fits
<1>4. SameIds(r, t, J)
  BY <1>1, <1>3 DEF SameIds
<1> QED
  BY <1>2, <1>4 DEF Fits, r

LEMMA FitsAcked ==
  ASSUME NEW is \in Seq(Items), NEW t, NEW I, NEW V, NEW W, Fits(is, t, I, V, W),
         NEW o \in Operations, o.id[1] = "srv" \/ o.id \notin IdsOf(is)
  PROVE  Fits(Acked(is, o), t, I, V, W)
<1> DEFINE r == Acked(is, o)
<1>1. /\ r \in Seq(Items) /\ DOMAIN r = DOMAIN is /\ Waits(r)
      /\ \A i \in DOMAIN is : r[i].id = is[i].id /\ r[i].val = is[i].val
  BY AckedIs DEF Fits
<1> HIDE DEF r
<1>2. IdsOf(r) = IdsOf(is) /\ Temps(r) = Temps(is)
  BY <1>1, SameShape
<1>3. SameIds(r, t, I) /\ SameVals(r, t, V)
  BY <1>1, <1>2 DEF Fits, SameIds, SameVals
<1> QED
  BY <1>1, <1>2, <1>3 DEF Fits, r

\* A snapshot is the server's list.
LEMMA FitsItself ==
  ASSUME NEW t, Distinct(t), Temps(t) = {}, Waits(t), NEW I, NEW V, NEW W
  PROVE  Fits(t, t, I, V, W)
<1>1. SameIds(t, t, I)
  BY DEF SameIds
<1>2. SameVals(t, t, V)
  BY DEF SameVals, Distinct
<1> QED
  BY <1>1, <1>2, BackedNone DEF Fits

-----------------------------------------------------------------------------
(* What is on its way explains the differences between a page's list and   *)
(* the server's.                                                           *)

\* What e, d explain for operations os, f, g explain for qs.
Explains(u, d, os, x, v, g, qs, y) ==
  /\ Moves(u, d, os, x) \subseteq Moves(v, g, qs, y)
  /\ Edits(u, d, os, x) \subseteq Edits(v, g, qs, y)
  /\ Owed(u, d, x) \subseteq Owed(v, g, y)

LEMMA AgreesMore ==
  ASSUME NEW is, NEW t, NEW u, NEW d, NEW os, NEW x, NEW v, NEW g, NEW qs, NEW y,
         Agrees(is, t, u, d, os, x), Explains(u, d, os, x, v, g, qs, y)
  PROVE  Agrees(is, t, v, g, qs, y)
BY FitsMore DEF Agrees, Explains

LEMMA HopesExplain ==
  ASSUME NEW u, NEW d, NEW os, NEW x, NEW v, NEW g, NEW qs, NEW y,
         \A id \in Ids : /\ Makes(d, id) => Makes(g, id)
                         /\ Sets(d, id) => Sets(g, id)
                         /\ Drops(d, id) => Drops(g, id)
                         /\ Hopes(u, d, os, x, "Delete", id) => Drops(g, id) \/ Hopes(v, g, qs, y, "Delete", id)
                         /\ Hopes(u, d, os, x, "Update", id) => Sets(g, id) \/ Hopes(v, g, qs, y, "Update", id),
         Owed(u, d, x) \subseteq Owed(v, g, y)
  PROVE  Explains(u, d, os, x, v, g, qs, y)
BY DEF Explains, Moves, Edits

Events == {"ItemInserted", "ItemUpdated", "ItemDeleted"}

\* An event tells more.
LEMMA EventExplains ==
  ASSUME NEW d \in Seq(Replies), NEW e \in Replies, e.type \in Events, NEW u, NEW os, NEW x
  PROVE  /\ Explains(u, d, os, x, u, Append(d, e), os, x)
         /\ e.type = "ItemInserted" => /\ e.item.id \in Moves(u, Append(d, e), os, x)
                                       /\ e.item.id \in Edits(u, Append(d, e), os, x)
         /\ e.type = "ItemUpdated" => e.id \in Edits(u, Append(d, e), os, x)
         /\ e.type = "ItemDeleted" => e.id \in Moves(u, Append(d, e), os, x)
<1> DEFINE b == Append(d, e)
<1>1. \A id : /\ Makes(b, id) <=> (e.type = "ItemInserted" /\ e.item.id = id) \/ Makes(d, id)
              /\ Sets(b, id) <=> (e.type = "ItemUpdated" /\ e.id = id) \/ Sets(d, id)
              /\ Drops(b, id) <=> (e.type = "ItemDeleted" /\ e.id = id) \/ Drops(d, id)
  BY AppendTells
<1>2. \A k : (Refuses(d, k) => Refuses(b, k)) /\ (Confirms(d, k) => Confirms(b, k))
  BY AppendAnswers
<1> HIDE DEF b
<1>3. \A kind, id : Hopes(u, d, os, x, kind, id) => Hopes(u, b, os, x, kind, id)
  BY <1>2 DEF Hopes, Fails
<1>4. Owed(u, d, x) \subseteq Owed(u, b, x)
  BY <1>2 DEF Owed
<1>5. Explains(u, d, os, x, u, b, os, x)
  BY <1>1, <1>3, <1>4, HopesExplain
<1>6. /\ e.type = "ItemInserted" => e.item.id \in Ids
      /\ e.type \in {"ItemUpdated", "ItemDeleted"} => e.id \in Ids
  BY DEF Replies, Items
<1> QED
  BY <1>1, <1>5, <1>6 DEF Moves, Edits, b

\* An operation gives way to its event and its confirmation.
LEMMA AckExplains ==
  ASSUME NEW d \in Seq(Replies), NEW e \in Replies, NEW a \in Replies, a.type = "Ack",
         NEW u \in Seq(Requests), u # <<>>, a.op = u[1].op,
         \/ u[1].type = "Insert" /\ e.type = "ItemInserted"
         \/ u[1].type = "Update" /\ e.type = "ItemUpdated" /\ e.id = u[1].id
         \/ u[1].type = "Delete" /\ e.type = "ItemDeleted" /\ e.id = u[1].id,
         NEW os, NEW x
  PROVE  Explains(u, Append(d, e), os, x, Tail(u), Append(Append(d, e), a), os, x)
<1> DEFINE b == Append(d, e)  g == Append(b, a)  v == Tail(u)
<1>1. b \in Seq(Replies)
  OBVIOUS
<1>2. \A k : e.type = "ItemInserted" /\ a.type = "Ack" /\ a.op = k => Confirms(g, k)
  BY AppendAnswers
<1>3. \A id : /\ Makes(b, id) <=> (e.type = "ItemInserted" /\ e.item.id = id) \/ Makes(d, id)
              /\ Sets(b, id) <=> (e.type = "ItemUpdated" /\ e.id = id) \/ Sets(d, id)
              /\ Drops(b, id) <=> (e.type = "ItemDeleted" /\ e.id = id) \/ Drops(d, id)
  BY AppendTells
<1> HIDE DEF b
<1>4. \A id : (Makes(b, id) => Makes(g, id)) /\ (Sets(b, id) => Sets(g, id)) /\ (Drops(b, id) => Drops(g, id))
  BY <1>1, AppendTells
<1>5. \A k : (Refuses(b, k) => Refuses(g, k)) /\ (Confirms(b, k) => Confirms(g, k))
  BY <1>1, AppendAnswers
<1>6. \A k : Inserts(u, k) <=> (u[1].type = "Insert" /\ u[1].op = k) \/ Inserts(v, k)
  BY TailAsks DEF Kinds
<1>7. \A kind \in Kinds : \A id :
        Wants(u, x, kind, id) <=> (u[1].type = kind /\ u[1].id = id /\ u[1].op # x) \/ Wants(v, x, kind, id)
  BY TailAsks
<1> HIDE DEF g, v
<1>8. \A id : Hopes(u, b, os, x, "Delete", id) => Drops(g, id) \/ Hopes(v, g, os, x, "Delete", id)
  BY <1>3, <1>4, <1>5, <1>7 DEF Hopes, Fails, Kinds
<1>9. \A id : Hopes(u, b, os, x, "Update", id) => Sets(g, id) \/ Hopes(v, g, os, x, "Update", id)
  BY <1>3, <1>4, <1>5, <1>7 DEF Hopes, Fails, Kinds
<1>10. Owed(u, b, x) \subseteq Owed(v, g, x)
  BY <1>2, <1>5, <1>6 DEF Owed
<1>11. Explains(u, b, os, x, v, g, os, x)
  BY <1>4, <1>8, <1>9, <1>10, HopesExplain
<1> QED
  BY <1>11 DEF b, g, v

\* Or to its refusal.
LEMMA RejectExplains ==
  ASSUME NEW d \in Seq(Replies), NEW a \in Replies, a.type = "Reject",
         NEW u \in Seq(Requests), u # <<>>, a.op = u[1].op,
         NEW os, NEW o \in os, o.op = u[1].op, o.type = u[1].type, o.id = u[1].id, NEW x
  PROVE  Explains(u, d, os, x, Tail(u), Append(d, a), os, x)
<1> DEFINE g == Append(d, a)  v == Tail(u)
<1>4. \A id : (Makes(d, id) => Makes(g, id)) /\ (Sets(d, id) => Sets(g, id)) /\ (Drops(d, id) => Drops(g, id))
  BY AppendTells
<1>5. \A k : (Refuses(g, k) <=> a.op = k \/ Refuses(d, k)) /\ (Confirms(d, k) => Confirms(g, k))
  BY AppendAnswers
<1>6. \A k : Inserts(u, k) <=> (u[1].type = "Insert" /\ u[1].op = k) \/ Inserts(v, k)
  BY TailAsks DEF Kinds
<1>7. \A kind \in Kinds : \A id :
        Wants(u, x, kind, id) <=> (u[1].type = kind /\ u[1].id = id /\ u[1].op # x) \/ Wants(v, x, kind, id)
  BY TailAsks
<1> HIDE DEF g, v
<1>8. \A kind \in Kinds : \A id : Hopes(u, d, os, x, kind, id) => Hopes(v, g, os, x, kind, id)
  BY <1>5, <1>7 DEF Hopes, Fails
<1>10. Owed(u, d, x) \subseteq Owed(v, g, x)
  BY <1>5, <1>6 DEF Owed
<1>11. Explains(u, d, os, x, v, g, os, x)
  BY <1>4, <1>8, <1>10, HopesExplain DEF Kinds
<1> QED
  BY <1>11 DEF g, v

\* One more operation.
LEMMA AskExplains ==
  ASSUME NEW d, NEW u \in Seq(Requests), NEW m \in Requests, m.type # "Subscribe", NEW os, NEW o, NEW x
  PROVE  /\ Explains(u, d, os, x, Append(u, m), d, os \cup {o}, x)
         /\ m.type = "Insert" /\ m.op # x => m.op \in Owed(Append(u, m), d, x)
         /\ m.type = "Update" /\ m.op # x => m.id \in Edits(Append(u, m), d, os \cup {o}, x)
         /\ m.type = "Delete" /\ m.op # x => m.id \in Moves(Append(u, m), d, os \cup {o}, x)
<1> DEFINE v == Append(u, m)  qs == os \cup {o}
<1>6. \A k : Inserts(v, k) <=> (m.type = "Insert" /\ m.op = k) \/ Inserts(u, k)
  BY AppendAsks DEF Kinds
<1>7. \A kind \in Kinds : \A id :
        Wants(v, x, kind, id) <=> (m.type = kind /\ m.id = id /\ m.op # x) \/ Wants(u, x, kind, id)
  BY AppendAsks
<1>1. \A q \in os : q \in qs
  OBVIOUS
<1> HIDE DEF v, qs
<1>8. \A kind \in Kinds : \A id : Hopes(u, d, os, x, kind, id) => Hopes(v, d, qs, x, kind, id)
  BY <1>1, <1>7 DEF Hopes, Fails
<1>10. Owed(u, d, x) \subseteq Owed(v, d, x)
  BY <1>6 DEF Owed
<1>11. Explains(u, d, os, x, v, d, qs, x)
  BY <1>8, <1>10, HopesExplain DEF Kinds
<1>12. m.op \in Nat /\ m.id \in Ids
  BY DEF Requests
<1>13. m.type = "Insert" /\ m.op # x => m.op \in Owed(v, d, x)
  BY <1>6, <1>12 DEF Owed
<1>14. m.type = "Update" /\ m.op # x => m.id \in Edits(v, d, qs, x)
  BY <1>7, <1>12 DEF Edits, Hopes, Kinds
<1>15. m.type = "Delete" /\ m.op # x => m.id \in Moves(v, d, qs, x)
  BY <1>7, <1>12 DEF Moves, Hopes, Kinds
<1> QED
  BY <1>11, <1>13, <1>14, <1>15 DEF v, qs

\* A number that no operation has may be left out.
LEMMA NobodyExplains ==
  ASSUME NEW d, NEW u, NEW os, NEW x, NEW y,
         \A j \in DOMAIN u : u[j].type # "Subscribe" => u[j].op # y,
         \A o \in os : o.op # y, y \notin Owed(u, d, x)
  PROVE  Explains(u, d, os, x, u, d, os, y)
<1>1. \A kind \in Kinds : \A id : Hopes(u, d, os, x, kind, id) => Hopes(u, d, os, y, kind, id)
  BY DEF Hopes, Wants, Fails, Kinds
<1>2. Owed(u, d, x) \subseteq Owed(u, d, y)
  BY DEF Owed
<1> QED
  BY <1>1, <1>2, HopesExplain DEF Kinds

\* What the page hears is told no more, and what it hears was refused is no operation any more.
LEMMA HeardExplains ==
  ASSUME NEW d \in Seq(Replies), d # <<>>, NEW u, NEW os, NEW qs, NEW x,
         \A o \in os : o.op # x /\ Refuses(d, o.op) =>
           Refuses(Tail(d), o.op) /\ \E q \in qs : q.op = o.op /\ q.type = o.type /\ q.id = o.id
  PROVE  /\ \A id \in Moves(u, d, os, x) : \/ id \in Moves(u, Tail(d), qs, x)
                                           \/ d[1].type = "ItemInserted" /\ d[1].item.id = id
                                           \/ d[1].type = "ItemDeleted" /\ d[1].id = id
         /\ \A id \in Edits(u, d, os, x) : \/ id \in Edits(u, Tail(d), qs, x)
                                           \/ d[1].type = "ItemInserted" /\ d[1].item.id = id
                                           \/ d[1].type = "ItemUpdated" /\ d[1].id = id
<1> DEFINE e == Tail(d)
<1>1. \A id : /\ Makes(d, id) <=> (d[1].type = "ItemInserted" /\ d[1].item.id = id) \/ Makes(e, id)
              /\ Sets(d, id) <=> (d[1].type = "ItemUpdated" /\ d[1].id = id) \/ Sets(e, id)
              /\ Drops(d, id) <=> (d[1].type = "ItemDeleted" /\ d[1].id = id) \/ Drops(e, id)
  BY TailTells
<1>2. \A o \in os : o.op # x /\ Refuses(d, o.op) =>
           Refuses(e, o.op) /\ \E q \in qs : q.op = o.op /\ q.type = o.type /\ q.id = o.id
  OBVIOUS
<1> HIDE DEF e
<1>3. \A kind, id : Hopes(u, d, os, x, kind, id) => Hopes(u, e, qs, x, kind, id)
  <2> SUFFICES ASSUME NEW kind, NEW id, Fails(d, os, x, kind, id) PROVE Fails(e, qs, x, kind, id)
    BY DEF Hopes
  <2>1. PICK o \in os : o.type = kind /\ o.id = id /\ o.op # x /\ Refuses(d, o.op)
    BY DEF Fails
  <2>2. PICK q \in qs : q.op = o.op /\ q.type = o.type /\ q.id = o.id
    BY <1>2, <2>1
  <2>3. Refuses(e, q.op) /\ q.op # x
    BY <1>2, <2>1, <2>2
  <2> QED
    BY <2>1, <2>2, <2>3 DEF Fails
<1> QED
  BY <1>1, <1>3 DEF Moves, Edits, e

\* Own items that it answers for are fewer by one at most.
LEMMA HeardOwed ==
  ASSUME NEW d \in Seq(Replies), d # <<>>, NEW u, NEW x
  PROVE  /\ d[1].type \notin {"ItemInserted", "Reject"} => Owed(u, d, x) \subseteq Owed(u, Tail(d), x)
         /\ d[1].type = "Reject" /\ d[1].op = x => Owed(u, d, x) \subseteq Owed(u, Tail(d), x)
         /\ d[1].type = "ItemInserted" => \E w : AllBut(Owed(u, d, x), w, Owed(u, Tail(d), x))
<1> DEFINE e == Tail(d)
<1>1. \A k : /\ Refuses(d, k) <=> (d[1].type = "Reject" /\ d[1].op = k) \/ Refuses(e, k)
             /\ Confirms(d, k) /\ d[1].type # "ItemInserted" => Confirms(e, k)
  BY TailAnswers
<1>2. ASSUME d[1].type = "ItemInserted"
      PROVE  \E w : AllBut(Owed(u, d, x), w, Owed(u, e, x))
  <2>1. \A k : Confirms(d, k) => Confirms(e, k) \/ d[2].op = k
    <3> SUFFICES ASSUME NEW k, Confirms(d, k), ~Confirms(e, k) PROVE d[2].op = k
      OBVIOUS
    <3>1. PICK j \in DOMAIN d : /\ j + 1 \in DOMAIN d /\ d[j].type = "ItemInserted"
                                /\ d[j + 1].type = "Ack" /\ d[j + 1].op = k
      BY DEF Confirms
    <3>2. ASSUME j # 1 PROVE FALSE
      <4>1. /\ \A i \in DOMAIN d : i = 1 \/ (i - 1 \in DOMAIN e /\ d[i] = e[i - 1])
            /\ DOMAIN d = 1..Len(d) /\ Len(d) \in Nat
        BY QueueTail
      <4>2. /\ j - 1 \in DOMAIN e /\ d[j] = e[j - 1] /\ (j + 1) - 1 \in DOMAIN e
            /\ d[j + 1] = e[(j + 1) - 1] /\ (j + 1) - 1 = (j - 1) + 1
        BY <3>1, <3>2, <4>1
      <4> QED
        BY <3>1, <4>2 DEF Confirms
    <3>3. j + 1 = 2
      BY <3>2
    <3> QED
      BY <3>1, <3>3
  <2>2. AllBut(Owed(u, d, x), d[2].op, Owed(u, e, x))
    BY <1>1, <1>2, <2>1 DEF Owed, AllBut
  <2> QED
    BY <2>2
<1> HIDE DEF e
<1>3. d[1].type \notin {"ItemInserted", "Reject"} => Owed(u, d, x) \subseteq Owed(u, e, x)
  BY <1>1 DEF Owed
<1>4. d[1].type = "Reject" /\ d[1].op = x => Owed(u, d, x) \subseteq Owed(u, e, x)
  BY <1>1 DEF Owed
<1> QED
  BY <1>2, <1>3, <1>4 DEF e

Pass(o) == [o EXCEPT !.passed = TRUE]

LEMMA PassedAre ==
  ASSUME NEW os \in SUBSET Operations
  PROVE  /\ Passed(os) \in SUBSET Operations
         /\ \A o \in os : \E q \in Passed(os) :
              q.op = o.op /\ q.type = o.type /\ q.id = o.id /\ q.prev = o.prev /\ q.passed = TRUE
         /\ \A q \in Passed(os) : q.passed /\ \E o \in os :
              q.op = o.op /\ q.type = o.type /\ q.id = o.id /\ q.prev = o.prev /\ q = Pass(o)
<1>1. ASSUME NEW o \in Operations, NEW q, q = Pass(o)
      PROVE  /\ q \in Operations /\ q.op = o.op /\ q.type = o.type /\ q.id = o.id /\ q.prev = o.prev
             /\ q.passed = TRUE
  BY <1>1 DEF Operations, Pass
<1>2. ASSUME NEW q \in Passed(os)
      PROVE  /\ q.passed /\ q \in Operations
             /\ \E o \in os : /\ q.op = o.op /\ q.type = o.type /\ q.id = o.id /\ q.prev = o.prev
                              /\ q = Pass(o)
  <2>1. PICK o \in os : q = Pass(o)
    BY DEF Passed, Pass
  <2> QED
    BY <1>1, <2>1
<1>3. ASSUME NEW o \in os
      PROVE  \E q \in Passed(os) :
               q.op = o.op /\ q.type = o.type /\ q.id = o.id /\ q.prev = o.prev /\ q.passed = TRUE
  <2> DEFINE q == Pass(o)
  <2>1. q \in Passed(os) /\ q = Pass(o)
    BY DEF Passed, Pass
  <2> HIDE DEF q
  <2> QED
    BY <1>1, <2>1
<1> QED
  BY <1>2, <1>3

-----------------------------------------------------------------------------
(* The channel of a page, and the numbers of its operations.               *)

LEMMA ChannelTold ==
  ASSUME NEW open, NEW u, NEW d \in Seq(Replies), Channel(open, TRUE, u, d), NEW m \in Replies, m.type # "Snapshot"
  PROVE  Channel(open, TRUE, u, Append(d, m))
<1> DEFINE b == Append(d, m)
<1>1. /\ b[Len(d) + 1] = m
      /\ \A j \in DOMAIN d : b[j] = d[j]
      /\ \A j \in DOMAIN b : j \in DOMAIN d \/ j = Len(d) + 1
  BY QueueAppend
<1> HIDE DEF b
<1>2. \A j \in DOMAIN b : b[j].type = "Snapshot" => j = 1
  BY <1>1 DEF Channel
<1> QED
  BY <1>2 DEF Channel, b

LEMMA ChannelServed ==
  ASSUME NEW open, NEW s, NEW u \in Seq(Requests), u # <<>>, NEW d, Channel(open, s, u, d)
  PROVE  /\ open /\ (\A j \in DOMAIN Tail(u) : Tail(u)[j].type # "Subscribe")
         /\ u[1].type = "Subscribe" <=> ~s
         /\ s => Channel(open, TRUE, Tail(u), d)
<1> DEFINE v == Tail(u)
<1>1. 1 \in DOMAIN u /\ \A j \in DOMAIN v : j \in Nat /\ j >= 1 /\ j + 1 \in DOMAIN u /\ v[j] = u[j + 1]
  BY QueueTail
<1> HIDE DEF v
<1>2. \A j \in DOMAIN v : v[j].type # "Subscribe"
  BY <1>1 DEF Channel
<1>3. open /\ (u[1].type = "Subscribe" <=> ~s)
  BY <1>1 DEF Channel
<1> QED
  BY <1>2, <1>3 DEF Channel, v

LEMMA ChannelAsked ==
  ASSUME NEW s, NEW u \in Seq(Requests), NEW d, Channel(TRUE, s, u, d),
         NEW m \in Requests, m.type # "Subscribe"
  PROVE  Channel(TRUE, s, Append(u, m), d)
<1> DEFINE v == Append(u, m)
<1>1. /\ v # <<>> /\ v[Len(u) + 1] = m /\ DOMAIN u = 1..Len(u) /\ Len(u) \in Nat
      /\ \A j \in DOMAIN u : v[j] = u[j]
      /\ \A j \in DOMAIN v : j \in DOMAIN u \/ j = Len(u) + 1
  BY QueueAppend
<1>2. u # <<>> => 1 \in DOMAIN u
  BY QueueTail
<1> HIDE DEF v
<1>3. \A j \in DOMAIN v : v[j].type = "Subscribe" => j = 1 /\ ~s
  BY <1>1 DEF Channel
<1>4. ~s => v[1].type = "Subscribe" /\ d = <<>>
  BY <1>1, <1>2 DEF Channel
<1> QED
  BY <1>1, <1>3, <1>4 DEF Channel, v

LEMMA ChannelHeard ==
  ASSUME NEW open, NEW s, NEW u, NEW d \in Seq(Replies), d # <<>>, Channel(open, s, u, d)
  PROVE  /\ open /\ s /\ Channel(open, s, u, Tail(d)) /\ ~Greeted(Tail(d))
<1> DEFINE e == Tail(d)
<1>1. \A j \in DOMAIN e : j \in Nat /\ j >= 1 /\ j + 1 \in DOMAIN d /\ e[j] = d[j + 1]
  BY QueueTail
<1>2. e \in Seq(Replies)
  BY QueueTail
<1>3. e # <<>> => 1 \in DOMAIN e
  BY <1>2, QueueTail
<1> HIDE DEF e
<1>4. \A j \in DOMAIN e : e[j].type # "Snapshot"
  BY <1>1 DEF Channel
<1>5. open /\ s
  BY DEF Channel
<1> QED
  BY <1>3, <1>4, <1>5 DEF Channel, Greeted, e

\* The first message stays the first.
LEMMA GreetedTold ==
  ASSUME NEW d \in Seq(Replies), NEW m \in Replies, m.type # "Snapshot"
  PROVE  (Greeted(Append(d, m)) <=> Greeted(d)) /\ (Greeted(d) => Append(d, m)[1] = d[1] /\ 1 \in DOMAIN d)
<1>1. d # <<>> => 1 \in DOMAIN d
  BY QueueTail
<1>2. /\ Append(d, m) # <<>> /\ Append(d, m)[Len(d) + 1] = m
      /\ \A j \in DOMAIN d : Append(d, m)[j] = d[j]
  BY QueueAppend
<1>3. CASE d = <<>>
  <2>1. Append(d, m)[1] = m
    BY <1>2, <1>3
  <2> QED
    BY <1>3, <2>1 DEF Greeted
<1>4. CASE d # <<>>
  BY <1>1, <1>2, <1>4 DEF Greeted
<1> QED
  BY <1>3, <1>4

LEMMA NumbersMore ==
  ASSUME NEW u, NEW d, NEW os, NEW k \in Nat, NEW l \in Nat, k <= l, Numbers(u, d, os, k)
  PROVE  Numbers(u, d, os, l)
BY DEF Numbers, Known

LEMMA NumbersTold ==
  ASSUME NEW u, NEW d \in Seq(Replies), NEW os, NEW k, NEW m \in Replies, ~Answered(m), Numbers(u, d, os, k)
  PROVE  Numbers(u, Append(d, m), os, k)
<1> DEFINE b == Append(d, m)
<1>1. /\ b[Len(d) + 1] = m
      /\ \A j \in DOMAIN d : b[j] = d[j]
      /\ \A j \in DOMAIN b : j \in DOMAIN d \/ j = Len(d) + 1
  BY QueueAppend
<1> HIDE DEF b
<1>2. \A j \in DOMAIN b : Answered(b[j]) => j \in DOMAIN d /\ b[j] = d[j]
  BY <1>1
<1>3. Matched(u, b, os)
  BY <1>2 DEF Numbers, Matched
<1>4. Queued(u, b)
  BY <1>2 DEF Numbers, Queued
<1> QED
  BY <1>3, <1>4 DEF Numbers, b

LEMMA NumbersServed ==
  ASSUME NEW u \in Seq(Requests), u # <<>>, NEW d, NEW os, NEW k, Numbers(u, d, os, k)
  PROVE  /\ Numbers(Tail(u), d, os, k)
         /\ u[1].type # "Subscribe" =>
              /\ \A j \in DOMAIN Tail(u) : Tail(u)[j].type # "Subscribe" => u[1].op < Tail(u)[j].op
              /\ \A j \in DOMAIN d : Answered(d[j]) => d[j].op < u[1].op
              /\ \E o \in os : o.op = u[1].op /\ o.type = u[1].type /\ o.id = u[1].id
<1> DEFINE v == Tail(u)
<1>1. /\ 1 \in DOMAIN u
      /\ \A j \in DOMAIN v : j \in Nat /\ j >= 1 /\ j + 1 \in DOMAIN u /\ v[j] = u[j + 1]
  BY QueueTail
<1> HIDE DEF v
<1>2. Matched(v, d, os)
  BY <1>1 DEF Numbers, Matched
<1>3. Queued(v, d)
  <2>1. \A i, j \in DOMAIN v : i < j => i + 1 < j + 1
    BY <1>1
  <2>2. ASSUME NEW i \in DOMAIN v, NEW j \in DOMAIN v, i < j, v[i].type # "Subscribe" PROVE v[i].op < v[j].op
    <3>1. i + 1 \in DOMAIN u /\ j + 1 \in DOMAIN u /\ i + 1 < j + 1 /\ v[i] = u[i + 1] /\ v[j] = u[j + 1]
      BY <1>1, <2>1, <2>2
    <3> QED
      BY <2>2, <3>1 DEF Numbers, Queued
  <2> QED
    BY <1>1, <2>2 DEF Numbers, Queued
<1>4. ASSUME u[1].type # "Subscribe"
      PROVE  /\ \A j \in DOMAIN v : v[j].type # "Subscribe" => u[1].op < v[j].op
             /\ \A j \in DOMAIN d : Answered(d[j]) => d[j].op < u[1].op
             /\ \E o \in os : o.op = u[1].op /\ o.type = u[1].type /\ o.id = u[1].id
  <2>1. ASSUME NEW j \in DOMAIN v, v[j].type # "Subscribe" PROVE u[1].op < v[j].op
    <3>1. j + 1 \in DOMAIN u /\ 1 < j + 1 /\ v[j] = u[j + 1]
      BY <1>1
    <3> QED
      BY <1>1, <1>4, <3>1 DEF Numbers, Queued
  <2> QED
    BY <1>1, <1>4, <2>1 DEF Numbers, Queued, Matched
<1> QED
  BY <1>2, <1>3, <1>4 DEF Numbers, v

\* Operation o is the last that was answered.
LEMMA NumbersAnswered ==
  ASSUME NEW u, NEW d \in Seq(Replies), NEW os, NEW k, NEW a \in Replies, Answered(a), Numbers(u, d, os, k),
         \A j \in DOMAIN u : u[j].type # "Subscribe" => a.op < u[j].op,
         \A j \in DOMAIN d : Answered(d[j]) => d[j].op < a.op,
         NEW o \in os, o.op = a.op, a.type = "Ack" /\ o.type # "Insert" => o.id[1] = "srv"
  PROVE  Numbers(u, Append(d, a), os, k)
<1> DEFINE b == Append(d, a)  z == Len(d) + 1
<1>1. /\ b[z] = a /\ z \in Nat
      /\ \A j \in DOMAIN d : b[j] = d[j] /\ j \in Nat /\ j < z
      /\ \A j \in DOMAIN b : j \in DOMAIN d \/ j = z
  BY QueueAppend
<1> HIDE DEF b, z
<1>2. Matched(u, b, os)
  BY <1>1 DEF Numbers, Matched
<1>3. ASSUME NEW i \in DOMAIN b, NEW j \in DOMAIN b, i < j, Answered(b[i]), Answered(b[j]) PROVE b[i].op < b[j].op
  <2>1. i \in DOMAIN d /\ b[i] = d[i]
    BY <1>1, <1>3
  <2>2. CASE j = z
    BY <1>1, <1>3, <2>1, <2>2
  <2>3. CASE j \in DOMAIN d
    BY <1>1, <1>3, <2>1, <2>3 DEF Numbers, Queued
  <2> QED
    BY <1>1, <2>2, <2>3
<1>4. ASSUME NEW i \in DOMAIN b, NEW j \in DOMAIN u, Answered(b[i]), u[j].type # "Subscribe" PROVE b[i].op < u[j].op
  <2>1. CASE i = z
    BY <1>1, <1>4, <2>1
  <2>2. CASE i \in DOMAIN d
    BY <1>1, <1>4, <2>2 DEF Numbers, Queued
  <2> QED
    BY <1>1, <2>1, <2>2
<1>5. Queued(u, b)
  BY <1>3, <1>4 DEF Numbers, Queued
<1> QED
  BY <1>2, <1>5 DEF Numbers, b

\* The latest operation has the largest number.
\* m asks for o, the operation after the first k.
AsksFor(m, o, k) ==
  /\ m \in Requests /\ m.type # "Subscribe" /\ m.op = k + 1 /\ (m.type = "Insert" => m.id = Temp(k + 1))
  /\ o.op = m.op /\ o.type = m.type /\ o.id = m.id

Unused(u, d, os, k) ==
  /\ \A j \in DOMAIN u : u[j].type # "Subscribe" => u[j].op # k
  /\ \A q \in os : q.op # k
  /\ \A j \in DOMAIN d : Answered(d[j]) => d[j].op # k

LEMMA NumbersAsked ==
  ASSUME NEW u \in Seq(Requests), NEW d, NEW os \in SUBSET Operations, NEW k \in Nat, Numbers(u, d, os, k),
         NEW m, NEW o, AsksFor(m, o, k)
  PROVE  /\ Numbers(u, d, os \cup {o}, k + 1) /\ Numbers(Append(u, m), d, os \cup {o}, k + 1)
         /\ Unused(u, d, os, k + 1)
<1> DEFINE v == Append(u, m)  z == Len(u) + 1  qs == os \cup {o}
<1>0. /\ m \in Requests /\ m.type # "Subscribe" /\ m.op = k + 1
      /\ o.op = k + 1 /\ o.type = m.type /\ o.id = m.id /\ (o.type = "Insert" => o.id = Temp(o.op))
  BY DEF AsksFor
<1>1. /\ v[z] = m /\ z \in Nat
      /\ \A j \in DOMAIN u : v[j] = u[j] /\ j \in Nat /\ j < z
      /\ \A j \in DOMAIN v : j \in DOMAIN u \/ j = z
  BY <1>0, QueueAppend
<1>2. \A q \in os : q.op \in Nat /\ q.op >= 1 /\ q.op < k + 1
  BY DEF Numbers, Known, Operations
<1>3. \A j \in DOMAIN u : u[j].type # "Subscribe" => u[j].op < k + 1
  BY <1>2 DEF Numbers, Matched
<1>4. \A j \in DOMAIN d : Answered(d[j]) => d[j].op < k + 1 /\ d[j].op \in Nat
  BY <1>2 DEF Numbers, Matched
<1>a. o \in qs /\ os \subseteq qs /\ \A q \in qs : q \in os \/ q = o
  OBVIOUS
<1> HIDE DEF v, z, qs
<1>5. Known(qs, k + 1)
  BY <1>0, <1>2, <1>a DEF Numbers, Known
<1>6. Matched(u, d, qs) /\ Matched(v, d, qs)
  <2>1. Matched(u, d, qs)
    BY <1>a DEF Numbers, Matched
  <2>2. \A j \in DOMAIN v : v[j].type # "Subscribe" => \E q \in qs : q.op = v[j].op /\ q.type = v[j].type /\ q.id = v[j].id
    BY <1>0, <1>1, <1>a, <2>1 DEF Matched
  <2> QED
    BY <2>1, <2>2 DEF Matched
<1>7. Queued(v, d)
  <2>1. ASSUME NEW i \in DOMAIN v, NEW j \in DOMAIN v, i < j, v[i].type # "Subscribe" PROVE v[i].op < v[j].op
    <3>1. i \in DOMAIN u /\ v[i] = u[i]
      BY <1>1, <2>1
    <3>2. CASE j = z
      BY <1>0, <1>1, <1>3, <2>1, <3>1, <3>2
    <3>3. CASE j \in DOMAIN u
      BY <1>1, <2>1, <3>1, <3>3 DEF Numbers, Queued
    <3> QED
      BY <1>1, <3>2, <3>3
  <2>2. ASSUME NEW i \in DOMAIN d, NEW j \in DOMAIN v, Answered(d[i]), v[j].type # "Subscribe" PROVE d[i].op < v[j].op
    <3>2. CASE j = z
      BY <1>0, <1>1, <1>4, <2>2, <3>2
    <3>3. CASE j \in DOMAIN u
      BY <1>1, <2>2, <3>3 DEF Numbers, Queued
    <3> QED
      BY <1>1, <3>2, <3>3
  <2> QED
    BY <2>1, <2>2 DEF Numbers, Queued
<1>8. Unused(u, d, os, k + 1)
  <2>1. \A j \in DOMAIN u : u[j].type # "Subscribe" => u[j].op \in Nat
    BY <1>2 DEF Numbers, Matched
  <2> QED
    BY <1>2, <1>3, <1>4, <2>1 DEF Unused
<1> QED
  BY <1>5, <1>6, <1>7, <1>8 DEF Numbers, v, qs

LEMMA NumbersHeard ==
  ASSUME NEW u, NEW d \in Seq(Replies), d # <<>>, NEW os \in SUBSET Operations, NEW k, Numbers(u, d, os, k)
  PROVE  Numbers(u, Tail(d), os, k)
<1> DEFINE e == Tail(d)
<1>1. /\ 1 \in DOMAIN d
      /\ \A j \in DOMAIN e : j \in Nat /\ j >= 1 /\ j + 1 \in DOMAIN d /\ e[j] = d[j + 1]
  BY QueueTail
<1> HIDE DEF e
<1>2. Matched(u, e, os)
  BY <1>1 DEF Numbers, Matched
<1>3. ASSUME NEW i \in DOMAIN e, NEW j \in DOMAIN e, i < j, Answered(e[i]), Answered(e[j]) PROVE e[i].op < e[j].op
  <2>1. i + 1 \in DOMAIN d /\ j + 1 \in DOMAIN d /\ i + 1 < j + 1 /\ e[i] = d[i + 1] /\ e[j] = d[j + 1]
    BY <1>1, <1>3
  <2> QED
    BY <1>3, <2>1 DEF Numbers, Queued
<1>4. \A i \in DOMAIN e, j \in DOMAIN u : Answered(e[i]) /\ u[j].type # "Subscribe" => e[i].op < u[j].op
  BY <1>1 DEF Numbers, Queued
<1>5. Queued(u, e)
  BY <1>3, <1>4 DEF Numbers, Queued
<1> QED
  BY <1>2, <1>5 DEF Numbers, e

\* The first answer is that of an operation that is in question nowhere else.
FirstAnswer(u, d, os) ==
  /\ \A j \in DOMAIN u : u[j].type # "Subscribe" => u[j].op # d[1].op
  /\ \A j \in DOMAIN Tail(d) : Answered(Tail(d)[j]) => Tail(d)[j].op # d[1].op
  /\ \E o \in os : o.op = d[1].op /\ (d[1].type = "Ack" /\ o.type # "Insert" => o.id[1] = "srv")

LEMMA NumbersFirst ==
  ASSUME NEW u, NEW d \in Seq(Replies), d # <<>>, NEW os \in SUBSET Operations, NEW k, Numbers(u, d, os, k),
         Answered(d[1])
  PROVE  FirstAnswer(u, d, os)
<1> DEFINE e == Tail(d)
<1>a. /\ 1 \in DOMAIN d
      /\ \A j \in DOMAIN e : j \in Nat /\ j >= 1 /\ j + 1 \in DOMAIN d /\ e[j] = d[j + 1]
  BY QueueTail
<1> HIDE DEF e
<1>1. \A o \in os : o.op \in Nat
  BY DEF Operations
<1>2. PICK o \in os : o.op = d[1].op /\ (d[1].type = "Ack" /\ o.type # "Insert" => o.id[1] = "srv")
  BY <1>a DEF Numbers, Matched
<1>3. d[1].op \in Nat
  BY <1>1, <1>2
<1>4. ASSUME NEW j \in DOMAIN u, u[j].type # "Subscribe" PROVE u[j].op # d[1].op
  <2>1. d[1].op < u[j].op
    BY <1>a, <1>4 DEF Numbers, Queued
  <2> QED
    BY <1>3, <2>1
<1>5. ASSUME NEW j \in DOMAIN e, Answered(e[j]) PROVE e[j].op # d[1].op
  <2>1. j + 1 \in DOMAIN d /\ 1 < j + 1 /\ e[j] = d[j + 1]
    BY <1>a
  <2>2. d[1].op < e[j].op
    BY <1>a, <1>5, <2>1 DEF Numbers, Queued
  <2> QED
    BY <1>3, <2>2
<1> QED
  BY <1>2, <1>4, <1>5 DEF FirstAnswer, e

LEMMA NumbersDone ==
  ASSUME NEW u, NEW d, NEW os, NEW k, Numbers(u, d, os, k), NEW o \in os,
         \A j \in DOMAIN u : u[j].type # "Subscribe" => u[j].op # o.op,
         \A j \in DOMAIN d : Answered(d[j]) => d[j].op # o.op
  PROVE  Numbers(u, d, os \ {o}, k)
<1> DEFINE qs == os \ {o}
<1>1. \A q \in qs : q \in os /\ \A q2 \in os : q2.op # o.op => q2 \in qs
  OBVIOUS
<1>2. \A q \in os : q.op # o.op => q \in qs
  OBVIOUS
<1> HIDE DEF qs
<1>3. Known(qs, k)
  BY <1>1 DEF Numbers, Known
<1>4. Matched(u, d, qs)
  BY <1>2 DEF Numbers, Matched
<1> QED
  BY <1>3, <1>4 DEF Numbers, qs

LEMMA NumbersPassed ==
  ASSUME NEW u, NEW d, NEW os \in SUBSET Operations, NEW k, Numbers(u, d, os, k)
  PROVE  Numbers(u, d, Passed(os), k)
<1> DEFINE qs == Passed(os)
<1>1. /\ \A o \in os : \E q \in qs : q.op = o.op /\ q.type = o.type /\ q.id = o.id
      /\ \A q \in qs : \E o \in os : q.op = o.op /\ q.type = o.type /\ q.id = o.id /\ q = Pass(o)
  BY PassedAre
<1> HIDE DEF qs
<1>2. ASSUME NEW p \in qs, NEW q \in qs, p.op = q.op PROVE p = q
  <2>1. PICK a \in os : p.op = a.op /\ p = Pass(a)
    BY <1>1
  <2>2. PICK b \in os : q.op = b.op /\ q = Pass(b)
    BY <1>1
  <2>3. a = b
    BY <1>2, <2>1, <2>2 DEF Numbers, Known
  <2> QED
    BY <2>1, <2>2, <2>3
<1>3. ASSUME NEW q \in qs PROVE q.op \in 1..k /\ (q.type = "Insert" => q.id = Temp(q.op))
  <2>1. PICK o \in os : q.op = o.op /\ q.type = o.type /\ q.id = o.id
    BY <1>1
  <2>2. o.op \in 1..k /\ (o.type = "Insert" => o.id = Temp(o.op))
    BY DEF Numbers, Known
  <2> QED
    BY <2>1, <2>2
<1>4. Known(qs, k)
  BY <1>2, <1>3 DEF Known
<1>5. ASSUME NEW j \in DOMAIN u, u[j].type # "Subscribe"
      PROVE  \E q \in qs : q.op = u[j].op /\ q.type = u[j].type /\ q.id = u[j].id
  <2>1. PICK o \in os : o.op = u[j].op /\ o.type = u[j].type /\ o.id = u[j].id
    BY <1>5 DEF Numbers, Matched
  <2>2. PICK q \in qs : q.op = o.op /\ q.type = o.type /\ q.id = o.id
    BY <1>1
  <2> QED
    BY <2>1, <2>2
<1>6. ASSUME NEW j \in DOMAIN d, Answered(d[j])
      PROVE  \E q \in qs : q.op = d[j].op /\ (d[j].type = "Ack" /\ q.type # "Insert" => q.id[1] = "srv")
  <2>1. PICK o \in os : o.op = d[j].op /\ (d[j].type = "Ack" /\ o.type # "Insert" => o.id[1] = "srv")
    BY <1>6 DEF Numbers, Matched
  <2>2. PICK q \in qs : q.op = o.op /\ q.type = o.type /\ q.id = o.id
    BY <1>1
  <2> QED
    BY <2>1, <2>2
<1> QED
  BY <1>4, <1>5, <1>6 DEF Numbers, Matched, qs

-----------------------------------------------------------------------------
(* What a page shows or may show again, and what it will be told.          *)

LEMMA WellFormedMore ==
  ASSUME NEW is \in Seq(Items), NEW k \in Nat, NEW l \in Nat, k <= l, NEW n \in Nat, NEW m \in Nat, n <= m,
         WellFormed(is, k, n)
  PROVE  WellFormed(is, l, m)
<1>1. \A i \in DOMAIN is : is[i].id[2] \in Nat
  BY ListItems, IdForms
<1>2. Within(is, l, m)
  BY <1>1 DEF WellFormed, Within
<1> QED
  BY <1>2 DEF WellFormed

\* An item with a new name is in no list.
LEMMA NewName ==
  ASSUME NEW is \in Seq(Items), NEW k, NEW n \in Nat, WellFormed(is, k, n), NEW m \in Nat, n < m
  PROVE  Srv(m) \notin IdsOf(is)
<1> SUFFICES ASSUME NEW i \in DOMAIN is, is[i].id = Srv(m) PROVE FALSE
  BY DEF IdsOf
<1>1. is[i].id[1] = "srv" /\ is[i].id[2] = m
  BY IdForms
<1>2. m <= n
  BY <1>1 DEF WellFormed, Within
<1> QED
  BY <1>2

LEMMA ListsMore ==
  ASSUME NEW is \in Seq(Items), NEW d \in Seq(Replies), NEW os \in SUBSET Operations,
         NEW k \in Nat, NEW l \in Nat, k <= l, NEW n \in Nat, NEW m \in Nat, n <= m,
         Lists(is, d, os, k, n)
  PROVE  Lists(is, d, os, l, m)
<1>1. WellFormed(is, l, m)
  BY WellFormedMore DEF Lists
<1>2. \A o \in os : WellFormed(o.prev, l, m)
  BY WellFormedMore DEF Lists, Operations
<1>3. ASSUME NEW j \in DOMAIN d, d[j].type = "Snapshot" PROVE WellFormed(d[j].data, 0, m)
  <2>1. d[j] \in Replies
    OBVIOUS
  <2>2. d[j].data \in Seq(Items)
    BY <1>3, <2>1 DEF Replies
  <2>3. WellFormed(d[j].data, 0, n)
    BY <1>3 DEF Lists, Named
  <2> QED
    BY <2>2, <2>3, WellFormedMore
<1>4. ASSUME NEW j \in DOMAIN d
      PROVE  /\ d[j].type = "ItemInserted" => d[j].item.id[2] <= m
             /\ d[j].type \in {"ItemUpdated", "ItemDeleted"} => d[j].id[2] <= m
  <2>1. d[j] \in Replies
    OBVIOUS
  <2>2. /\ d[j].type = "ItemInserted" => d[j].item.id \in Ids
        /\ d[j].type \in {"ItemUpdated", "ItemDeleted"} => d[j].id \in Ids
    BY <2>1 DEF Replies, Items
  <2>3. /\ d[j].type = "ItemInserted" => d[j].item.id[2] \in Nat
        /\ d[j].type \in {"ItemUpdated", "ItemDeleted"} => d[j].id[2] \in Nat
    BY <2>2, IdForms
  <2>4. /\ d[j].type = "ItemInserted" => d[j].item.id[2] <= n
        /\ d[j].type \in {"ItemUpdated", "ItemDeleted"} => d[j].id[2] <= n
    BY DEF Lists, Named
  <2> QED
    BY <2>3, <2>4
<1>5. Named(d, m)
  BY <1>3, <1>4 DEF Lists, Named
<1> QED
  BY <1>1, <1>2, <1>5 DEF Lists

\* An event that is new or about an item that had a name.
Tells(e, n, m) ==
  /\ e.type \in Events
  /\ e.type = "ItemInserted" => e.item.id = Srv(m) /\ n < m
  /\ e.type # "ItemInserted" => e.id[1] = "srv" /\ e.id[2] <= n

LEMMA ListsTold ==
  ASSUME NEW is \in Seq(Items), NEW d \in Seq(Replies), NEW os \in SUBSET Operations,
         NEW k \in Nat, NEW n \in Nat, NEW m \in Nat, n <= m,
         Lists(is, d, os, k, n), NEW e \in Replies, Tells(e, n, m)
  PROVE  Lists(is, Append(d, e), os, k, m)
<1> DEFINE b == Append(d, e)  z == Len(d) + 1
<1>1. Lists(is, d, os, k, m)
  BY ListsMore
<1>2. /\ b[z] = e /\ z \in Nat /\ z \in DOMAIN b
      /\ \A j \in DOMAIN d : j \in DOMAIN b /\ b[j] = d[j] /\ j \in Nat /\ j < z
      /\ \A j \in DOMAIN b : j \in DOMAIN d \/ j = z
  BY QueueAppend
<1>3. \A id : Makes(b, id) <=> (e.type = "ItemInserted" /\ e.item.id = id) \/ Makes(d, id)
  BY AppendTells
<1> HIDE DEF b, z
<1>4. \A js \in Seq(Items) : \A l : WellFormed(js, l, n) /\ New(js, d) => New(js, b)
  <2> SUFFICES ASSUME NEW js \in Seq(Items), NEW l, WellFormed(js, l, n), New(js, d), NEW id \in IdsOf(js)
               PROVE  ~Makes(b, id)
    BY DEF New
  <2>1. e.type = "ItemInserted" => e.item.id # id
    BY NewName DEF Tells
  <2> QED
    BY <1>3, <2>1 DEF New
<1>5. New(is, b) /\ \A o \in os : New(o.prev, b)
  BY <1>4 DEF Lists, Operations
<1>6. ASSUME NEW j \in DOMAIN d, d[j].type = "Snapshot" PROVE \A id \in IdsOf(d[j].data) : ~Makes(b, id)
  <2>1. d[j] \in Replies
    OBVIOUS
  <2>2. d[j].data \in Seq(Items)
    BY <1>6, <2>1 DEF Replies
  <2>3. WellFormed(d[j].data, 0, n) /\ New(d[j].data, d)
    BY <1>6 DEF Lists, Named, New
  <2>4. New(d[j].data, b)
    BY <1>4, <2>2, <2>3
  <2> QED
    BY <2>4 DEF New
<1>7. /\ e.type = "ItemInserted" => e.item.id[1] = "srv" /\ e.item.id[2] = m
      /\ e.type # "ItemInserted" => e.id \in Ids
  BY IdForms DEF Tells, Events, Replies
<1>8. Named(b, m)
  <2> SUFFICES ASSUME NEW j \in DOMAIN b
               PROVE  /\ b[j].type = "ItemInserted" => b[j].item.id[1] = "srv" /\ b[j].item.id[2] <= m
                      /\ b[j].type \in {"ItemUpdated", "ItemDeleted"} => b[j].id[1] = "srv" /\ b[j].id[2] <= m
                      /\ b[j].type = "Snapshot" => WellFormed(b[j].data, 0, m) /\ Temps(b[j].data) = {}
                                                   /\ \A id \in IdsOf(b[j].data) : ~Makes(b, id)
    BY DEF Named
  <2>1. CASE j \in DOMAIN d
    BY <1>1, <1>2, <1>6, <2>1 DEF Lists, Named
  <2>2. CASE j = z
    <3>1. e.type # "ItemInserted" => e.id[2] \in Nat /\ e.id[2] <= n
      BY <1>7, IdForms DEF Tells
    <3>2. e.type # "ItemInserted" => e.id[2] <= m
      BY <3>1
    <3> QED
      BY <1>2, <1>7, <2>2, <3>2 DEF Tells, Events
  <2> QED
    BY <1>2, <2>1, <2>2
<1>9. Once(b)
  <2>1. ASSUME NEW j \in DOMAIN d, e.type = "ItemInserted"
        PROVE  /\ d[j].type = "ItemInserted" => d[j].item.id # e.item.id
               /\ d[j].type \in {"ItemUpdated", "ItemDeleted"} => d[j].id # e.item.id
    <3>1. /\ d[j].type = "ItemInserted" => d[j].item.id[2] <= n
          /\ d[j].type \in {"ItemUpdated", "ItemDeleted"} => d[j].id[2] <= n
      BY DEF Lists, Named
    <3>2. e.item.id[2] = m /\ n < m
      BY <1>7, <2>1 DEF Tells
    <3>3. ~(m <= n)
      BY <3>2
    <3> QED
      BY <3>1, <3>2, <3>3
  <2>2. ASSUME NEW i \in DOMAIN b, NEW j \in DOMAIN b, b[i].type = "ItemInserted",
               b[j].type = "ItemInserted", b[j].item.id = b[i].item.id
        PROVE  i = j
    BY <1>2, <2>1, <2>2 DEF Lists, Once
  <2>3. ASSUME NEW i \in DOMAIN b, NEW j \in DOMAIN b, b[i].type = "ItemInserted",
               b[j].type \in {"ItemUpdated", "ItemDeleted"}, b[j].id = b[i].item.id
        PROVE  i < j
    <3>1. CASE i \in DOMAIN d /\ j \in DOMAIN d
      BY <1>2, <2>3, <3>1 DEF Lists, Once
    <3>2. CASE i \in DOMAIN d /\ j = z
      BY <1>2, <3>2
    <3>3. i # z
      BY <1>2, <2>1, <2>3
    <3> QED
      BY <1>2, <3>1, <3>2, <3>3
  <2> QED
    BY <2>2, <2>3 DEF Once
<1> QED
  BY <1>1, <1>5, <1>8, <1>9 DEF Lists, b

LEMMA ListsAnswered ==
  ASSUME NEW is, NEW d \in Seq(Replies), NEW os, NEW k, NEW n, Lists(is, d, os, k, n),
         NEW a \in Replies, Answered(a)
  PROVE  Lists(is, Append(d, a), os, k, n)
<1> DEFINE b == Append(d, a)
<1>2. /\ b[Len(d) + 1] = a
      /\ \A j \in DOMAIN d : b[j] = d[j]
      /\ \A j \in DOMAIN b : j \in DOMAIN d \/ j = Len(d) + 1
  BY QueueAppend
<1>3. \A id : Makes(b, id) => Makes(d, id)
  BY AppendTells DEF Answered
<1> HIDE DEF b
<1>4. \A j \in DOMAIN b : b[j].type \notin {"Ack", "Reject"} => j \in DOMAIN d /\ b[j] = d[j]
  BY <1>2 DEF Answered
<1>5. New(is, b) /\ \A o \in os : New(o.prev, b)
  BY <1>3 DEF Lists, New
<1>6. Named(b, n)
  BY <1>3, <1>4 DEF Lists, Named
<1>7. Once(b)
  BY <1>4 DEF Lists, Once
<1> QED
  BY <1>5, <1>6, <1>7 DEF Lists, b

LEMMA ListsHeard ==
  ASSUME NEW is, NEW d \in Seq(Replies), d # <<>>, NEW os, NEW k, NEW n, Lists(is, d, os, k, n)
  PROVE  Lists(is, Tail(d), os, k, n)
<1> DEFINE e == Tail(d)
<1>1. \A j \in DOMAIN e : j \in Nat /\ j + 1 \in DOMAIN d /\ e[j] = d[j + 1]
  BY QueueTail
<1>2. \A id : Makes(e, id) => Makes(d, id)
  BY TailTells
<1> HIDE DEF e
<1>3. New(is, e) /\ \A o \in os : New(o.prev, e)
  BY <1>2 DEF Lists, New
<1>4. Named(e, n)
  <2> SUFFICES ASSUME NEW j \in DOMAIN e
               PROVE  /\ e[j].type = "ItemInserted" => e[j].item.id[1] = "srv" /\ e[j].item.id[2] <= n
                      /\ e[j].type \in {"ItemUpdated", "ItemDeleted"} => e[j].id[1] = "srv" /\ e[j].id[2] <= n
                      /\ e[j].type = "Snapshot" => WellFormed(e[j].data, 0, n) /\ Temps(e[j].data) = {}
                                                   /\ \A id \in IdsOf(e[j].data) : ~Makes(e, id)
    BY DEF Named
  <2>1. j + 1 \in DOMAIN d /\ e[j] = d[j + 1]
    BY <1>1
  <2> QED
    BY <1>2, <2>1 DEF Lists, Named
<1>5. ASSUME NEW i \in DOMAIN e, NEW j \in DOMAIN e, e[i].type = "ItemInserted"
      PROVE  /\ e[j].type = "ItemInserted" /\ e[j].item.id = e[i].item.id => i = j
             /\ e[j].type \in {"ItemUpdated", "ItemDeleted"} /\ e[j].id = e[i].item.id => i < j
  <2>1. i + 1 \in DOMAIN d /\ j + 1 \in DOMAIN d /\ e[i] = d[i + 1] /\ e[j] = d[j + 1]
    BY <1>1
  <2>2. /\ e[j].type = "ItemInserted" /\ e[j].item.id = e[i].item.id => i + 1 = j + 1
        /\ e[j].type \in {"ItemUpdated", "ItemDeleted"} /\ e[j].id = e[i].item.id => i + 1 < j + 1
    BY <1>5, <2>1 DEF Lists, Once
  <2>3. i \in Nat /\ j \in Nat
    BY <1>1
  <2>4. (i + 1 = j + 1 => i = j) /\ (i + 1 < j + 1 => i < j)
    BY <2>3
  <2> QED
    BY <2>2, <2>4
<1>6. Once(e)
  BY <1>5 DEF Once
<1> QED
  BY <1>3, <1>4, <1>6 DEF Lists, e

LEMMA ListsPassed ==
  ASSUME NEW is, NEW d, NEW os \in SUBSET Operations, NEW k, NEW n, Lists(is, d, os, k, n)
  PROVE  Lists(is, d, Passed(os), k, n)
<1>1. \A q \in Passed(os) : \E o \in os : q.prev = o.prev
  BY PassedAre
<1>2. ASSUME NEW q \in Passed(os) PROVE WellFormed(q.prev, k, n) /\ New(q.prev, d)
  BY <1>1 DEF Lists
<1> QED
  BY <1>2 DEF Lists

\* What the server has done with what d tells of.
LEMMA HistoryHeard ==
  ASSUME NEW d \in Seq(Replies), d # <<>>, NEW t, History(d, t), Once(d)
  PROVE  /\ History(Tail(d), t)
         /\ d[1].type = "ItemInserted" =>
              /\ Drops(Tail(d), d[1].item.id) \/ d[1].item.id \in IdsOf(t)
              /\ Sets(Tail(d), d[1].item.id) \/ Valued(t, d[1].item.id, d[1].item.val)
              /\ ~Makes(Tail(d), d[1].item.id)
         /\ d[1].type = "ItemUpdated" => Sets(Tail(d), d[1].id) \/ Valued(t, d[1].id, d[1].val)
         /\ d[1].type = "ItemDeleted" => d[1].id \notin IdsOf(t)
<1> DEFINE e == Tail(d)
<1>1. /\ 1 \in DOMAIN d
      /\ \A j \in DOMAIN d : j \in Nat /\ (j = 1 \/ (j - 1 \in DOMAIN e /\ d[j] = e[j - 1]))
      /\ \A j \in DOMAIN e : j \in Nat /\ j >= 1 /\ j + 1 \in DOMAIN d /\ e[j] = d[j + 1]
  BY QueueTail
<1>2. \A id : /\ Sets(d, id) <=> (d[1].type = "ItemUpdated" /\ d[1].id = id) \/ Sets(e, id)
              /\ Drops(d, id) <=> (d[1].type = "ItemDeleted" /\ d[1].id = id) \/ Drops(e, id)
  BY TailTells
<1> HIDE DEF e
<1>3. \A j \in DOMAIN e : 1 < j + 1 /\ ~(j + 1 < 1) /\ j + 1 # 1
  BY <1>1
<1>4. \A j \in DOMAIN e : /\ e[j].type = "ItemInserted" /\ d[1].type \in {"ItemUpdated", "ItemDeleted"} => d[1].id # e[j].item.id
                          /\ e[j].type = "ItemInserted" /\ d[1].type = "ItemInserted" => d[1].item.id # e[j].item.id
  BY <1>1, <1>3 DEF Once
<1>5. ASSUME NEW j \in DOMAIN e, e[j].type = "ItemInserted"
      PROVE  /\ ~Drops(e, e[j].item.id) => e[j].item.id \in IdsOf(t)
             /\ ~Sets(e, e[j].item.id) => Valued(t, e[j].item.id, e[j].item.val)
  <2>1. (Drops(d, e[j].item.id) => Drops(e, e[j].item.id)) /\ (Sets(d, e[j].item.id) => Sets(e, e[j].item.id))
    BY <1>2, <1>4, <1>5
  <2> QED
    BY <1>1, <1>5, <2>1 DEF History
<1>6. ASSUME NEW j \in DOMAIN e, e[j].type = "ItemUpdated"
      PROVE  \/ Valued(t, e[j].id, e[j].val)
             \/ \E k \in DOMAIN e : j < k /\ e[k].type = "ItemUpdated" /\ e[k].id = e[j].id
  <2> SUFFICES ASSUME ~Valued(t, e[j].id, e[j].val)
               PROVE  \E k \in DOMAIN e : j < k /\ e[k].type = "ItemUpdated" /\ e[k].id = e[j].id
    OBVIOUS
  <2>1. PICK k \in DOMAIN d : j + 1 < k /\ d[k].type = "ItemUpdated" /\ d[k].id = e[j].id
    BY <1>1, <1>6 DEF History
  <2>2. k # 1 /\ k \in Nat /\ j \in Nat
    BY <1>1, <2>1
  <2>3. k - 1 \in DOMAIN e /\ d[k] = e[k - 1] /\ j < k - 1
    BY <1>1, <2>1, <2>2
  <2> QED
    BY <2>1, <2>3
<1>7. History(e, t)
  BY <1>1, <1>5, <1>6 DEF History
<1>8. ASSUME d[1].type = "ItemInserted"
      PROVE  /\ Drops(e, d[1].item.id) \/ d[1].item.id \in IdsOf(t)
             /\ Sets(e, d[1].item.id) \/ Valued(t, d[1].item.id, d[1].item.val)
             /\ ~Makes(e, d[1].item.id)
  BY <1>1, <1>2, <1>4, <1>8 DEF History, Makes
<1>9. ASSUME d[1].type = "ItemUpdated" PROVE Sets(e, d[1].id) \/ Valued(t, d[1].id, d[1].val)
  <2> SUFFICES ASSUME ~Valued(t, d[1].id, d[1].val) PROVE Sets(e, d[1].id)
    OBVIOUS
  <2>1. PICK k \in DOMAIN d : 1 < k /\ d[k].type = "ItemUpdated" /\ d[k].id = d[1].id
    BY <1>1, <1>9 DEF History
  <2>2. k # 1
    BY <2>1
  <2>3. k - 1 \in DOMAIN e /\ d[k] = e[k - 1]
    BY <1>1, <2>2
  <2> QED
    BY <2>1, <2>3 DEF Sets
<1>10. d[1].type = "ItemDeleted" => d[1].id \notin IdsOf(t)
  BY <1>1 DEF History
<1> QED
  BY <1>7, <1>8, <1>9, <1>10 DEF e

LEMMA HistoryAnswered ==
  ASSUME NEW d \in Seq(Replies), NEW t, History(d, t), NEW a \in Replies, Answered(a)
  PROVE  History(Append(d, a), t)
<1> DEFINE b == Append(d, a)
<1>1. /\ b[Len(d) + 1] = a
      /\ \A j \in DOMAIN d : j \in DOMAIN b /\ b[j] = d[j]
      /\ \A j \in DOMAIN b : j \in DOMAIN d \/ j = Len(d) + 1
  BY QueueAppend
<1>2. \A id : (Sets(d, id) => Sets(b, id)) /\ (Drops(d, id) => Drops(b, id))
  BY AppendTells
<1> HIDE DEF b
<1>3. \A j \in DOMAIN b : b[j].type \notin {"Ack", "Reject"} => j \in DOMAIN d /\ b[j] = d[j]
  BY <1>1 DEF Answered
<1>4. History(b, t)
  <2> SUFFICES ASSUME NEW j \in DOMAIN b, b[j].type \notin {"Ack", "Reject"}
               PROVE  /\ b[j].type = "ItemInserted" =>
                           /\ ~Drops(b, b[j].item.id) => b[j].item.id \in IdsOf(t)
                           /\ ~Sets(b, b[j].item.id) => Valued(t, b[j].item.id, b[j].item.val)
                      /\ b[j].type = "ItemDeleted" => b[j].id \notin IdsOf(t)
                      /\ b[j].type = "ItemUpdated" =>
                           \/ Valued(t, b[j].id, b[j].val)
                           \/ \E k \in DOMAIN b : j < k /\ b[k].type = "ItemUpdated" /\ b[k].id = b[j].id
    BY DEF History
  <2>1. j \in DOMAIN d /\ b[j] = d[j]
    BY <1>3
  <2>2. d[j].type = "ItemUpdated" =>
          \/ Valued(t, d[j].id, d[j].val)
          \/ \E k \in DOMAIN b : j < k /\ b[k].type = "ItemUpdated" /\ b[k].id = d[j].id
    BY <1>1, <2>1 DEF History
  <2> QED
    BY <1>2, <2>1, <2>2 DEF History
<1> QED
  BY <1>4 DEF b

\* What an event tells is what becomes of t.
Becomes(t, e, r) ==
  \/ /\ e.type = "ItemInserted" /\ r = Append(t, e.item)
  \/ /\ e.type = "ItemUpdated" /\ r \in Seq(Items) /\ DOMAIN r = DOMAIN t
     /\ \A j \in DOMAIN t : r[j].id = t[j].id /\ r[j].val = IF t[j].id = e.id THEN e.val ELSE t[j].val
  \/ /\ e.type = "ItemDeleted" /\ r = Without(t, e.id)

LEMMA HistoryTold ==
  ASSUME NEW d \in Seq(Replies), NEW t \in Seq(Items), NEW n \in Nat, NEW m \in Nat, n <= m, History(d, t), Named(d, n),
         WellFormed(t, 0, n), NEW e \in Replies, Tells(e, n, m), NEW r, Becomes(t, e, r)
  PROVE  History(Append(d, e), r)
<1> DEFINE b == Append(d, e)  z == Len(d) + 1
<1>1. /\ b[z] = e /\ z \in DOMAIN b
      /\ \A j \in DOMAIN d : j \in DOMAIN b /\ b[j] = d[j] /\ j < z
      /\ \A j \in DOMAIN b : j \in DOMAIN d \/ j = z
  BY QueueAppend
<1>2. \A id : /\ Sets(b, id) <=> (e.type = "ItemUpdated" /\ e.id = id) \/ Sets(d, id)
              /\ Drops(b, id) <=> (e.type = "ItemDeleted" /\ e.id = id) \/ Drops(d, id)
  BY AppendTells
<1> HIDE DEF b, z
<1>3. /\ \A id : /\ id \in IdsOf(t) /\ ~(e.type = "ItemDeleted" /\ e.id = id) => id \in IdsOf(r)
                 /\ id \in IdsOf(r) => id \in IdsOf(t) \/ (e.type = "ItemInserted" /\ e.item.id = id)
      /\ e.type = "ItemInserted" => e.item.id \in IdsOf(r)
      /\ e.type = "ItemDeleted" => e.id \notin IdsOf(r)
      /\ \A id, v : Valued(t, id, v) /\ ~(e.type = "ItemUpdated" /\ e.id = id) /\ ~(e.type = "ItemInserted" /\ e.item.id = id)
           => Valued(r, id, v)
      /\ e.type = "ItemInserted" => Valued(r, e.item.id, e.item.val)
      /\ e.type = "ItemUpdated" => Valued(r, e.id, e.val)
  <2>1. CASE e.type = "ItemInserted" /\ r = Append(t, e.item)
    <3> DEFINE i == e.item  y == Len(t) + 1
    <3>1. i \in Items
      BY <2>1 DEF Replies
    <3>2. i.id = Srv(m) /\ n < m
      BY <2>1 DEF Tells
    <3>3. i.id \notin IdsOf(t)
      BY <3>2, NewName
    <3>4. /\ y \in DOMAIN r /\ r[y] = i
          /\ \A j \in DOMAIN t : j \in DOMAIN r /\ r[j] = t[j]
          /\ \A j \in DOMAIN r : j \in DOMAIN t \/ j = y
      BY <2>1, <3>1, QueueAppend
    <3> HIDE DEF i, y
    <3>5. IdsOf(r) = IdsOf(t) \cup {i.id}
      BY <3>4 DEF IdsOf
    <3>6. \A id, v : Valued(t, id, v) /\ i.id # id => Valued(r, id, v)
      BY <3>4 DEF Valued
    <3>7. Valued(r, i.id, i.val)
      BY <3>3, <3>4 DEF Valued, IdsOf
    <3> QED
      BY <2>1, <3>5, <3>6, <3>7 DEF i
  <2>2. CASE /\ e.type = "ItemUpdated" /\ DOMAIN r = DOMAIN t
             /\ \A j \in DOMAIN t : r[j].id = t[j].id /\ r[j].val = IF t[j].id = e.id THEN e.val ELSE t[j].val
    <3>1. IdsOf(r) = IdsOf(t)
      BY <2>2 DEF IdsOf
    <3>2. Valued(r, e.id, e.val)
      BY <2>2 DEF Valued
    <3>3. \A id, v : Valued(t, id, v) /\ e.id # id => Valued(r, id, v)
      BY <2>2 DEF Valued
    <3> QED
      BY <2>2, <3>1, <3>2, <3>3
  <2>3. CASE e.type = "ItemDeleted" /\ r = Without(t, e.id)
    <3>1. Distinct(t)
      BY DEF WellFormed
    <3>2. IdsOf(r) = IdsOf(t) \ {e.id}
      BY <2>3, <3>1, WithoutIs
    <3>3. \A j \in DOMAIN r : \E i \in DOMAIN t : r[j] = t[i]
      BY <2>3, <3>1, WithoutKeeps
    <3>4. \A id, v : Valued(t, id, v) => Valued(r, id, v)
      BY <3>3 DEF Valued
    <3> QED
      BY <2>3, <3>2, <3>4
  <2> QED
    BY <2>1, <2>2, <2>3 DEF Becomes
<1>4. ASSUME NEW j \in DOMAIN d, e.type = "ItemInserted"
      PROVE  /\ d[j].type = "ItemInserted" => d[j].item.id # e.item.id
             /\ d[j].type \in {"ItemUpdated", "ItemDeleted"} => d[j].id # e.item.id
  <2>1. /\ d[j].type = "ItemInserted" => d[j].item.id[2] <= n
        /\ d[j].type \in {"ItemUpdated", "ItemDeleted"} => d[j].id[2] <= n
    BY DEF Named
  <2>2. e.item.id[2] = m /\ n < m /\ ~(m <= n)
    BY <1>4, IdForms DEF Tells
  <2> QED
    BY <2>1, <2>2
<1>5. ASSUME NEW j \in DOMAIN b, b[j].type = "ItemInserted"
      PROVE  /\ ~Drops(b, b[j].item.id) => b[j].item.id \in IdsOf(r)
             /\ ~Sets(b, b[j].item.id) => Valued(r, b[j].item.id, b[j].item.val)
  <2>1. CASE j = z
    BY <1>1, <1>3, <1>5, <2>1
  <2>2. CASE j \in DOMAIN d
    <3>1. b[j] = d[j] /\ d[j].type = "ItemInserted"
      BY <1>1, <1>5, <2>2
    <3>2. e.type = "ItemInserted" => d[j].item.id # e.item.id
      BY <1>4, <2>2, <3>1
    <3>3. /\ ~Drops(d, d[j].item.id) => d[j].item.id \in IdsOf(t)
          /\ ~Sets(d, d[j].item.id) => Valued(t, d[j].item.id, d[j].item.val)
      BY <2>2, <3>1 DEF History
    <3> QED
      BY <1>2, <1>3, <3>1, <3>2, <3>3
  <2> QED
    BY <1>1, <2>1, <2>2
<1>6. ASSUME NEW j \in DOMAIN b, b[j].type = "ItemDeleted" PROVE b[j].id \notin IdsOf(r)
  <2>1. CASE j = z
    BY <1>1, <1>3, <1>6, <2>1
  <2>2. CASE j \in DOMAIN d
    BY <1>1, <1>3, <1>4, <1>6, <2>2 DEF History
  <2> QED
    BY <1>1, <2>1, <2>2
<1>7. ASSUME NEW j \in DOMAIN b, b[j].type = "ItemUpdated"
      PROVE  \/ Valued(r, b[j].id, b[j].val)
             \/ \E k \in DOMAIN b : j < k /\ b[k].type = "ItemUpdated" /\ b[k].id = b[j].id
  <2>1. CASE j = z
    BY <1>1, <1>3, <1>7, <2>1
  <2>2. CASE j \in DOMAIN d
    <3>1. b[j] = d[j] /\ d[j].type = "ItemUpdated" /\ j < z
      BY <1>1, <1>7, <2>2
    <3>2. CASE e.type = "ItemUpdated" /\ e.id = d[j].id
      BY <1>1, <3>1, <3>2
    <3>3. CASE Valued(t, d[j].id, d[j].val) /\ ~(e.type = "ItemUpdated" /\ e.id = d[j].id)
      BY <1>3, <1>4, <2>2, <3>1, <3>3
    <3>4. CASE \E k \in DOMAIN d : j < k /\ d[k].type = "ItemUpdated" /\ d[k].id = d[j].id
      BY <1>1, <3>1, <3>4
    <3> QED
      BY <2>2, <3>1, <3>2, <3>3, <3>4 DEF History
  <2> QED
    BY <1>1, <2>1, <2>2
<1>8. History(b, r)
  BY <1>5, <1>6, <1>7 DEF History
<1> QED
  BY <1>8 DEF b

-----------------------------------------------------------------------------
(* The server serves a page, and tells it what it did for another.         *)

LEMMA GreetingIs ==
  ASSUME NEW d \in Seq(Replies), Greeted(d)
  PROVE  1 \in DOMAIN d /\ d[1].data \in Seq(Items)
<1>1. 1 \in DOMAIN d /\ d[1] \in Replies
  BY QueueTail DEF Greeted
<1> QED
  BY <1>1 DEF Greeted, Replies

LEMMA AgreesTold ==
  ASSUME NEW is \in Seq(Items), NEW t \in Seq(Items), Distinct(t), NEW u, NEW d \in Seq(Replies), NEW os, NEW x,
         Agrees(is, t, u, d, os, x),
         NEW e \in Replies, e.type \in Events, NEW r, Becomes(t, e, r)
  PROVE  Agrees(is, r, u, Append(d, e), os, x)
<1> DEFINE M == Moves(u, d, os, x)  E == Edits(u, d, os, x)  W == Owed(u, d, x)
           N == Moves(u, Append(d, e), os, x)  F == Edits(u, Append(d, e), os, x)  Z == Owed(u, Append(d, e), x)
<1>1. Fits(is, t, M, E, W)
  BY DEF Agrees
<1>2. /\ M \subseteq N /\ E \subseteq F /\ W \subseteq Z
      /\ e.type = "ItemInserted" => e.item.id \in N /\ e.item.id \in F
      /\ e.type = "ItemUpdated" => e.id \in F
      /\ e.type = "ItemDeleted" => e.id \in N
  BY EventExplains DEF Explains
<1> HIDE DEF M, E, W, N, F, Z
<1>3. CASE e.type = "ItemInserted" /\ r = Append(t, e.item)
  <2> DEFINE i == e.item
  <2>1. i \in Items
    BY <1>3 DEF Replies
  <2> HIDE DEF i
  <2>2. Fits(is, Append(t, i), M \cup {i.id}, E \cup {i.id}, W)
    BY <1>1, <2>1, FitsInserted
  <2>3. M \cup {i.id} \subseteq N /\ E \cup {i.id} \subseteq F
    BY <1>2, <1>3 DEF i
  <2>4. Fits(is, Append(t, i), N, F, Z)
    BY <1>2, <2>2, <2>3, FitsMore
  <2> QED
    BY <1>3, <2>4 DEF i, Agrees, N, F, Z
<1>4. CASE /\ e.type = "ItemUpdated" /\ DOMAIN r = DOMAIN t
           /\ \A j \in DOMAIN t : r[j].id = t[j].id /\ r[j].val = IF t[j].id = e.id THEN e.val ELSE t[j].val
  <2>1. \A j \in DOMAIN t : r[j].id = t[j].id /\ (t[j].id # e.id => r[j].val = t[j].val)
    BY <1>4
  <2>2. Fits(is, r, M, E \cup {e.id}, W)
    BY <1>1, <1>4, <2>1, FitsUpdated
  <2>3. E \cup {e.id} \subseteq F
    BY <1>2, <1>4
  <2>4. Fits(is, r, N, F, Z)
    BY <1>2, <2>2, <2>3, FitsMore
  <2> QED
    BY <2>4 DEF Agrees, N, F, Z
<1>5. CASE e.type = "ItemDeleted" /\ r = Without(t, e.id)
  <2>2. Fits(is, r, M \cup {e.id}, E, W)
    BY <1>1, <1>5, FitsDeleted
  <2>3. M \cup {e.id} \subseteq N
    BY <1>2, <1>5
  <2>4. Fits(is, r, N, F, Z)
    BY <1>2, <2>2, <2>3, FitsMore
  <2> QED
    BY <2>4 DEF Agrees, N, F, Z
<1> QED
  BY <1>3, <1>4, <1>5 DEF Becomes

LEMMA PageTold ==
  ASSUME NEW open, NEW u \in Seq(Requests), NEW d \in Seq(Replies), NEW os \in SUBSET Operations,
         NEW is \in Seq(Items), NEW r, NEW t \in Seq(Items), NEW k \in Nat, NEW n \in Nat, NEW m \in Nat, n <= m,
         PageInv(open, TRUE, u, d, os, is, r, t, k, n), WellFormed(t, 0, n),
         NEW e \in Replies, Tells(e, n, m), NEW t2, Becomes(t, e, t2)
  PROVE  PageInv(open, TRUE, u, Append(d, e), os, is, r, t2, k, m)
<1> DEFINE b == Append(d, e)
<1>1. e.type \in Events /\ e.type # "Snapshot" /\ ~Answered(e) /\ Distinct(t)
  BY DEF Tells, Events, Answered, WellFormed
<1>2. Channel(open, TRUE, u, b)
  BY <1>1, ChannelTold DEF PageInv
<1>3. Numbers(u, b, os, k)
  BY <1>1, NumbersTold DEF PageInv
<1>4. Lists(is, b, os, k, m)
  BY ListsTold DEF PageInv
<1>5. History(b, t2)
  BY HistoryTold DEF PageInv, Lists
<1>6. \A js \in Seq(Items), x \in Nat : Agrees(js, t, u, d, os, x) => Agrees(js, t2, u, b, os, x)
  BY <1>1, AgreesTold
<1>7. (Greeted(b) <=> Greeted(d)) /\ (Greeted(d) => b[1] = d[1])
  BY <1>1, GreetedTold
<1>8. Greeted(d) => d[1].data \in Seq(Items)
  BY GreetingIs
<1>9. \A q : Refuses(b, q) => Refuses(d, q)
  BY <1>1, AppendAnswers DEF Events
<1>10. \A o \in os : o.op \in Nat /\ o.prev \in Seq(Items)
  BY DEF Operations
<1>11. Synced(is, t, u, d, os, r)
  BY DEF PageInv
<1> HIDE DEF b
<1>12. Synced(is, t2, u, b, os, r)
  <2>1. Greeted(b) => Agrees(b[1].data, t2, u, b, os, 0)
    BY <1>6, <1>7, <1>8, <1>11 DEF Synced
  <2>2. ASSUME ~Greeted(b), ~r
        PROVE  /\ Agrees(is, t2, u, b, os, 0)
               /\ \A o \in os : ~o.passed /\ (Asks(u, o.op) \/ Refuses(b, o.op)) => Agrees(o.prev, t2, u, b, os, o.op)
    BY <1>6, <1>7, <1>9, <1>10, <1>11, <2>2 DEF Synced
  <2> QED
    BY <2>1, <2>2 DEF Synced
<1> QED
  BY <1>2, <1>3, <1>4, <1>5, <1>12 DEF PageInv, b

\* u and d change while the lists do not.
LEMMA SyncedMore ==
  ASSUME NEW is, NEW t, NEW u, NEW d, NEW v, NEW g, NEW os, NEW r, Synced(is, t, u, d, os, r),
         Greeted(g) <=> Greeted(d), Greeted(d) => g[1] = d[1],
         \A x : Explains(u, d, os, x, v, g, os, x),
         \A o \in os : Asks(v, o.op) \/ Refuses(g, o.op) => Asks(u, o.op) \/ Refuses(d, o.op)
  PROVE  Synced(is, t, v, g, os, r)
<1>1. \A js, x : Agrees(js, t, u, d, os, x) => Agrees(js, t, v, g, os, x)
  BY AgreesMore
<1> QED
  BY <1>1 DEF Synced

\* What is asked for is confirmed after its event.
LEMMA PageConfirmed ==
  ASSUME NEW open, NEW u \in Seq(Requests), u # <<>>, NEW d \in Seq(Replies), NEW os \in SUBSET Operations,
         NEW is, NEW r, NEW t, NEW k, NEW n, NEW e \in Replies,
         PageInv(open, TRUE, u, Append(d, e), os, is, r, t, k, n),
         NEW a \in Replies, a.type = "Ack", a.op = u[1].op,
         \/ u[1].type = "Insert" /\ e.type = "ItemInserted"
         \/ u[1].type = "Update" /\ e.type = "ItemUpdated" /\ e.id = u[1].id
         \/ u[1].type = "Delete" /\ e.type = "ItemDeleted" /\ e.id = u[1].id,
         u[1].type # "Insert" => u[1].id[1] = "srv"
  PROVE  PageInv(open, TRUE, Tail(u), Append(Append(d, e), a), os, is, r, t, k, n)
<1> DEFINE v == Tail(u)  b == Append(d, e)  g == Append(b, a)
<1>1. Answered(a) /\ a.type # "Snapshot" /\ u[1].type # "Subscribe"
  BY DEF Answered
<1>2. b \in Seq(Replies) /\ v \in Seq(Requests)
  BY QueueTail
<1>3. \A x : Explains(u, b, os, x, v, g, os, x)
  BY AckExplains
<1> HIDE DEF b
<1>4. PageInv(open, TRUE, u, b, os, is, r, t, k, n)
  BY DEF b
<1>5. Channel(open, TRUE, v, b)
  BY <1>4, ChannelServed DEF PageInv
<1>6. Channel(open, TRUE, v, g)
  BY <1>1, <1>2, <1>5, ChannelTold
<1>7. /\ Numbers(v, b, os, k)
      /\ \A j \in DOMAIN v : v[j].type # "Subscribe" => u[1].op < v[j].op
      /\ \A j \in DOMAIN b : Answered(b[j]) => b[j].op < u[1].op
      /\ \E o \in os : o.op = u[1].op /\ o.type = u[1].type /\ o.id = u[1].id
  BY <1>1, <1>4, NumbersServed DEF PageInv
<1>8. Numbers(v, g, os, k)
  BY <1>1, <1>2, <1>7, NumbersAnswered
<1>9. Lists(is, g, os, k, n)
  BY <1>1, <1>2, <1>4, ListsAnswered DEF PageInv
<1>10. History(g, t)
  BY <1>1, <1>2, <1>4, HistoryAnswered DEF PageInv
<1>11. (Greeted(g) <=> Greeted(b)) /\ (Greeted(b) => g[1] = b[1])
  BY <1>1, <1>2, GreetedTold
<1>12. \A q : (Refuses(g, q) => Refuses(b, q)) /\ (Asks(v, q) => Asks(u, q))
  BY <1>2, AppendAnswers, TailAsks DEF Kinds
<1>13. Synced(is, t, u, b, os, r)
  BY <1>4 DEF PageInv
<1> HIDE DEF v, g
<1>14. Synced(is, t, v, g, os, r)
  BY <1>3, <1>11, <1>12, <1>13, SyncedMore
<1> QED
  BY <1>6, <1>8, <1>9, <1>10, <1>14 DEF PageInv, v, g, b

LEMMA PageRefused ==
  ASSUME NEW open, NEW u \in Seq(Requests), u # <<>>, NEW d \in Seq(Replies), NEW os \in SUBSET Operations,
         NEW is, NEW r, NEW t, NEW k, NEW n, PageInv(open, TRUE, u, d, os, is, r, t, k, n),
         NEW a \in Replies, a.type = "Reject", a.op = u[1].op
  PROVE  PageInv(open, TRUE, Tail(u), Append(d, a), os, is, r, t, k, n)
<1> DEFINE v == Tail(u)  g == Append(d, a)
<1>1. Answered(a) /\ a.type # "Snapshot" /\ v \in Seq(Requests)
  BY QueueTail DEF Answered
<1>2. Channel(open, TRUE, v, d) /\ u[1].type # "Subscribe"
  BY ChannelServed DEF PageInv
<1>3. /\ Numbers(v, d, os, k)
      /\ \A j \in DOMAIN v : v[j].type # "Subscribe" => u[1].op < v[j].op
      /\ \A j \in DOMAIN d : Answered(d[j]) => d[j].op < u[1].op
      /\ \E o \in os : o.op = u[1].op /\ o.type = u[1].type /\ o.id = u[1].id
  BY <1>2, NumbersServed DEF PageInv
<1>4. PICK o \in os : o.op = u[1].op /\ o.type = u[1].type /\ o.id = u[1].id
  BY <1>3
<1>5. \A x : Explains(u, d, os, x, v, g, os, x)
  BY <1>4, RejectExplains
<1>6. Channel(open, TRUE, v, g)
  BY <1>1, <1>2, ChannelTold
<1>8. Numbers(v, g, os, k)
  BY <1>1, <1>3, <1>4, NumbersAnswered
<1>9. Lists(is, g, os, k, n)
  BY <1>1, ListsAnswered DEF PageInv
<1>10. History(g, t)
  BY <1>1, HistoryAnswered DEF PageInv
<1>11. (Greeted(g) <=> Greeted(d)) /\ (Greeted(d) => g[1] = d[1])
  BY <1>1, GreetedTold
<1>12. \A q : /\ Refuses(g, q) => Refuses(d, q) \/ q = u[1].op
              /\ Asks(v, q) => Asks(u, q)
              /\ q = u[1].op => Asks(u, q)
  BY <1>1, <1>2, AppendAnswers, TailAsks DEF Kinds
<1>13. Synced(is, t, u, d, os, r)
  BY DEF PageInv
<1> HIDE DEF v, g
<1>14. Synced(is, t, v, g, os, r)
  BY <1>5, <1>11, <1>12, <1>13, SyncedMore
<1> QED
  BY <1>6, <1>8, <1>9, <1>10, <1>14 DEF PageInv, v, g

\* A page that subscribes is sent the list.
LEMMA PageGreeted ==
  ASSUME NEW open, NEW u \in Seq(Requests), u # <<>>, NEW d \in Seq(Replies), NEW os \in SUBSET Operations,
         NEW is, NEW r, NEW t \in Seq(Items), NEW k, NEW n, WellFormed(t, 0, n), Temps(t) = {},
         NEW s, PageInv(open, s, u, d, os, is, r, t, k, n), u[1].type = "Subscribe",
         NEW a \in Replies, a.type = "Snapshot", a.data = t
  PROVE  PageInv(open, TRUE, Tail(u), Append(d, a), os, is, r, t, k, n)
<1> DEFINE v == Tail(u)  g == Append(d, a)
<1>1. /\ open /\ ~s /\ d = <<>>
      /\ \A j \in DOMAIN v : v[j].type # "Subscribe"
  <2>1. /\ open /\ ~s /\ \A j \in DOMAIN v : v[j].type # "Subscribe"
    BY ChannelServed DEF PageInv
  <2> QED
    BY <2>1 DEF PageInv, Channel
<1>2. 1 \in DOMAIN g /\ g[1] = a /\ g # <<>> /\ \A j \in DOMAIN g : j = 1
  <2>1. /\ g # <<>> /\ Len(d) + 1 \in DOMAIN g /\ g[Len(d) + 1] = a
        /\ \A j \in DOMAIN g : j \in DOMAIN d \/ j = Len(d) + 1
    BY QueueAppend
  <2>2. Len(d) = 0 /\ DOMAIN d = {}
    BY <1>1
  <2> QED
    BY <2>1, <2>2
<1>3. Numbers(v, d, os, k)
  BY NumbersServed DEF PageInv
<1>4. Numbers(v, g, os, k)
  BY <1>3, NumbersTold DEF Answered
<1> HIDE DEF g, v
<1>5. Channel(open, TRUE, v, g)
  BY <1>1, <1>2 DEF Channel
<1>6. \A id : ~Makes(g, id)
  BY <1>2 DEF Makes
<1>7. Named(g, n)
  BY <1>2, <1>6 DEF Named
<1>8. Once(g)
  BY <1>2 DEF Once
<1>9. Lists(is, g, os, k, n)
  BY <1>6, <1>7, <1>8 DEF PageInv, Lists, New
<1>10. History(g, t)
  BY <1>2 DEF History
<1>11. Distinct(t) /\ Waits(t)
  <2>1. \A i \in DOMAIN t : t[i].id[1] # "temp"
    BY ListItems
  <2> QED
    BY <2>1 DEF WellFormed, Waits
<1>12. Agrees(t, t, v, g, os, 0)
  BY <1>11, FitsItself DEF Agrees
<1>13. Synced(is, t, v, g, os, r)
  BY <1>2, <1>12 DEF Synced, Greeted
<1> QED
  BY <1>4, <1>5, <1>9, <1>10, <1>13 DEF PageInv, v, g

\* A page that the server does not tell.
LEMMA PageUntold ==
  ASSUME NEW open, NEW u, NEW d \in Seq(Replies), NEW os \in SUBSET Operations,
         NEW is \in Seq(Items), NEW r, NEW t, NEW t2, NEW k \in Nat, NEW n \in Nat, NEW m \in Nat, n <= m,
         PageInv(open, FALSE, u, d, os, is, r, t, k, n)
  PROVE  PageInv(open, FALSE, u, d, os, is, r, t2, k, m)
<1>1. k <= k /\ Lists(is, d, os, k, n)
  BY DEF PageInv
<1>2. Lists(is, d, os, k, m)
  BY <1>1, ListsMore
<1> QED
  BY <1>2 DEF PageInv

-----------------------------------------------------------------------------
(* A page's own operation.                                                 *)

\* What the page shows of it at once.
Shows(is, m, e, r) ==
  \/ m.type = "Insert" /\ e \in Items /\ e.id = m.id /\ e.wait /\ r = Append(is, e)
  \/ /\ m.type = "Update" /\ r \in Seq(Items) /\ DOMAIN r = DOMAIN is
     /\ \A i \in DOMAIN is : r[i].id = is[i].id /\ (is[i].id # m.id => r[i].val = is[i].val)
     /\ Waits(is) => Waits(r)
  \/ m.type = "Delete" /\ r = Without(is, m.id)

LEMMA ListsAsked ==
  ASSUME NEW is \in Seq(Items), NEW d \in Seq(Replies), NEW os \in SUBSET Operations, NEW k \in Nat, NEW n \in Nat,
         Lists(is, d, os, k, n), NEW m \in Requests, m.type = "Insert" => m.id = Temp(k + 1),
         NEW e, NEW r, Shows(is, m, e, r), NEW o, o.prev = is
  PROVE  Lists(r, d, os \cup {o}, k + 1, n) /\ r \in Seq(Items) /\ (m.type = "Insert" => e.id \notin IdsOf(is))
<1>0. k + 1 \in Nat /\ k <= k + 1 /\ k < k + 1 /\ n <= n
  OBVIOUS
<1>1. Lists(is, d, os, k + 1, n)
  BY <1>0, ListsMore
<1>2. WellFormed(is, k, n) /\ WellFormed(is, k + 1, n) /\ New(is, d) /\ Named(d, n) /\ Distinct(is)
  BY <1>1 DEF Lists, WellFormed
<1>3. ASSUME m.type = "Insert" /\ e \in Items /\ e.id = m.id /\ e.wait /\ r = Append(is, e)
      PROVE  WellFormed(r, k + 1, n) /\ New(r, d) /\ r \in Seq(Items) /\ e.id \notin IdsOf(is)
  <2>1. e.id = Temp(k + 1) /\ e.id[1] = "temp" /\ e.id[2] = k + 1
    BY <1>0, <1>3, IdForms
  <2>2. e.id \notin IdsOf(is)
    <3> SUFFICES ASSUME NEW i \in DOMAIN is, is[i].id = e.id PROVE FALSE
      BY DEF IdsOf
    <3>1. k + 1 <= k
      BY <1>2, <2>1 DEF WellFormed, Within
    <3> QED
      BY <3>1
  <2>3. /\ r \in Seq(Items) /\ IdsOf(r) = IdsOf(is) \cup {e.id}
        /\ WellFormed(r, k + 1, n)
    BY <1>0, <1>2, <1>3, <2>1, <2>2, AppendIs
  <2>4. ~Makes(d, e.id)
    BY <1>2, <2>1 DEF Named, Makes
  <2> QED
    BY <1>2, <2>2, <2>3, <2>4 DEF New
<1>4. ASSUME /\ m.type = "Update" /\ r \in Seq(Items) /\ DOMAIN r = DOMAIN is
             /\ \A i \in DOMAIN is : r[i].id = is[i].id
      PROVE  WellFormed(r, k + 1, n) /\ New(r, d) /\ r \in Seq(Items)
  <2>1. IdsOf(r) = IdsOf(is) /\ WellFormed(r, k + 1, n)
    BY <1>2, <1>4, SameShape
  <2> QED
    BY <1>2, <1>4, <2>1 DEF New
<1>5. ASSUME m.type = "Delete" /\ r = Without(is, m.id)
      PROVE  WellFormed(r, k + 1, n) /\ New(r, d) /\ r \in Seq(Items)
  <2>1. IdsOf(r) = IdsOf(is) \ {m.id} /\ r \in Seq(Items)
    BY <1>2, <1>5, WithoutIs
  <2>2. WellFormed(r, k + 1, n)
    BY <1>2, <1>5, WithoutKeeps
  <2> QED
    BY <1>2, <2>1, <2>2 DEF New
<1>6. WellFormed(r, k + 1, n) /\ New(r, d) /\ r \in Seq(Items) /\ (m.type = "Insert" => e.id \notin IdsOf(is))
  BY <1>3, <1>4, <1>5 DEF Shows
<1> QED
  BY <1>1, <1>2, <1>6 DEF Lists

LEMMA AgreesAsked ==
  ASSUME NEW is \in Seq(Items), Distinct(is), NEW t \in Seq(Items), Temps(t) = {},
         NEW u \in Seq(Requests), NEW d, NEW os, NEW o, Agrees(is, t, u, d, os, 0),
         NEW m \in Requests, m.type # "Subscribe", m.op # 0, m.op \notin Owed(u, d, 0), m.type = "Insert" => m.id = Temp(m.op),
         NEW e, NEW r, Shows(is, m, e, r), m.type = "Insert" => e.id \notin IdsOf(is)
  PROVE  Agrees(r, t, Append(u, m), d, os \cup {o}, 0)
<1> DEFINE M == Moves(u, d, os, 0)  E == Edits(u, d, os, 0)  W == Owed(u, d, 0)
           N == Moves(Append(u, m), d, os \cup {o}, 0)  F == Edits(Append(u, m), d, os \cup {o}, 0)
           Z == Owed(Append(u, m), d, 0)
<1>1. Fits(is, t, M, E, W) /\ m.op \notin W
  BY DEF Agrees
<1>2. /\ M \subseteq N /\ E \subseteq F /\ W \subseteq Z
      /\ m.type = "Insert" => m.op \in Z
      /\ m.type = "Update" => m.id \in F
      /\ m.type = "Delete" => m.id \in N
  BY AskExplains DEF Explains
<1> HIDE DEF M, E, W, N, F, Z
<1>3. CASE m.type = "Insert" /\ e \in Items /\ e.id = m.id /\ e.wait /\ r = Append(is, e)
  <2>1. m.op \in Nat /\ e.id = Temp(m.op)
    BY <1>3 DEF Requests
  <2>2. e.id \notin IdsOf(t)
    BY <2>1 DEF Temps
  <2>3. Fits(r, t, M, E, W \cup {m.op})
    BY <1>1, <1>3, <2>1, <2>2, FitsInsert
  <2>4. W \cup {m.op} \subseteq Z
    BY <1>2, <1>3
  <2>5. Fits(r, t, N, F, Z)
    BY <1>2, <2>3, <2>4, FitsMore
  <2> QED
    BY <2>5 DEF Agrees, N, F, Z
<1>4. CASE /\ m.type = "Update" /\ r \in Seq(Items) /\ DOMAIN r = DOMAIN is
           /\ \A i \in DOMAIN is : r[i].id = is[i].id /\ (is[i].id # m.id => r[i].val = is[i].val)
           /\ Waits(is) => Waits(r)
  <2>1. Waits(r)
    BY <1>1, <1>4 DEF Fits
  <2>2. Fits(r, t, M, E \cup {m.id}, W)
    BY <1>1, <1>4, <2>1, FitsUpdate
  <2>3. E \cup {m.id} \subseteq F
    BY <1>2, <1>4
  <2>4. Fits(r, t, N, F, Z)
    BY <1>2, <2>2, <2>3, FitsMore
  <2> QED
    BY <2>4 DEF Agrees, N, F, Z
<1>5. CASE m.type = "Delete" /\ r = Without(is, m.id)
  <2>2. Fits(r, t, M \cup {m.id}, E, W)
    BY <1>1, <1>5, FitsDelete
  <2>3. M \cup {m.id} \subseteq N
    BY <1>2, <1>5
  <2>4. Fits(r, t, N, F, Z)
    BY <1>2, <2>2, <2>3, FitsMore
  <2> QED
    BY <2>4 DEF Agrees, N, F, Z
<1> QED
  BY <1>3, <1>4, <1>5 DEF Shows

\* What is under way when it was sent, or dropped on a closed socket.
Sends(open, u, m, w) == w = IF open THEN Append(u, m) ELSE u

\* The operation as a whole, at a page that has is.
Does(open, u, is, k, m, o, e, js, w) ==
  AsksFor(m, o, k) /\ o.prev = is /\ Shows(is, m, e, js) /\ Sends(open, u, m, w)

LEMMA PageAsked ==
  ASSUME NEW open, NEW s, NEW u \in Seq(Requests), NEW d \in Seq(Replies), NEW os \in SUBSET Operations,
         NEW is \in Seq(Items), NEW r, NEW t \in Seq(Items), Temps(t) = {}, NEW k \in Nat, NEW n \in Nat,
         PageInv(open, s, u, d, os, is, r, t, k, n),
         NEW m, NEW o, NEW e, NEW js, NEW w, Does(open, u, is, k, m, o, e, js, w)
  PROVE  /\ PageInv(open, s, w, d, os \cup {o}, js, r, t, k + 1, n)
         /\ js \in Seq(Items)
<1>d. AsksFor(m, o, k) /\ o.prev = is /\ Shows(is, m, e, js) /\ Sends(open, u, m, w)
  BY DEF Does
<1> DEFINE v == Append(u, m)  qs == os \cup {o}
<1>0. /\ m \in Requests /\ m.type # "Subscribe" /\ m.op = k + 1 /\ (m.type = "Insert" => m.id = Temp(k + 1))
      /\ o.op = k + 1 /\ o.type = m.type /\ o.id = m.id
  BY <1>d DEF AsksFor
<1>a. /\ Numbers(u, d, qs, k + 1) /\ Numbers(v, d, qs, k + 1)
      /\ Unused(u, d, os, k + 1)
  BY <1>d, NumbersAsked DEF PageInv
<1>1. /\ Numbers(u, d, qs, k + 1) /\ Numbers(v, d, qs, k + 1)
      /\ \A j \in DOMAIN u : u[j].type # "Subscribe" => u[j].op # k + 1
      /\ \A q \in os : q.op # k + 1
      /\ \A j \in DOMAIN d : Answered(d[j]) => d[j].op # k + 1
  BY <1>a DEF Unused
<1>2. Lists(js, d, qs, k + 1, n) /\ js \in Seq(Items) /\ (m.type = "Insert" => e.id \notin IdsOf(is))
  BY <1>0, <1>d, ListsAsked DEF PageInv
<1>3. Distinct(is) /\ k + 1 # 0 /\ k + 1 \in Nat
  BY DEF PageInv, Lists, WellFormed
<1>4. \A x \in Nat : k + 1 \notin Owed(u, d, x)
  <2>1. ~Inserts(u, k + 1)
    BY <1>1 DEF Inserts
  <2>2. ~Confirms(d, k + 1) /\ ~Refuses(d, k + 1)
    BY <1>1 DEF Confirms, Refuses, Answered
  <2> QED
    BY <2>1, <2>2 DEF Owed
<1>5. \A x : Explains(u, d, os, x, v, d, qs, x)
  BY <1>0, AskExplains
<1>6. Explains(u, d, os, 0, u, d, os, k + 1)
  BY <1>1, <1>4, NobodyExplains
<1>7. \A l, x : Agrees(l, t, u, d, os, x) => Agrees(l, t, v, d, qs, x)
  BY <1>5, AgreesMore
<1>8. Agrees(is, t, u, d, os, 0) => Agrees(is, t, v, d, qs, k + 1)
  BY <1>6, <1>7, AgreesMore
<1>9. Agrees(is, t, u, d, os, 0) => Agrees(js, t, v, d, qs, 0)
  BY <1>0, <1>d, <1>2, <1>3, <1>4, AgreesAsked
<1>10. \A q : Asks(v, q) <=> Asks(u, q) \/ q = k + 1
  BY <1>0, AppendAsks DEF Kinds
<1>11. \A q \in qs : q \in os \/ q = o
  OBVIOUS
<1>12. open => Channel(open, s, v, d)
  BY <1>0, ChannelAsked DEF PageInv
<1>13. s => open
  BY DEF PageInv, Channel
<1>14. s => Synced(is, t, u, d, os, r)
  BY DEF PageInv
<1>15. ~Refuses(d, k + 1)
  BY <1>1 DEF Refuses, Answered
<1> HIDE DEF v, qs
<1>16. ASSUME s PROVE Synced(js, t, v, d, qs, r)
  <2>1. Greeted(d) => Agrees(d[1].data, t, v, d, qs, 0)
    BY <1>7, <1>14, <1>16 DEF Synced
  <2>2. ASSUME ~Greeted(d), ~r PROVE Agrees(js, t, v, d, qs, 0)
    BY <1>9, <1>14, <1>16, <2>2 DEF Synced
  <2>3. ASSUME ~Greeted(d), ~r, NEW q \in qs, ~q.passed, Asks(v, q.op) \/ Refuses(d, q.op)
        PROVE  Agrees(q.prev, t, v, d, qs, q.op)
    <3>1. CASE q = o
      BY <1>0, <1>d, <1>8, <1>14, <1>16, <2>3, <3>1 DEF Synced
    <3>2. CASE q \in os
      BY <1>1, <1>7, <1>10, <1>14, <1>16, <2>3, <3>2 DEF Synced
    <3> QED
      BY <1>11, <3>1, <3>2
  <2> QED
    BY <2>1, <2>2, <2>3 DEF Synced
<1>17. CASE open
  <2>1. PageInv(open, s, v, d, qs, js, r, t, k + 1, n)
    BY <1>1, <1>2, <1>12, <1>16, <1>17 DEF PageInv
  <2> QED
    BY <1>d, <1>2, <1>17, <2>1 DEF v, qs, Sends
<1>18. CASE ~open
  <2>1. PageInv(open, s, u, d, qs, js, r, t, k + 1, n)
    BY <1>1, <1>2, <1>13, <1>18 DEF PageInv
  <2> QED
    BY <1>d, <1>2, <1>18, <2>1 DEF qs, Sends
<1> QED
  BY <1>17, <1>18

\* Another page's operation, or none.
LEMMA PageElse ==
  ASSUME NEW open, NEW s, NEW u, NEW d \in Seq(Replies), NEW os \in SUBSET Operations,
         NEW is \in Seq(Items), NEW r, NEW t, NEW k \in Nat, NEW n \in Nat,
         PageInv(open, s, u, d, os, is, r, t, k, n)
  PROVE  PageInv(open, s, u, d, os, is, r, t, k + 1, n)
<1>0. k + 1 \in Nat /\ k <= k + 1 /\ n <= n
  OBVIOUS
<1>1. Lists(is, d, os, k + 1, n)
  BY <1>0, ListsMore DEF PageInv
<1>2. Numbers(u, d, os, k + 1)
  BY <1>0, NumbersMore DEF PageInv
<1> QED
  BY <1>1, <1>2 DEF PageInv

\* The socket opens and closes.
LEMMA PageOpened ==
  ASSUME NEW s, NEW u, NEW d, NEW os, NEW is, NEW r, NEW t, NEW k, NEW n, PageInv(FALSE, s, u, d, os, is, r, t, k, n),
         NEW a, a.type = "Subscribe"
  PROVE  PageInv(TRUE, s, <<a>>, d, os, is, r, t, k, n)
<1> DEFINE v == <<a>>
<1>1. ~s /\ u = <<>> /\ d = <<>>
  BY DEF PageInv, Channel
<1>2. v # <<>> /\ DOMAIN v = {1} /\ v[1] = a
  OBVIOUS
<1>3. DOMAIN d = {}
  BY <1>1
<1> HIDE DEF v
<1>4. Channel(TRUE, s, v, d)
  BY <1>1, <1>2, <1>3 DEF Channel
<1>5. \A j \in DOMAIN v : j = 1 /\ v[j].type = "Subscribe"
  BY <1>2
<1>6. Matched(v, d, os) /\ Queued(v, d)
  BY <1>3, <1>5 DEF Matched, Queued
<1> QED
  BY <1>1, <1>4, <1>6 DEF PageInv, Numbers, v

LEMMA PageClosed ==
  ASSUME NEW open, NEW s, NEW u, NEW d, NEW os, NEW is, NEW r, NEW t, NEW k, NEW n, PageInv(open, s, u, d, os, is, r, t, k, n)
  PROVE  PageInv(FALSE, FALSE, <<>>, <<>>, os, is, r, t, k, n)
<1> DEFINE e == <<>>
<1>1. DOMAIN e = {} /\ e = <<>>
  OBVIOUS
<1> HIDE DEF e
<1>2. Channel(FALSE, FALSE, e, e)
  BY <1>1 DEF Channel
<1>3. Matched(e, e, os) /\ Queued(e, e)
  BY <1>1 DEF Matched, Queued
<1>4. \A id : ~Makes(e, id)
  BY <1>1 DEF Makes
<1>5. Lists(is, e, os, k, n)
  BY <1>1, <1>4 DEF PageInv, Lists, New, Named, Once
<1> QED
  BY <1>1, <1>2, <1>3, <1>5 DEF PageInv, Numbers

-----------------------------------------------------------------------------
(* A page handles what it is told.                                         *)

Heard(open, s, u, d, os, is, r, t, k, n) ==
  /\ s /\ Channel(open, TRUE, u, Tail(d)) /\ ~Greeted(Tail(d))
  /\ Numbers(u, Tail(d), os, k) /\ Lists(is, Tail(d), os, k, n) /\ History(Tail(d), t)
  /\ Synced(is, t, u, d, os, r) /\ 1 \in DOMAIN d /\ d[1] \in Replies
  /\ Greeted(d) <=> d[1].type = "Snapshot"
  /\ WellFormed(is, k, n) /\ Distinct(is) /\ New(is, d)

LEMMA PageHeard ==
  ASSUME NEW open, NEW s, NEW u, NEW d \in Seq(Replies), d # <<>>, NEW os \in SUBSET Operations,
         NEW is, NEW r, NEW t, NEW k, NEW n, PageInv(open, s, u, d, os, is, r, t, k, n)
  PROVE  Heard(open, s, u, d, os, is, r, t, k, n)
<1>0. s /\ Channel(open, s, u, Tail(d)) /\ ~Greeted(Tail(d))
  BY ChannelHeard DEF PageInv
<1>1. s /\ Channel(open, TRUE, u, Tail(d)) /\ ~Greeted(Tail(d))
  BY <1>0 DEF Channel
<1>2. Numbers(u, Tail(d), os, k)
  BY NumbersHeard DEF PageInv
<1>3. Lists(is, Tail(d), os, k, n)
  BY ListsHeard DEF PageInv
<1>4. History(Tail(d), t)
  BY <1>1, HistoryHeard DEF PageInv, Lists
<1>5. Synced(is, t, u, d, os, r)
  BY <1>1 DEF PageInv
<1>6. 1 \in DOMAIN d /\ d[1] \in Replies
  BY QueueTail
<1>7. Greeted(d) <=> d[1].type = "Snapshot"
  BY DEF Greeted
<1>8. WellFormed(is, k, n) /\ Distinct(is) /\ New(is, d)
  BY DEF PageInv, Lists, WellFormed
<1> QED
  BY <1>1, <1>2, <1>3, <1>4, <1>5, <1>6, <1>7, <1>8 DEF Heard

\* Operations that are passed are not answered for; the list is what Agrees says.
LEMMA PagePassed ==
  ASSUME NEW open, NEW u, NEW d, NEW os \in SUBSET Operations, NEW is, NEW r, NEW t, NEW k, NEW n,
         Channel(open, TRUE, u, d), ~Greeted(d), Numbers(u, d, os, k), Lists(is, d, os, k, n), History(d, t),
         ~r => Agrees(is, t, u, d, Passed(os), 0)
  PROVE  PageInv(open, TRUE, u, d, Passed(os), is, r, t, k, n)
<1>1. Numbers(u, d, Passed(os), k)
  BY NumbersPassed
<1>2. Lists(is, d, Passed(os), k, n)
  BY ListsPassed
<1>3. \A q \in Passed(os) : q.passed
  BY PassedAre
<1>4. Synced(is, t, u, d, Passed(os), r)
  BY <1>3 DEF Synced
<1> QED
  BY <1>1, <1>2, <1>4 DEF PageInv

\* A passed operation is refused like before.
LEMMA HeardPassed ==
  ASSUME NEW d \in Seq(Replies), d # <<>>, d[1].type # "Reject", NEW u, NEW os \in SUBSET Operations, NEW x
  PROVE  /\ \A id \in Moves(u, d, os, x) : \/ id \in Moves(u, Tail(d), Passed(os), x)
                                           \/ d[1].type = "ItemInserted" /\ d[1].item.id = id
                                           \/ d[1].type = "ItemDeleted" /\ d[1].id = id
         /\ \A id \in Edits(u, d, os, x) : \/ id \in Edits(u, Tail(d), Passed(os), x)
                                           \/ d[1].type = "ItemInserted" /\ d[1].item.id = id
                                           \/ d[1].type = "ItemUpdated" /\ d[1].id = id
<1> DEFINE qs == Passed(os)
<1>1. ASSUME NEW o \in os PROVE \E q \in qs : q.op = o.op /\ q.type = o.type /\ q.id = o.id
  BY PassedAre, ZenonT(60)
<1>2. \A k : Refuses(d, k) => Refuses(Tail(d), k)
  BY TailAnswers
<1> HIDE DEF qs
<1>3. \A o \in os : o.op # x /\ Refuses(d, o.op) =>
        Refuses(Tail(d), o.op) /\ \E q \in qs : q.op = o.op /\ q.type = o.type /\ q.id = o.id
  BY ONLY <1>1, <1>2
<1>4. /\ \A id \in Moves(u, d, os, x) : \/ id \in Moves(u, Tail(d), qs, x)
                                        \/ d[1].type = "ItemInserted" /\ d[1].item.id = id
                                        \/ d[1].type = "ItemDeleted" /\ d[1].id = id
      /\ \A id \in Edits(u, d, os, x) : \/ id \in Edits(u, Tail(d), qs, x)
                                        \/ d[1].type = "ItemInserted" /\ d[1].item.id = id
                                        \/ d[1].type = "ItemUpdated" /\ d[1].id = id
  BY <1>3, HeardExplains
<1> QED
  BY <1>4 DEF qs

LEMMA PageSnapshot ==
  ASSUME NEW open, NEW s, NEW u, NEW d \in Seq(Replies), d # <<>>, NEW os \in SUBSET Operations,
         NEW is, NEW r, NEW t, NEW k \in Nat, NEW n \in Nat, PageInv(open, s, u, d, os, is, r, t, k, n),
         d[1].type = "Snapshot"
  PROVE  PageInv(open, TRUE, u, Tail(d), Passed(os), d[1].data, FALSE, t, k, n) /\ d[1].data \in Seq(Items)
<1> DEFINE e == Tail(d)  js == d[1].data  qs == Passed(os)
<1>1. /\ s /\ Channel(open, TRUE, u, e) /\ ~Greeted(e) /\ Numbers(u, e, os, k) /\ Lists(is, e, os, k, n)
      /\ History(e, t) /\ Synced(is, t, u, d, os, r) /\ Greeted(d) /\ 1 \in DOMAIN d
  <2>1. Heard(open, s, u, d, os, is, r, t, k, n)
    BY PageHeard
  <2> QED
    BY <2>1 DEF Heard
<1>2. js \in Seq(Items)
  BY <1>1, GreetingIs
<1>3. Agrees(js, t, u, d, os, 0)
  BY <1>1 DEF Synced
<1>4. /\ \A id \in Moves(u, d, os, 0) : id \in Moves(u, e, qs, 0)
      /\ \A id \in Edits(u, d, os, 0) : id \in Edits(u, e, qs, 0)
  BY HeardPassed
<1>5. Owed(u, d, 0) \subseteq Owed(u, e, 0)
  BY HeardOwed
<1>6. \A id : Makes(e, id) => Makes(d, id)
  BY TailTells
<1>7. WellFormed(js, 0, n) /\ \A id \in IdsOf(js) : ~Makes(d, id)
  BY <1>1 DEF PageInv, Lists, Named
<1> HIDE DEF e, js, qs
<1>8. Agrees(js, t, u, e, qs, 0)
  BY <1>3, <1>4, <1>5, AgreesMore DEF Explains
<1>9. WellFormed(js, k, n)
  <2>1. 0 \in Nat /\ 0 <= k /\ n <= n
    OBVIOUS
  <2> QED
    BY <1>2, <1>7, <2>1, WellFormedMore
<1>10. Lists(js, e, os, k, n)
  BY <1>1, <1>6, <1>7, <1>9 DEF Lists, New
<1>11. PageInv(open, TRUE, u, e, qs, js, FALSE, t, k, n)
  BY <1>1, <1>8, <1>10, PagePassed DEF qs
<1> QED
  BY <1>2, <1>11 DEF e, js, qs

LEMMA PageInserted ==
  ASSUME NEW open, NEW s, NEW u, NEW d \in Seq(Replies), d # <<>>, NEW os \in SUBSET Operations,
         NEW is \in Seq(Items), NEW r, NEW t, NEW k \in Nat, NEW n \in Nat,
         PageInv(open, s, u, d, os, is, r, t, k, n), d[1].type = "ItemInserted"
  PROVE  /\ PageInv(open, TRUE, u, Tail(d), Passed(os), Inserted(is, d[1].item), r, t, k, n)
         /\ Inserted(is, d[1].item) \in Seq(Items)
<1> DEFINE e == Tail(d)  i == d[1].item  qs == Passed(os)  js == Inserted(is, d[1].item)
<1>1. /\ s /\ Channel(open, TRUE, u, e) /\ ~Greeted(e) /\ Numbers(u, e, os, k) /\ Lists(is, e, os, k, n)
      /\ History(e, t) /\ Synced(is, t, u, d, os, r) /\ ~Greeted(d) /\ 1 \in DOMAIN d /\ d[1] \in Replies
      /\ WellFormed(is, k, n) /\ New(is, d)
  <2>1. Heard(open, s, u, d, os, is, r, t, k, n)
    BY PageHeard
  <2> QED
    BY <2>1 DEF Heard
<1>2. i \in Items
  BY <1>1 DEF Replies
<1>3. i.id[1] = "srv" /\ i.id[2] <= n
  BY <1>1 DEF PageInv, Lists, Named
<1>4. i.id \notin IdsOf(is)
  BY <1>1 DEF New, Makes
<1>5. /\ Drops(e, i.id) \/ i.id \in IdsOf(t)
      /\ Sets(e, i.id) \/ Valued(t, i.id, i.val)
      /\ ~Makes(e, i.id)
  BY <1>1, HistoryHeard DEF PageInv, Lists
<1>6. /\ \A id \in Moves(u, d, os, 0) : id \in Moves(u, e, qs, 0) \/ i.id = id
      /\ \A id \in Edits(u, d, os, 0) : id \in Edits(u, e, qs, 0) \/ i.id = id
  BY HeardPassed
<1>7. \E w : AllBut(Owed(u, d, 0), w, Owed(u, e, 0))
  BY HeardOwed
<1>8. js = Inserted(is, i)
  OBVIOUS
<1> HIDE DEF e, i, qs, js
<1>9. /\ js \in Seq(Items) /\ WellFormed(js, k, n) /\ IdsOf(js) \subseteq IdsOf(is) \cup {i.id}
  BY <1>1, <1>2, <1>3, <1>4, <1>8, InsertedIs
<1>10. Lists(js, e, os, k, n)
  BY <1>1, <1>5, <1>9 DEF Lists, New
<1>11. ASSUME ~r PROVE Agrees(js, t, u, e, qs, 0)
  <2> DEFINE M == Moves(u, d, os, 0)  E == Edits(u, d, os, 0)  W == Owed(u, d, 0)
             N == Moves(u, e, qs, 0)  F == Edits(u, e, qs, 0)  Z == Owed(u, e, 0)
  <2>1. Fits(is, t, M, E, W) /\ W \in SUBSET Nat
    BY <1>1, <1>11 DEF Synced, Agrees, Owed
  <2>2. M \subseteq N \cup {i.id} /\ E \subseteq F \cup {i.id}
    BY <1>6
  <2>3. i.id \in Ids
    BY <1>2 DEF Items
  <2>4. (i.id \in N \/ i.id \in IdsOf(t)) /\ (i.id \in F \/ Valued(t, i.id, i.val))
    BY <1>5, <2>3 DEF Moves, Edits
  <2>5. PICK w : AllBut(W, w, Z)
    BY <1>7
  <2> HIDE DEF M, E, W, N, F, Z
  <2>6. Fits(Inserted(is, i), t, N, F, Z)
    BY <1>1, <1>2, <1>3, <1>4, <2>1, <2>2, <2>4, <2>5, FitsInsertedHere
  <2> QED
    BY <1>8, <2>6 DEF Agrees, N, F, Z
<1>12. PageInv(open, TRUE, u, e, qs, js, r, t, k, n)
  BY <1>1, <1>10, <1>11, PagePassed DEF qs
<1> QED
  BY <1>9, <1>12 DEF e, qs, js

LEMMA PageUpdated ==
  ASSUME NEW open, NEW s, NEW u, NEW d \in Seq(Replies), d # <<>>, NEW os \in SUBSET Operations,
         NEW is \in Seq(Items), NEW r, NEW t, NEW k \in Nat, NEW n \in Nat,
         PageInv(open, s, u, d, os, is, r, t, k, n), d[1].type = "ItemUpdated"
  PROVE  /\ PageInv(open, TRUE, u, Tail(d), Passed(os), Updated(is, d[1].id, d[1].val), r, t, k, n)
         /\ Updated(is, d[1].id, d[1].val) \in Seq(Items)
<1> DEFINE e == Tail(d)  i == d[1].id  v == d[1].val  qs == Passed(os)  js == Updated(is, d[1].id, d[1].val)
<1>1. /\ s /\ Channel(open, TRUE, u, e) /\ ~Greeted(e) /\ Numbers(u, e, os, k) /\ Lists(is, e, os, k, n)
      /\ History(e, t) /\ Synced(is, t, u, d, os, r) /\ ~Greeted(d) /\ 1 \in DOMAIN d /\ d[1] \in Replies
      /\ WellFormed(is, k, n) /\ Distinct(is)
  <2>1. Heard(open, s, u, d, os, is, r, t, k, n)
    BY PageHeard
  <2> QED
    BY <2>1 DEF Heard
<1>2. i \in Ids /\ v \in Values
  BY <1>1 DEF Replies
<1>3. i[1] = "srv"
  BY <1>1 DEF PageInv, Lists, Named
<1>5. Sets(e, i) \/ Valued(t, i, v)
  BY <1>1, HistoryHeard DEF PageInv, Lists
<1>6. /\ \A id \in Moves(u, d, os, 0) : id \in Moves(u, e, qs, 0)
      /\ \A id \in Edits(u, d, os, 0) : id \in Edits(u, e, qs, 0) \/ i = id
  BY HeardPassed
<1>7. Owed(u, d, 0) \subseteq Owed(u, e, 0)
  BY HeardOwed
<1>8. js = Updated(is, i, v)
  OBVIOUS
<1> HIDE DEF e, i, v, qs, js
<1>9. js \in Seq(Items) /\ DOMAIN js = DOMAIN is /\ \A j \in DOMAIN is : js[j].id = is[j].id
  BY <1>2, <1>8, UpdatedIs
<1>10. IdsOf(js) = IdsOf(is) /\ WellFormed(js, k, n)
  BY <1>1, <1>9, SameShape
<1>11. Lists(js, e, os, k, n)
  BY <1>1, <1>10 DEF Lists, New
<1>12. ASSUME ~r PROVE Agrees(js, t, u, e, qs, 0)
  <2> DEFINE M == Moves(u, d, os, 0)  E == Edits(u, d, os, 0)  W == Owed(u, d, 0)
             N == Moves(u, e, qs, 0)  F == Edits(u, e, qs, 0)  Z == Owed(u, e, 0)
  <2>1. Fits(is, t, M, E, W)
    BY <1>1, <1>12 DEF Synced, Agrees
  <2>2. M \subseteq N /\ E \subseteq F \cup {i} /\ W \subseteq Z
    BY <1>6, <1>7
  <2>4. i \in F \/ Valued(t, i, v)
    BY <1>2, <1>5 DEF Edits
  <2> HIDE DEF M, E, W, N, F, Z
  <2>6. Fits(js, t, M, F, W)
    BY <1>1, <1>2, <1>3, <1>8, <2>1, <2>2, <2>4, FitsUpdatedHere
  <2>7. Fits(js, t, N, F, Z)
    BY <2>2, <2>6, FitsMore
  <2> QED
    BY <2>7 DEF Agrees, N, F, Z
<1>13. PageInv(open, TRUE, u, e, qs, js, r, t, k, n)
  BY <1>1, <1>11, <1>12, PagePassed DEF qs
<1> QED
  BY <1>9, <1>13 DEF e, qs, js

LEMMA PageDeleted ==
  ASSUME NEW open, NEW s, NEW u, NEW d \in Seq(Replies), d # <<>>, NEW os \in SUBSET Operations,
         NEW is \in Seq(Items), NEW r, NEW t, NEW k \in Nat, NEW n \in Nat,
         PageInv(open, s, u, d, os, is, r, t, k, n), d[1].type = "ItemDeleted"
  PROVE  /\ PageInv(open, TRUE, u, Tail(d), Passed(os), Without(is, d[1].id), r, t, k, n)
         /\ Without(is, d[1].id) \in Seq(Items)
<1> DEFINE e == Tail(d)  i == d[1].id  qs == Passed(os)  js == Without(is, d[1].id)
<1>1. /\ s /\ Channel(open, TRUE, u, e) /\ ~Greeted(e) /\ Numbers(u, e, os, k) /\ Lists(is, e, os, k, n)
      /\ History(e, t) /\ Synced(is, t, u, d, os, r) /\ ~Greeted(d) /\ 1 \in DOMAIN d /\ d[1] \in Replies
      /\ WellFormed(is, k, n) /\ Distinct(is)
  <2>1. Heard(open, s, u, d, os, is, r, t, k, n)
    BY PageHeard
  <2> QED
    BY <2>1 DEF Heard
<1>5. i \notin IdsOf(t)
  BY <1>1, HistoryHeard DEF PageInv, Lists
<1>6. /\ \A id \in Moves(u, d, os, 0) : id \in Moves(u, e, qs, 0) \/ i = id
      /\ \A id \in Edits(u, d, os, 0) : id \in Edits(u, e, qs, 0)
  BY HeardPassed
<1>7. Owed(u, d, 0) \subseteq Owed(u, e, 0)
  BY HeardOwed
<1>8. js = Without(is, i)
  OBVIOUS
<1> HIDE DEF e, i, qs, js
<1>9. js \in Seq(Items) /\ IdsOf(js) = IdsOf(is) \ {i}
  BY <1>1, <1>8, WithoutIs
<1>10. WellFormed(js, k, n)
  BY <1>1, <1>8, WithoutKeeps
<1>11. Lists(js, e, os, k, n)
  BY <1>1, <1>9, <1>10 DEF Lists, New
<1>12. ASSUME ~r PROVE Agrees(js, t, u, e, qs, 0)
  <2> DEFINE M == Moves(u, d, os, 0)  E == Edits(u, d, os, 0)  W == Owed(u, d, 0)
             N == Moves(u, e, qs, 0)  F == Edits(u, e, qs, 0)  Z == Owed(u, e, 0)
  <2>1. Fits(is, t, M, E, W)
    BY <1>1, <1>12 DEF Synced, Agrees
  <2>2. M \subseteq N \cup {i} /\ E \subseteq F /\ W \subseteq Z
    BY <1>6, <1>7
  <2> HIDE DEF M, E, W, N, F, Z
  <2>6. Fits(js, t, N, E, W)
    BY <1>1, <1>5, <1>8, <2>1, <2>2, FitsDeletedHere
  <2>7. Fits(js, t, N, F, Z)
    BY <2>2, <2>6, FitsMore
  <2> QED
    BY <2>7 DEF Agrees, N, F, Z
<1>13. PageInv(open, TRUE, u, e, qs, js, r, t, k, n)
  BY <1>1, <1>11, <1>12, PagePassed DEF qs
<1> QED
  BY <1>9, <1>13 DEF e, qs, js

\* What is confirmed is shown, or was replaced by what the server made of it.
LEMMA PageAcked ==
  ASSUME NEW open, NEW s, NEW u, NEW d \in Seq(Replies), d # <<>>, NEW os \in SUBSET Operations,
         NEW is \in Seq(Items), NEW r, NEW t, NEW k \in Nat, NEW n \in Nat,
         PageInv(open, s, u, d, os, is, r, t, k, n), d[1].type = "Ack", NEW o \in os, o.op = d[1].op
  PROVE  PageInv(open, TRUE, u, Tail(d), os \ {o}, Acked(is, o), r, t, k, n) /\ Acked(is, o) \in Seq(Items)
<1> DEFINE e == Tail(d)  qs == os \ {o}  js == Acked(is, o)
<1>a. Heard(open, s, u, d, os, is, r, t, k, n)
  BY PageHeard
<1>b. Answered(d[1]) /\ Numbers(u, d, os, k) /\ o \in Operations
  BY DEF Answered, PageInv
<1>1. /\ \A j \in DOMAIN u : u[j].type # "Subscribe" => u[j].op # o.op
      /\ \A j \in DOMAIN e : Answered(e[j]) => e[j].op # o.op
      /\ \E q \in os : q.op = o.op /\ (q.type # "Insert" => q.id[1] = "srv")
  <2>1. FirstAnswer(u, d, os)
    BY <1>b, NumbersFirst
  <2> QED
    BY <2>1 DEF FirstAnswer
<1>2. /\ Numbers(u, e, os, k) /\ Lists(is, e, os, k, n) /\ 1 \in DOMAIN d
      /\ Distinct(is) /\ WellFormed(is, k, n) /\ ~Greeted(d) /\ ~Greeted(e)
  BY <1>a DEF Heard
<1>3. Numbers(u, e, qs, k)
  BY <1>1, <1>2, NumbersDone
<1>4. js \in Seq(Items) /\ DOMAIN js = DOMAIN is /\ \A j \in DOMAIN is : js[j].id = is[j].id
  BY <1>b, AckedIs
<1>5. IdsOf(js) = IdsOf(is) /\ WellFormed(js, k, n)
  BY <1>2, <1>4, SameShape
<1>6. \A q \in qs : q \in os
  OBVIOUS
<1>7. /\ \A q \in os : q.op # o.op => q \in qs
      /\ \A q : Refuses(d, q) => Refuses(e, q)
      /\ \A q : Refuses(e, q) => Refuses(d, q)
  BY TailAnswers
<1>8. ~Refuses(e, o.op)
  BY <1>1 DEF Refuses, Answered
<1>9. \A x : Explains(u, d, os, x, u, e, qs, x)
  <2> TAKE x
  <2>1. \A q \in os : q.op # x /\ Refuses(d, q.op) =>
          Refuses(e, q.op) /\ \E q2 \in qs : q2.op = q.op /\ q2.type = q.type /\ q2.id = q.id
    BY <1>7, <1>8
  <2> HIDE DEF qs
  <2>2. /\ \A id \in Moves(u, d, os, x) : id \in Moves(u, e, qs, x)
        /\ \A id \in Edits(u, d, os, x) : id \in Edits(u, e, qs, x)
    BY <2>1, HeardExplains
  <2>3. Owed(u, d, x) \subseteq Owed(u, e, x)
    BY HeardOwed
  <2> QED
    BY <2>2, <2>3 DEF Explains
<1>10. \A l, x : Agrees(l, t, u, d, os, x) => Agrees(l, t, u, e, qs, x)
  BY <1>9, AgreesMore
<1>11. \A x \in Owed(u, d, 0) : o.op < x
  <2>1. ASSUME NEW x \in Owed(u, d, 0), Inserts(u, x) PROVE o.op < x
    BY <1>2, <1>b, <2>1 DEF Inserts, Numbers, Queued
  <2>2. ASSUME NEW x \in Owed(u, d, 0), ~Inserts(u, x) PROVE o.op < x
    <3>1. Confirms(e, x) \/ Refuses(e, x)
      BY <1>7, <2>2, TailAnswers DEF Owed
    <3>2. \E j \in DOMAIN d : j > 1 /\ Answered(d[j]) /\ d[j].op = x
      BY <3>1, TailAnswers DEF Answered
    <3>3. PICK j \in DOMAIN d : j > 1 /\ Answered(d[j]) /\ d[j].op = x
      BY <3>2
    <3>4. 1 < j
      BY <3>3, QueueTail
    <3> QED
      BY <1>2, <1>b, <3>3, <3>4 DEF Numbers, Queued
  <2> QED
    BY <2>1, <2>2
<1>12. o.type # "Insert" => o.id[1] = "srv"
  BY <1>1, <1>2 DEF Numbers, Known
<1>13. ASSUME Agrees(is, t, u, d, os, 0) PROVE Agrees(js, t, u, d, os, 0)
  <2>1. Backed(Temps(is), Owed(u, d, 0)) /\ Owed(u, d, 0) \in SUBSET Nat /\ Temps(is) \in SUBSET Nat /\ o.op \in Nat
    BY <1>b, <1>13, ListItems DEF Agrees, Fits, Owed, Operations
  <2>2. o.op \notin Temps(is)
    BY <1>11, <2>1, BackedLater
  <2>3. o.type = "Insert" => o.id \notin IdsOf(is)
    BY <1>2, <2>1, <2>2 DEF Temps, Numbers, Known
  <2>4. o.id[1] = "srv" \/ o.id \notin IdsOf(is)
    BY <1>12, <2>3
  <2> QED
    BY <1>b, <1>13, <2>4, FitsAcked DEF Agrees
<1>14. Synced(is, t, u, d, os, r) /\ History(e, t) /\ Channel(open, TRUE, u, e)
  BY <1>a DEF Heard
<1> HIDE DEF e, qs, js
<1>15. Lists(js, e, qs, k, n)
  BY <1>2, <1>5, <1>6 DEF Lists, New
<1>16. Synced(js, t, u, e, qs, r)
  BY <1>2, <1>6, <1>7, <1>10, <1>13, <1>14 DEF Synced
<1>17. PageInv(open, TRUE, u, e, qs, js, r, t, k, n)
  BY <1>3, <1>14, <1>15, <1>16 DEF PageInv
<1> QED
  BY <1>4, <1>17 DEF e, qs, js

\* What is refused is undone, with all that came after it.
LEMMA PageRejected ==
  ASSUME NEW open, NEW s, NEW u, NEW d \in Seq(Replies), d # <<>>, NEW os \in SUBSET Operations,
         NEW is \in Seq(Items), NEW r, NEW t, NEW k \in Nat, NEW n \in Nat,
         PageInv(open, s, u, d, os, is, r, t, k, n), d[1].type = "Reject", NEW o \in os, o.op = d[1].op,
         NEW r2, r2 <=> r \/ o.passed
  PROVE  PageInv(open, TRUE, u, Tail(d), Passed(os \ {o}), o.prev, r2, t, k, n)
<1> DEFINE e == Tail(d)  qs == os \ {o}  ps == Passed(os \ {o})
<1>a. Heard(open, s, u, d, os, is, r, t, k, n)
  BY PageHeard
<1>b. Answered(d[1]) /\ Numbers(u, d, os, k) /\ o \in Operations /\ qs \in SUBSET Operations
  BY DEF Answered, PageInv
<1>1. /\ \A j \in DOMAIN u : u[j].type # "Subscribe" => u[j].op # o.op
      /\ \A j \in DOMAIN e : Answered(e[j]) => e[j].op # o.op
  <2>1. FirstAnswer(u, d, os)
    BY <1>b, NumbersFirst
  <2> QED
    BY <2>1 DEF FirstAnswer
<1>2. /\ Numbers(u, e, os, k) /\ Lists(is, e, os, k, n) /\ 1 \in DOMAIN d
      /\ ~Greeted(d) /\ ~Greeted(e)
  BY <1>a DEF Heard
<1>3. Numbers(u, e, qs, k)
  BY <1>1, <1>2, NumbersDone
<1>c. ps = Passed(qs)
  OBVIOUS
<1>6. \A q \in qs : q \in os
  OBVIOUS
<1>7. /\ \A q \in os : q.op # o.op => q \in qs
      /\ \A q : Refuses(d, q) => Refuses(e, q) \/ q = o.op
      /\ Refuses(d, o.op)
  BY TailAnswers
<1>8. Synced(is, t, u, d, os, r) /\ History(e, t) /\ Channel(open, TRUE, u, e)
  BY <1>a DEF Heard
<1> HIDE DEF qs, ps
<1>9. ASSUME NEW q \in qs PROVE \E p \in ps : p.op = q.op /\ p.type = q.type /\ p.id = q.id
  <2>1. qs \in SUBSET Operations
    BY <1>b
  <2>2. PICK p \in Passed(qs) : p.op = q.op /\ p.type = q.type /\ p.id = q.id
    BY <2>1, PassedAre
  <2> QED
    BY <1>c, <2>2
<1>10. Explains(u, d, os, o.op, u, e, ps, o.op)
  <2>1. \A q \in os : q.op # o.op /\ Refuses(d, q.op) =>
          Refuses(e, q.op) /\ \E p \in ps : p.op = q.op /\ p.type = q.type /\ p.id = q.id
    BY <1>7, <1>9
  <2>2. /\ \A id \in Moves(u, d, os, o.op) : id \in Moves(u, e, ps, o.op)
        /\ \A id \in Edits(u, d, os, o.op) : id \in Edits(u, e, ps, o.op)
    BY <2>1, HeardExplains
  <2>3. Owed(u, d, o.op) \subseteq Owed(u, e, o.op)
    BY HeardOwed
  <2> QED
    BY <2>2, <2>3 DEF Explains
<1> HIDE DEF e
<1>11. Numbers(u, e, ps, k)
  BY <1>b, <1>c, <1>3, NumbersPassed
<1>12. Explains(u, e, ps, o.op, u, e, ps, 0)
  <2>1. \A p \in ps : p.op # 0
    BY <1>11 DEF Numbers, Known
  <2>2. \A j \in DOMAIN u : u[j].type # "Subscribe" => u[j].op # 0
    BY <1>11, <2>1 DEF Numbers, Matched
  <2>3. \A j \in DOMAIN e : Answered(e[j]) => e[j].op # 0
    BY <1>11, <2>1 DEF Numbers, Matched
  <2>4. ~Inserts(u, 0)
    BY <2>2 DEF Inserts
  <2>5. ~Confirms(e, 0) /\ ~Refuses(e, 0)
    BY <2>3 DEF Confirms, Refuses, Answered
  <2>6. 0 \notin Owed(u, e, o.op)
    BY <2>4, <2>5 DEF Owed
  <2> QED
    BY <2>1, <2>2, <2>6, NobodyExplains
<1>13. ~r2 => Agrees(o.prev, t, u, e, ps, 0)
  <2>1. ~r2 => Agrees(o.prev, t, u, d, os, o.op)
    BY <1>2, <1>7, <1>8 DEF Synced
  <2>2. ~r2 => Agrees(o.prev, t, u, e, ps, o.op)
    BY <1>10, <2>1, AgreesMore
  <2> QED
    BY <1>12, <2>2, AgreesMore
<1>14. Lists(o.prev, e, qs, k, n)
  BY <1>2, <1>6 DEF Lists
<1>15. PageInv(open, TRUE, u, e, ps, o.prev, r2, t, k, n)
  BY <1>b, <1>c, <1>2, <1>3, <1>8, <1>13, <1>14, PagePassed
<1> QED
  BY <1>15 DEF e, ps

-----------------------------------------------------------------------------
(* The steps.                                                              *)

LEMMA PageTypes ==
  ASSUME RealtimeTypeOK, NEW c \in Pages
  PROVE  /\ sock[c] \in {"closed", "open"} /\ items[c] \in Seq(Items) /\ unanswered[c] \in SUBSET Operations
         /\ rolled[c] \in BOOLEAN /\ up[c] \in Seq(Requests) /\ down[c] \in Seq(Replies)
         /\ list \in Seq(Items) /\ named \in Nat /\ ops \in Nat
BY RealtimeAssumption DEF RealtimeTypeOK

LEMMA RealtimeInvInit ==
  ASSUME RealtimeInit
  PROVE  RealtimeInv
<1>1. /\ <<>> \in Seq(Items) /\ <<>> \in Seq(Requests) /\ <<>> \in Seq(Replies)
      /\ DOMAIN <<>> = {}
  OBVIOUS
<1>2. list \in Seq(Items) /\ WellFormed(list, 0, 0) /\ Temps(list) = {}
  <2>1. CASE list = <<>>
    <3>1. WellFormed(list, 0, 0)
      BY <1>1, <2>1 DEF WellFormed, Distinct, InTurn, Within
    <3> QED
      BY <1>1, <2>1, <3>1 DEF Temps, IdsOf
  <2>2. ASSUME NEW v \in Values, list = <<Item("srv", 0, v, FALSE)>> PROVE list \in Seq(Items) /\ WellFormed(list, 0, 0) /\ Temps(list) = {}
    <3> DEFINE i == Item("srv", 0, v, FALSE)
    <3>1. i \in Items /\ i.id = Srv(0)
      BY DEF Item, Items, Ids, Srv
    <3>2. list = <<i>>
      BY <2>2
    <3> HIDE DEF i
    <3>3. list \in Seq(Items) /\ DOMAIN list = {1} /\ list[1] = i
      BY <3>1, <3>2
    <3>4. i.id[1] = "srv" /\ i.id[2] = 0 /\ 0 <= 0
      BY <3>1, IdForms
    <3>5. WellFormed(list, 0, 0)
      BY <3>3, <3>4 DEF WellFormed, Distinct, InTurn, Within
    <3>6. \A n \in Nat : Temp(n)[1] = "temp"
      BY IdForms
    <3>7. Temps(list) = {}
      BY <3>3, <3>4, <3>6 DEF Temps, IdsOf
    <3> QED
      BY <3>3, <3>5, <3>7
  <2> QED
    BY <2>1, <2>2 DEF RealtimeInit
<1>3. RealtimeTypeOK
  BY <1>1, <1>2, RealtimeAssumption DEF RealtimeTypeOK, RealtimeInit
<1>4. ServerInv
  BY <1>2 DEF ServerInv, RealtimeInit
<1>5. ASSUME NEW c \in Pages PROVE PageOK(c)
  <2>1. /\ sock[c] = "closed" /\ c \notin subs /\ up[c] = <<>> /\ down[c] = <<>> /\ unanswered[c] = {}
        /\ items[c] = <<>> /\ named = 0 /\ ops = 0
    BY DEF RealtimeInit
  <2>2. Channel(FALSE, FALSE, up[c], down[c])
    BY <1>1, <2>1 DEF Channel
  <2>3. Numbers(up[c], down[c], unanswered[c], 0)
    BY <1>1, <2>1 DEF Numbers, Known, Matched, Queued
  <2>4. WellFormed(items[c], 0, 0) /\ New(items[c], down[c])
    BY <1>1, <2>1 DEF WellFormed, Distinct, InTurn, Within, New, IdsOf
  <2>5. Lists(items[c], down[c], unanswered[c], 0, 0)
    BY <1>1, <2>1, <2>4 DEF Lists, Named, Once
  <2>6. (sock[c] = "open") = FALSE /\ (c \in subs) = FALSE
    BY <2>1
  <2>7. PageInv(FALSE, FALSE, up[c], down[c], unanswered[c], items[c], rolled[c], list, 0, 0)
    BY <2>2, <2>3, <2>5 DEF PageInv
  <2> QED
    BY <2>1, <2>6, <2>7 DEF PageOK
<1> QED
  BY <1>3, <1>4, <1>5 DEF RealtimeInv

LEMMA RealtimeStutters ==
  ASSUME RealtimeInv, UNCHANGED realtimeVars
  PROVE  RealtimeInv'
<1>1. RealtimeTypeOK'
  BY DEF RealtimeInv, RealtimeTypeOK, realtimeVars, page
<1>2. ServerInv'
  BY DEF RealtimeInv, ServerInv, realtimeVars, page
<1>3. ASSUME NEW c \in Pages PROVE PageOK(c)'
  BY DEF RealtimeInv, PageOK, realtimeVars, page
<1> QED
  BY <1>1, <1>2, <1>3 DEF RealtimeInv

LEMMA OpenKeeps ==
  ASSUME RealtimeInv, NEW c \in Pages, Open(c)
  PROVE  RealtimeInv'
<1>1. RealtimeTypeOK'
  <2>1. Opening \in Seq(Requests)
    BY DEF Opening, Requests
  <2> QED
    BY <2>1 DEF RealtimeInv, RealtimeTypeOK, Open
<1>2. ServerInv'
  BY DEF RealtimeInv, ServerInv, Open
<1>3. ASSUME NEW p \in Pages PROVE PageOK(p)'
  <2>1. /\ UNCHANGED <<items, unanswered, rolled, down, subs, list, named, ops>>
        /\ PageOK(p) /\ sock[c] = "closed"
    BY DEF Open, RealtimeInv
  <2>2. CASE p = c
    <3>1. (sock[c] = "open") = FALSE /\ (sock'[c] = "open") = TRUE /\ up'[c] = Opening
      BY DEF Open, RealtimeInv, RealtimeTypeOK
    <3>2. PageInv(FALSE, c \in subs, up[c], down[c], unanswered[c], items[c], rolled[c], list, ops, named)
      BY <2>1, <2>2, <3>1 DEF PageOK
    <3>3. PageInv(TRUE, c \in subs, Opening, down[c], unanswered[c], items[c], rolled[c], list, ops, named)
      BY <3>2, PageOpened DEF Opening
    <3> QED
      BY <2>1, <2>2, <3>1, <3>3 DEF PageOK
  <2>3. CASE p # c
    <3>1. sock'[p] = sock[p] /\ up'[p] = up[p]
      BY <2>3 DEF Open, RealtimeInv, RealtimeTypeOK
    <3> QED
      BY <2>1, <3>1 DEF PageOK
  <2> QED
    BY <2>2, <2>3
<1> QED
  BY <1>1, <1>2, <1>3 DEF RealtimeInv

LEMMA CloseKeeps ==
  ASSUME RealtimeInv, NEW c \in Pages, Close(c)
  PROVE  RealtimeInv'
<1>1. RealtimeTypeOK'
  BY RealtimeAssumption DEF RealtimeInv, RealtimeTypeOK, Close
<1>2. ServerInv'
  BY DEF RealtimeInv, ServerInv, Close
<1>3. ASSUME NEW p \in Pages PROVE PageOK(p)'
  <2>1. /\ UNCHANGED <<items, unanswered, rolled, list, named, ops>>
        /\ PageOK(p)
    BY DEF Close, RealtimeInv
  <2>2. CASE p = c
    <3>1. (sock'[c] = "open") = FALSE /\ (c \in subs') = FALSE /\ up'[c] = <<>> /\ down'[c] = <<>>
      BY DEF Close, RealtimeInv, RealtimeTypeOK
    <3>2. PageInv(FALSE, FALSE, <<>>, <<>>, unanswered[c], items[c], rolled[c], list, ops, named)
      BY <2>1, <2>2, PageClosed DEF PageOK
    <3> QED
      BY <2>1, <2>2, <3>1, <3>2 DEF PageOK
  <2>3. CASE p # c
    <3>1. sock'[p] = sock[p] /\ up'[p] = up[p] /\ down'[p] = down[p] /\ (p \in subs') = (p \in subs)
      BY <2>3 DEF Close, RealtimeInv, RealtimeTypeOK
    <3> QED
      BY <2>1, <3>1 DEF PageOK
  <2> QED
    BY <2>2, <2>3
<1> QED
  BY <1>1, <1>2, <1>3 DEF RealtimeInv

-----------------------------------------------------------------------------
(* A page's own operations.                                                *)

LEMMA OperationKeeps ==
  ASSUME RealtimeInv, NEW c \in Pages, NEW type \in Kinds, NEW id \in Ids, NEW v \in Values, NEW shown,
         Operation(c, type, id, v, shown), type = "Insert" => id = Temp(ops + 1),
         NEW e, Shows(items[c], [type |-> type, op |-> ops + 1, id |-> id, val |-> v], e, shown)
  PROVE  RealtimeInv'
<1> DEFINE m == [type |-> type, op |-> ops + 1, id |-> id, val |-> v]
           o == [op |-> ops + 1, type |-> type, id |-> id, prev |-> items[c], passed |-> FALSE]
<1>1. RealtimeTypeOK /\ ServerInv /\ PageOK(c) /\ Temps(list) = {}
  BY DEF RealtimeInv, ServerInv
<1>2. /\ sock[c] \in {"closed", "open"} /\ items[c] \in Seq(Items) /\ unanswered[c] \in SUBSET Operations
      /\ rolled[c] \in BOOLEAN /\ up[c] \in Seq(Requests) /\ down[c] \in Seq(Replies)
      /\ list \in Seq(Items) /\ named \in Nat /\ ops \in Nat
  BY <1>1, PageTypes
<1>3. ops + 1 \in Nat /\ ops' = ops + 1 /\ ops' \in 0..MaxOps
  BY <1>2, RealtimeAssumption DEF Operation
<1>4. m \in Requests /\ o \in Operations /\ m.type # "Subscribe" /\ m.type = type /\ m.op = ops + 1 /\ m.id = id
  BY <1>2, <1>3 DEF Requests, Operations, Kinds
<1>5. o.op = ops + 1 /\ o.type = type /\ o.id = id /\ o.prev = items[c]
  OBVIOUS
<1>6. /\ unanswered' = [unanswered EXCEPT ![c] = @ \cup {o}] /\ items' = [items EXCEPT ![c] = shown]
      /\ up' = IF sock[c] = "open" THEN [up EXCEPT ![c] = Append(@, m)] ELSE up
      /\ UNCHANGED <<sock, rolled, down, subs, list, named, closes>>
  BY <1>3 DEF Operation, Sent
<1>7. Shows(items[c], m, e, shown)
  OBVIOUS
<1> HIDE DEF m, o
<1>8. /\ PageInv(sock[c] = "open", c \in subs, IF sock[c] = "open" THEN Append(up[c], m) ELSE up[c], down[c],
                 unanswered[c] \cup {o}, shown, rolled[c], list, ops + 1, named)
      /\ shown \in Seq(Items)
  <2> DEFINE open == sock[c] = "open"  s == c \in subs  w == IF open THEN Append(up[c], m) ELSE up[c]
  <2>1. open \in BOOLEAN /\ s \in BOOLEAN
    OBVIOUS
  <2>2. PageInv(open, s, up[c], down[c], unanswered[c], items[c], rolled[c], list, ops, named)
    BY <1>1 DEF PageOK
  <2>5. AsksFor(m, o, ops)
    BY <1>4, <1>5 DEF AsksFor
  <2> DEFINE u == up[c]  d == down[c]  os == unanswered[c]  is == items[c]  r == rolled[c]
  <2>7. /\ PageInv(open, s, u, d, os, is, r, list, ops, named)
        /\ u \in Seq(Requests) /\ d \in Seq(Replies) /\ os \in SUBSET Operations /\ is \in Seq(Items) /\ r \in BOOLEAN
        /\ Does(open, u, is, ops, m, o, e, shown, w)
        /\ list \in Seq(Items) /\ Temps(list) = {} /\ named \in Nat /\ ops \in Nat
    BY <1>1, <1>2, <1>5, <1>7, <2>2, <2>5 DEF Sends, Does
  <2> HIDE DEF open, s, w, u, d, os, is, r
  <2>3. /\ PageInv(open, s, w, d, os \cup {o}, shown, r, list, ops + 1, named)
        /\ shown \in Seq(Items)
    BY <2>1, <2>7, PageAsked
  <2> QED
    BY <2>3 DEF open, s, w, d, os, r
<1>9. Append(up[c], m) \in Seq(Requests)
  BY <1>2, <1>4
<1>10. RealtimeTypeOK'
  BY <1>1, <1>3, <1>4, <1>6, <1>8, <1>9 DEF RealtimeTypeOK
<1>11. ServerInv'
  BY <1>1, <1>6 DEF ServerInv
<1>12. ASSUME NEW p \in Pages PROVE PageOK(p)'
  <2>1. CASE p = c
    <3>1. /\ up'[c] = IF sock[c] = "open" THEN Append(up[c], m) ELSE up[c]
          /\ unanswered'[c] = unanswered[c] \cup {o} /\ items'[c] = shown
      BY <1>1, <1>6 DEF RealtimeTypeOK
    <3> QED
      BY <1>3, <1>6, <1>8, <2>1, <3>1 DEF PageOK
  <2>2. CASE p # c
    <3>1. up'[p] = up[p] /\ unanswered'[p] = unanswered[p] /\ items'[p] = items[p]
      BY <1>1, <1>6, <2>2 DEF RealtimeTypeOK
    <3>2. PageInv(sock[p] = "open", p \in subs, up[p], down[p], unanswered[p], items[p], rolled[p], list, ops, named)
      BY DEF RealtimeInv, PageOK
    <3>3. PageInv(sock[p] = "open", p \in subs, up[p], down[p], unanswered[p], items[p], rolled[p], list, ops + 1, named)
      BY <1>1, <3>2, PageElse, PageTypes
    <3> QED
      BY <1>3, <1>6, <3>1, <3>3 DEF PageOK
  <2> QED
    BY <2>1, <2>2
<1> QED
  BY <1>10, <1>11, <1>12 DEF RealtimeInv

LEMMA InsertKeeps ==
  ASSUME RealtimeInv, NEW c \in Pages, Insert(c)
  PROVE  RealtimeInv'
<1> DEFINE id == Temp(ops + 1)
<1>1. PICK v \in Values : Operation(c, "Insert", id, v, Append(items[c], Item("temp", ops + 1, v, TRUE)))
  BY DEF Insert, Temp
<1>2. ops \in Nat /\ ops + 1 \in Nat
  BY PageTypes DEF RealtimeInv
<1> DEFINE e == Item("temp", ops + 1, v, TRUE)  m == [type |-> "Insert", op |-> ops + 1, id |-> id, val |-> v]
<1>3. id \in Ids /\ "Insert" \in Kinds
  BY <1>2, IdForms DEF Kinds
<1>4. e \in Items /\ e.id = id /\ e.wait = TRUE
  BY <1>2, <1>3 DEF Item, Items, Temp
<1>5. m.type = "Insert" /\ m.id = id
  OBVIOUS
<1>6. Shows(items[c], m, e, Append(items[c], e))
  <2> HIDE DEF e, m, id
  <2> QED
    BY <1>4, <1>5 DEF Shows
<1> QED
  BY <1>1, <1>3, <1>6, OperationKeeps

LEMMA UpdateKeeps ==
  ASSUME RealtimeInv, NEW c \in Pages, Update(c)
  PROVE  RealtimeInv'
<1> DEFINE is == items[c]
<1>1. PICK k \in DOMAIN is, v \in Values :
        Operation(c, "Update", is[k].id, v, [is EXCEPT ![k].val = v, ![k].wait = TRUE])
  BY DEF Update
<1>2. is \in Seq(Items) /\ ops \in Nat
  BY PageTypes DEF RealtimeInv
<1> DEFINE id == is[k].id  r == [is EXCEPT ![k].val = v, ![k].wait = TRUE]
           m == [type |-> "Update", op |-> ops + 1, id |-> id, val |-> v]
           i == is[k]  e == [[i EXCEPT !.val = v] EXCEPT !.wait = TRUE]
<1>3. DOMAIN r = DOMAIN is /\ r[k] = e /\ \A j \in DOMAIN is : j # k => r[j] = is[j]
  BY <1>2
<1>4. i \in Items
  BY <1>2
<1>5. id = i.id /\ is[k] = i /\ id \in Ids /\ "Update" \in Kinds /\ "Update" # "Insert" /\ m.type = "Update" /\ m.id = id
  BY <1>4 DEF Items, Kinds
<1>6. e \in Items /\ e.id = i.id /\ e.wait = TRUE
  <2> HIDE DEF i
  <2> QED
    BY <1>4 DEF Items
<1>9. Operation(c, "Update", id, v, r)
  BY <1>1
<1> HIDE DEF i, e, r, m
<1>7. r \in Seq(Items)
  <2>1. DOMAIN is = 1..Len(is) /\ Len(is) \in Nat
    BY <1>2
  <2>2. \A j \in 1..Len(is) : r[j] \in Items
    BY <1>2, <1>3, <1>6, <2>1
  <2>3. r = [j \in 1..Len(is) |-> r[j]]
    BY <1>2, <2>1 DEF r
  <2> QED
    BY <2>1, <2>2, <2>3
<1> HIDE DEF is, id
<1>8. Shows(is, m, e, r)
  <2>1. \A j \in DOMAIN is : r[j].id = is[j].id /\ (is[j].id # id => r[j].val = is[j].val)
    BY <1>3, <1>5, <1>6
  <2>2. Waits(is) => Waits(r)
    BY <1>3, <1>5, <1>6 DEF Waits
  <2> QED
    BY <1>3, <1>5, <1>7, <2>1, <2>2 DEF Shows
<1> QED
  BY <1>5, <1>8, <1>9, OperationKeeps DEF m, is

LEMMA DeleteKeeps ==
  ASSUME RealtimeInv, NEW c \in Pages, Delete(c)
  PROVE  RealtimeInv'
<1> DEFINE is == items[c]
<1>1. PICK k \in DOMAIN is : Operation(c, "Delete", is[k].id, is[k].val, Without(is, is[k].id))
  BY DEF Delete
<1> DEFINE id == is[k].id  v == is[k].val  m == [type |-> "Delete", op |-> ops + 1, id |-> id, val |-> v]
<1>2. is \in Seq(Items)
  BY PageTypes DEF RealtimeInv
<1>3. id \in Ids /\ v \in Values /\ "Delete" \in Kinds /\ "Delete" # "Insert"
  BY <1>2, ListItems DEF Kinds
<1>4. m.type = "Delete" /\ m.id = id
  OBVIOUS
<1>5. Shows(is, m, 0, Without(is, id))
  <2> HIDE DEF m, id, is
  <2> QED
    BY <1>4 DEF Shows
<1>6. Operation(c, "Delete", id, v, Without(is, id))
  BY <1>1
<1> HIDE DEF id, v, is
<1> QED
  BY <1>3, <1>5, <1>6, OperationKeeps DEF is

-----------------------------------------------------------------------------
(* The server.                                                             *)

LEMMA TellIs ==
  ASSUME down \in [Pages -> Seq(Replies)], NEW c \in Pages, c \in subs,
         NEW e \in Replies, NEW a \in Replies, Tell(c, e, a)
  PROVE  /\ down' \in [Pages -> Seq(Replies)]
         /\ down'[c] = Append(Append(down[c], e), a)
         /\ \A p \in Pages : p # c => down'[p] = IF p \in subs THEN Append(down[p], e) ELSE down[p]
<1> DEFINE T(p) == down[p] \o (IF p \in subs THEN <<e>> ELSE <<>>) \o (IF p = c THEN <<a>> ELSE <<>>)
<1>1. \A p \in Pages : down[p] \in Seq(Replies)
  OBVIOUS
<1>2. T(c) = Append(Append(down[c], e), a) /\ T(c) \in Seq(Replies)
  <2>1. T(c) = (down[c] \o <<e>>) \o <<a>>
    OBVIOUS
  <2>2. Append(down[c], e) = down[c] \o <<e>> /\ Append(down[c], e) \in Seq(Replies)
    BY <1>1, AppendIsConcat
  <2>3. Append(Append(down[c], e), a) = Append(down[c], e) \o <<a>> /\ Append(Append(down[c], e), a) \in Seq(Replies)
    BY <2>2, AppendIsConcat
  <2> QED
    BY <2>1, <2>2, <2>3
<1>3. ASSUME NEW p \in Pages, p # c
      PROVE  T(p) = (IF p \in subs THEN Append(down[p], e) ELSE down[p]) /\ T(p) \in Seq(Replies)
  <2>1. CASE p \in subs
    <3>1. T(p) = (down[p] \o <<e>>) \o <<>>
      BY <1>3, <2>1
    <3>2. Append(down[p], e) = down[p] \o <<e>> /\ Append(down[p], e) \in Seq(Replies)
      BY <1>1, AppendIsConcat
    <3>3. (down[p] \o <<e>>) \o <<>> = down[p] \o <<e>>
      BY <3>2, ConcatEmptySeq
    <3> QED
      BY <2>1, <3>1, <3>2, <3>3
  <2>2. CASE p \notin subs
    <3>1. T(p) = (down[p] \o <<>>) \o <<>>
      BY <1>3, <2>2
    <3>2. down[p] \o <<>> = down[p]
      BY <1>1, ConcatEmptySeq
    <3> QED
      BY <1>1, <2>2, <3>1, <3>2
  <2> QED
    BY <2>1, <2>2
<1>4. down' = [p \in Pages |-> T(p)]
  BY DEF Tell
<1> HIDE DEF T
<1>5. \A p \in Pages : T(p) \in Seq(Replies)
  BY <1>2, <1>3
<1> QED
  BY <1>2, <1>3, <1>4, <1>5

\* An event that does what a page asks for.
EventFor(m, e) ==
  \/ m.type = "Insert" /\ e.type = "ItemInserted"
  \/ m.type = "Update" /\ e.type = "ItemUpdated" /\ e.id = m.id
  \/ m.type = "Delete" /\ e.type = "ItemDeleted" /\ e.id = m.id

LEMMA ChangeKeeps ==
  ASSUME RealtimeInv, NEW c \in Pages, up[c] # <<>>, up' = [up EXCEPT ![c] = Tail(@)],
         UNCHANGED <<page, ops, closes, subs>>, up[c][1].type # "Subscribe",
         NEW e \in Replies, EventFor(up[c][1], e), up[c][1].type # "Insert" => up[c][1].id[1] = "srv",
         NEW a \in Replies, a.type = "Ack", a.op = up[c][1].op, Tell(c, e, a),
         named' \in Nat, named <= named', Tells(e, named, named'),
         Becomes(list, e, list'), list' \in Seq(Items), WellFormed(list', 0, named'), Temps(list') = {}
  PROVE  RealtimeInv'
<1>1. RealtimeTypeOK /\ ServerInv /\ WellFormed(list, 0, named) /\ \A p \in Pages : PageOK(p)
  BY DEF RealtimeInv, ServerInv
<1>2. UNCHANGED <<sock, items, unanswered, rolled, subs, ops, closes>>
  BY DEF page
<1>3. c \in subs
  <2>1. Channel(sock[c] = "open", c \in subs, up[c], down[c])
    BY <1>1 DEF PageOK, PageInv
  <2>2. up[c] \in Seq(Requests)
    BY <1>1, PageTypes
  <2> QED
    BY <2>1, <2>2, ChannelServed
<1>4. /\ down' \in [Pages -> Seq(Replies)]
      /\ down'[c] = Append(Append(down[c], e), a)
      /\ \A p \in Pages : p # c => down'[p] = IF p \in subs THEN Append(down[p], e) ELSE down[p]
  BY <1>1, <1>3, TellIs DEF RealtimeTypeOK
<1>5. up[c] \in Seq(Requests) /\ Tail(up[c]) \in Seq(Requests)
  BY <1>1, PageTypes, QueueTail
<1>6. RealtimeTypeOK'
  BY <1>1, <1>2, <1>4, <1>5 DEF RealtimeTypeOK
<1>7. ServerInv'
  BY DEF ServerInv
<1>8. ASSUME NEW p \in Pages PROVE PageOK(p)'
  <2> DEFINE open == sock[p] = "open"  u == up[p]  d == down[p]  os == unanswered[p]  is == items[p]  r == rolled[p]
  <2>1. /\ u \in Seq(Requests) /\ d \in Seq(Replies) /\ os \in SUBSET Operations /\ is \in Seq(Items)
        /\ list \in Seq(Items) /\ ops \in Nat /\ named \in Nat
    BY <1>1, PageTypes
  <2>2. PageInv(open, p \in subs, u, d, os, is, r, list, ops, named)
    BY <1>1 DEF PageOK
  <2>3. p # c => up'[p] = u
    BY <1>1 DEF RealtimeTypeOK
  <2>4. up'[c] = Tail(up[c])
    BY <1>1 DEF RealtimeTypeOK
  <2>5. PageOK(p)' = PageInv(open, p \in subs, up'[p], down'[p], os, is, r, list', ops, named')
    BY <1>2 DEF PageOK
  <2>6. p = c => u = up[c] /\ d = down[c] /\ u # <<>>
    OBVIOUS
  <2> HIDE DEF open, u, d, os, is, r
  <2>7. CASE p \in subs
    <3>1. (p \in subs) = TRUE
      BY <2>7
    <3>2. PageInv(open, TRUE, u, d, os, is, r, list, ops, named)
      BY <2>2, <3>1
    <3>3. PageInv(open, TRUE, u, Append(d, e), os, is, r, list', ops, named')
      BY <1>1, <2>1, <3>2, PageTold
    <3>4. CASE p = c
      <4>1. PageInv(open, TRUE, Tail(u), Append(Append(d, e), a), os, is, r, list', ops, named')
        BY <2>1, <2>6, <3>3, <3>4, PageConfirmed DEF EventFor
      <4> QED
        BY <1>4, <2>4, <2>5, <2>6, <3>1, <3>4, <4>1
    <3>5. CASE p # c
      <4>1. down'[p] = Append(d, e)
        BY <1>4, <2>7, <3>5 DEF d
      <4> QED
        BY <2>3, <2>5, <3>1, <3>3, <3>5, <4>1
    <3> QED
      BY <3>4, <3>5
  <2>8. CASE p \notin subs
    <3>1. (p \in subs) = FALSE /\ p # c
      BY <1>3, <2>8
    <3>2. PageInv(open, FALSE, u, d, os, is, r, list, ops, named)
      BY <2>2, <3>1
    <3>3. PageInv(open, FALSE, u, d, os, is, r, list', ops, named')
      BY <2>1, <3>2, PageUntold
    <3>4. down'[p] = d
      BY <1>4, <2>8, <3>1 DEF d
    <3> QED
      BY <2>3, <2>5, <3>1, <3>3, <3>4
  <2> QED
    BY <2>7, <2>8
<1> QED
  BY <1>6, <1>7, <1>8 DEF RealtimeInv

\* The server answers the page alone and changes nothing.
LEMMA AnswerKeeps ==
  ASSUME RealtimeInv, NEW c \in Pages, up[c] # <<>>, up' = [up EXCEPT ![c] = Tail(@)],
         UNCHANGED <<page, list, named, ops, closes>>, NEW a \in Replies, down' = [down EXCEPT ![c] = Append(@, a)],
         \/ up[c][1].type = "Subscribe" /\ subs' = subs \cup {c} /\ a.type = "Snapshot" /\ a.data = list
         \/ up[c][1].type # "Subscribe" /\ subs' = subs /\ a.type = "Reject" /\ a.op = up[c][1].op
  PROVE  RealtimeInv'
<1>1. RealtimeTypeOK /\ ServerInv /\ WellFormed(list, 0, named) /\ Temps(list) = {} /\ \A p \in Pages : PageOK(p)
  BY DEF RealtimeInv, ServerInv
<1>2. UNCHANGED <<sock, items, unanswered, rolled, list, named, ops, closes>>
  BY DEF page
<1>3. /\ up[c] \in Seq(Requests) /\ Tail(up[c]) \in Seq(Requests)
      /\ down[c] \in Seq(Replies) /\ Append(down[c], a) \in Seq(Replies)
  BY <1>1, PageTypes, QueueTail
<1>6. RealtimeTypeOK'
  BY <1>1, <1>2, <1>3 DEF RealtimeTypeOK
<1>7. ServerInv'
  BY <1>1, <1>2 DEF ServerInv
<1>8. ASSUME NEW p \in Pages PROVE PageOK(p)'
  <2>5. PageOK(p)' = PageInv(sock[p] = "open", p \in subs', up'[p], down'[p], unanswered[p], items[p], rolled[p],
                             list, ops, named)
    BY <1>2 DEF PageOK
  <2>1. PageInv(sock[p] = "open", p \in subs, up[p], down[p], unanswered[p], items[p], rolled[p], list, ops, named)
    BY <1>1 DEF PageOK
  <2>2. CASE p # c
    <3>1. up'[p] = up[p] /\ down'[p] = down[p] /\ (p \in subs') = (p \in subs)
      BY <1>1, <2>2 DEF RealtimeTypeOK
    <3> QED
      BY <2>1, <2>5, <3>1
  <2>3. CASE p = c
    <3> DEFINE open == sock[c] = "open"  u == up[c]  d == down[c]  os == unanswered[c]  is == items[c]  r == rolled[c]
    <3>1. /\ u \in Seq(Requests) /\ d \in Seq(Replies) /\ os \in SUBSET Operations /\ list \in Seq(Items) /\ u # <<>>
      BY <1>1, PageTypes
    <3>2. up'[c] = Tail(u) /\ down'[c] = Append(d, a)
      BY <1>1 DEF RealtimeTypeOK
    <3>3. PageInv(open, c \in subs, u, d, os, is, r, list, ops, named)
      BY <2>1, <2>3
    <3>4. Channel(open, c \in subs, u, d)
      BY <3>3 DEF PageInv
    <3>5. u[1] = up[c][1]
      OBVIOUS
    <3>6. PageOK(p)' = PageInv(open, c \in subs', Tail(u), Append(d, a), os, is, r, list, ops, named)
      BY <2>3, <2>5, <3>2
    <3> HIDE DEF open, u, d, os, is, r
    <3>7. u[1].type = "Subscribe" <=> ~(c \in subs)
      BY <3>1, <3>4, ChannelServed
    <3>8. (c \in subs') = TRUE
      BY <3>5, <3>7
    <3>9. CASE u[1].type = "Subscribe"
      <4>1. (c \in subs) = FALSE /\ a.type = "Snapshot" /\ a.data = list
        BY <3>5, <3>7, <3>9
      <4>2. PageInv(open, FALSE, u, d, os, is, r, list, ops, named)
        BY <3>3, <4>1
      <4>3. PageInv(open, TRUE, Tail(u), Append(d, a), os, is, r, list, ops, named)
        BY <1>1, <3>1, <3>9, <4>1, <4>2, PageGreeted
      <4> QED
        BY <3>6, <3>8, <4>3
    <3>10. CASE u[1].type # "Subscribe"
      <4>1. (c \in subs) = TRUE /\ a.type = "Reject" /\ a.op = u[1].op
        BY <3>5, <3>7, <3>10
      <4>2. PageInv(open, TRUE, u, d, os, is, r, list, ops, named)
        BY <3>3, <4>1
      <4>3. PageInv(open, TRUE, Tail(u), Append(d, a), os, is, r, list, ops, named)
        BY <3>1, <4>1, <4>2, PageRefused
      <4> QED
        BY <3>6, <3>8, <4>3
    <3> QED
      BY <3>9, <3>10
  <2> QED
    BY <2>2, <2>3
<1> QED
  BY <1>6, <1>7, <1>8 DEF RealtimeInv

\* What the server is asked to change or delete is an item it named.
LEMMA ServerHas ==
  ASSUME RealtimeInv, NEW id \in Ids, id \in IdsOf(list)
  PROVE  id[1] = "srv" /\ id[2] <= named
<1>1. list \in Seq(Items) /\ WellFormed(list, 0, named) /\ Temps(list) = {}
  BY PageTypes DEF RealtimeInv, ServerInv, RealtimeTypeOK
<1>2. id[1] = "srv"
  BY <1>1, IdForms DEF Temps
<1>3. PICK i \in DOMAIN list : list[i].id = id
  BY DEF IdsOf
<1>4. list[i].id[2] <= IF list[i].id[1] = "temp" THEN 0 ELSE named
  BY <1>1 DEF WellFormed, Within
<1> QED
  BY <1>2, <1>3, <1>4

LEMMA ServeKeeps ==
  ASSUME RealtimeInv, NEW c \in Pages, Serve(c)
  PROVE  RealtimeInv'
<1> DEFINE m == up[c][1]  at == IndexOf({k \in DOMAIN list : list[k].id = m.id})
<1>1. /\ list \in Seq(Items) /\ WellFormed(list, 0, named) /\ Temps(list) = {} /\ named \in Nat
      /\ up[c] \in Seq(Requests) /\ down[c] \in Seq(Replies) /\ Distinct(list)
  BY PageTypes DEF RealtimeInv, ServerInv, WellFormed
<1>2. /\ up[c] # <<>> /\ Head(up[c]) = m /\ m \in Requests
      /\ up' = [up EXCEPT ![c] = Tail(@)] /\ UNCHANGED <<page, ops, closes>>
  BY <1>1, QueueTail DEF Serve
<1>3. m.type \in Kinds => m.op \in Nat /\ m.id \in Ids /\ m.val \in Values
  BY <1>2 DEF Requests, Kinds
<1>4. "Insert" \in Kinds /\ "Update" \in Kinds /\ "Delete" \in Kinds
  BY DEF Kinds
<1>5. at # 0 => at \in DOMAIN list /\ list[at].id = m.id /\ m.id \in IdsOf(list)
  BY <1>1, IdAt
<1>6. \/ /\ m.type = "Subscribe" /\ subs' = subs \cup {c}
         /\ down' = [down EXCEPT ![c] = Append(@, [type |-> "Snapshot", data |-> list])]
         /\ UNCHANGED <<list, named>>
      \/ /\ m.type = "Insert" /\ named' = named + 1 /\ UNCHANGED subs
         /\ list' = Append(list, Item("srv", named', m.val, FALSE))
         /\ Tell(c, [type |-> "ItemInserted", item |-> Item("srv", named', m.val, FALSE)], [type |-> "Ack", op |-> m.op])
      \/ /\ m.type = "Update" /\ at # 0 /\ list' = [list EXCEPT ![at].val = m.val]
         /\ Tell(c, [type |-> "ItemUpdated", id |-> m.id, val |-> m.val], [type |-> "Ack", op |-> m.op])
         /\ UNCHANGED <<subs, named>>
      \/ /\ m.type = "Delete" /\ at # 0 /\ list' = Without(list, m.id)
         /\ Tell(c, [type |-> "ItemDeleted", id |-> m.id], [type |-> "Ack", op |-> m.op])
         /\ UNCHANGED <<subs, named>>
      \/ /\ m.type # "Subscribe" /\ down' = [down EXCEPT ![c] = Append(@, [type |-> "Reject", op |-> m.op])]
         /\ UNCHANGED <<subs, list, named>>
  BY <1>2 DEF Serve
<1> DEFINE a == [type |-> "Ack", op |-> m.op]
<1>7. m.type \in Kinds => a \in Replies
  BY <1>3 DEF Replies
<1>8. a.type = "Ack" /\ a.op = m.op
  OBVIOUS
<1>9. m = up[c][1] /\ a = [type |-> "Ack", op |-> m.op]
  OBVIOUS
<1> HIDE DEF m, at, a
<1>10. CASE /\ m.type = "Subscribe" /\ subs' = subs \cup {c}
            /\ down' = [down EXCEPT ![c] = Append(@, [type |-> "Snapshot", data |-> list])]
            /\ UNCHANGED <<list, named>>
  <2> DEFINE b == [type |-> "Snapshot", data |-> list]
  <2>1. b \in Replies /\ b.type = "Snapshot" /\ b.data = list
    BY <1>1 DEF Replies
  <2>2. down' = [down EXCEPT ![c] = Append(@, b)]
    BY <1>10
  <2> HIDE DEF b
  <2>3. /\ up[c][1].type = "Subscribe" /\ subs' = subs \cup {c} /\ b.type = "Snapshot" /\ b.data = list
        /\ UNCHANGED <<page, list, named, ops, closes>>
    BY <1>2, <1>9, <1>10, <2>1
  <2> QED
    BY <1>2, <2>1, <2>2, <2>3, AnswerKeeps
<1>11. CASE /\ m.type = "Insert" /\ named' = named + 1 /\ UNCHANGED subs
            /\ list' = Append(list, Item("srv", named', m.val, FALSE))
            /\ Tell(c, [type |-> "ItemInserted", item |-> Item("srv", named', m.val, FALSE)], [type |-> "Ack", op |-> m.op])
  <2> DEFINE i == Item("srv", named', m.val, FALSE)  e == [type |-> "ItemInserted", item |-> i]
  <2>1. named' \in Nat /\ named < named' /\ named <= named' /\ 0 \in Nat /\ 0 <= 0
    BY <1>1, <1>11
  <2>2. i \in Items /\ i.id = Srv(named')
    BY <1>3, <1>4, <1>11, <2>1 DEF Item, Items, Ids, Srv
  <2>3. list' = Append(list, i) /\ Tell(c, e, a)
    BY <1>9, <1>11
  <2> HIDE DEF i
  <2>4. e \in Replies /\ e.type = "ItemInserted" /\ e.item = i
    BY <2>2 DEF Replies
  <2> HIDE DEF e
  <2>5. i.id \notin IdsOf(list)
    BY <1>1, <2>1, <2>2, NewName
  <2>6. /\ list' \in Seq(Items) /\ IdsOf(list') = IdsOf(list) \cup {i.id}
        /\ WellFormed(list', 0, named')
    BY <1>1, <2>1, <2>2, <2>3, <2>5, AppendIs
  <2>7. Temps(list') = {}
    <3>1. i.id[1] = "srv" /\ \A x \in Nat : Temp(x)[1] = "temp"
      BY <2>1, <2>2, IdForms
    <3> QED
      BY <1>1, <2>6, <3>1 DEF Temps
  <2>8. Tells(e, named, named') /\ Becomes(list, e, list') /\ EventFor(up[c][1], e)
    BY <1>9, <1>11, <2>1, <2>2, <2>3, <2>4 DEF Tells, Becomes, EventFor, Events
  <2>9. up[c][1].type # "Subscribe" /\ (up[c][1].type # "Insert" => up[c][1].id[1] = "srv")
    BY <1>9, <1>11
  <2>10. a \in Replies /\ a.op = up[c][1].op /\ UNCHANGED <<page, ops, closes, subs>>
    BY <1>2, <1>4, <1>7, <1>8, <1>9, <1>11
  <2> QED
    BY <1>2, <1>8, <2>1, <2>3, <2>4, <2>6, <2>7, <2>8, <2>9, <2>10, ChangeKeeps
<1>12. CASE /\ m.type = "Update" /\ at # 0 /\ list' = [list EXCEPT ![at].val = m.val]
            /\ Tell(c, [type |-> "ItemUpdated", id |-> m.id, val |-> m.val], [type |-> "Ack", op |-> m.op])
            /\ UNCHANGED <<subs, named>>
  <2> DEFINE e == [type |-> "ItemUpdated", id |-> m.id, val |-> m.val]  i == list[at]  j == [i EXCEPT !.val = m.val]
  <2>1. m.id \in Ids /\ m.val \in Values /\ at \in DOMAIN list /\ i \in Items /\ i.id = m.id
    BY <1>1, <1>3, <1>4, <1>5, <1>12, ListItems
  <2>2. list' = [list EXCEPT ![at] = j]
    BY <1>12
  <2>3. e \in Replies /\ e.type = "ItemUpdated" /\ e.id = m.id /\ e.val = m.val
    BY <2>1 DEF Replies
  <2>4. Tell(c, e, a)
    BY <1>9, <1>12
  <2> HIDE DEF e, i
  <2>5. j \in Items /\ j.id = m.id /\ j.val = m.val
    BY <2>1 DEF Items
  <2> HIDE DEF j
  <2>6. list' \in Seq(Items) /\ DOMAIN list' = DOMAIN list /\ list'[at] = j /\ \A k \in DOMAIN list : k # at => list'[k] = list[k]
    BY <1>1, <2>1, <2>2, <2>5
  <2>7. \A k \in DOMAIN list : list'[k].id = list[k].id
    BY <1>5, <1>12, <2>5, <2>6
  <2>8. \A k \in DOMAIN list : list'[k].val = IF list[k].id = m.id THEN m.val ELSE list[k].val
    BY <1>1, <1>5, <1>12, <2>5, <2>6 DEF Distinct
  <2>9. WellFormed(list', 0, named') /\ Temps(list') = {}
    BY <1>1, <1>12, <2>6, <2>7, SameShape
  <2>10. m.id[1] = "srv" /\ m.id[2] <= named
    BY <1>5, <1>12, <2>1, ServerHas
  <2>11. Tells(e, named, named') /\ Becomes(list, e, list') /\ EventFor(up[c][1], e)
    BY <1>9, <1>12, <2>3, <2>6, <2>7, <2>8, <2>10 DEF Tells, Becomes, EventFor, Events
  <2>12. /\ up[c][1].type # "Subscribe" /\ (up[c][1].type # "Insert" => up[c][1].id[1] = "srv")
         /\ named' \in Nat /\ named <= named'
    BY <1>1, <1>9, <1>12, <2>10
  <2>13. a \in Replies /\ a.op = up[c][1].op /\ UNCHANGED <<page, ops, closes, subs>>
    BY <1>2, <1>4, <1>7, <1>8, <1>9, <1>12
  <2> QED
    BY <1>2, <1>8, <2>3, <2>4, <2>6, <2>9, <2>11, <2>12, <2>13, ChangeKeeps
<1>13. CASE /\ m.type = "Delete" /\ at # 0 /\ list' = Without(list, m.id)
            /\ Tell(c, [type |-> "ItemDeleted", id |-> m.id], [type |-> "Ack", op |-> m.op])
            /\ UNCHANGED <<subs, named>>
  <2> DEFINE e == [type |-> "ItemDeleted", id |-> m.id]
  <2>1. m.id \in Ids
    BY <1>3, <1>4, <1>13
  <2>3. e \in Replies /\ e.type = "ItemDeleted" /\ e.id = m.id
    BY <2>1 DEF Replies
  <2>4. Tell(c, e, a)
    BY <1>9, <1>13
  <2> HIDE DEF e
  <2>6. list' \in Seq(Items) /\ WellFormed(list', 0, named') /\ Temps(list') = {}
    BY <1>1, <1>13, WithoutIs, WithoutKeeps
  <2>10. m.id[1] = "srv" /\ m.id[2] <= named
    BY <1>5, <1>13, <2>1, ServerHas
  <2>11. Tells(e, named, named') /\ Becomes(list, e, list') /\ EventFor(up[c][1], e)
    BY <1>9, <1>13, <2>3, <2>10 DEF Tells, Becomes, EventFor, Events
  <2>12. /\ up[c][1].type # "Subscribe" /\ (up[c][1].type # "Insert" => up[c][1].id[1] = "srv")
         /\ named' \in Nat /\ named <= named'
    BY <1>1, <1>9, <1>13, <2>10
  <2>13. a \in Replies /\ a.op = up[c][1].op /\ UNCHANGED <<page, ops, closes, subs>>
    BY <1>2, <1>4, <1>7, <1>8, <1>9, <1>13
  <2> QED
    BY <1>2, <1>8, <2>3, <2>4, <2>6, <2>11, <2>12, <2>13, ChangeKeeps
<1>14. CASE /\ m.type # "Subscribe" /\ down' = [down EXCEPT ![c] = Append(@, [type |-> "Reject", op |-> m.op])]
            /\ UNCHANGED <<subs, list, named>>
  <2> DEFINE b == [type |-> "Reject", op |-> m.op]
  <2>1. m.op \in Nat
    BY <1>2, <1>14 DEF Requests
  <2>2. b \in Replies /\ b.type = "Reject" /\ b.op = m.op
    BY <2>1 DEF Replies
  <2>3. down' = [down EXCEPT ![c] = Append(@, b)]
    BY <1>14
  <2> HIDE DEF b
  <2>4. /\ up[c][1].type # "Subscribe" /\ subs' = subs /\ b.type = "Reject" /\ b.op = up[c][1].op
        /\ UNCHANGED <<page, list, named, ops, closes>>
    BY <1>2, <1>9, <1>14, <2>2
  <2> QED
    BY <1>2, <2>2, <2>3, <2>4, AnswerKeeps
<1> QED
  BY <1>6, <1>10, <1>11, <1>12, <1>13, <1>14

\* A page that is told, or not, of a change that is not its own.
LEMMA PageWatches ==
  ASSUME NEW open, NEW s \in BOOLEAN, NEW u \in Seq(Requests), NEW d \in Seq(Replies), NEW os \in SUBSET Operations,
         NEW is \in Seq(Items), NEW r, NEW t \in Seq(Items), NEW k \in Nat, NEW n \in Nat,
         PageInv(open, s, u, d, os, is, r, t, k, n), WellFormed(t, 0, n),
         NEW e \in Replies, Tells(e, n, n), NEW t2, Becomes(t, e, t2)
  PROVE  PageInv(open, s, u, IF s THEN Append(d, e) ELSE d, os, is, r, t2, k, n)
<1>1. n <= n
  OBVIOUS
<1>2. CASE s = TRUE
  <2>1. PageInv(open, TRUE, u, d, os, is, r, t, k, n)
    BY <1>2
  <2>2. PageInv(open, TRUE, u, Append(d, e), os, is, r, t2, k, n)
    BY <1>1, <2>1, PageTold
  <2> QED
    BY <1>2, <2>2
<1>3. CASE s = FALSE
  <2>1. PageInv(open, FALSE, u, d, os, is, r, t, k, n)
    BY <1>3
  <2>2. PageInv(open, FALSE, u, d, os, is, r, t2, k, n)
    BY <1>1, <2>1, PageUntold
  <2> QED
    BY <1>3, <2>2
<1> QED
  BY <1>2, <1>3

\* The server does what a page asked of an item it does not show, and tells everybody.
LEMMA UnshownKeeps ==
  ASSUME RealtimeInv, NEW c \in Pages, NEW e \in Replies, Unshown(c, e), Tells(e, named, named),
         Becomes(list, e, list'), list' \in Seq(Items), WellFormed(list', 0, named), Temps(list') = {}
  PROVE  RealtimeInv'
<1>1. RealtimeTypeOK /\ ServerInv /\ WellFormed(list, 0, named) /\ \A p \in Pages : PageOK(p)
  BY DEF RealtimeInv, ServerInv
<1>2. UNCHANGED <<sock, items, unanswered, rolled, up, subs, named, closes>>
  BY DEF Unshown, page
<1>3. ops < MaxOps /\ ops' = ops + 1
  BY DEF Unshown
<1>4. down' = [p \in Pages |-> IF p \in subs THEN Append(down[p], e) ELSE down[p]]
  BY DEF Unshown
<1>5. RealtimeTypeOK'
  <2>1. ops' \in 0..MaxOps
    BY <1>1, <1>3, RealtimeAssumption DEF RealtimeTypeOK
  <2>2. down' \in [Pages -> Seq(Replies)]
    BY <1>1, <1>4 DEF RealtimeTypeOK
  <2> QED
    BY <1>1, <1>2, <2>1, <2>2 DEF RealtimeTypeOK
<1>6. ServerInv'
  BY <1>2 DEF ServerInv
<1>7. ASSUME NEW p \in Pages PROVE PageOK(p)'
  <2> DEFINE open == sock[p] = "open"  s == p \in subs  u == up[p]  d == down[p]
             os == unanswered[p]  is == items[p]  r == rolled[p]  g == IF s THEN Append(d, e) ELSE d
  <2>1. /\ u \in Seq(Requests) /\ d \in Seq(Replies) /\ os \in SUBSET Operations /\ is \in Seq(Items)
        /\ list \in Seq(Items) /\ ops \in Nat /\ named \in Nat /\ s \in BOOLEAN
    BY <1>1, PageTypes
  <2>2. PageInv(open, s, u, d, os, is, r, list, ops, named)
    BY <1>1 DEF PageOK
  <2>3. down'[p] = g
    BY <1>4
  <2>4. PageOK(p)' = PageInv(open, s, u, down'[p], os, is, r, list', ops', named)
    BY <1>2 DEF PageOK
  <2>5. g \in Seq(Replies)
    BY <2>1
  <2> HIDE DEF open, s, u, d, os, is, r
  <2>6. PageInv(open, s, u, g, os, is, r, list', ops, named)
    BY <1>1, <2>1, <2>2, PageWatches
  <2> HIDE DEF g
  <2>7. PageInv(open, s, u, g, os, is, r, list', ops + 1, named)
    BY <2>1, <2>5, <2>6, PageElse
  <2> QED
    BY <1>3, <2>3, <2>4, <2>7
<1> QED
  BY <1>5, <1>6, <1>7 DEF RealtimeInv

LEMMA UpdateUnshownKeeps ==
  ASSUME RealtimeInv, NEW c \in Pages, UpdateUnshown(c)
  PROVE  RealtimeInv'
<1>1. /\ list \in Seq(Items) /\ WellFormed(list, 0, named) /\ Temps(list) = {} /\ named \in Nat /\ Distinct(list)
  BY PageTypes DEF RealtimeInv, ServerInv, WellFormed
<1>2. PICK at \in DOMAIN list, v \in Values :
        list' = [list EXCEPT ![at].val = v] /\ Unshown(c, [type |-> "ItemUpdated", id |-> list[at].id, val |-> v])
  BY DEF UpdateUnshown
<1> DEFINE i == list[at]  j == [i EXCEPT !.val = v]  e == [type |-> "ItemUpdated", id |-> i.id, val |-> v]
<1>3. i \in Items /\ i.id \in Ids /\ i.id \in IdsOf(list)
  BY <1>1, <1>2, ListItems DEF IdsOf
<1>4. j \in Items /\ j.id = i.id /\ j.val = v
  BY <1>2, <1>3 DEF Items
<1>5. e \in Replies /\ e.type = "ItemUpdated" /\ e.id = i.id /\ e.val = v
  BY <1>2, <1>3 DEF Replies
<1>6. list' = [list EXCEPT ![at] = j] /\ Unshown(c, e)
  BY <1>2
<1> HIDE DEF j, e
<1>7. /\ list' \in Seq(Items) /\ DOMAIN list' = DOMAIN list
      /\ list'[at] = j /\ \A k \in DOMAIN list : k # at => list'[k] = list[k]
  BY <1>1, <1>2, <1>4, <1>6
<1>8. \A k \in DOMAIN list : list'[k].id = list[k].id
  BY <1>2, <1>4, <1>7
<1>9. \A k \in DOMAIN list : list'[k].val = IF list[k].id = i.id THEN v ELSE list[k].val
  BY <1>1, <1>2, <1>4, <1>7 DEF Distinct
<1>10. WellFormed(list', 0, named) /\ Temps(list') = {}
  BY <1>1, <1>7, <1>8, SameShape
<1>11. i.id[1] = "srv" /\ i.id[2] <= named
  BY <1>3, ServerHas
<1>12. Tells(e, named, named) /\ Becomes(list, e, list')
  BY <1>5, <1>7, <1>8, <1>9, <1>11 DEF Tells, Becomes, Events
<1> QED
  BY <1>5, <1>6, <1>7, <1>10, <1>12, UnshownKeeps

LEMMA DeleteUnshownKeeps ==
  ASSUME RealtimeInv, NEW c \in Pages, DeleteUnshown(c)
  PROVE  RealtimeInv'
<1>1. /\ list \in Seq(Items) /\ WellFormed(list, 0, named) /\ Temps(list) = {} /\ named \in Nat /\ Distinct(list)
  BY PageTypes DEF RealtimeInv, ServerInv, WellFormed
<1>2. PICK at \in DOMAIN list :
        list' = Without(list, list[at].id) /\ Unshown(c, [type |-> "ItemDeleted", id |-> list[at].id])
  BY DEF DeleteUnshown
<1> DEFINE id == list[at].id  e == [type |-> "ItemDeleted", id |-> id]
<1>3. id \in Ids /\ id \in IdsOf(list)
  BY <1>1, <1>2, ListItems DEF IdsOf
<1>4. list' = Without(list, id) /\ Unshown(c, e)
  BY <1>2
<1> HIDE DEF id
<1>5. e \in Replies /\ e.type = "ItemDeleted" /\ e.id = id
  BY <1>3 DEF Replies
<1> HIDE DEF e
<1>6. list' \in Seq(Items) /\ WellFormed(list', 0, named) /\ Temps(list') = {}
  BY <1>1, <1>3, <1>4, WithoutIs, WithoutKeeps
<1>7. id[1] = "srv" /\ id[2] <= named
  BY <1>3, ServerHas
<1>8. Tells(e, named, named) /\ Becomes(list, e, list')
  BY <1>4, <1>5, <1>7 DEF Tells, Becomes, Events
<1> QED
  BY <1>4, <1>5, <1>6, <1>8, UnshownKeeps

-----------------------------------------------------------------------------
(* What a page is told.                                                    *)

LEMMA HearKeeps ==
  ASSUME RealtimeInv, NEW c \in Pages, down[c] # <<>>, down' = [down EXCEPT ![c] = Tail(@)],
         UNCHANGED <<sock, up, subs, list, named, ops, closes>>,
         NEW is \in Seq(Items), items' = [items EXCEPT ![c] = is],
         NEW os \in SUBSET Operations, unanswered' = [unanswered EXCEPT ![c] = os],
         NEW r \in BOOLEAN, rolled' = [rolled EXCEPT ![c] = r],
         PageInv(sock[c] = "open", TRUE, up[c], Tail(down[c]), os, is, r, list, ops, named)
  PROVE  RealtimeInv'
<1>1. RealtimeTypeOK /\ ServerInv /\ \A p \in Pages : PageOK(p)
  BY DEF RealtimeInv
<1>2. down[c] \in Seq(Replies) /\ Tail(down[c]) \in Seq(Replies) /\ unanswered[c] \in SUBSET Operations
  BY <1>1, PageTypes, QueueTail
<1>3. (c \in subs) = TRUE
  BY <1>1 DEF PageOK, PageInv, Channel
<1>4. RealtimeTypeOK'
  BY <1>1, <1>2 DEF RealtimeTypeOK
<1>5. ServerInv'
  BY <1>1 DEF ServerInv
<1>6. ASSUME NEW p \in Pages PROVE PageOK(p)'
  <2>1. CASE p = c
    <3>1. down'[c] = Tail(down[c]) /\ items'[c] = is /\ unanswered'[c] = os /\ rolled'[c] = r
      BY <1>1 DEF RealtimeTypeOK
    <3> QED
      BY <1>3, <2>1, <3>1 DEF PageOK
  <2>2. CASE p # c
    <3>1. down'[p] = down[p] /\ items'[p] = items[p] /\ unanswered'[p] = unanswered[p] /\ rolled'[p] = rolled[p]
      BY <1>1, <2>2 DEF RealtimeTypeOK
    <3> QED
      BY <1>1, <3>1 DEF PageOK
  <2> QED
    BY <2>1, <2>2
<1> QED
  BY <1>4, <1>5, <1>6 DEF RealtimeInv

LEMMA ReceiveKeeps ==
  ASSUME RealtimeInv, NEW c \in Pages, Receive(c)
  PROVE  RealtimeInv'
<1> DEFINE open == sock[c] = "open"  s == c \in subs  u == up[c]  d == down[c]  os == unanswered[c]  is == items[c]
           r == rolled[c]  m == down[c][1]
<1>1. /\ d \in Seq(Replies) /\ os \in SUBSET Operations /\ is \in Seq(Items) /\ r \in BOOLEAN
      /\ ops \in Nat /\ named \in Nat /\ rolled \in [Pages -> BOOLEAN]
  BY PageTypes DEF RealtimeInv, RealtimeTypeOK
<1>2. d # <<>> /\ down' = [down EXCEPT ![c] = Tail(@)] /\ UNCHANGED <<sock, up, subs, list, named, ops, closes>>
  BY DEF Receive
<1>3. Head(d) = m /\ d[1] = m
  BY <1>1, <1>2, QueueTail
<1>4. PageInv(open, s, u, d, os, is, r, list, ops, named)
  BY DEF RealtimeInv, PageOK
<1>5. \/ /\ m.type = "Snapshot" /\ items' = [items EXCEPT ![c] = m.data]
         /\ unanswered' = [unanswered EXCEPT ![c] = Passed(os)] /\ rolled' = [rolled EXCEPT ![c] = FALSE]
      \/ /\ m.type = "ItemInserted" /\ items' = [items EXCEPT ![c] = Inserted(is, m.item)]
         /\ unanswered' = [unanswered EXCEPT ![c] = Passed(os)] /\ UNCHANGED rolled
      \/ /\ m.type = "ItemUpdated" /\ items' = [items EXCEPT ![c] = Updated(is, m.id, m.val)]
         /\ unanswered' = [unanswered EXCEPT ![c] = Passed(os)] /\ UNCHANGED rolled
      \/ /\ m.type = "ItemDeleted" /\ items' = [items EXCEPT ![c] = Without(is, m.id)]
         /\ unanswered' = [unanswered EXCEPT ![c] = Passed(os)] /\ UNCHANGED rolled
      \/ /\ m.type = "Ack"
         /\ \E o \in os : /\ o.op = m.op /\ items' = [items EXCEPT ![c] = Acked(is, o)]
                          /\ unanswered' = [unanswered EXCEPT ![c] = os \ {o}]
         /\ UNCHANGED rolled
      \/ /\ m.type = "Reject"
         /\ \E o \in os : /\ o.op = m.op /\ items' = [items EXCEPT ![c] = o.prev]
                          /\ unanswered' = [unanswered EXCEPT ![c] = Passed(os \ {o})]
                          /\ rolled' = [rolled EXCEPT ![c] = @ \/ o.passed]
  BY <1>3 DEF Receive
<1>6. UNCHANGED rolled => rolled' = [rolled EXCEPT ![c] = r]
  BY <1>1
<1> DEFINE Told(js, qs, x) ==
      /\ js \in Seq(Items) /\ items' = [items EXCEPT ![c] = js]
      /\ qs \in SUBSET Operations /\ unanswered' = [unanswered EXCEPT ![c] = qs]
      /\ x \in BOOLEAN /\ rolled' = [rolled EXCEPT ![c] = x]
      /\ PageInv(open, TRUE, u, Tail(d), qs, js, x, list, ops, named)
<1>7. ASSUME NEW js, NEW qs, NEW x, Told(js, qs, x) PROVE RealtimeInv'
  BY <1>2, <1>7, HearKeeps
<1>8. Passed(os) \in SUBSET Operations
  BY <1>1, PassedAre
<1> HIDE DEF open, s, u, d, os, is, r, m
<1>9. CASE /\ m.type = "Snapshot" /\ items' = [items EXCEPT ![c] = m.data]
           /\ unanswered' = [unanswered EXCEPT ![c] = Passed(os)] /\ rolled' = [rolled EXCEPT ![c] = FALSE]
  <2>1. PageInv(open, TRUE, u, Tail(d), Passed(os), m.data, FALSE, list, ops, named) /\ m.data \in Seq(Items)
    BY <1>1, <1>2, <1>3, <1>4, <1>9, PageSnapshot
  <2>2. Told(m.data, Passed(os), FALSE)
    BY <1>8, <1>9, <2>1
  <2> QED
    BY <1>7, <2>2
<1>10. CASE /\ m.type = "ItemInserted" /\ items' = [items EXCEPT ![c] = Inserted(is, m.item)]
            /\ unanswered' = [unanswered EXCEPT ![c] = Passed(os)] /\ UNCHANGED rolled
  <2>1. PageInv(open, TRUE, u, Tail(d), Passed(os), Inserted(is, m.item), r, list, ops, named) /\ Inserted(is, m.item) \in Seq(Items)
    BY <1>1, <1>2, <1>3, <1>4, <1>10, PageInserted
  <2>2. Told(Inserted(is, m.item), Passed(os), r)
    BY <1>1, <1>6, <1>8, <1>10, <2>1
  <2> QED
    BY <1>7, <2>2
<1>11. CASE /\ m.type = "ItemUpdated" /\ items' = [items EXCEPT ![c] = Updated(is, m.id, m.val)]
            /\ unanswered' = [unanswered EXCEPT ![c] = Passed(os)] /\ UNCHANGED rolled
  <2>1. PageInv(open, TRUE, u, Tail(d), Passed(os), Updated(is, m.id, m.val), r, list, ops, named) /\ Updated(is, m.id, m.val) \in Seq(Items)
    BY <1>1, <1>2, <1>3, <1>4, <1>11, PageUpdated
  <2>2. Told(Updated(is, m.id, m.val), Passed(os), r)
    BY <1>1, <1>6, <1>8, <1>11, <2>1
  <2> QED
    BY <1>7, <2>2
<1>12. CASE /\ m.type = "ItemDeleted" /\ items' = [items EXCEPT ![c] = Without(is, m.id)]
            /\ unanswered' = [unanswered EXCEPT ![c] = Passed(os)] /\ UNCHANGED rolled
  <2>1. PageInv(open, TRUE, u, Tail(d), Passed(os), Without(is, m.id), r, list, ops, named) /\ Without(is, m.id) \in Seq(Items)
    BY <1>1, <1>2, <1>3, <1>4, <1>12, PageDeleted
  <2>2. Told(Without(is, m.id), Passed(os), r)
    BY <1>1, <1>6, <1>8, <1>12, <2>1
  <2> QED
    BY <1>7, <2>2
<1>13. ASSUME NEW o \in os, m.type = "Ack", o.op = m.op, items' = [items EXCEPT ![c] = Acked(is, o)],
              unanswered' = [unanswered EXCEPT ![c] = os \ {o}], UNCHANGED rolled
       PROVE  RealtimeInv'
  <2>1. PageInv(open, TRUE, u, Tail(d), os \ {o}, Acked(is, o), r, list, ops, named) /\ Acked(is, o) \in Seq(Items)
    BY <1>1, <1>2, <1>3, <1>4, <1>13, PageAcked, ZenonT(60)
  <2>2. os \ {o} \in SUBSET Operations
    BY <1>1
  <2>3. Told(Acked(is, o), os \ {o}, r)
    BY <1>1, <1>6, <1>13, <2>1, <2>2
  <2> QED
    BY <1>7, <2>3
<1>14. ASSUME NEW o \in os, m.type = "Reject", o.op = m.op, items' = [items EXCEPT ![c] = o.prev],
              unanswered' = [unanswered EXCEPT ![c] = Passed(os \ {o})], rolled' = [rolled EXCEPT ![c] = @ \/ o.passed]
       PROVE  RealtimeInv'
  <2> DEFINE x == r \/ o.passed
  <2>1. (x <=> r \/ o.passed) /\ x \in BOOLEAN
    OBVIOUS
  <2>2. rolled' = [rolled EXCEPT ![c] = x]
    BY <1>1, <1>14 DEF r
  <2> HIDE DEF x
  <2>3. PageInv(open, TRUE, u, Tail(d), Passed(os \ {o}), o.prev, x, list, ops, named)
    BY <1>1, <1>2, <1>3, <1>4, <1>14, <2>1, PageRejected
  <2>4. os \ {o} \in SUBSET Operations /\ o.prev \in Seq(Items)
    BY <1>1 DEF Operations
  <2>5. Passed(os \ {o}) \in SUBSET Operations
    BY <2>4, PassedAre
  <2>6. Told(o.prev, Passed(os \ {o}), x)
    BY <1>14, <2>1, <2>2, <2>3, <2>4, <2>5
  <2> QED
    BY <1>7, <2>6
<1> HIDE DEF Told
<1> QED
  BY <1>5, <1>9, <1>10, <1>11, <1>12, <1>13, <1>14

-----------------------------------------------------------------------------
(* The theorems.                                                           *)

\* RealtimeInv is an inductive invariant.
THEOREM RealtimeInvariant == RealtimeSpec => []RealtimeInv
<1>1. RealtimeInit => RealtimeInv
  BY RealtimeInvInit
<1>2. RealtimeInv /\ [RealtimeNext]_realtimeVars => RealtimeInv'
  <2> SUFFICES ASSUME RealtimeInv, [RealtimeNext]_realtimeVars PROVE RealtimeInv'
    OBVIOUS
  <2>1. CASE UNCHANGED realtimeVars
    BY <2>1, RealtimeStutters
  <2>2. ASSUME NEW c \in Pages, Open(c) PROVE RealtimeInv'
    BY <2>2, OpenKeeps
  <2>3. ASSUME NEW c \in Pages, Close(c) PROVE RealtimeInv'
    BY <2>3, CloseKeeps
  <2>4. ASSUME NEW c \in Pages, Insert(c) PROVE RealtimeInv'
    BY <2>4, InsertKeeps
  <2>5. ASSUME NEW c \in Pages, Update(c) PROVE RealtimeInv'
    BY <2>5, UpdateKeeps
  <2>6. ASSUME NEW c \in Pages, Delete(c) PROVE RealtimeInv'
    BY <2>6, DeleteKeeps
  <2>7. ASSUME NEW c \in Pages, Serve(c) PROVE RealtimeInv'
    BY <2>7, ServeKeeps
  <2>8. ASSUME NEW c \in Pages, Receive(c) PROVE RealtimeInv'
    BY <2>8, ReceiveKeeps
  <2>9. ASSUME NEW c \in Pages, UpdateUnshown(c) PROVE RealtimeInv'
    BY <2>9, UpdateUnshownKeeps
  <2>10. ASSUME NEW c \in Pages, DeleteUnshown(c) PROVE RealtimeInv'
    BY <2>10, DeleteUnshownKeeps
  <2> QED
    BY <2>1, <2>2, <2>3, <2>4, <2>5, <2>6, <2>7, <2>8, <2>9, <2>10 DEF RealtimeNext
<1> QED
  BY <1>1, <1>2, PTL DEF RealtimeSpec

\* Every variable keeps its type, whatever the sockets lose and whatever the server rejects.
THEOREM RealtimeTypeCorrect == RealtimeSpec => []RealtimeTypeOK
<1>1. RealtimeInv => RealtimeTypeOK
  BY DEF RealtimeInv
<1> QED
  BY <1>1, RealtimeInvariant, PTL

\* No list, the server's or a page's, ever holds two items with one id: what filter removes by id
\* is at most one item, and what findIndex finds is the item meant.
ListsAreSets == Distinct(list) /\ \A c \in Pages : Distinct(items[c])

\* Inserts, updates, deletes, events, snapshots and restored copies keep every list a set.
THEOREM RealtimeListsAreSets == RealtimeSpec => []ListsAreSets
<1>1. RealtimeInv => ListsAreSets
  BY DEF RealtimeInv, ServerInv, PageOK, PageInv, Lists, WellFormed, ListsAreSets
<1> QED
  BY <1>1, RealtimeInvariant, PTL

LEMMA LongerList ==
  ASSUME NEW is \in Seq(Items), Distinct(is), NEW t \in Seq(Items), IdsOf(is) \subseteq IdsOf(t)
  PROVE  Len(is) <= Len(t)
<1> DEFINE f == [i \in 1..Len(is) |-> CHOOSE j \in 1..Len(t) : t[j].id = is[i].id]
<1>1. ASSUME NEW i \in 1..Len(is) PROVE f[i] \in 1..Len(t) /\ t[f[i]].id = is[i].id
  <2>1. is[i].id \in IdsOf(t) /\ DOMAIN t = 1..Len(t)
    BY ListItems
  <2>2. \E j \in 1..Len(t) : t[j].id = is[i].id
    BY <2>1 DEF IdsOf
  <2>3. f[i] = CHOOSE j \in 1..Len(t) : t[j].id = is[i].id
    OBVIOUS
  <2> QED
    BY <2>2, <2>3
<1>2. Len(is) \in Nat /\ Len(t) \in Nat
  OBVIOUS
<1>3. f \in [1..Len(is) -> 1..Len(t)] /\ DOMAIN f = 1..Len(is)
  BY <1>1
<1> HIDE DEF f
<1>4. \A i, j \in 1..Len(is) : f[i] = f[j] => i = j
  BY <1>1 DEF Distinct
<1>5. f \in Injection(1..Len(is), 1..Len(t))
  BY <1>3, <1>4 DEF Injection, IsInjective
<1>6. \A n \in Nat : IsFiniteSet(1..n) /\ Cardinality(1..n) = n
  BY FS_Interval
<1>7. Cardinality(1..Len(is)) <= Cardinality(1..Len(t))
  BY <1>2, <1>5, <1>6, FS_Injection
<1> QED
  BY <1>2, <1>6, <1>7

\* A page that agrees with the server's list up to nothing shows that list.
LEMMA QuietShows ==
  ASSUME NEW is \in Seq(Items), NEW t \in Seq(Items), Distinct(is), Distinct(t), Temps(t) = {},
         Fits(is, t, {}, {}, {})
  PROVE  Shown(is) = Shown(t) /\ Len(is) = Len(t)
<1>1. Temps(is) = {}
  BY BackedByNone DEF Fits
<1>2. \A n \in Nat : Srv(n) \in IdsOf(is) <=> Srv(n) \in IdsOf(t)
  BY DEF Fits, SameIds
<1>3. \A l \in {is, t} : \A id \in IdsOf(l) : id[2] \in Nat /\ id = Srv(id[2])
  <2> SUFFICES ASSUME NEW l \in {is, t}, NEW id \in IdsOf(l) PROVE id[2] \in Nat /\ id = Srv(id[2])
    OBVIOUS
  <2>1. id \in Ids /\ Temps(l) = {}
    BY <1>1, ListItems
  <2>2. id[1] \in {"temp", "srv"} /\ id[2] \in Nat
    BY <2>1, IdForms
  <2>3. id[1] # "temp"
    BY <2>1, <2>2, IdForms DEF Temps
  <2> QED
    BY <2>1, <2>2, <2>3, IdForms
<1>4. IdsOf(is) = IdsOf(t)
  BY <1>2, <1>3
<1>5. \A i \in DOMAIN is, j \in DOMAIN t : is[i].id = t[j].id => is[i].val = t[j].val
  BY DEF Fits, SameVals
<1>6. ASSUME NEW i \in DOMAIN is PROVE \E j \in DOMAIN t : <<is[i].id, is[i].val>> = <<t[j].id, t[j].val>>
  <2>1. is[i].id \in IdsOf(t)
    BY <1>4 DEF IdsOf
  <2>2. PICK j \in DOMAIN t : t[j].id = is[i].id
    BY <2>1 DEF IdsOf
  <2> QED
    BY <1>5, <2>2
<1>7. ASSUME NEW j \in DOMAIN t PROVE \E i \in DOMAIN is : <<is[i].id, is[i].val>> = <<t[j].id, t[j].val>>
  <2>1. t[j].id \in IdsOf(is)
    BY <1>4 DEF IdsOf
  <2>2. PICK i \in DOMAIN is : t[j].id = is[i].id
    BY <2>1 DEF IdsOf
  <2> QED
    BY <1>5, <2>2
<1>8. Shown(is) = Shown(t)
  <2>1. Shown(is) \subseteq Shown(t)
    BY <1>6 DEF Shown
  <2>2. Shown(t) \subseteq Shown(is)
    BY <1>7 DEF Shown
  <2> QED
    BY <2>1, <2>2
<1>9. Len(is) \in Nat /\ Len(t) \in Nat /\ Len(is) <= Len(t) /\ Len(t) <= Len(is)
  BY <1>4, LongerList
<1> QED
  BY <1>8, <1>9

\* A page that is told everything and waits for nothing shows the server's list, each item once,
\* after any interleaving of operations, refusals, lost messages and reconnections of any number
\* of pages, unless a refusal undid what came after it.
THEOREM RealtimeQuietPageShowsList == RealtimeSpec => []QuietPageShowsList
<1>1. RealtimeInv => QuietPageShowsList
  <2> SUFFICES ASSUME RealtimeInv, NEW c \in Pages, Quiet(c), ~rolled[c]
               PROVE  Shown(items[c]) = Shown(list) /\ Len(items[c]) = Len(list)
    BY DEF QuietPageShowsList
  <2> DEFINE u == up[c]  d == down[c]  os == unanswered[c]  is == items[c]
  <2>1. u = <<>> /\ d = <<>> /\ c \in subs
    BY DEF Quiet
  <2>2. is \in Seq(Items) /\ list \in Seq(Items) /\ Distinct(list) /\ Temps(list) = {}
    BY PageTypes DEF RealtimeInv, ServerInv, WellFormed
  <2>3. PageInv(sock[c] = "open", c \in subs, u, d, os, is, rolled[c], list, ops, named)
    BY DEF RealtimeInv, PageOK
  <2>4. Distinct(is)
    BY <2>3 DEF PageInv, Lists, WellFormed
  <2>5. Agrees(is, list, u, d, os, 0)
    BY <2>1, <2>3 DEF PageInv, Synced, Greeted
  <2>6. DOMAIN u = {} /\ DOMAIN d = {}
    BY <2>1
  <2> HIDE DEF u, d, os, is
  <2>7. Moves(u, d, os, 0) = {} /\ Edits(u, d, os, 0) = {} /\ Owed(u, d, 0) = {}
    BY <2>6 DEF Moves, Edits, Owed, Makes, Sets, Drops, Hopes, Wants, Fails, Refuses, Confirms, Inserts
  <2>8. Fits(is, list, {}, {}, {})
    BY <2>5, <2>7 DEF Agrees
  <2> QED
    BY <2>2, <2>4, <2>8, QuietShows DEF is
<1> QED
  BY <1>1, RealtimeInvariant, PTL

===============================================================================
