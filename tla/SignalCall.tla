------------------------------ MODULE SignalCall ------------------------------
(***************************************************************************)
(* One reactive-output signal of a page: the factory that the signal-call  *)
(* primitive emits (src/stdlib/primitives/signal.st) for `@data signal`,   *)
(* with the four race policies and the three transports, and a @handle     *)
(* scope that listens to it (signal-handler.st).                           *)
(*                                                                         *)
(* A call is the generation its fire was given. fire dispatches ':fire'    *)
(* between taking the generation and counting the call, and a clause that  *)
(* runs in that event may fire or cancel again: calls nest like a stack,   *)
(* the later one on top. Macrotasks (a reply, a timer) are atomic up to    *)
(* the promise reactions they queue; those run before the next macrotask,  *)
(* but a fire or a cancel of the same task may come first, which is what   *)
(* "doomed", "replied" and a settled call that is still counted are for.   *)
(* Requests and payloads are reduced to the call they belong to; the       *)
(* receive arms to the fact that a handler ran one. Streams and ephemeral  *)
(* sends, which have no call to settle, are left out.                      *)
(***************************************************************************)
EXTENDS Naturals, Sequences

CONSTANTS
    Policies,     \* race policies a declaration may choose
    Transports,   \* transports its @host may name
    RetryMax,     \* `retry n` of the declaration
    MaxFires      \* bound: calls fired in the life of the page

ASSUME SignalAssumption ==
    /\ Policies \subseteq {"latest", "queue", "parallel", "drop"}
    /\ Transports \subseteq {"http", "ws", "live"}
    /\ RetryMax \in Nat
    /\ MaxFires \in Nat

VARIABLES
    policy, transport,  \* the declaration: chosen once
    timed,       \* the declaration has a timeout
    phase,       \* phase[c]: how far call c is
    attempt,     \* attempt[c]: retries call c has used
    generation,  \* the call fired last; 0 before the first
    pending,     \* what $name_pending shows
    error,       \* what $name_error shows: the call that failed, or 0
    inFlight,    \* the call whose controller inFlight holds, or 0
    counted,     \* the calls activeCount counts
    line,        \* the calls chained on queueTail, each behind the one before it
    owner,       \* the handler's latestGeneration
    applied,     \* calls whose reply the handler acted upon
    late,        \* ws attempts that timed out and whose reply may yet come
    reentered,   \* history: the signal was fired from its own reply's handler
    nested       \* history: it was fired or cancelled from its own ':fire' event

declaration == <<policy, transport, timed>>
flags       == <<pending, error, inFlight>>
handler     == <<owner, applied>>
history     == <<reentered, nested>>
vars == <<declaration, phase, attempt, generation, flags, counted, line, handler, late, history>>

Calls == 1..MaxFires
Firing    == {"firing", "heard"}
UnderWay  == {"waiting", "doomed", "replied"}
Unsettled == Firing \union {"queued"} \union UnderWay
Settled   == {"ok", "failed", "superseded"}
Phases    == {"none", "thrown"} \union Settled \union Unsettled

TypeOK ==
    /\ policy \in Policies
    /\ transport \in Transports
    /\ timed \in BOOLEAN
    /\ phase \in [Calls -> Phases]
    /\ attempt \in [Calls -> 0..RetryMax]
    /\ generation \in 0..MaxFires
    /\ pending \in BOOLEAN
    /\ error \in 0..MaxFires
    /\ inFlight \in 0..MaxFires
    /\ counted \subseteq Calls
    /\ line \in Seq(Calls)
    /\ owner \in 0..MaxFires
    /\ applied \subseteq Calls
    /\ late \subseteq Calls \X (0..RetryMax)
    /\ reentered \in BOOLEAN
    /\ nested \in BOOLEAN

Init ==
    /\ policy \in Policies
    /\ transport \in Transports
    /\ timed \in BOOLEAN
    /\ phase = [c \in Calls |-> "none"]
    /\ attempt = [c \in Calls |-> 0]
    /\ generation = 0
    /\ pending = FALSE
    /\ error = 0
    /\ inFlight = 0
    /\ counted = {}
    /\ line = <<>>
    /\ owner = 0
    /\ applied = {}
    /\ late = {}
    /\ reentered = FALSE
    /\ nested = FALSE

-----------------------------------------------------------------------------
(* Helpers *)

Goto(c, ph) == phase' = [phase EXCEPT ![c] = ph]

\* The calls that have not come to an end.
Active == {c \in Calls : phase[c] \in Unsettled}

\* The calls whose fire is inside its ':fire' event, the last one on top.
Nest   == {c \in Calls : phase[c] \in Firing}
Top(c) == \A d \in Nest : d <= c

\* The calls a throw of doHttpRequest ended.
Thrown == {c \in Calls : phase[c] = "thrown"}

\* The `settle` reaction of these is due. Only queue calls runWithRetry inside
\* a reaction, where a throw is a rejection; elsewhere it leaves fire itself.
Due == {c \in counted : phase[c] \in Settled \/ (phase[c] = "thrown" /\ policy = "queue")}

\* No synchronous code and no promise reaction is left: the next macrotask may run.
NewTask ==
    /\ Nest = {}
    /\ Due = {}
    /\ \A c \in Calls : phase[c] \notin {"doomed", "replied"}

\* abort() rejects the fetch of the call whose controller is held, if that is
\* still under way.
AbortHeld(p) == IF inFlight # 0 /\ p[inFlight] = "waiting"
                THEN [p EXCEPT ![inFlight] = "doomed"] ELSE p

\* doHttpRequest replaces the controller; the other transports have none.
Hold(c) == inFlight' = IF transport = "http" THEN c ELSE inFlight

-----------------------------------------------------------------------------
(* fire, up to its event; the handler hears it; the rest of fire *)

\* Mutant: a newer call does not abort the older one.
FireNoAbort ==
    /\ generation < MaxFires
    /\ ~(policy = "drop" /\ counted # {})
    /\ generation' = generation + 1
    /\ Goto(generation + 1, "firing")
    /\ pending' = TRUE
    /\ error' = 0
    /\ reentered' = (reentered \/ \E c \in Calls : phase[c] = "replied")
    /\ nested' = (nested \/ Nest # {})
    /\ UNCHANGED <<declaration, attempt, inFlight, counted, line, handler, late>>

\* A user event, a statement of any handler, one that runs for this signal's
\* own reply or ':fire' event included. drop ignores it while a call counts.
Fire ==
    /\ generation < MaxFires
    /\ ~(policy = "drop" /\ counted # {})
    /\ generation' = generation + 1
    /\ LET before == IF policy = "latest" THEN AbortHeld(phase) ELSE phase
       IN phase' = [before EXCEPT ![generation + 1] = "firing"]
    /\ pending' = TRUE
    /\ error' = 0
    /\ reentered' = (reentered \/ \E c \in Calls : phase[c] = "replied")
    /\ nested' = (nested \/ Nest # {})
    /\ UNCHANGED <<declaration, attempt, inFlight, counted, line, handler, late>>

\* onFire: the handler's optimistic clause runs. Clauses of other scopes run
\* before and after it.
Hear(c) ==
    /\ phase[c] = "firing"
    /\ Top(c)
    /\ Goto(c, "heard")
    /\ owner' = IF policy = "latest" THEN c ELSE owner
    /\ UNCHANGED <<declaration, attempt, generation, flags, counted, line, applied, late, history>>

\* Mutant: a call starts a chain of its own.
CountOwnChain(c) ==
    /\ phase[c] = "heard"
    /\ Top(c)
    /\ counted' = counted \union {c}
    /\ IF policy = "queue"
       THEN /\ Goto(c, "queued")
            /\ line' = <<c>>
            /\ UNCHANGED inFlight
       ELSE Goto(c, "waiting") /\ Hold(c) /\ UNCHANGED line
    /\ UNCHANGED <<declaration, attempt, generation, pending, error, handler, late, history>>

\* After the event: the call is counted, and starts or joins the queue.
Count(c) ==
    /\ phase[c] = "heard"
    /\ Top(c)
    /\ counted' = counted \union {c}
    /\ IF policy = "queue"
       THEN /\ Goto(c, "queued")
            /\ line' = Append(line, c)
            /\ UNCHANGED inFlight
       ELSE Goto(c, "waiting") /\ Hold(c) /\ UNCHANGED line
    /\ UNCHANGED <<declaration, attempt, generation, pending, error, handler, late, history>>

\* The same with a payload JSON.stringify refuses: doHttpRequest throws after it
\* has taken the controller, and fire throws with the call counted.
CountThrows(c) ==
    /\ phase[c] = "heard"
    /\ Top(c)
    /\ transport = "http" /\ policy # "queue"
    /\ counted' = counted \union {c}
    /\ Goto(c, "thrown")
    /\ inFlight' = c
    /\ UNCHANGED <<declaration, attempt, generation, pending, error, line, handler, late, history>>

\* policy queue: the call this one is chained on has settled.
Startable(c) ==
    /\ Nest = {}
    /\ phase[c] = "queued"
    /\ \E i \in DOMAIN line : line[i] = c /\ (i > 1 => line[i - 1] \notin counted)

StartQueued(c) ==
    /\ Startable(c)
    /\ Goto(c, "waiting")
    /\ Hold(c)
    /\ UNCHANGED <<declaration, attempt, generation, pending, error, counted, line, handler, late, history>>

StartThrows(c) ==
    /\ Startable(c)
    /\ transport = "http"
    /\ Goto(c, "thrown")
    /\ inFlight' = c
    /\ UNCHANGED <<declaration, attempt, generation, pending, error, counted, line, handler, late, history>>

-----------------------------------------------------------------------------
(* How an attempt ends *)

\* Mutant: the handler does not compare generations.
AcceptAll(c) == TRUE

\* onReply: under latest an older completion is ignored.
Accepts(c) == policy = "latest" => c >= owner

\* External: the reply arrives; publishReply hands it to the handlers.
Publish(c) ==
    /\ NewTask
    /\ phase[c] = "waiting"
    /\ Goto(c, "replied")
    /\ applied' = IF Accepts(c) THEN applied \union {c} ELSE applied
    /\ UNCHANGED <<declaration, attempt, generation, flags, counted, line, owner, late, history>>

\* The reaction in runWithRetry: the flags are the signal's, not the call's.
Settle(c) ==
    /\ Nest = {}
    /\ phase[c] = "replied"
    /\ Goto(c, "ok")
    /\ pending' = FALSE
    /\ inFlight' = 0
    /\ UNCHANGED <<declaration, attempt, generation, error, counted, line, handler, late, history>>

\* The rejection in runWithRetry: another attempt at once, or the end.
Reject(c) ==
    IF attempt[c] < RetryMax
    THEN /\ attempt' = [attempt EXCEPT ![c] = @ + 1]
         /\ Goto(c, "waiting")
         /\ Hold(c)
         /\ UNCHANGED <<pending, error>>
    ELSE /\ Goto(c, "failed")
         /\ pending' = FALSE
         /\ inFlight' = 0
         /\ error' = c
         /\ UNCHANGED attempt

\* External: the transport fails, or refuses in the very task of the request.
AttemptFails(c) ==
    /\ Nest = {}
    /\ phase[c] = "waiting"
    /\ Reject(c)
    /\ UNCHANGED <<declaration, generation, counted, line, handler, late, history>>

\* Mutant: the deadline's abort is taken for a superseding one.
TimesOutAsAbort(c) ==
    /\ timed /\ NewTask
    /\ phase[c] = "waiting"
    /\ IF policy = "latest"
       THEN Goto(c, "superseded") /\ UNCHANGED <<attempt, flags>>
       ELSE Reject(c)
    /\ late' = IF transport = "ws" THEN late \union {<<c, attempt[c]>>} ELSE late
    /\ UNCHANGED <<declaration, generation, counted, line, handler, history>>

\* The deadline passes: rejected like a failure. Only over ws can the reply
\* still reach the page, uncorrelated by then.
TimesOut(c) ==
    /\ timed
    /\ NewTask
    /\ phase[c] = "waiting"
    /\ Reject(c)
    /\ late' = IF transport = "ws" THEN late \union {<<c, attempt[c]>>} ELSE late
    /\ UNCHANGED <<declaration, generation, counted, line, handler, history>>

\* A ws frame whose __corr is not pending any more is published as a push:
\* it carries no generation, so no handler ignores it.
LateReply(c) ==
    /\ NewTask
    /\ \E l \in late : l[1] = c /\ late' = late \ {l}
    /\ applied' = applied \union {c}
    /\ UNCHANGED <<declaration, phase, attempt, generation, flags, counted, line, owner, history>>

\* The AbortError reaches runWithRetry.
Aborted(c) ==
    /\ Nest = {}
    /\ phase[c] = "doomed"
    /\ IF policy = "latest"
       THEN Goto(c, "superseded") /\ UNCHANGED <<attempt, flags>>
       ELSE Reject(c)
    /\ UNCHANGED <<declaration, generation, counted, line, handler, late, history>>

\* Mutant: only a reply is given to `settle`, as with then(settle).
UncountReplied(c) ==
    /\ Nest = {}
    /\ c \in Due /\ phase[c] = "ok"
    /\ counted' = counted \ {c}
    /\ UNCHANGED <<declaration, phase, attempt, generation, flags, line, handler, late, history>>

\* `settle`: the call stops counting, and the call chained on it may start.
Uncount(c) ==
    /\ Nest = {}
    /\ c \in Due
    /\ counted' = counted \ {c}
    /\ UNCHANGED <<declaration, phase, attempt, generation, flags, line, handler, late, history>>

\* cancel: the controller's call is told; the flags change at once.
Cancel ==
    /\ inFlight # 0
    /\ phase' = AbortHeld(phase)
    /\ inFlight' = 0
    /\ pending' = FALSE
    /\ nested' = (nested \/ Nest # {})
    /\ UNCHANGED <<declaration, attempt, generation, error, counted, line, handler, late, reentered>>

-----------------------------------------------------------------------------
\* What the page's event loop does by itself for call c.
Loop(c) ==
    \/ Hear(c) \/ Count(c) \/ StartQueued(c)
    \/ Settle(c) \/ Aborted(c) \/ Uncount(c) \/ TimesOut(c)

Next ==
    \/ Fire
    \/ Cancel
    \/ \E c \in Calls :
          \/ Loop(c) \/ CountThrows(c) \/ StartThrows(c)
          \/ Publish(c) \/ AttemptFails(c) \/ LateReply(c)

SafeSpec == Init /\ [][Next]_vars

\* Handlers run on, promise reactions and timers run; users, servers and
\* networks owe nothing.
Spec == SafeSpec /\ \A c \in Calls : WF_vars(Loop(c))

-----------------------------------------------------------------------------
(* Properties *)

\* $name_pending never hangs: while it shows true some call is under way that
\* will clear it (BUG-213 was a call that ended without doing so). A call whose
\* payload made fire throw leaves it showing true.
PendingNotStuck == pending /\ Thrown = {} => Active # {}

\* queue: however fires nest, and whatever is retried, cancelled or thrown, one
\* request is under way at a time; and they are sent "strictly in order" unless
\* a fire ran inside another one's event, which the code sends first.
QueueSerial ==
    policy = "queue" =>
        /\ \A c, d \in Calls : phase[c] \in UnderWay /\ phase[d] \in UnderWay => c = d
        /\ ~nested =>
              \A c, d \in Calls :
                  c < d /\ c \in Active => phase[d] \in {"none", "queued"} \union Firing

\* latest: a handler acts upon the newest call's reply only; older completions
\* "must not run their confirm/rollback arm over that newer local state". The
\* code has it except for ws with a timeout, where the reply of an attempt that
\* timed out is not told from a server push, and for fires inside the event of
\* a fire, which the handler may hear before the one they are inside.
NewestUnlessLate ==
    [][policy = "latest" /\ ~(transport = "ws" /\ timed) /\ ~nested =>
          applied' \ applied \subseteq {generation}]_vars

\* latest over http "aborts the in-flight call when a new one fires": at most
\* the newest call is under way, and $name_pending says so.
LatestIsSole ==
    policy = "latest" /\ transport = "http" =>
        \A c \in Calls : phase[c] = "waiting" => c = generation /\ pending

\* The same as long as no handler fires the signal from its own reply or event.
SoleUnlessReentered == ~reentered /\ ~nested => LatestIsSole

\* With a timeout, $name_pending comes back to false whatever the server does.
NeverHangs == timed /\ pending ~> ~pending \/ Thrown # {}

\* drop with a timeout: a call that is counted stops counting, whether it is
\* answered, refused, cancelled or fired inside another one's event, so that
\* the signal can be fired again.
DropReopens == policy = "drop" /\ timed /\ counted # {} ~> counted = {} \/ Thrown # {}
=============================================================================
