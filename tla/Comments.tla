------------------------------- MODULE Comments -------------------------------
(***************************************************************************)
(* Comments of a project: `//@` headers in source files, one sidecar       *)
(* record per comment under .comments/, and four kinds of writers:         *)
(*                                                                         *)
(*   pills   the HTTP handlers (add, update, reanchor, dismiss, prune) of  *)
(*           server.rs; all but add hold comment_write_lock                *)
(*   agents  st_comments_add and st_comments_update of mcp/tools.rs, in    *)
(*           another process, without the lock                             *)
(*   wires   EditAst with __delete_spans on the dev socket                 *)
(*           (sync/handlers.rs), under source_write_lock alone             *)
(*   developers, who type, remove and change what is in a file             *)
(*                                                                         *)
(* The identity of an inline comment is its content; a record whose header *)
(* is gone is an orphan. A file is its headers and the number of its other *)
(* contents, and its hash is both. write_record is a rename and atomic, a  *)
(* reader never meets half a record. A source file is emptied and then     *)
(* filled, and pills and agents look for headers without source_write_lock.*)
(* What a comment says, who says it and when is left out; a reply is the   *)
(* number of its request.                                                  *)
(***************************************************************************)
EXTENDS Integers, Sequences, FiniteSets

CONSTANTS Pills, Agents, Wires,   \* requests that can be under way at once
          Files,                  \* source files
          Inline,                 \* comments that have a header when they are live
          FileOf,                 \* the file an inline comment is in
          Loose,                  \* comments anchored to a page or a file
          Starts,                 \* inline comments that may be resolved at the start
          MaxRequests, MaxSaves,  \* bounds of a run
          None

Jobs == Pills \cup Agents \cup Wires
Ids  == Inline \cup Loose
Statuses == {"open", "resolved"}
Records  == [status : Statuses, anchor : {"inline", "loose"},
             history : Seq(Statuses \X Statuses), thread : SUBSET Nat]

ASSUME CommentsAssumption ==
  /\ Pills \cap Agents = {} /\ Pills \cap Wires = {} /\ Agents \cap Wires = {}
  /\ None \notin Jobs /\ None \notin Records
  /\ Inline \cap Loose = {}
  /\ FileOf \in [Inline -> Files]
  /\ Starts \subseteq SUBSET Inline
  /\ MaxRequests \in Nat /\ MaxSaves \in Nat

VARIABLES headers,     \* the inline comments whose header is in its file
          rest,        \* per file: the number of what else is in it
          rec,         \* per comment: its sidecar record, or None
          commentLock, \* comment_write_lock: the pill that holds it, or None
          sourceLock,  \* source_write_lock: who holds it, or None
          pc,          \* per job: where it is
          ask,         \* per job: the request
          todo,        \* per job: files of a prune that are still to do
          read,        \* per job: the headers and the rest of the file it read
          draft,       \* per job: the record it is going to write
          touched,     \* per job: kinds of writers that changed what it has read since,
                       \* and "torn" if it read a file that was being written
          acked,       \* per comment: replies that were accepted
          clobbered,   \* comments one of whose writers had a stale record
          requests, saves   \* counters of the bounds

locks == <<commentLock, sourceLock>>
disk  == <<headers, rest>>
vars  == <<headers, rest, rec, commentLock, sourceLock, pc, ask, todo, read, draft, touched,
           acked, clobbered, requests, saves>>

Of(f)   == {i \in Inline : FileOf[i] = f}
Hash(f) == <<headers \cap Of(f), rest[f]>>

\* What earlier requests leave: a comment nobody has touched has no record.
Settled == [status |-> "resolved", anchor |-> "inline",
            history |-> << <<"open", "resolved">> >>, thread |-> {}]

NewRecord(anchor) == [status |-> "open", anchor |-> anchor, history |-> <<>>, thread |-> {}]

\* merge_inner: an inline comment without a record is a real one, open by default.
Live(i) == i \in headers \/ (rec[i] # None /\ rec[i].anchor = "loose")
Orphan(i) == rec[i] # None /\ rec[i].anchor = "inline" /\ i \notin headers
Merged(i) == IF rec[i] # None THEN [rec[i] EXCEPT !.anchor = IF i \in headers THEN "inline" ELSE @]
             ELSE NewRecord("inline")

Resolved(i) == rec[i] # None /\ rec[i].status = "resolved"

\* comment_prune_spans and deletable_spans_in: inline, live and resolved.
Deletable == {i \in headers : Resolved(i)}

NoAsk == [kind |-> "none", id |-> None, status |-> None, n |-> 0, spans |-> {},
          seen |-> [f \in {} |-> None]]

Init ==
  /\ headers = Inline
  /\ rest = [f \in Files |-> 0]
  /\ rec \in {[i \in Ids |-> IF i \in done THEN Settled ELSE None] : done \in Starts}
  /\ commentLock = None /\ sourceLock = None
  /\ pc = [j \in Jobs |-> "idle"]
  /\ ask = [j \in Jobs |-> NoAsk]
  /\ todo = [j \in Jobs |-> {}]
  /\ read = [j \in Jobs |-> <<{}, 0>>]
  /\ draft = [j \in Jobs |-> None]
  /\ touched = [j \in Jobs |-> {}]
  /\ acked = [i \in Ids |-> {}]
  /\ clobbered = {}
  /\ requests = 0 /\ saves = 0

-----------------------------------------------------------------------------
(* Requests and the developer.                                             *)

Update(i, s)  == [NoAsk EXCEPT !.kind = "update", !.id = i, !.status = s, !.n = requests + 1]
On(k, i)      == [NoAsk EXCEPT !.kind = k, !.id = i]
Delete(k, is) == [NoAsk EXCEPT !.kind = k, !.spans = is,
                                !.seen = [f \in {FileOf[i] : i \in is} |-> Hash(f)]]

\* A pill asks about what it was listed; a status of None stands for a reply.
PillAsks ==
  {Update(i, s) : i \in Ids, s \in Statuses \cup {None}}
  \cup {On(k, i) : k \in {"reanchor", "dismiss"}, i \in Ids}
  \cup {On("add", i) : i \in Loose}
  \cup {Delete("prune", is) : is \in (SUBSET Deletable) \ {{}}}

AgentAsks == {Update(i, s) : i \in Ids, s \in Statuses \cup {None}}
             \cup {On("add", i) : i \in Loose}

\* A client of the socket may name any header it was shown, of one file.
WireAsks == UNION {{Delete("wire", is) : is \in (SUBSET (headers \cap Of(f))) \ {{}}} : f \in Files}

Request(j) ==
  /\ pc[j] = "idle"
  /\ requests < MaxRequests
  /\ requests' = requests + 1
  /\ \/ /\ j \in Pills
        /\ \E a \in PillAsks :
             /\ ask' = [ask EXCEPT ![j] = a]
             /\ pc' = [pc EXCEPT ![j] = IF a.kind = "add" THEN "adding" ELSE "comments"]
        /\ UNCHANGED todo
     \/ /\ j \in Agents
        /\ \E a \in AgentAsks :
             /\ ask' = [ask EXCEPT ![j] = a]
             /\ pc' = [pc EXCEPT ![j] = IF a.kind = "add" THEN "adding" ELSE "deciding"]
        /\ UNCHANGED todo
     \/ /\ j \in Wires
        /\ \E a \in WireAsks :
             /\ ask' = [ask EXCEPT ![j] = a]
             /\ todo' = [todo EXCEPT ![j] = {FileOf[i] : i \in a.spans}]
        /\ pc' = [pc EXCEPT ![j] = "source"]
  /\ UNCHANGED <<disk, rec, locks, read, draft, touched, acked, clobbered, saves>>

\* The order of the files of a prune is that of their names, any order here.
Current(j) == CHOOSE f \in todo[j] : TRUE

\* The files that a deletion has emptied and not filled yet.
Torn == {Current(j) : j \in {l \in Jobs : pc[l] = "filling"}}

Kind(j) == IF j \in Pills THEN "pill" ELSE IF j \in Agents THEN "agent" ELSE "wire"

\* Whose reading of one of the comments is is no longer true, after a change by a k.
Touch(j, is, k) ==
  [l \in Jobs |-> IF l = j THEN {}
                  ELSE IF ({ask[l].id} \cup ask[l].spans) \cap is # {} THEN touched[l] \cup {k}
                  ELSE touched[l]]

\* The developer types a header, removes one or changes something else in a file, of which
\* no deletion is between its two steps (a bound). A save by another rail of the server, or
\* by an editor that empties the file first, is several of these.
Save ==
  /\ saves < MaxSaves
  /\ \/ \E i \in {l \in Inline : FileOf[l] \notin Torn} :
           /\ headers' = IF i \in headers THEN headers \ {i} ELSE headers \cup {i}
           /\ touched' = [l \in Jobs |-> IF i = ask[l].id \/ FileOf[i] \in todo[l]
                                         THEN touched[l] \cup {"developer"} ELSE touched[l]]
           /\ UNCHANGED rest
     \/ \E f \in Files \ Torn :
                         /\ rest' = [rest EXCEPT ![f] = @ + 1]
                         /\ UNCHANGED <<headers, touched>>
  /\ saves' = saves + 1
  /\ UNCHANGED <<rec, locks, pc, ask, todo, read, draft, acked, clobbered, requests>>

-----------------------------------------------------------------------------
(* Records.                                                                *)

Unlocked(j) == IF commentLock = j THEN None ELSE commentLock

Forgotten(j) ==
  /\ ask' = [ask EXCEPT ![j] = NoAsk]
  /\ pc' = [pc EXCEPT ![j] = "idle"]
  /\ todo' = [todo EXCEPT ![j] = {}]
  /\ read' = [read EXCEPT ![j] = <<{}, 0>>]
  /\ draft' = [draft EXCEPT ![j] = None]

\* A record of its own under a fresh identity; no lock.
Add(j) ==
  /\ pc[j] = "adding"
  /\ LET i == ask[j].id
     IN IF rec[i] = None
        THEN /\ rec' = [rec EXCEPT ![i] = NewRecord("loose")]
             /\ touched' = Touch(j, {i}, Kind(j))
        ELSE UNCHANGED <<rec, touched>>
  /\ Forgotten(j)
  /\ UNCHANGED <<disk, locks, acked, clobbered, requests, saves>>

\* A plausible bug: the lock is not waited for.
LockCommentsNever(j) ==
  /\ pc[j] = "comments"
  /\ pc' = [pc EXCEPT ![j] = "deciding"]
  /\ UNCHANGED <<disk, rec, locks, ask, todo, read, draft, touched, acked, clobbered,
                 requests, saves>>

\* comment_write_lock().lock()
LockComments(j) ==
  /\ pc[j] = "comments" /\ commentLock = None
  /\ commentLock' = j
  /\ pc' = [pc EXCEPT ![j] = "deciding"]
  /\ UNCHANGED <<disk, rec, sourceLock, ask, todo, read, draft, touched, acked, clobbered,
                 requests, saves>>

\* A plausible bug: the transition is logged from the status of a new comment.
ChangedFromOpen(r, a) ==
  IF a.status = None THEN [r EXCEPT !.thread = @ \cup {a.n}]
  ELSE IF a.status = r.status THEN r
  ELSE [r EXCEPT !.status = a.status, !.history = Append(@, <<"open", a.status>>)]

\* A status is a transition with its history; a status it has already is none.
Changed(r, a) ==
  IF a.status = None THEN [r EXCEPT !.thread = @ \cup {a.n}]
  ELSE IF a.status = r.status THEN r
  ELSE [r EXCEPT !.status = a.status, !.history = Append(@, <<r.status, a.status>>)]

\* What a job may do on what it reads now: agents do not see orphans, re-anchoring and
\* dismissal are for orphans only, a prune is for what is listed now as it was listed.
Eligible(j) ==
  LET a == ask[j]
  IN CASE a.kind = "update" -> IF j \in Agents THEN Live(a.id)
                               ELSE rec[a.id] # None \/ Live(a.id)
       [] a.kind \in {"reanchor", "dismiss"} -> Orphan(a.id)
       [] a.kind = "prune" -> /\ a.spans \subseteq Deletable
                              /\ \A i \in a.spans : a.seen[FileOf[i]] = Hash(FileOf[i])

\* The header of i may be in a file that is empty at the moment.
Blind(i) == i \in Inline /\ FileOf[i] \in Torn

Decide(j) ==
  /\ pc[j] = "deciding" /\ Eligible(j)
  /\ LET a == ask[j]
     IN \/ /\ a.kind = "update"
           /\ draft' = [draft EXCEPT ![j] =
                Changed(IF j \in Agents \/ rec[a.id] = None THEN Merged(a.id) ELSE rec[a.id], a)]
           /\ pc' = [pc EXCEPT ![j] = "writing"]
           /\ UNCHANGED todo
        \/ /\ a.kind = "reanchor"
           /\ draft' = [draft EXCEPT ![j] = [rec[a.id] EXCEPT !.anchor = "loose"]]
           /\ pc' = [pc EXCEPT ![j] = "writing"]
           /\ UNCHANGED todo
        \/ /\ a.kind = "dismiss"
           /\ pc' = [pc EXCEPT ![j] = "removing"]
           /\ UNCHANGED <<draft, todo>>
        \/ /\ a.kind = "prune"
           /\ todo' = [todo EXCEPT ![j] = {FileOf[i] : i \in a.spans}]
           /\ pc' = [pc EXCEPT ![j] = "source"]
           /\ UNCHANGED draft
  /\ touched' = [touched EXCEPT ![j] = IF Blind(ask[j].id) THEN {"torn"} ELSE {}]
  /\ UNCHANGED <<disk, rec, locks, ask, read, acked, clobbered, requests, saves>>

Refuse(j) ==
  /\ pc[j] = "deciding" /\ ~Eligible(j)
  /\ commentLock' = Unlocked(j)
  /\ Forgotten(j)
  /\ touched' = [touched EXCEPT ![j] = {}]
  /\ UNCHANGED <<disk, rec, sourceLock, acked, clobbered, requests, saves>>

\* Writers the lock does not keep away from j.
Outside(j) == IF j \in Pills THEN {"agent"} ELSE {"agent", "pill"}

WriteRecord(j) ==
  /\ pc[j] = "writing"
  /\ LET a == ask[j]
     IN /\ rec' = [rec EXCEPT ![a.id] = draft[j]]
        /\ acked' = IF a.kind = "update" /\ a.status = None
                    THEN [acked EXCEPT ![a.id] = @ \cup {a.n}] ELSE acked
        /\ clobbered' = IF touched[j] \cap Outside(j) # {} THEN clobbered \cup {a.id}
                        ELSE clobbered
        /\ touched' = Touch(j, {a.id}, Kind(j))
  /\ commentLock' = Unlocked(j)
  /\ Forgotten(j)
  /\ UNCHANGED <<disk, sourceLock, requests, saves>>

\* remove_record; the conversation is gone on request.
RemoveRecord(j) ==
  /\ pc[j] = "removing"
  /\ rec' = [rec EXCEPT ![ask[j].id] = None]
  /\ acked' = [acked EXCEPT ![ask[j].id] = {}]
  /\ clobbered' = IF touched[j] \cap Outside(j) # {} THEN clobbered \cup {ask[j].id}
                  ELSE clobbered
  /\ touched' = Touch(j, {ask[j].id}, Kind(j))
  /\ commentLock' = Unlocked(j)
  /\ Forgotten(j)
  /\ UNCHANGED <<disk, sourceLock, requests, saves>>

-----------------------------------------------------------------------------
(* Headers: __delete_spans, one file after the other.                      *)

\* source_write_lock().lock()
LockSource(j) ==
  /\ pc[j] = "source" /\ sourceLock = None
  /\ sourceLock' = j
  /\ pc' = [pc EXCEPT ![j] = "verifying"]
  /\ UNCHANGED <<disk, rec, commentLock, ask, todo, read, draft, touched, acked, clobbered,
                 requests, saves>>

Doomed(j)  == ask[j].spans \cap Of(Current(j))

\* A plausible bug: the rail trusts its caller and compares bytes only.
VerifiedBytes(j) == ask[j].seen[Current(j)] = Hash(Current(j))

\* The hash and the texts are those that were shown, and every span is deletable now.
Verified(j) == /\ ask[j].seen[Current(j)] = Hash(Current(j))
               /\ Doomed(j) \subseteq Deletable

\* A plausible bug: a wire also waits for the pills, in the other order of the locks.
VerifyingAlone(j) == pc[j] = "verifying" /\ (j \in Wires => commentLock = None)

Verifying(j) == pc[j] = "verifying"

Verify(j) ==
  /\ Verifying(j)
  /\ IF Verified(j)
     THEN /\ read' = [read EXCEPT ![j] = Hash(Current(j))]
          /\ touched' = [touched EXCEPT ![j] = {}]
          /\ pc' = [pc EXCEPT ![j] = "deleting"]
          /\ UNCHANGED <<locks, ask, todo, draft>>
     ELSE /\ sourceLock' = None
          /\ commentLock' = Unlocked(j)
          /\ Forgotten(j)
          /\ touched' = [touched EXCEPT ![j] = {}]
  /\ UNCHANGED <<disk, rec, acked, clobbered, requests, saves>>

\* std::fs::write opens the file and empties it, ...
Truncate(j) ==
  /\ pc[j] = "deleting"
  /\ headers' = headers \ Of(Current(j))
  /\ pc' = [pc EXCEPT ![j] = "filling"]
  /\ UNCHANGED <<rest, rec, locks, ask, todo, read, draft, touched, acked, clobbered,
                 requests, saves>>

\* ... and fills it with the text that was read, without the spans; if the developer has
\* changed the file meanwhile, that is undone, as if the developer had done it.
Fill(j) ==
  /\ pc[j] = "filling"
  /\ headers' = headers \cup (read[j][1] \ ask[j].spans)
  /\ rest' = [rest EXCEPT ![Current(j)] = read[j][2]]
  /\ sourceLock' = None
  /\ touched' = IF "developer" \in touched[j] THEN Touch(j, Of(Current(j)), "developer")
                ELSE Touch(j, Doomed(j), Kind(j))
  /\ IF todo[j] = {Current(j)}
     THEN Forgotten(j) /\ commentLock' = Unlocked(j)
     ELSE /\ todo' = [todo EXCEPT ![j] = @ \ {Current(j)}]
          /\ pc' = [pc EXCEPT ![j] = "source"]
          /\ UNCHANGED <<ask, read, draft, commentLock>>
  /\ UNCHANGED <<rec, acked, clobbered, requests, saves>>

-----------------------------------------------------------------------------
Handle(j) == \/ Add(j) \/ LockComments(j) \/ Decide(j) \/ Refuse(j) \/ WriteRecord(j)
             \/ RemoveRecord(j) \/ LockSource(j) \/ Verify(j) \/ Truncate(j)
             \/ Fill(j)

Next == (\E j \in Jobs : Request(j) \/ Handle(j)) \/ Save

\* Handlers run to their end; nobody has to ask or to save.
Spec == Init /\ [][Next]_vars /\ \A j \in Jobs : WF_vars(Handle(j))

-----------------------------------------------------------------------------
(* Properties.                                                             *)

Shots == (SUBSET Inline) \X Nat
Asks  == [kind : {"none", "update", "reanchor", "dismiss", "add", "prune", "wire"},
          id : Ids \cup {None}, status : Statuses \cup {None}, n : Nat, spans : SUBSET Inline,
          seen : UNION {[fs -> Shots] : fs \in SUBSET Files}]
Waits == {"comments", "source"}
Works == {"adding", "deciding", "writing", "removing", "verifying", "deleting", "filling"}

TypeOK ==
  /\ headers \in SUBSET Inline /\ rest \in [Files -> Nat]
  /\ rec \in [Ids -> Records \cup {None}]
  /\ commentLock \in Pills \cup {None} /\ sourceLock \in Jobs \cup {None}
  /\ pc \in [Jobs -> {"idle"} \cup Waits \cup Works]
  /\ ask \in [Jobs -> Asks]
  /\ todo \in [Jobs -> SUBSET Files]
  /\ read \in [Jobs -> Shots]
  /\ draft \in [Jobs -> Records \cup {None}]
  /\ touched \in [Jobs -> SUBSET {"pill", "agent", "wire", "developer", "torn"}]
  /\ acked \in [Ids -> SUBSET Nat]
  /\ clobbered \in SUBSET Ids
  /\ requests \in Nat /\ saves \in Nat

\* Who can change what j has decided on between the decision and the act.
Excused(j) == touched[j] \cap (Outside(j) \cup {"developer"}) # {}

\* A header is gone after a deletion only if its comment is resolved, and a record is
\* dismissed only while it is an orphan, whoever prunes, dismisses, re-anchors and changes
\* statuses at the same time; only a writer that takes no lock can come in between (the
\* decisions under comment_write_lock and the authorisation at the span rail). A dismissal
\* that looked for the header while its file was empty is not told from that of an orphan:
\* there the code breaks "Live records are refused".
DestroysOnlySettled ==
  [][\A j \in Jobs : ~Excused(j) =>
       /\ pc[j] = "filling" /\ pc'[j] # "filling" =>
            \A i \in read[j][1] \ headers' : Resolved(i)
       /\ pc[j] = "removing" /\ pc'[j] # "removing" /\ "torn" \notin touched[j] =>
            Orphan(ask[j].id)]_vars

\* Every accepted reply is in the thread of its comment until the comment is dismissed:
\* status changes, re-anchoring, pruning and other replies keep it, unless two writers
\* without a common lock had the record at once.
RepliesKept ==
  \A i \in Ids \ clobbered : acked[i] # {} => rec[i] # None /\ acked[i] \subseteq rec[i].thread

Before(h, k) == IF k = 1 THEN "open" ELSE h[k - 1][2]

Linked(r) == /\ \A k \in DOMAIN r.history : /\ r.history[k][1] = Before(r.history, k)
                                           /\ r.history[k][1] # r.history[k][2]
             /\ r.status = Before(r.history, Len(r.history) + 1)

\* The status of every record is accounted for: each transition starts where the one
\* before it ended, the first from open, and the last ends in the status, also after
\* writers have overwritten each other.
HistoryLinked == \A i \in Ids : rec[i] # None => Linked(rec[i])

\* Every request is answered: nobody waits for a lock whose owner waits for the other.
RequestsAnswered == \A j \in Jobs : pc[j] # "idle" ~> pc[j] = "idle"
===============================================================================
