------------------------------- MODULE Realtime -------------------------------
(***************************************************************************)
(* Optimistic lists over a socket: public/runtime/realtime.js. A page      *)
(* applies its own operation at once, keeps a copy of the list from before *)
(* it and sends it; the server answers the sender with Ack or Reject and   *)
(* tells every subscriber what changed. A socket closes at any time with   *)
(* all that is under way on it and opens again; then the page subscribes   *)
(* again and gets a snapshot.                                              *)
(*                                                                         *)
(* The server is not in the repository. It is modelled from what the       *)
(* runtime expects of it: it handles the messages of a page in order,      *)
(* names a new item itself, tells a change to everybody before it          *)
(* acknowledges it, and rejects what it wants and whatever names an item   *)
(* it has not. Every caller in the repository inserts items without an id. *)
(***************************************************************************)
EXTENDS Integers, SequencesExt

CONSTANTS Pages, Values,
          MaxOps, MaxCloses   \* bounds of a run

ASSUME RealtimeAssumption == MaxOps \in Nat /\ MaxCloses \in Nat

VARIABLES sock,     \* per page: "closed" or "open"
          items,    \* per page: the list it shows
          unanswered,  \* per page: its operations without an answer
          rolled,   \* per page: a reject undid what was applied after its operation
          up, down, \* per page: messages under way on its socket
          subs,     \* the pages the server tells about changes
          list,     \* the server's list
          named,    \* items the server has named
          ops, closes

page == <<sock, items, unanswered, rolled>>
realtimeVars == <<page, up, down, subs, list, named, ops, closes>>

\* An item of a page is named by the server, or temp_ and its operation.
Item(kind, n, v, p) == [id |-> <<kind, n>>, val |-> v, wait |-> p]
Shown(is) == {<<is[k].id, is[k].val>> : k \in DOMAIN is}
\* findIndex, of the positions that match.
IndexOf(found) == IF found = {} THEN 0 ELSE Min(found)
\* filter; the ids of a list are distinct (ListsAreSets), so at most one item goes.
Without(is, id) ==
  LET at == IndexOf({k \in DOMAIN is : is[k].id = id})
  IN IF at = 0 THEN is ELSE RemoveAt(is, at)

RealtimeInit ==
  /\ sock = [c \in Pages |-> "closed"]
  /\ items = [c \in Pages |-> <<>>]
  /\ unanswered = [c \in Pages |-> {}]
  /\ rolled = [c \in Pages |-> FALSE]
  /\ up = [c \in Pages |-> <<>>] /\ down = [c \in Pages |-> <<>>]
  /\ subs = {}
  /\ list \in {<<>>} \cup {<<Item("srv", 0, v, FALSE)>> : v \in Values}
  /\ named = 0 /\ ops = 0 /\ closes = 0

-----------------------------------------------------------------------------
(* The socket.                                                             *)

\* A plausible bug: only subscribe() itself subscribes.
OpeningSilent == <<>>

\* onopen subscribes again.
Opening == << [type |-> "Subscribe"] >>

Open(c) ==
  /\ sock[c] = "closed"
  /\ sock' = [sock EXCEPT ![c] = "open"]
  /\ up' = [up EXCEPT ![c] = Opening]
  /\ UNCHANGED <<items, unanswered, rolled, down, subs, list, named, ops, closes>>

\* onclose; the server forgets the subscription and a reconnect is scheduled.
Close(c) ==
  /\ sock[c] = "open"
  /\ closes < MaxCloses
  /\ closes' = closes + 1
  /\ sock' = [sock EXCEPT ![c] = "closed"]
  /\ up' = [up EXCEPT ![c] = <<>>]
  /\ down' = [down EXCEPT ![c] = <<>>]
  /\ subs' = subs \ {c}
  /\ UNCHANGED <<items, unanswered, rolled, list, named, ops>>

-----------------------------------------------------------------------------
(* Operations of a page.                                                   *)

\* _send: a message on a socket that is not open is dropped.
Sent(c, m) == up' = IF sock[c] = "open" THEN [up EXCEPT ![c] = Append(@, m)] ELSE up

Operation(c, type, id, v, shown) ==
  /\ ops < MaxOps
  /\ ops' = ops + 1
  /\ items' = [items EXCEPT ![c] = shown]
  /\ unanswered' = [unanswered EXCEPT ![c] =
       @ \cup {[op |-> ops', type |-> type, id |-> id, prev |-> items[c], passed |-> FALSE]}]
  /\ Sent(c, [type |-> type, op |-> ops', id |-> id, val |-> v])
  /\ UNCHANGED <<sock, rolled, down, subs, list, named, closes>>

Insert(c) == \E v \in Values :
  Operation(c, "Insert", <<"temp", ops + 1>>, v, Append(items[c], Item("temp", ops + 1, v, TRUE)))

\* A user changes or removes an item that is shown, its own unanswered one included.
Update(c) == \E k \in DOMAIN items[c], v \in Values :
  Operation(c, "Update", items[c][k].id, v, [items[c] EXCEPT ![k].val = v, ![k].wait = TRUE])

Delete(c) == \E k \in DOMAIN items[c] :
  Operation(c, "Delete", items[c][k].id, items[c][k].val, Without(items[c], items[c][k].id))

-----------------------------------------------------------------------------
(* The server.                                                             *)

Tell(c, m, answer) ==
  down' = [d \in Pages |-> down[d] \o (IF d \in subs THEN <<m>> ELSE <<>>)
                                   \o (IF d = c THEN <<answer>> ELSE <<>>)]

Serve(c) ==
  /\ up[c] # <<>>
  /\ up' = [up EXCEPT ![c] = Tail(@)]
  /\ LET m == Head(up[c])
         at == IndexOf({k \in DOMAIN list : list[k].id = m.id})
     IN \/ /\ m.type = "Subscribe"
           /\ subs' = subs \cup {c}
           /\ down' = [down EXCEPT ![c] = Append(@, [type |-> "Snapshot", data |-> list])]
           /\ UNCHANGED <<list, named>>
        \/ /\ m.type = "Insert"
           /\ named' = named + 1
           /\ LET item == Item("srv", named', m.val, FALSE)
              IN /\ list' = Append(list, item)
                 /\ Tell(c, [type |-> "ItemInserted", item |-> item], [type |-> "Ack", op |-> m.op])
           /\ UNCHANGED subs
        \/ /\ m.type = "Update" /\ at # 0
           /\ list' = [list EXCEPT ![at].val = m.val]
           /\ Tell(c, [type |-> "ItemUpdated", id |-> m.id, val |-> m.val],
                      [type |-> "Ack", op |-> m.op])
           /\ UNCHANGED <<subs, named>>
        \/ /\ m.type = "Delete" /\ at # 0
           /\ list' = Without(list, m.id)
           /\ Tell(c, [type |-> "ItemDeleted", id |-> m.id], [type |-> "Ack", op |-> m.op])
           /\ UNCHANGED <<subs, named>>
        \/ /\ m.type # "Subscribe"
           /\ down' = [down EXCEPT ![c] = Append(@, [type |-> "Reject", op |-> m.op])]
           /\ UNCHANGED <<subs, list, named>>
  /\ UNCHANGED <<page, ops, closes>>

\* A page may name an item it does not show. It sends that with no copy and no entry of its
\* own, so nothing in the page depends on it and its answer finds nothing to do: the request
\* and what the server does for it are one step. Refused, or lost, it has no effect at all.
Unshown(c, m) ==
  /\ sock[c] = "open" /\ c \in subs
  /\ ops < MaxOps
  /\ ops' = ops + 1
  /\ down' = [d \in Pages |-> IF d \in subs THEN Append(down[d], m) ELSE down[d]]
  /\ UNCHANGED <<page, up, subs, named, closes>>

UpdateUnshown(c) == \E k \in DOMAIN list, v \in Values :
  /\ list' = [list EXCEPT ![k].val = v]
  /\ Unshown(c, [type |-> "ItemUpdated", id |-> list[k].id, val |-> v])

DeleteUnshown(c) == \E k \in DOMAIN list :
  /\ list' = Without(list, list[k].id)
  /\ Unshown(c, [type |-> "ItemDeleted", id |-> list[k].id])

-----------------------------------------------------------------------------
(* _handleMessage.                                                         *)

\* A plausible bug: the place of the own item is not looked for.
InsertedLast(is, item) == Append(is, item)

\* The first own item without an answer makes room for the server's.
Inserted(is, item) ==
  LET at == IndexOf({k \in DOMAIN is : is[k].wait /\ is[k].id[1] = "temp"})
  IN IF at = 0 THEN Append(is, item) ELSE [is EXCEPT ![at] = item]

Updated(is, id, v) ==
  LET at == IndexOf({k \in DOMAIN is : is[k].id = id})
  IN IF at = 0 THEN is ELSE [is EXCEPT ![at].val = v, ![at].wait = FALSE]

Acked(is, o) ==
  LET at == IndexOf({k \in DOMAIN is : is[k].id = o.id})
  IN IF o.type = "Delete" \/ at = 0 THEN is ELSE [is EXCEPT ![at].wait = FALSE]

\* Everything of the server's that a page applies passes the operations still unanswered.
Passed(os) == {[o EXCEPT !.passed = TRUE] : o \in os}

Receive(c) ==
  /\ down[c] # <<>>
  /\ down' = [down EXCEPT ![c] = Tail(@)]
  /\ LET m == Head(down[c])
         mine == {o \in unanswered[c] : m.type \in {"Ack", "Reject"} /\ o.op = m.op}
         Show(is) == items' = [items EXCEPT ![c] = is]
         Keep(os) == unanswered' = [unanswered EXCEPT ![c] = os]
     IN \/ /\ m.type = "Snapshot"
           /\ Show(m.data) /\ Keep(Passed(unanswered[c]))
           /\ rolled' = [rolled EXCEPT ![c] = FALSE]
        \/ /\ m.type = "ItemInserted"
           /\ Show(Inserted(items[c], m.item)) /\ Keep(Passed(unanswered[c]))
           /\ UNCHANGED rolled
        \/ /\ m.type = "ItemUpdated"
           /\ Show(Updated(items[c], m.id, m.val)) /\ Keep(Passed(unanswered[c]))
           /\ UNCHANGED rolled
        \/ /\ m.type = "ItemDeleted"
           /\ Show(Without(items[c], m.id)) /\ Keep(Passed(unanswered[c]))
           /\ UNCHANGED rolled
        \/ /\ m.type = "Ack"
           /\ \E o \in mine : Show(Acked(items[c], o)) /\ Keep(unanswered[c] \ {o})
           /\ UNCHANGED rolled
        \/ /\ m.type = "Reject"
           /\ \E o \in mine : /\ Show(o.prev) /\ Keep(Passed(unanswered[c] \ {o}))
                              /\ rolled' = [rolled EXCEPT ![c] = @ \/ o.passed]
  /\ UNCHANGED <<sock, up, subs, list, named, ops, closes>>

-----------------------------------------------------------------------------
RealtimeNext ==
  \E c \in Pages : \/ Open(c) \/ Close(c) \/ Insert(c) \/ Update(c) \/ Delete(c)
                   \/ UpdateUnshown(c) \/ DeleteUnshown(c) \/ Serve(c) \/ Receive(c)

\* The reconnect timer fires, the server handles what arrives, the page what it is told.
RealtimeSpec ==
  RealtimeInit /\ [][RealtimeNext]_realtimeVars /\ \A c \in Pages : WF_realtimeVars(Open(c) \/ Serve(c) \/ Receive(c))

-----------------------------------------------------------------------------
(* Properties.                                                             *)

Kinds == {"Insert", "Update", "Delete"}
Ids == {"temp", "srv"} \X Nat
Items == [id : Ids, val : Values, wait : BOOLEAN]
Operations == [op : Nat, type : Kinds, id : Ids, prev : Seq(Items), passed : BOOLEAN]
Requests == [type : {"Subscribe"}] \cup [type : Kinds, op : Nat, id : Ids, val : Values]
Replies ==
  [type : {"Snapshot"}, data : Seq(Items)] \cup [type : {"ItemInserted"}, item : Items]
    \cup [type : {"ItemUpdated"}, id : Ids, val : Values] \cup [type : {"ItemDeleted"}, id : Ids]
    \cup [type : {"Ack", "Reject"}, op : Nat]

RealtimeTypeOK ==
  /\ sock \in [Pages -> {"closed", "open"}]
  /\ items \in [Pages -> Seq(Items)]
  /\ unanswered \in [Pages -> SUBSET Operations]
  /\ rolled \in [Pages -> BOOLEAN]
  /\ up \in [Pages -> Seq(Requests)] /\ down \in [Pages -> Seq(Replies)]
  /\ subs \subseteq Pages
  /\ list \in Seq(Items)
  /\ named \in Nat /\ ops \in 0..MaxOps /\ closes \in 0..MaxCloses

Quiet(c) == sock[c] = "open" /\ c \in subs /\ up[c] = <<>> /\ down[c] = <<>>

\* A page that is told everything shows the server's list, each item once: whatever was
\* rejected, dropped on a closed socket, lost with it or changed by others meanwhile,
\* unless a reject restored a list that the server had since told it to change.
QuietPageShowsList ==
  \A c \in Pages : Quiet(c) /\ ~rolled[c] =>
    Shown(items[c]) = Shown(list) /\ Len(items[c]) = Len(list)

\* A page whose socket closed shows the server's list again, whatever it did offline and
\* whatever a reject had undone before, unless it closes or rolls back again.
ReconnectHeals ==
  \A c \in Pages : sock[c] = "closed" ~>
    (Quiet(c) /\ (rolled[c] \/ Shown(items[c]) = Shown(list)))
===============================================================================
