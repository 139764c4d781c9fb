------------------------------ MODULE CrewStore ------------------------------
(***************************************************************************)
(* The client's crew store: the open crew, its roster, one of its lists    *)
(* (polls, meeting points, packing items, rides or expenses) and the       *)
(* statuses of its members, as API answers, realtime events and replayed   *)
(* offline creates change them.                                            *)
(*                                                                         *)
(* A request is sent, answered by the server and settled by the client in  *)
(* three steps; answers overtake each other.  Events come in order, and    *)
(* some are lost.  The lists and the statuses do not depend on each other, *)
(* so a behaviour looks at one of them.  What an entity says and its place *)
(* in the list are left out: only which entities are listed, how often,    *)
(* for which crew, and whether they are placeholders.                      *)
(***************************************************************************)
EXTENDS Integers, FiniteSets, Sequences, Bags

CONSTANTS
  Crews,        \* crews the user may open
  Fresh,        \* the crew a createCrew or reformCrew makes
  Kinds,        \* the slices of the store that are looked at
  Ops,          \* the store actions that are called
  Alone,        \* actions during which the user starts no other
  MaxItems,     \* bound: entities ever made
  MaxLost,      \* bound: entities made a second time, the answer of their create being lost
  MaxRequests,  \* bound: requests ever sent
  MaxEvents,    \* bound: events on their way
  MaxVersion,   \* bound: how often the other member's status changes
  None

Ids == 1..(MaxItems + MaxLost)
Requests == 1..MaxRequests

Lists == {"polls", "points", "packing", "expenses"}

ASSUME CrewStoreAssumption ==
  /\ Fresh \notin Crews /\ None \notin Crews \cup {Fresh, "sent", "answered", "done"}
  /\ Kinds \subseteq Lists \cup {"statuses", "roster"}
  /\ Alone \subseteq Ops
  /\ MaxItems \in Nat /\ MaxLost \in Nat /\ MaxRequests \in Nat
  /\ MaxEvents \in Nat /\ MaxVersion \in Nat

VARIABLES
  kind,       \* the slice looked at
  active,     \* activeCrew
  roster,     \* the crew that crewMembers is the roster of; None when it is empty
  items,      \* the list: a bag
  status,     \* crewStatuses: the row of the user and that of another member
  lastSelect, \* _lastSelectCrewId
  cached,     \* _cachedCrewId
  queue,      \* offline creates that are waiting, being replayed or given up
  rows,       \* the server's list, by crew
  version,    \* the server's version of the other member's status, by crew
  mine,       \* the update the server's row of the user's status comes from, by crew
  home,       \* history: the crew of an entity that has been made
  events,     \* events on their way to the client
  req         \* the requests

list == <<items, status>>
shown == <<active, roster, items, status, lastSelect, cached>>
server == <<rows, version, mine, home>>
vars == <<kind, shown, queue, server, events, req>>

AllCrews == Crews \cup {Fresh}

Real(e) == [id |-> e, crew |-> home[e], temp |-> FALSE]
Temp(e, c) == [id |-> e, crew |-> c, temp |-> TRUE]
With(b, x) == b (+) SetToBag({x})
Without(b, x) == [i \in BagToSet(b) \ {x} |-> b[i]]

NoStatus == [crew |-> None, at |-> 0]
NoStatuses == [mine |-> NoStatus, other |-> NoStatus]

Unused == [op |-> None, crew |-> None, item |-> 0, at |-> None, got |-> {}, seen |-> NoStatuses, prev |-> NoStatuses,
           ok |-> TRUE]

Init ==
  /\ kind \in Kinds
  /\ active = None /\ roster = None /\ items = EmptyBag /\ status = NoStatuses
  /\ lastSelect = None /\ cached = None
  /\ queue = [e \in Ids |-> "none"]
  /\ rows = [c \in AllCrews |-> {}] /\ version = [c \in AllCrews |-> 0]
  /\ mine = [c \in AllCrews |-> 0]
  /\ home = [e \in Ids |-> None]
  /\ events = <<>>
  /\ req = [r \in Requests |-> Unused]

-----------------------------------------------------------------------------
(* Requests.                                                               *)

Open(r) == req[r].at \in {"sent", "answered"}
Answered(r, op) == req[r].at = "answered" /\ req[r].op = op

\* Request r is the next one, and may be sent.
Sendable(r, op) ==
  /\ op \in Ops /\ req[r].at = None /\ (r > 1 => req[r - 1].at # None)
  /\ \A x \in Requests : Open(x) => req[x].op \notin Alone
  /\ op \in Alone => \A x \in Requests : ~Open(x)

Sent(r, op, c, e) ==
  [req EXCEPT ![r] = [Unused EXCEPT !.op = op, !.crew = c, !.item = e, !.at = "sent"]]

\* A load that an event or a finished write starts.
Load(r, c) == [Unused EXCEPT !.op = "load", !.crew = c, !.at = "sent"]

Done(r) == req' = [req EXCEPT ![r] = [Unused EXCEPT !.at = "done"]]

\* The server emits an event to the crew's room before it answers; the client may not be in
\* it, or be cut off.
Emits(e) == events' \in {events} \cup (IF Len(events) < MaxEvents THEN {Append(events, e)} ELSE {})

Event(t, c, n) == [type |-> t, crew |-> c, n |-> n]

Statuses(c) == [mine |-> IF mine[c] = 0 THEN NoStatus ELSE [crew |-> c, at |-> mine[c]],
                other |-> IF version[c] = 0 THEN NoStatus ELSE [crew |-> c, at |-> version[c]]]

\* The server handles a request.
serve(r) ==
  LET q == req[r] IN
  /\ q.at = "sent"
  /\ req' = [req EXCEPT ![r].at = "answered", ![r].got = IF q.op = "load" THEN rows[q.crew] ELSE {},
                        ![r].seen = IF q.op = "loadStatuses" THEN Statuses(q.crew) ELSE NoStatuses]
  /\ CASE q.op = "create" -> rows' = [rows EXCEPT ![q.crew] = @ \cup {q.item}]
                             /\ Emits(Event("created", q.crew, q.item))
       [] q.op = "delete" -> rows' = [rows EXCEPT ![q.crew] = @ \ {q.item}]
                             /\ Emits(Event("removed", q.crew, q.item))
       [] OTHER -> UNCHANGED <<rows, events>>
  /\ mine' = IF q.op = "updateMyStatus" THEN [mine EXCEPT ![q.crew] = r] ELSE mine
  /\ UNCHANGED <<kind, shown, queue, version, home>>

\* A request is refused, does not reach the server, or a load's answer does not come.
fails(r) ==
  /\ req[r].at = "sent"
  /\ req' = [req EXCEPT ![r].at = "answered", ![r].ok = FALSE]
  /\ UNCHANGED <<kind, shown, queue, server, events>>

\* The server has handled a write, and its answer does not come.  The replay of a create will
\* make another entity, e, as the request carries no key that the server could know it by.
answerLost(r) ==
  /\ req[r].at = "answered" /\ req[r].ok
  /\ \/ /\ req[r].op \in {"delete", "updateMyStatus"} /\ home' = home
        /\ req' = [req EXCEPT ![r].ok = FALSE]
     \/ /\ req[r].op = "create"
        /\ \E e \in Ids : /\ home[e] = None /\ (e > 1 => home[e - 1] # None)
                         /\ home' = [home EXCEPT ![e] = req[r].crew]
                         /\ req' = [req EXCEPT ![r].ok = FALSE, ![r].item = e]
  /\ UNCHANGED <<kind, shown, queue, rows, version, mine, events>>

-----------------------------------------------------------------------------
(* The open crew and its roster.                                           *)

\* selectCrew, until it awaits: what is shown of another crew is cleared.
selectCrew(r) ==
  \E c \in (Crews \cup {active}) \ {None} :
    LET same == cached = c \/ active = c
    IN  /\ Sendable(r, "select")
        /\ lastSelect' = c
        /\ active' = IF active = c THEN c ELSE None
        /\ roster' = IF same THEN roster ELSE None
        /\ items' = IF same THEN items ELSE EmptyBag
        /\ status' = IF same THEN status ELSE NoStatuses
        /\ req' = Sent(r, "select", c, 0)
        /\ UNCHANGED <<kind, cached, queue, server, events>>

\* Mutant: every answer is shown.
selected_Any(r) ==
  /\ Answered(r, "select")
  /\ IF req[r].ok
     THEN active' = req[r].crew /\ roster' = req[r].crew /\ cached' = req[r].crew
     ELSE UNCHANGED <<active, roster, cached>>
  /\ Done(r)
  /\ UNCHANGED <<kind, list, lastSelect, queue, server, events>>

\* Its answer counts if the crew is the last one selected.
selected(r) ==
  /\ Answered(r, "select")
  /\ IF req[r].ok /\ lastSelect = req[r].crew
     THEN active' = req[r].crew /\ roster' = req[r].crew /\ cached' = req[r].crew
     ELSE UNCHANGED <<active, roster, cached>>
  /\ Done(r)
  /\ UNCHANGED <<kind, list, lastSelect, queue, server, events>>

\* createCrew and reformCrew open the crew they made; only the latter marks it as cached, and
\* neither clears the lists.
makeCrew(r, op) ==
  /\ Sendable(r, op)
  /\ req' = Sent(r, op, Fresh, 0)
  /\ UNCHANGED <<kind, shown, queue, server, events>>

\* Mutant: an answer without members leaves the roster.
crewMade_KeepsRoster(r, op) ==
  /\ Answered(r, op)
  /\ active' = IF req[r].ok THEN Fresh ELSE active
  /\ cached' = IF req[r].ok /\ op = "reformCrew" THEN Fresh ELSE cached
  /\ Done(r)
  /\ UNCHANGED <<kind, roster, list, lastSelect, queue, server, events>>

crewMade(r, op) ==
  /\ Answered(r, op)
  /\ IF req[r].ok
     THEN /\ active' = Fresh /\ roster' = Fresh
          /\ cached' = IF op = "reformCrew" THEN Fresh ELSE cached
     ELSE UNCHANGED <<active, roster, cached>>
  /\ Done(r)
  /\ UNCHANGED <<kind, list, lastSelect, queue, server, events>>

\* leaveCrew, deleteCrew and forceAddMember, which are called for the crew that is open.
manage(r, op) ==
  /\ Sendable(r, op) /\ active # None
  /\ req' = Sent(r, op, active, 0)
  /\ UNCHANGED <<kind, shown, queue, server, events>>

crewLeft(r) ==
  /\ Answered(r, "leaveCrew")
  /\ IF req[r].ok /\ active = req[r].crew THEN active' = None /\ roster' = None
     ELSE UNCHANGED <<active, roster>>
  /\ Done(r)
  /\ UNCHANGED <<kind, list, lastSelect, cached, queue, server, events>>

\* The roster stays.
crewDeleted(r) ==
  /\ Answered(r, "deleteCrew")
  /\ active' = IF req[r].ok /\ active = req[r].crew THEN None ELSE active
  /\ Done(r)
  /\ UNCHANGED <<kind, roster, list, lastSelect, cached, queue, server, events>>

\* The roster becomes that of the crew the member was added to, whichever crew is open.
memberAdded(r) ==
  /\ Answered(r, "forceAddMember")
  /\ roster' = IF req[r].ok THEN req[r].crew ELSE roster
  /\ Done(r)
  /\ UNCHANGED <<kind, active, list, lastSelect, cached, queue, server, events>>

\* applyCrewAccessRevoked.
Revoked(c) ==
  IF active = c THEN active' = None /\ roster' = None /\ items' = EmptyBag /\ status' = NoStatuses
                     /\ cached' = None
                ELSE UNCHANGED <<active, roster, list, cached>>

\* resetAllStores: sign-out.  _lastSelectCrewId is not a part of the store.
resetAllStores ==
  /\ "signOut" \in Ops /\ ("signOut" \in Alone => \A x \in Requests : ~Open(x))
  /\ active # None
  /\ active' = None /\ roster' = None /\ items' = EmptyBag /\ status' = NoStatuses /\ cached' = None
  /\ queue' = [e \in Ids |-> "none"]
  /\ UNCHANGED <<kind, lastSelect, server, events, req>>

-----------------------------------------------------------------------------
(* The list.                                                               *)

\* loadPolls, loadMeetingPoints, loadPacking, loadRides, loadExpenses, for the open crew.
load(r) ==
  /\ Sendable(r, "load") /\ kind \in Lists /\ active # None
  /\ req' = Sent(r, "load", active, 0)
  /\ UNCHANGED <<kind, shown, queue, server, events>>

\* The server's list replaces what is shown, placeholders included.
loaded(r) ==
  /\ Answered(r, "load")
  /\ items' = IF req[r].ok THEN SetToBag({Real(e) : e \in req[r].got}) ELSE items
  /\ Done(r)
  /\ UNCHANGED <<kind, active, roster, status, lastSelect, cached, queue, server, events>>

\* createPoll, createMeetingPoint, createPackingItem, createRideOffer, addExpense.
createItem(r) ==
  \E e \in Ids :
    /\ Sendable(r, "create") /\ kind \in Lists /\ active # None
    /\ e <= MaxItems /\ home[e] = None /\ (e > 1 => home[e - 1] # None)
    /\ home' = [home EXCEPT ![e] = active]
    /\ req' = Sent(r, "create", active, e)
    /\ UNCHANGED <<kind, shown, queue, rows, version, mine, events>>

\* The answer is listed; an expense is loaded instead.
created(r) ==
  /\ Answered(r, "create") /\ req[r].ok
  /\ IF kind = "expenses"
     THEN items' = items /\ req' = [req EXCEPT ![r] = Load(r, @.crew)]
     ELSE items' = With(items, Real(req[r].item)) /\ Done(r)
  /\ UNCHANGED <<kind, active, roster, status, lastSelect, cached, queue, server, events>>

createRefused(r) ==
  /\ Answered(r, "create") /\ ~req[r].ok
  /\ Done(r)
  /\ UNCHANGED <<kind, shown, queue, server, events>>

\* Mutant: the answer's envelope is looked for in what the queue returned, and nothing found.
createQueued_Undefined(r) ==
  /\ Answered(r, "create") /\ ~req[r].ok
  /\ queue' = [queue EXCEPT ![req[r].item] = "queued"]
  /\ items' = With(items, None)
  /\ Done(r)
  /\ UNCHANGED <<kind, active, roster, status, lastSelect, cached, server, events>>

\* Offline: the create is queued and onOptimisticCreate lists a placeholder.
createQueued(r) ==
  LET e == req[r].item IN
  /\ Answered(r, "create") /\ ~req[r].ok
  /\ queue' = [queue EXCEPT ![e] = "queued"]
  /\ items' = With(items, Temp(e, req[r].crew))
  /\ Done(r)
  /\ UNCHANGED <<kind, active, roster, status, lastSelect, cached, server, events>>

\* The drain replays a create: the server makes the entity, or refuses it for good.
replay(e) ==
  /\ queue[e] = "queued"
  /\ \/ /\ queue' = [queue EXCEPT ![e] = "replayed"]
        /\ rows' = [rows EXCEPT ![home[e]] = @ \cup {e}]
        /\ Emits(Event("created", home[e], e))
     \/ queue' = [queue EXCEPT ![e] = "failed"] /\ UNCHANGED <<rows, events>>
  /\ UNCHANGED <<kind, shown, version, mine, home, req>>

\* Mutant: the real entity is inserted although it is listed.
Reconciled_NoGuard(b, e) ==
  LET t == Temp(e, home[e]) IN
  IF ~BagIn(t, b) THEN b ELSE With(Without(b, t), Real(e))

\* The reconciler replaces a placeholder that is still there, unless the real entity has
\* arrived; that of an expense is dropped.
Reconciled(b, e) ==
  LET t == Temp(e, home[e]) IN
  IF ~BagIn(t, b) THEN b
  ELSE IF kind = "expenses" \/ BagIn(Real(e), b) THEN Without(b, t)
  ELSE With(Without(b, t), Real(e))

reconcile(e) ==
  /\ queue[e] = "replayed"
  /\ queue' = [queue EXCEPT ![e] = "done"]
  /\ items' = Reconciled(items, e)
  /\ UNCHANGED <<kind, active, roster, status, lastSelect, cached, server, events, req>>

\* closePoll, deleteMeetingPoint, deletePackingItem, deleteRideOffer, removeExpense: an entity
\* of the list, for the open crew.
deleteItem(r) ==
  \E e \in Ids :
    /\ Sendable(r, "delete") /\ kind \in Lists /\ active # None /\ BagIn(Real(e), items) /\ home[e] = active
    /\ req' = Sent(r, "delete", active, e)
    /\ UNCHANGED <<kind, shown, queue, server, events>>

\* After the removal expenses are loaded.
deleted(r) ==
  /\ Answered(r, "delete")
  /\ IF req[r].ok
     THEN /\ items' = Without(items, Real(req[r].item))
          /\ req' = [req EXCEPT ![r] = IF kind = "expenses" THEN Load(r, @.crew)
                                       ELSE [Unused EXCEPT !.at = "done"]]
     ELSE items' = items /\ Done(r)
  /\ UNCHANGED <<kind, active, roster, status, lastSelect, cached, queue, server, events>>

-----------------------------------------------------------------------------
(* Statuses.                                                               *)

loadStatuses(r) ==
  /\ Sendable(r, "loadStatuses") /\ kind = "statuses" /\ active # None
  /\ req' = Sent(r, "loadStatuses", active, 0)
  /\ UNCHANGED <<kind, shown, queue, server, events>>

statusesLoaded(r) ==
  LET q == req[r] IN
  /\ Answered(r, "loadStatuses")
  /\ status' = IF q.ok THEN q.seen ELSE status
  /\ Done(r)
  /\ UNCHANGED <<kind, active, roster, items, lastSelect, cached, queue, server, events>>

\* updateMyStatus shows the row at once and keeps the one it replaces.
updateMyStatus(r) ==
  /\ Sendable(r, "updateMyStatus") /\ kind = "statuses" /\ active # None
  /\ status' = [status EXCEPT !.mine = [crew |-> active, at |-> r]]
  /\ req' = [Sent(r, "updateMyStatus", active, 0) EXCEPT ![r].prev = status]
  /\ UNCHANGED <<kind, active, roster, items, lastSelect, cached, queue, server, events>>

\* Mutant: the rows as they were before are restored, the other member's too.
RolledBack_All(q) == q.prev

\* A refused update restores the user's row only.
RolledBack(q) == [status EXCEPT !.mine = q.prev.mine]

statusUpdated(r) ==
  LET q == req[r] IN
  /\ Answered(r, "updateMyStatus")
  /\ status' = IF q.ok THEN [status EXCEPT !.mine = [crew |-> q.crew, at |-> r]] ELSE RolledBack(q)
  /\ Done(r)
  /\ UNCHANGED <<kind, active, roster, items, lastSelect, cached, queue, server, events>>

-----------------------------------------------------------------------------
(* What other members do, and the events that tell the client.             *)

otherCreates ==
  \E e \in Ids, c \in Crews :
    /\ "others" \in Ops /\ kind \in Lists
    /\ e <= MaxItems /\ home[e] = None /\ (e > 1 => home[e - 1] # None)
    /\ home' = [home EXCEPT ![e] = c]
    /\ rows' = [rows EXCEPT ![c] = @ \cup {e}]
    /\ Emits(Event("created", c, e))
    /\ UNCHANGED <<kind, shown, queue, version, mine, req>>

otherRemoves ==
  \E c \in Crews : \E e \in rows[c] :
    /\ "others" \in Ops /\ kind \in Lists
    /\ rows' = [rows EXCEPT ![c] = @ \ {e}]
    /\ Emits(Event("removed", c, e))
    /\ UNCHANGED <<kind, shown, queue, version, mine, home, req>>

otherStatus ==
  \E c \in Crews :
    /\ "others" \in Ops /\ kind = "statuses" /\ version[c] < MaxVersion
    /\ version' = [version EXCEPT ![c] = @ + 1]
    /\ Emits(Event("status", c, version'[c]))
    /\ UNCHANGED <<kind, shown, queue, rows, mine, home, req>>

removesMe ==
  \E c \in Crews :
    /\ "revoke" \in Ops
    /\ Emits(Event("revoked", c, 0)) /\ events' # events
    /\ UNCHANGED <<kind, shown, queue, server, req>>

\* applyMeetingPointUpsert.
Upserted(e) == IF BagIn(Real(e), items) THEN items ELSE With(items, Real(e))

\* A reload that an event starts: onPollCreated, onExpensesChanged.
Reload(c) ==
  \E r \in Requests \cup {0} :
    IF r = 0 THEN (\A x \in Requests : req[x].at # None) /\ UNCHANGED req
    ELSE /\ req[r].at = None /\ (r > 1 => req[r - 1].at # None)
         /\ req' = [req EXCEPT ![r] = Load(r, c)]

\* routeMeetingPointUpsert, routeMeetingPointRemoved, routePollCreated, routePollClosed,
\* routeExpensesChanged and what the sink does.  Events of polls do not say whose they are.
listEvent ==
  LET e == Head(events)
      mineToo == IF kind = "polls" THEN active # None ELSE active = e.crew
  IN  /\ events # <<>> /\ e.type \in {"created", "removed"}
      /\ events' = Tail(events)
      /\ \/ (~mineToo \/ kind = "packing") /\ UNCHANGED <<items, req>>
         \/ /\ mineToo /\ kind = "points" /\ UNCHANGED req
            /\ items' = IF e.type = "created" THEN Upserted(e.n) ELSE Without(items, Real(e.n))
         \/ /\ mineToo /\ kind = "polls" /\ e.type = "removed" /\ UNCHANGED req
            /\ items' = Without(items, Real(e.n))
         \/ /\ mineToo /\ (kind = "expenses" \/ (kind = "polls" /\ e.type = "created"))
            /\ Reload(active) /\ UNCHANGED items
      /\ UNCHANGED <<kind, active, roster, status, lastSelect, cached, queue, server>>

\* applyStatusUpdate: an older row does not replace a newer one.
Applied(e) ==
  IF status.other.crew # None /\ e.n < status.other.at THEN status
  ELSE [status EXCEPT !.other = [crew |-> e.crew, at |-> e.n]]

statusEvent ==
  LET e == Head(events) IN
  /\ events # <<>> /\ e.type = "status"
  /\ events' = Tail(events)
  /\ status' = IF active = e.crew THEN Applied(e) ELSE status
  /\ UNCHANGED <<kind, active, roster, items, lastSelect, cached, queue, server, req>>

revokedEvent ==
  LET e == Head(events) IN
  /\ events # <<>> /\ e.type = "revoked"
  /\ events' = Tail(events)
  /\ Revoked(e.crew)
  /\ UNCHANGED <<kind, lastSelect, queue, server, req>>

-----------------------------------------------------------------------------
Request(r) ==
  \/ serve(r) \/ fails(r) \/ answerLost(r)
  \/ selectCrew(r) \/ selected(r)
  \/ \E op \in {"createCrew", "reformCrew"} : makeCrew(r, op) \/ crewMade(r, op)
  \/ \E op \in {"leaveCrew", "deleteCrew", "forceAddMember"} : manage(r, op)
  \/ crewLeft(r) \/ crewDeleted(r) \/ memberAdded(r)
  \/ load(r) \/ loaded(r)
  \/ createItem(r) \/ created(r) \/ createRefused(r) \/ createQueued(r)
  \/ deleteItem(r) \/ deleted(r)
  \/ loadStatuses(r) \/ statusesLoaded(r) \/ updateMyStatus(r) \/ statusUpdated(r)

Next ==
  \/ \E r \in Requests : Request(r)
  \/ \E e \in Ids : replay(e) \/ reconcile(e)
  \/ otherCreates \/ otherRemoves \/ otherStatus \/ removesMe
  \/ listEvent \/ statusEvent \/ revokedEvent
  \/ resetAllStores

Spec == Init /\ [][Next]_vars

-----------------------------------------------------------------------------
\* Every variable has its type.
TypeOK ==
  /\ kind \in Kinds
  /\ {active, roster, lastSelect, cached} \subseteq AllCrews \cup {None}
  /\ IsABag(items) /\ BagToSet(items) \subseteq [id : Ids, crew : AllCrews, temp : BOOLEAN]
  /\ \A s \in {status.mine, status.other} : s.crew \in AllCrews \cup {None} /\ s.at \in Nat
  /\ queue \in [Ids -> {"none", "queued", "replayed", "failed", "done"}]
  /\ rows \in [AllCrews -> SUBSET Ids]
  /\ home \in [Ids -> AllCrews \cup {None}]
  /\ Len(events) <= MaxEvents

\* selectCrew: however the answers are ordered, the crew that ends up open is the one selected
\* last, or one that createCrew or reformCrew has made.
LastSelectWins == active \in {None, lastSelect, Fresh}

\* crewMembers is the roster of the open crew: switching, leaving, losing access and late
\* answers never show one crew's members under another.
RosterMatchesCrew == active # None => roster \in {None, active}

Copies(x) == IF BagIn(x, items) THEN items[x] ELSE 0

\* The reconciler, the realtime setters and the reloads: an entity created offline is never
\* listed twice, and once its replay is reconciled its placeholder is gone.
OfflineCreatedOnce ==
  \A e \in Ids : queue[e] # "none" =>
    /\ Copies(Real(e)) <= 1
    /\ queue[e] = "done" => \A c \in AllCrews : Copies(Temp(e, c)) = 0

\* updateMyStatus and applyStatusUpdate: what is shown of another member's status goes back to
\* an older row only when a list that was loaded replaces it, never by the rollback of the
\* user's own update or by an event that was delayed.
OthersNeverRegress ==
  [][status'.other.crew = status.other.crew /\ status'.other.at < status.other.at
       => \E r \in Requests : Answered(r, "loadStatuses") /\ req'[r].at = "done"]_vars

=============================================================================
