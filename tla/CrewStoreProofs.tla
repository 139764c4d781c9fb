-------------------------- MODULE CrewStoreProofs ---------------------------
(***************************************************************************)
(* Proofs about CrewStore, for any crews, any slices and store actions     *)
(* that are looked at, and every value of the bounds.                      *)
(***************************************************************************)
EXTENDS CrewStore, TLAPS

-----------------------------------------------------------------------------
(* Types.                                                                  *)

\* What is listed.
Entity == [id : Ids, crew : AllCrews, temp : BOOLEAN]

\* The row of a status; there is no version of a row that is not there.
Row == {x \in [crew : AllCrews \cup {None}, at : Nat] : x.crew = None => x.at = 0}

StatusRows == [mine : Row, other : Row]

QueueStates == {"none", "queued", "replayed", "failed", "done"}

Notice == {e \in [type : {"created", "removed", "status", "revoked"}, crew : AllCrews, n : Nat] :
             e.type \in {"created", "removed"} => e.n \in Ids}

Call == [op : Ops \cup {None, "load"}, crew : AllCrews \cup {None}, item : Ids \cup {0},
         at : {None, "sent", "answered", "done"}, got : SUBSET Ids, seen : StatusRows,
         prev : StatusRows, ok : BOOLEAN]

\* A request under way is one of the store's, for some crew; creates and removals name an entity;
\* only an answer fails it.
CallOk(q) ==
  q.at \in {"sent", "answered"} =>
    /\ q.at = "sent" => q.ok
    /\ q.op \in Ops \cup {"load"} /\ q.crew \in AllCrews
    /\ q.op \in {"create", "delete"} => q.item \in Ids

ShownOk ==
  /\ active \in AllCrews \cup {None} /\ roster \in AllCrews \cup {None}
  /\ lastSelect \in AllCrews \cup {None} /\ cached \in AllCrews \cup {None}
  /\ IsABag(items) /\ DOMAIN items \subseteq Entity
  /\ status \in StatusRows

ServerOk ==
  /\ rows \in [AllCrews -> SUBSET Ids] /\ version \in [AllCrews -> Nat]
  /\ mine \in [AllCrews -> Nat] /\ home \in [Ids -> AllCrews \cup {None}]

Types ==
  /\ kind \in Kinds /\ ShownOk /\ ServerOk /\ queue \in [Ids -> QueueStates]
  /\ events \in Seq(Notice) /\ Len(events) <= MaxEvents
  /\ req \in [Requests -> Call] /\ \A r \in Requests : CallOk(req[r])

-----------------------------------------------------------------------------
(* Entities and what is known of them.                                     *)

\* Neither the server nor the client lists the entity itself, and nothing under way tells of it.
Unseen(e) ==
  /\ \A c \in AllCrews : e \notin rows[c]
  /\ \A r \in Requests : e \notin req[r].got
  /\ \A i \in DOMAIN events : events[i].type = "created" => events[i].n # e
  /\ \A x \in DOMAIN items : x.id = e => x.temp

\* The create of e is request r, which has not been answered or has failed.
Creating(r, e) ==
  /\ req[r].op = "create" /\ req[r].item = e
  /\ req[r].at = "sent" \/ (req[r].at = "answered" /\ ~req[r].ok)

\* An entity that has not been made.
Unmade == \A e \in Ids : home[e] = None => Unseen(e) /\ queue[e] = "none"

\* The create of an entity is one request; it is not in the queue at the same time.
CreatedByOne ==
  \A r \in Requests : Open(r) /\ req[r].op = "create" =>
    /\ home[req[r].item] = req[r].crew /\ queue[req[r].item] = "none"
    /\ \A x \in Requests : Open(x) /\ req[x].op = "create" /\ req[x].item = req[r].item => x = r

\* The server does not know of an entity whose create it has not seen.
Withheld ==
  \A e \in Ids :
    queue[e] \in {"queued", "failed"} \/ (\E r \in Requests : Creating(r, e)) => Unseen(e)

\* What is listed, for the crew it was made for; a placeholder waits for its replay.
Listed ==
  \A x \in DOMAIN items :
    x.crew = home[x.id] /\ (x.temp => queue[x.id] \in {"queued", "replayed", "failed"})

ListedOnce ==
  \A x \in DOMAIN items : queue[x.id] # "none" /\ ~x.temp => items[x] = 1

Once == Unmade /\ CreatedByOne /\ Withheld /\ Listed /\ ListedOnce

-----------------------------------------------------------------------------
(* Helpers.                                                                *)

LEMMA Counting == Requests \subseteq Nat /\ Ids \subseteq Nat /\ 0 \notin Requests /\ 0 \notin Ids
<1>1. MaxItems + MaxLost \in Nat /\ MaxRequests \in Nat
  BY CrewStoreAssumption
<1> QED
  BY <1>1 DEF Requests, Ids

LEMMA NoRows == NoStatus \in Row /\ NoStatuses \in StatusRows
BY DEF NoStatus, NoStatuses, Row, StatusRows

LEMMA NoneIsNot ==
  /\ None \notin AllCrews /\ None \notin {"sent", "answered", "done"}
BY CrewStoreAssumption DEF AllCrews

LEMMA EmptyIsBag == IsABag(EmptyBag) /\ DOMAIN EmptyBag = {}
BY DEF IsABag, EmptyBag, SetToBag

LEMMA SetIsBag ==
  ASSUME NEW S
  PROVE  /\ IsABag(SetToBag(S)) /\ DOMAIN SetToBag(S) = S
         /\ \A x \in S : SetToBag(S)[x] = 1
BY DEF IsABag, SetToBag

\* One more copy.
LEMMA WithIs ==
  ASSUME NEW b, IsABag(b), NEW x
  PROVE  /\ IsABag(With(b, x)) /\ DOMAIN With(b, x) = DOMAIN b \cup {x}
         /\ \A y \in DOMAIN b \ {x} : With(b, x)[y] = b[y]
         /\ x \notin DOMAIN b => With(b, x)[x] = 1
<1> DEFINE w == With(b, x)
<1>1. w = [e \in DOMAIN b \cup {x} |->
             (IF e \in DOMAIN b THEN b[e] ELSE 0) + (IF e \in {x} THEN 1 ELSE 0)]
  <2>1. DOMAIN SetToBag({x}) = {x} /\ \A e \in {x} : SetToBag({x})[e] = 1
    BY SetIsBag
  <2> QED
    BY <2>1 DEF With, (+)
<1>2. \A e \in DOMAIN b : b[e] \in Nat /\ b[e] > 0
  BY DEF IsABag
<1>3. \A e \in DOMAIN w : w[e] \in Nat /\ w[e] > 0
  BY <1>1, <1>2
<1>4. DOMAIN w = DOMAIN b \cup {x}
  BY <1>1
<1>5. IsABag(w)
  BY <1>1, <1>3, <1>4 DEF IsABag
<1>6. \A y \in DOMAIN b \ {x} : w[y] = b[y]
  BY <1>1, <1>2
<1>7. x \notin DOMAIN b => w[x] = 1
  BY <1>1
<1> QED
  BY <1>4, <1>5, <1>6, <1>7

\* No copy.
LEMMA WithoutIs ==
  ASSUME NEW b, IsABag(b), NEW x
  PROVE  /\ IsABag(Without(b, x)) /\ DOMAIN Without(b, x) = DOMAIN b \ {x}
         /\ \A y \in DOMAIN b \ {x} : Without(b, x)[y] = b[y]
BY DEF IsABag, Without, BagToSet

\* A list with one more entity is a list.
LEMMA LongerList ==
  ASSUME NEW b, IsABag(b), DOMAIN b \subseteq Entity, NEW x \in Entity
  PROVE  IsABag(With(b, x)) /\ DOMAIN With(b, x) \subseteq Entity
<1>1. IsABag(With(b, x)) /\ DOMAIN With(b, x) = DOMAIN b \cup {x}
  BY WithIs
<1> QED
  BY <1>1

LEMMA ShorterList ==
  ASSUME NEW b, IsABag(b), DOMAIN b \subseteq Entity, NEW x
  PROVE  IsABag(Without(b, x)) /\ DOMAIN Without(b, x) \subseteq Entity
BY WithoutIs

LEMMA ShorterKeeps ==
  ASSUME NEW b, IsABag(b), NEW x
  PROVE  \A y \in DOMAIN Without(b, x) : y \in DOMAIN b /\ Without(b, x)[y] = b[y]
<1>1. DOMAIN Without(b, x) = DOMAIN b \ {x}
  BY WithoutIs
<1>2. \A y \in DOMAIN b \ {x} : Without(b, x)[y] = b[y]
  BY WithoutIs
<1> QED
  BY <1>1, <1>2

LEMMA LongerKeeps ==
  ASSUME NEW b, IsABag(b), NEW x
  PROVE  /\ \A y \in DOMAIN With(b, x) : (y \in DOMAIN b /\ With(b, x)[y] = b[y]) \/ y = x
         /\ x \notin DOMAIN b => With(b, x)[x] = 1
<1>1. DOMAIN With(b, x) = DOMAIN b \cup {x}
  BY WithIs
<1>2. \A y \in DOMAIN b \ {x} : With(b, x)[y] = b[y]
  BY WithIs
<1>3. x \notin DOMAIN b => With(b, x)[x] = 1
  BY WithIs
<1> QED
  BY <1>1, <1>2, <1>3

\* A request that is not there, one that is sent, and a load.
LEMMA CallsAre ==
  ASSUME NEW op \in Ops, NEW c \in AllCrews, NEW e \in Ids \cup {0},
         op \in {"create", "delete"} => e \in Ids
  PROVE  /\ Unused \in Call /\ CallOk(Unused)
         /\ [Unused EXCEPT !.at = "done"] \in Call /\ CallOk([Unused EXCEPT !.at = "done"])
         /\ LET q == [Unused EXCEPT !.op = op, !.crew = c, !.item = e, !.at = "sent"]
            IN  q \in Call /\ CallOk(q)
BY NoRows, NoneIsNot DEF Unused, Call, CallOk

LEMMA LoadIs ==
  ASSUME NEW r, NEW c \in AllCrews
  PROVE  Load(r, c) \in Call /\ CallOk(Load(r, c))
BY NoRows, NoneIsNot DEF Unused, Call, CallOk, Load

LEMMA IdleIs ==
  /\ Unused \in Call /\ CallOk(Unused)
  /\ [Unused EXCEPT !.at = "done"] \in Call /\ CallOk([Unused EXCEPT !.at = "done"])
BY NoRows, NoneIsNot DEF Unused, Call, CallOk

\* One request changes.
LEMMA OneCall ==
  ASSUME Types, NEW r \in Requests, NEW q \in Call, CallOk(q), req' = [req EXCEPT ![r] = q]
  PROVE  req' \in [Requests -> Call] /\ \A x \in Requests : CallOk(req'[x])
BY DEF Types

LEMMA DoneCall ==
  ASSUME Types, NEW r \in Requests, Done(r)
  PROVE  req' \in [Requests -> Call] /\ \A x \in Requests : CallOk(req'[x])
BY OneCall, IdleIs DEF Done

LEMMA SentCall ==
  ASSUME Types, NEW r \in Requests, NEW op \in Ops, NEW c \in AllCrews,
         NEW e \in Ids \cup {0}, op \in {"create", "delete"} => e \in Ids,
         req' = Sent(r, op, c, e)
  PROVE  req' \in [Requests -> Call] /\ \A x \in Requests : CallOk(req'[x])
<1> DEFINE q == [Unused EXCEPT !.op = op, !.crew = c, !.item = e, !.at = "sent"]
<1>1. q \in Call /\ CallOk(q)
  BY CallsAre
<1>2. req' = [req EXCEPT ![r] = q]
  BY DEF Sent
<1> HIDE DEF q
<1> QED
  BY <1>1, <1>2, OneCall

\* A request that is answered.
LEMMA AnsweredCall ==
  ASSUME Types, NEW r \in Requests, NEW op, Answered(r, op)
  PROVE  req[r] \in Call /\ req[r].op = op /\ req[r].crew \in AllCrews
         /\ (op \in {"create", "delete"} => req[r].item \in Ids)
BY DEF Types, Answered, CallOk

LEMMA EventsKept ==
  ASSUME Types, NEW e \in Notice, Emits(e)
  PROVE  events' \in Seq(Notice) /\ Len(events') <= MaxEvents
BY CrewStoreAssumption DEF Types, Emits

LEMMA HeadAndTail ==
  ASSUME Types, events # <<>>
  PROVE  Head(events) \in Notice /\ Tail(events) \in Seq(Notice) /\ Len(Tail(events)) <= MaxEvents
BY CrewStoreAssumption DEF Types

-----------------------------------------------------------------------------
(* Every action keeps the types.                                           *)

LEMMA InitTypes == Init => Types
<1> SUFFICES ASSUME Init
             PROVE  Types
  OBVIOUS
<1>1. ShownOk
  BY NoRows, EmptyIsBag DEF Init, ShownOk
<1>2. ServerOk
  BY DEF Init, ServerOk
<1>3. req \in [Requests -> Call] /\ \A r \in Requests : CallOk(req[r])
  BY IdleIs DEF Init
<1>4. events \in Seq(Notice) /\ Len(events) <= MaxEvents
  BY CrewStoreAssumption DEF Init
<1> QED
  BY <1>1, <1>2, <1>3, <1>4 DEF Init, Types, QueueStates

\* What a step that changes neither the server's state nor the queue has to keep.
LEMMA ClientStep ==
  ASSUME Types, kind' = kind, queue' = queue, UNCHANGED server, ShownOk',
         events' \in Seq(Notice), Len(events') <= MaxEvents,
         req' \in [Requests -> Call], \A x \in Requests : CallOk(req'[x])
  PROVE  Types'
BY DEF Types, ServerOk, server

LEMMA ServeTypes ==
  ASSUME Types, NEW r \in Requests, serve(r)
  PROVE  Types'
<1> DEFINE q == req[r]
           n == [q EXCEPT !.at = "answered", !.got = IF q.op = "load" THEN rows[q.crew] ELSE {},
                          !.seen = IF q.op = "loadStatuses" THEN Statuses(q.crew) ELSE NoStatuses]
<1>1. q \in Call /\ CallOk(q) /\ q.at = "sent" /\ q.crew \in AllCrews
  BY DEF Types, serve, CallOk
<1>2. Statuses(q.crew) \in StatusRows
  BY <1>1, NoRows, NoneIsNot DEF Statuses, StatusRows, Row, Types, ServerOk
<1>3. n \in Call /\ CallOk(n)
  <2>1. rows[q.crew] \in SUBSET Ids
    BY <1>1 DEF Types, ServerOk
  <2> QED
    BY <1>1, <1>2, <2>1, NoRows DEF Call, CallOk
<1>4. req' = [req EXCEPT ![r] = n]
  BY <1>1 DEF serve, Types
<1>5. req' \in [Requests -> Call] /\ \A x \in Requests : CallOk(req'[x])
  <2> HIDE DEF n
  <2> QED
    BY <1>3, <1>4, OneCall
<1>6. rows' \in [AllCrews -> SUBSET Ids] /\ events' \in Seq(Notice) /\ Len(events') <= MaxEvents
  <2>1. CASE q.op = "create"
    <3>1. q.item \in Ids /\ Event("created", q.crew, q.item) \in Notice
      BY <1>1, <2>1, Counting DEF CallOk, Event, Notice
    <3>2. rows' = [rows EXCEPT ![q.crew] = @ \cup {q.item}]
          /\ Emits(Event("created", q.crew, q.item))
      BY <2>1 DEF serve
    <3> QED
      BY <1>1, <3>1, <3>2, EventsKept DEF Types, ServerOk
  <2>2. CASE q.op = "delete"
    <3>1. q.item \in Ids /\ Event("removed", q.crew, q.item) \in Notice
      BY <1>1, <2>2, Counting DEF CallOk, Event, Notice
    <3>2. rows' = [rows EXCEPT ![q.crew] = @ \ {q.item}]
          /\ Emits(Event("removed", q.crew, q.item))
      BY <2>2 DEF serve
    <3> QED
      BY <1>1, <3>1, <3>2, EventsKept DEF Types, ServerOk
  <2>3. CASE q.op \notin {"create", "delete"}
    <3>1. UNCHANGED <<rows, events>>
      BY <2>3 DEF serve
    <3> QED
      BY <3>1 DEF Types, ServerOk
  <2> QED
    BY <2>1, <2>2, <2>3
<1>7. mine' \in [AllCrews -> Nat]
  BY <1>1, Counting DEF serve, Types, ServerOk
<1> QED
  BY <1>5, <1>6, <1>7 DEF serve, Types, ServerOk, ShownOk, shown

LEMMA FailsTypes ==
  ASSUME Types, NEW r \in Requests, fails(r)
  PROVE  Types'
<1> DEFINE n == [req[r] EXCEPT !.at = "answered", !.ok = FALSE]
<1>1. n \in Call /\ CallOk(n) /\ req' = [req EXCEPT ![r] = n]
  BY DEF Types, fails, CallOk, Call
<1>2. req' \in [Requests -> Call] /\ \A x \in Requests : CallOk(req'[x])
  <2> HIDE DEF n
  <2> QED
    BY <1>1, OneCall
<1> QED
  BY <1>2, ClientStep DEF fails, Types, ShownOk, shown

\* The answer of a write is lost.
LEMMA AnswerLostTypes ==
  ASSUME Types, NEW r \in Requests, answerLost(r)
  PROVE  Types'
<1>0. req[r] \in Call /\ CallOk(req[r]) /\ req[r].at = "answered"
  BY DEF Types, answerLost
<1>1. CASE req[r].op \in {"delete", "updateMyStatus"} /\ home' = home /\ req' = [req EXCEPT ![r].ok = FALSE]
  <2> DEFINE n == [req[r] EXCEPT !.ok = FALSE]
  <2>1. n \in Call /\ CallOk(n) /\ req' = [req EXCEPT ![r] = n]
    BY <1>0, <1>1 DEF CallOk, Call
  <2>2. req' \in [Requests -> Call] /\ \A x \in Requests : CallOk(req'[x])
    <3> HIDE DEF n
    <3> QED
      BY <2>1, OneCall
  <2> QED
    BY <1>1, <2>2 DEF answerLost, Types, ShownOk, ServerOk, shown
<1>2. ASSUME NEW e \in Ids, home' = [home EXCEPT ![e] = req[r].crew],
             req' = [req EXCEPT ![r].ok = FALSE, ![r].item = e]
      PROVE  Types'
  <2> DEFINE n == [req[r] EXCEPT !.ok = FALSE, !.item = e]
  <2>1. n \in Call /\ CallOk(n) /\ req' = [req EXCEPT ![r] = n]
    BY <1>0, <1>2 DEF CallOk, Call, Types
  <2>2. req' \in [Requests -> Call] /\ \A x \in Requests : CallOk(req'[x])
    <3> HIDE DEF n
    <3> QED
      BY <2>1, OneCall
  <2>3. home' \in [Ids -> AllCrews \cup {None}]
    BY <1>0, <1>2 DEF Types, ServerOk, CallOk
  <2> QED
    BY <2>2, <2>3 DEF answerLost, Types, ShownOk, ServerOk, shown
<1> QED
  BY <1>1, <1>2 DEF answerLost

\* A request is settled.
LEMMA SettledTypes ==
  ASSUME Types, Once, NEW r \in Requests,
         selected(r) \/ crewLeft(r) \/ crewDeleted(r) \/ memberAdded(r) \/ loaded(r)
           \/ createRefused(r) \/ statusesLoaded(r) \/ statusUpdated(r)
           \/ (\E op \in {"createCrew", "reformCrew"} : crewMade(r, op))
  PROVE  Types'
<1>1. Done(r)
  BY DEF selected, crewLeft, crewDeleted, memberAdded, loaded, createRefused, statusesLoaded,
         statusUpdated, crewMade
<1>2. req' \in [Requests -> Call] /\ \A x \in Requests : CallOk(req'[x])
  BY <1>1, DoneCall
<1>3. ShownOk'
  <2>1. CASE selected(r)
    BY <2>1, AnsweredCall DEF selected, Types, ShownOk, list
  <2>2. CASE crewLeft(r)
    BY <2>2 DEF crewLeft, Types, ShownOk, list
  <2>3. CASE crewDeleted(r)
    BY <2>3 DEF crewDeleted, Types, ShownOk, list
  <2>4. CASE memberAdded(r)
    BY <2>4, AnsweredCall DEF memberAdded, Types, ShownOk, list
  <2>5. CASE loaded(r) /\ ~req[r].ok
    BY <2>5 DEF loaded, Types, ShownOk
  <2>6. CASE loaded(r) /\ req[r].ok
    <3> DEFINE S == {Real(e) : e \in req[r].got}
    <3>1. items' = SetToBag(S)
      BY <2>6 DEF loaded
    <3>2. \A e \in req[r].got : Real(e) \in Entity
      <4>1. req[r].got \in SUBSET Ids
        BY DEF Types, Call
      <4>2. \A e \in req[r].got : home[e] \in AllCrews
        BY <4>1 DEF Once, Unmade, Unseen, Types, ServerOk
      <4> QED
        BY <4>1, <4>2 DEF Real, Entity
    <3>3. S \subseteq Entity
      BY <3>2
    <3>4. IsABag(items') /\ DOMAIN items' \subseteq Entity
      BY <3>1, <3>3, SetIsBag
    <3> QED
      BY <2>6, <3>4 DEF loaded, Types, ShownOk
  <2>7. CASE createRefused(r)
    BY <2>7 DEF createRefused, Types, ShownOk, shown
  <2>8. CASE statusesLoaded(r)
    <3>1. req[r].seen \in StatusRows
      BY DEF Types, Call
    <3> QED
      BY <2>8, <3>1 DEF statusesLoaded, Types, ShownOk
  <2>9. CASE statusUpdated(r)
    <3>1. req[r].prev \in StatusRows /\ req[r].crew \in AllCrews /\ r \in Nat
      BY <2>9, AnsweredCall, Counting DEF statusUpdated, Types, Call
    <3>2. [crew |-> req[r].crew, at |-> r] \in Row
      BY <3>1, NoneIsNot DEF Row
    <3>3. status' \in StatusRows
      BY <2>9, <3>1, <3>2 DEF statusUpdated, RolledBack, Types, ShownOk, StatusRows
    <3> QED
      BY <2>9, <3>3 DEF statusUpdated, Types, ShownOk
  <2>10. CASE \E op \in {"createCrew", "reformCrew"} : crewMade(r, op)
    <3>1. Fresh \in AllCrews
      BY DEF AllCrews
    <3> QED
      BY <2>10, <3>1 DEF crewMade, Types, ShownOk, list
  <2> QED
    BY <2>1, <2>2, <2>3, <2>4, <2>5, <2>6, <2>7, <2>8, <2>9, <2>10
<1>4. kind' = kind /\ queue' = queue /\ UNCHANGED server /\ events' = events
  BY DEF selected, crewLeft, crewDeleted, memberAdded, loaded, createRefused, statusesLoaded,
         statusUpdated, crewMade
<1> QED
  BY <1>2, <1>3, <1>4, ClientStep DEF Types

\* A request is sent.
LEMMA SentTypes ==
  ASSUME Types, NEW r \in Requests,
         selectCrew(r) \/ load(r) \/ deleteItem(r) \/ loadStatuses(r) \/ updateMyStatus(r)
           \/ (\E op \in {"createCrew", "reformCrew"} : makeCrew(r, op))
           \/ (\E op \in {"leaveCrew", "deleteCrew", "forceAddMember"} : manage(r, op))
  PROVE  Types'
<1>1. active \in AllCrews \cup {None} /\ Fresh \in AllCrews /\ Crews \subseteq AllCrews
  BY DEF Types, ShownOk, AllCrews
<1>2. req' \in [Requests -> Call] /\ \A x \in Requests : CallOk(req'[x])
  <2>1. CASE selectCrew(r)
    <3>1. PICK c \in (Crews \cup {active}) \ {None} :
            "select" \in Ops /\ req' = Sent(r, "select", c, 0)
      BY <2>1 DEF selectCrew, Sendable
    <3> QED
      BY <1>1, <3>1, SentCall
  <2>2. CASE load(r)
    BY <1>1, <2>2, SentCall DEF load, Sendable
  <2>3. CASE deleteItem(r)
    <3>1. PICK e \in Ids : "delete" \in Ops /\ active # None /\ req' = Sent(r, "delete", active, e)
      BY <2>3 DEF deleteItem, Sendable
    <3> QED
      BY <1>1, <3>1, SentCall
  <2>4. CASE loadStatuses(r)
    BY <1>1, <2>4, SentCall DEF loadStatuses, Sendable
  <2>5. CASE updateMyStatus(r)
    <3> DEFINE q == [[Unused EXCEPT !.op = "updateMyStatus", !.crew = active, !.item = 0,
                                    !.at = "sent"] EXCEPT !.prev = status]
    <3>1. q \in Call /\ CallOk(q)
      BY <1>1, <2>5, NoRows, NoneIsNot DEF updateMyStatus, Sendable, Unused, Call, CallOk, Types, ShownOk
    <3>2. req' = [req EXCEPT ![r] = q]
      BY <2>5 DEF updateMyStatus, Sent, Types
    <3> HIDE DEF q
    <3> QED
      BY <3>1, <3>2, OneCall
  <2>6. CASE \E op \in {"createCrew", "reformCrew"} : makeCrew(r, op)
    <3>1. PICK op \in {"createCrew", "reformCrew"} : op \in Ops /\ req' = Sent(r, op, Fresh, 0)
      BY <2>6 DEF makeCrew, Sendable
    <3> QED
      BY <1>1, <3>1, SentCall
  <2>7. CASE \E op \in {"leaveCrew", "deleteCrew", "forceAddMember"} : manage(r, op)
    <3>1. PICK op \in {"leaveCrew", "deleteCrew", "forceAddMember"} :
            op \in Ops /\ active # None /\ req' = Sent(r, op, active, 0)
      BY <2>7 DEF manage, Sendable
    <3> QED
      BY <1>1, <3>1, SentCall
  <2> QED
    BY <2>1, <2>2, <2>3, <2>4, <2>5, <2>6, <2>7
<1>3. ShownOk'
  <2>1. CASE selectCrew(r)
    BY <1>1, <2>1, NoRows, EmptyIsBag DEF selectCrew, Types, ShownOk
  <2>2. CASE updateMyStatus(r)
    <3>1. [crew |-> active, at |-> r] \in Row
      BY <1>1, <2>2, Counting DEF updateMyStatus, Row
    <3> QED
      BY <2>2, <3>1 DEF updateMyStatus, Types, ShownOk, StatusRows
  <2>3. CASE UNCHANGED shown
    BY <2>3 DEF shown, Types, ShownOk
  <2> QED
    BY <2>1, <2>2, <2>3 DEF load, deleteItem, loadStatuses, makeCrew, manage
<1>4. kind' = kind /\ queue' = queue /\ UNCHANGED server /\ events' = events
  BY DEF selectCrew, load, deleteItem, loadStatuses, updateMyStatus, makeCrew, manage
<1> QED
  BY <1>2, <1>3, <1>4, ClientStep DEF Types

LEMMA CreateItemTypes ==
  ASSUME Types, NEW r \in Requests, createItem(r)
  PROVE  Types'
<1>1. PICK e \in Ids : /\ "create" \in Ops /\ active # None /\ home' = [home EXCEPT ![e] = active]
                       /\ req' = Sent(r, "create", active, e)
  BY DEF createItem, Sendable
<1>2. active \in AllCrews
  BY <1>1 DEF Types, ShownOk
<1>3. req' \in [Requests -> Call] /\ \A x \in Requests : CallOk(req'[x])
  BY <1>1, <1>2, SentCall
<1> QED
  BY <1>1, <1>2, <1>3 DEF createItem, Types, ServerOk, ShownOk, shown

\* What creates and removals that are answered do to the list.
LEMMA ListTypes ==
  ASSUME Types, Once, NEW r \in Requests, created(r) \/ createQueued(r) \/ deleted(r)
  PROVE  Types'
<1> DEFINE q == req[r]
<1>1. q \in Call /\ q.crew \in AllCrews /\ q.item \in Ids
  BY AnsweredCall DEF created, createQueued, deleted
<1>2. req' \in [Requests -> Call] /\ \A x \in Requests : CallOk(req'[x])
  <2>1. CASE Done(r)
    BY <2>1, DoneCall
  <2>2. CASE req' = [req EXCEPT ![r] = Load(r, q.crew)]
    BY <1>1, <2>2, OneCall, LoadIs
  <2>3. CASE req' = [req EXCEPT ![r] = [Unused EXCEPT !.at = "done"]]
    BY <2>3, OneCall, IdleIs
  <2>4. Done(r) \/ req' = [req EXCEPT ![r] = Load(r, q.crew)]
          \/ req' = [req EXCEPT ![r] = [Unused EXCEPT !.at = "done"]]
    BY DEF created, createQueued, deleted, Types
  <2> QED
    BY <2>1, <2>2, <2>3, <2>4
<1>3. IsABag(items) /\ DOMAIN items \subseteq Entity
  BY DEF Types, ShownOk
<1>4. IsABag(items') /\ DOMAIN items' \subseteq Entity
  <2>1. CASE created(r)
    <3>1. q.crew = home[q.item]
      BY <2>1 DEF created, Answered, Open, Once, CreatedByOne
    <3>2. Real(q.item) \in Entity
      BY <1>1, <3>1 DEF Real, Entity
    <3>3. items' = items \/ items' = With(items, Real(q.item))
      BY <2>1 DEF created
    <3> QED
      BY <1>3, <3>2, <3>3, LongerList
  <2>2. CASE createQueued(r)
    <3>1. Temp(q.item, q.crew) \in Entity
      BY <1>1 DEF Temp, Entity
    <3>2. items' = With(items, Temp(q.item, q.crew))
      BY <2>2 DEF createQueued
    <3> QED
      BY <1>3, <3>1, <3>2, LongerList
  <2>3. CASE deleted(r)
    <3>1. items' = items \/ items' = Without(items, Real(q.item))
      BY <2>3 DEF deleted
    <3> QED
      BY <1>3, <3>1, ShorterList
  <2> QED
    BY <2>1, <2>2, <2>3
<1>5. ShownOk'
  BY <1>4 DEF created, createQueued, deleted, Types, ShownOk
<1>6. queue' \in [Ids -> QueueStates] /\ kind' = kind /\ UNCHANGED server /\ events' = events
  BY <1>1 DEF created, createQueued, deleted, Types, QueueStates
<1> QED
  BY <1>2, <1>5, <1>6 DEF Types, ServerOk, server

\* The drain and the reconciler.
LEMMA ReplayTypes ==
  ASSUME Types, Once, NEW e \in Ids, replay(e)
  PROVE  Types'
<1>1. home[e] \in AllCrews
  BY DEF replay, Once, Unmade, Types, ServerOk
<1>2. Event("created", home[e], e) \in Notice
  BY <1>1, Counting DEF Event, Notice
<1>3. /\ queue' \in [Ids -> QueueStates] /\ rows' \in [AllCrews -> SUBSET Ids]
      /\ events' \in Seq(Notice) /\ Len(events') <= MaxEvents
  <2>1. CASE /\ queue' = [queue EXCEPT ![e] = "replayed"]
             /\ rows' = [rows EXCEPT ![home[e]] = @ \cup {e}]
             /\ Emits(Event("created", home[e], e))
    BY <1>1, <1>2, <2>1, EventsKept DEF Types, ServerOk, QueueStates
  <2>2. CASE queue' = [queue EXCEPT ![e] = "failed"] /\ UNCHANGED <<rows, events>>
    BY <2>2 DEF Types, ServerOk, QueueStates
  <2> QED
    BY <2>1, <2>2 DEF replay
<1> QED
  BY <1>3 DEF replay, Types, ServerOk, ShownOk, shown

LEMMA ReconcileTypes ==
  ASSUME Types, Once, NEW e \in Ids, reconcile(e)
  PROVE  Types'
<1>1. home[e] \in AllCrews
  BY DEF reconcile, Once, Unmade, Types, ServerOk
<1>2. IsABag(items) /\ DOMAIN items \subseteq Entity
  BY DEF Types, ShownOk
<1>3. IsABag(Without(items, Temp(e, home[e]))) /\ DOMAIN Without(items, Temp(e, home[e])) \subseteq Entity
  BY <1>2, ShorterList
<1>4. Real(e) \in Entity
  BY <1>1 DEF Real, Entity
<1>5. /\ IsABag(With(Without(items, Temp(e, home[e])), Real(e)))
      /\ DOMAIN With(Without(items, Temp(e, home[e])), Real(e)) \subseteq Entity
  BY <1>3, <1>4, LongerList
<1>6. \/ items' = items \/ items' = Without(items, Temp(e, home[e]))
      \/ items' = With(Without(items, Temp(e, home[e])), Real(e))
  BY DEF reconcile, Reconciled
<1>7. IsABag(items') /\ DOMAIN items' \subseteq Entity
  BY <1>2, <1>3, <1>5, <1>6
<1>8. queue' \in [Ids -> QueueStates]
  BY DEF reconcile, Types, QueueStates
<1> QED
  BY <1>7, <1>8 DEF reconcile, Types, ServerOk, ShownOk, server

\* Other members, and a membership that is revoked.
LEMMA OthersTypes ==
  ASSUME Types, otherCreates \/ otherRemoves \/ otherStatus \/ removesMe
  PROVE  Types'
<1>1. Crews \subseteq AllCrews
  BY DEF AllCrews
<1>2. /\ rows' \in [AllCrews -> SUBSET Ids] /\ home' \in [Ids -> AllCrews \cup {None}]
      /\ version' \in [AllCrews -> Nat] /\ events' \in Seq(Notice) /\ Len(events') <= MaxEvents
  <2>1. CASE otherCreates
    <3>1. PICK e \in Ids, c \in Crews :
            /\ home' = [home EXCEPT ![e] = c] /\ rows' = [rows EXCEPT ![c] = @ \cup {e}]
            /\ Emits(Event("created", c, e)) /\ UNCHANGED version
      BY <2>1 DEF otherCreates
    <3>2. Event("created", c, e) \in Notice
      BY <1>1, Counting DEF Event, Notice
    <3> QED
      BY <1>1, <3>1, <3>2, EventsKept DEF Types, ServerOk
  <2>2. CASE otherRemoves
    <3>1. PICK c \in Crews : \E e \in rows[c] :
            /\ rows' = [rows EXCEPT ![c] = @ \ {e}]
            /\ Emits(Event("removed", c, e)) /\ UNCHANGED <<version, home>>
      BY <2>2 DEF otherRemoves
    <3>2. PICK e \in rows[c] :
            /\ rows' = [rows EXCEPT ![c] = @ \ {e}]
            /\ Emits(Event("removed", c, e)) /\ UNCHANGED <<version, home>>
      BY <3>1
    <3>3. e \in Ids
      BY <1>1 DEF Types, ServerOk
    <3>4. Event("removed", c, e) \in Notice
      BY <1>1, <3>3, Counting DEF Event, Notice
    <3> QED
      BY <1>1, <3>2, <3>4, EventsKept DEF Types, ServerOk
  <2>3. CASE otherStatus
    <3>1. PICK c \in Crews :
            /\ version' = [version EXCEPT ![c] = @ + 1]
            /\ Emits(Event("status", c, version'[c])) /\ UNCHANGED <<rows, home>>
      BY <2>3 DEF otherStatus
    <3>2. version' \in [AllCrews -> Nat] /\ version'[c] \in Nat
      BY <1>1, <3>1 DEF Types, ServerOk
    <3>3. Event("status", c, version'[c]) \in Notice
      BY <1>1, <3>2 DEF Event, Notice
    <3> QED
      BY <3>1, <3>2, <3>3, EventsKept DEF Types, ServerOk
  <2>4. CASE removesMe
    <3>1. PICK c \in Crews : Emits(Event("revoked", c, 0)) /\ UNCHANGED server
      BY <2>4 DEF removesMe
    <3>2. Event("revoked", c, 0) \in Notice
      BY <1>1 DEF Event, Notice
    <3> QED
      BY <3>1, <3>2, EventsKept DEF Types, ServerOk, server
  <2> QED
    BY <2>1, <2>2, <2>3, <2>4
<1>3. UNCHANGED <<kind, shown, queue, mine, req>>
  BY DEF otherCreates, otherRemoves, otherStatus, removesMe, server
<1> QED
  BY <1>2, <1>3 DEF Types, ServerOk, ShownOk, shown

\* Events that the client handles.
LEMMA EventTypes ==
  ASSUME Types, Once, listEvent \/ statusEvent \/ revokedEvent
  PROVE  Types'
<1> DEFINE e == Head(events)
<1>1. /\ e \in Notice /\ events' = Tail(events)
      /\ events' \in Seq(Notice) /\ Len(events') <= MaxEvents
  BY HeadAndTail DEF listEvent, statusEvent, revokedEvent
<1>2. CASE listEvent
  <2>1. e.type \in {"created", "removed"} /\ e.n \in Ids
    BY <1>1, <1>2 DEF listEvent, Notice
  <2>2. IsABag(items) /\ DOMAIN items \subseteq Entity
    BY DEF Types, ShownOk
  <2>3. \/ items' = items \/ items' = Without(items, Real(e.n))
        \/ e.type = "created" /\ items' = With(items, Real(e.n))
    BY <1>2 DEF listEvent, Upserted
  <2>4. e.type = "created" => Real(e.n) \in Entity
    <3>1. e.type = "created" => home[e.n] \in AllCrews
      <4>1. events # <<>> /\ e = events[1] /\ 1 \in DOMAIN events
        BY <1>2 DEF listEvent, Types
      <4> QED
        BY <2>1, <4>1 DEF Once, Unmade, Unseen, Types, ServerOk
    <3> QED
      BY <2>1, <3>1 DEF Real, Entity
  <2>5. IsABag(items') /\ DOMAIN items' \subseteq Entity
    BY <2>2, <2>3, <2>4, LongerList, ShorterList
  <2>6. req' \in [Requests -> Call] /\ \A x \in Requests : CallOk(req'[x])
    <3>1. UNCHANGED req \/ Reload(active)
      BY <1>2 DEF listEvent
    <3>2. CASE Reload(active) /\ ~UNCHANGED req
      <4>1. active \in AllCrews
        BY <1>1, <1>2, <3>2 DEF listEvent, Types, ShownOk, Notice
      <4>2. UNCHANGED req \/ \E r \in Requests : req' = [req EXCEPT ![r] = Load(r, active)]
        BY <3>2, Counting DEF Reload
      <4> QED
        BY <4>1, <4>2, LoadIs, OneCall DEF Types
    <3> QED
      BY <3>1, <3>2 DEF Types
  <2> QED
    BY <1>1, <1>2, <2>5, <2>6 DEF listEvent, Types, ServerOk, ShownOk, server
<1>3. CASE statusEvent
  <2>1. [crew |-> e.crew, at |-> e.n] \in Row
    BY <1>1, NoneIsNot DEF Notice, Row
  <2>2. status' \in StatusRows
    BY <1>3, <2>1 DEF statusEvent, Applied, Types, ShownOk, StatusRows
  <2> QED
    BY <1>1, <1>3, <2>2 DEF statusEvent, Types, ServerOk, ShownOk, server
<1>4. CASE revokedEvent
  <2>1. ShownOk'
    BY <1>4, NoRows, EmptyIsBag DEF revokedEvent, Revoked, Types, ShownOk, list
  <2> QED
    BY <1>1, <1>4, <2>1 DEF revokedEvent, Types, ServerOk, server
<1> QED
  BY <1>2, <1>3, <1>4

LEMMA SignOutTypes ==
  ASSUME Types, resetAllStores
  PROVE  Types'
<1>1. ShownOk'
  BY NoRows, EmptyIsBag DEF resetAllStores, Types, ShownOk
<1> QED
  BY <1>1 DEF resetAllStores, Types, ServerOk, server, QueueStates

LEMMA NextTypes == Types /\ Once /\ [Next]_vars => Types'
<1> SUFFICES ASSUME Types, Once, [Next]_vars
             PROVE  Types'
  OBVIOUS
<1>1. ASSUME NEW r \in Requests, Request(r)
      PROVE  Types'
  BY <1>1, ServeTypes, FailsTypes, AnswerLostTypes, SettledTypes, SentTypes, CreateItemTypes, ListTypes DEF Request
<1>2. CASE UNCHANGED vars
  BY <1>2 DEF vars, Types, ShownOk, ServerOk, shown, server
<1> QED
  BY <1>1, <1>2, ReplayTypes, ReconcileTypes, OthersTypes, EventTypes, SignOutTypes DEF Next

-----------------------------------------------------------------------------
(* Every action keeps what is known of the entities.                       *)

LEMMA InitOnce == Init => Once
<1> SUFFICES ASSUME Init
             PROVE  Once
  OBVIOUS
<1>1. DOMAIN items = {} /\ DOMAIN events = {}
  BY EmptyIsBag DEF Init
<1>2. \A r \in Requests : req[r].at = None /\ req[r].got = {}
  BY DEF Init, Unused
<1> QED
  BY <1>1, <1>2, NoneIsNot
  DEF Init, Once, Unmade, Unseen, CreatedByOne, Open, Withheld, Creating, Listed, ListedOnce

\* A request x goes on: it hears of nothing new, and becomes no create.
GoesOn(x) ==
  /\ \A e \in req'[x].got : e \in req[x].got \/ \E c \in AllCrews : e \in rows[c]
  /\ req'[x].op = "create" /\ req'[x].at \in {"sent", "answered"} =>
       /\ req[x].op = "create" /\ Open(x)
       /\ req'[x].item = req[x].item /\ req'[x].crew = req[x].crew
       /\ req'[x].at = "sent" \/ ~req'[x].ok => req[x].at = "sent" \/ ~req[x].ok

\* Nothing new comes from the server.
NothingNew ==
  /\ \A c \in AllCrews : rows'[c] \subseteq rows[c]
  /\ \A i \in DOMAIN events' : events'[i].type = "created" =>
       \E j \in DOMAIN events : events[j] = events'[i]

LEMMA UnseenKept ==
  ASSUME NothingNew, \A x \in Requests : GoesOn(x), NEW e, Unseen(e),
         \A x \in DOMAIN items' : x.id = e /\ ~x.temp => x \in DOMAIN items
  PROVE  Unseen(e)'
<1>1. \A c \in AllCrews : e \notin rows'[c]
  BY DEF NothingNew, Unseen
<1>2. \A r \in Requests : e \notin req'[r].got
  BY DEF GoesOn, Unseen
<1>3. \A i \in DOMAIN events' : events'[i].type = "created" => events'[i].n # e
  BY DEF NothingNew, Unseen
<1>4. \A x \in DOMAIN items' : x.id = e => x.temp
  BY DEF Unseen
<1> QED
  BY <1>1, <1>2, <1>3, <1>4 DEF Unseen

LEMMA CreatingKept ==
  ASSUME \A x \in Requests : GoesOn(x), NEW r \in Requests, NEW e, Creating(r, e)'
  PROVE  Creating(r, e)
BY DEF GoesOn, Creating, Open

LEMMA CreatedByOneKept ==
  ASSUME CreatedByOne, \A x \in Requests : GoesOn(x), home' = home,
         \A x \in Requests : Open(x)' /\ req'[x].op = "create" => queue'[req[x].item] = queue[req[x].item]
  PROVE  CreatedByOne'
BY DEF CreatedByOne, GoesOn, Open

\* Nothing new is listed and nothing becomes of a queued create.
LEMMA OnceKept ==
  ASSUME Types, Once, NothingNew, \A x \in Requests : GoesOn(x), home' = home, queue' = queue,
         \A x \in DOMAIN items' : x \in DOMAIN items /\ items'[x] = items[x]
  PROVE  Once'
<1>1. \A e : Unseen(e) => Unseen(e)'
  BY UnseenKept
<1>2. Unmade'
  BY <1>1 DEF Once, Unmade
<1>3. CreatedByOne'
  BY CreatedByOneKept DEF Once
<1>4. Withheld'
  <2> SUFFICES ASSUME NEW e \in Ids,
                      queue[e] \in {"queued", "failed"} \/ \E r \in Requests : Creating(r, e)'
               PROVE  Unseen(e)'
    BY DEF Withheld
  <2>1. queue[e] \in {"queued", "failed"} \/ \E r \in Requests : Creating(r, e)
    BY CreatingKept
  <2> QED
    BY <1>1, <2>1 DEF Once, Withheld
<1>5. Listed' /\ ListedOnce'
  BY DEF Once, Listed, ListedOnce
<1> QED
  BY <1>2, <1>3, <1>4, <1>5 DEF Once

\* Requests that are sent, settled or turned into a load go on; those that do not change do.
LEMMA SameGoesOn ==
  ASSUME NEW x, req'[x] = req[x]
  PROVE  GoesOn(x)
BY DEF GoesOn, Open

LEMMA OtherGoesOn ==
  ASSUME NEW x, req'[x].got = {}, req'[x].op # "create" \/ req'[x].at \notin {"sent", "answered"}
  PROVE  GoesOn(x)
BY DEF GoesOn

LEMMA DoneGoesOn ==
  ASSUME Types, NEW r \in Requests, Done(r)
  PROVE  \A x \in Requests : GoesOn(x)
<1>1. req'[r].got = {} /\ req'[r].at = "done"
  BY DEF Done, Types, Unused
<1>2. \A x \in Requests \ {r} : req'[x] = req[x]
  BY DEF Done, Types
<1> QED
  BY <1>1, <1>2, SameGoesOn, OtherGoesOn

LEMMA SentGoesOn ==
  ASSUME Types, NEW r \in Requests, NEW op, op # "create", NEW c, NEW e, req' = Sent(r, op, c, e)
  PROVE  \A x \in Requests : GoesOn(x)
<1>1. req'[r].got = {} /\ req'[r].op = op
  BY DEF Sent, Types, Unused
<1>2. \A x \in Requests \ {r} : req'[x] = req[x]
  BY DEF Sent, Types
<1> QED
  BY <1>1, <1>2, SameGoesOn, OtherGoesOn

LEMMA LoadGoesOn ==
  ASSUME Types, NEW r \in Requests, NEW c, req' = [req EXCEPT ![r] = Load(r, c)]
  PROVE  \A x \in Requests : GoesOn(x)
<1>1. req'[r].got = {} /\ req'[r].op = "load"
  BY DEF Load, Types, Unused
<1>2. \A x \in Requests \ {r} : req'[x] = req[x]
  BY DEF Types
<1> QED
  BY <1>1, <1>2, SameGoesOn, OtherGoesOn

\* Steps that leave the server, the queue and the events alone, and the list as it is or shorter.
LEMMA SettledOnce ==
  ASSUME Types, Once, NEW r \in Requests,
         selected(r) \/ crewLeft(r) \/ crewDeleted(r) \/ memberAdded(r) \/ createRefused(r)
           \/ statusesLoaded(r) \/ statusUpdated(r) \/ deleted(r)
           \/ (\E op \in {"createCrew", "reformCrew"} : crewMade(r, op))
  PROVE  Once'
<1>1. \A x \in Requests : GoesOn(x)
  <2>1. CASE ~deleted(r)
    <3>1. Done(r)
      BY <2>1 DEF selected, crewLeft, crewDeleted, memberAdded, createRefused, statusesLoaded,
                  statusUpdated, crewMade
    <3> QED
      BY <3>1, DoneGoesOn
  <2>2. CASE deleted(r)
    <3>1. Done(r) \/ req' = [req EXCEPT ![r] = Load(r, req[r].crew)]
      BY <2>2 DEF deleted, Done, Types
    <3> QED
      BY <3>1, DoneGoesOn, LoadGoesOn
  <2> QED
    BY <2>1, <2>2
<1>2. home' = home /\ queue' = queue /\ rows' = rows /\ events' = events
  BY DEF selected, crewLeft, crewDeleted, memberAdded, createRefused, statusesLoaded, statusUpdated,
         crewMade, deleted, server
<1>3. NothingNew
  BY <1>2 DEF NothingNew
<1>4. \A x \in DOMAIN items' : x \in DOMAIN items /\ items'[x] = items[x]
  <2>1. CASE ~deleted(r)
    BY <2>1 DEF selected, crewLeft, crewDeleted, memberAdded, createRefused, statusesLoaded,
                statusUpdated, crewMade, list, shown
  <2>2. CASE deleted(r)
    <3>1. items' = items \/ items' = Without(items, Real(req[r].item))
      BY <2>2 DEF deleted
    <3>2. IsABag(items)
      BY DEF Types, ShownOk
    <3> QED
      BY <3>1, <3>2, ShorterKeeps
  <2> QED
    BY <2>1, <2>2
<1> QED
  BY <1>1, <1>2, <1>3, <1>4, OnceKept

LEMMA SentOnce ==
  ASSUME Types, Once, NEW r \in Requests,
         selectCrew(r) \/ load(r) \/ deleteItem(r) \/ loadStatuses(r) \/ updateMyStatus(r)
           \/ (\E op \in {"createCrew", "reformCrew"} : makeCrew(r, op))
           \/ (\E op \in {"leaveCrew", "deleteCrew", "forceAddMember"} : manage(r, op))
  PROVE  Once'
<1>1. \A x \in Requests : GoesOn(x)
  <2>1. CASE updateMyStatus(r)
    <3>1. req'[r].got = {} /\ req'[r].op = "updateMyStatus"
      BY <2>1 DEF updateMyStatus, Sent, Types, Unused
    <3>2. \A x \in Requests \ {r} : req'[x] = req[x]
      BY <2>1 DEF updateMyStatus, Sent, Types
    <3> QED
      BY <3>1, <3>2, SameGoesOn, OtherGoesOn
  <2>2. CASE ~updateMyStatus(r)
    <3>1. \E op \in {"select", "load", "delete", "loadStatuses", "createCrew", "reformCrew",
                     "leaveCrew", "deleteCrew", "forceAddMember"} :
            \E c, e : req' = Sent(r, op, c, e)
      BY <2>2 DEF selectCrew, load, deleteItem, loadStatuses, makeCrew, manage
    <3> QED
      BY <3>1, SentGoesOn
  <2> QED
    BY <2>1, <2>2
<1>2. home' = home /\ queue' = queue /\ rows' = rows /\ events' = events
  BY DEF selectCrew, load, deleteItem, loadStatuses, updateMyStatus, makeCrew, manage, server
<1>3. NothingNew
  BY <1>2 DEF NothingNew
<1>4. \A x \in DOMAIN items' : x \in DOMAIN items /\ items'[x] = items[x]
  BY EmptyIsBag DEF selectCrew, load, deleteItem, loadStatuses, updateMyStatus, makeCrew, manage, shown
<1> QED
  BY <1>1, <1>2, <1>3, <1>4, OnceKept

\* The server hears of a create.
LEMMA ServeCreateOnce ==
  ASSUME Types, Once, NEW r \in Requests, serve(r), req[r].op = "create"
  PROVE  Once'
<1>0. PICK e, c : e = req[r].item /\ c = req[r].crew
  OBVIOUS
<1>1. /\ e \in Ids /\ c \in AllCrews /\ req[r].at = "sent" /\ Open(r) /\ home[e] = c /\ queue[e] = "none"
      /\ req[r].ok
  BY <1>0 DEF serve, Open, Types, CallOk, Once, CreatedByOne
<1>2. /\ rows' = [rows EXCEPT ![c] = @ \cup {e}] /\ Emits(Event("created", c, e))
      /\ UNCHANGED <<kind, items, queue, home>>
  BY <1>0 DEF serve, shown
<1>3. /\ req'[r].op = "create" /\ req'[r].item = e /\ req'[r].crew = c /\ req'[r].at = "answered"
      /\ req'[r].got = {} /\ req'[r].ok
      /\ \A x \in Requests \ {r} : req'[x] = req[x]
  BY <1>0, <1>1 DEF serve, Types, Call
<1>4. \A x \in Requests : GoesOn(x)
  <2>1. GoesOn(r)
    BY <1>0, <1>1, <1>3 DEF GoesOn
  <2> QED
    BY <1>3, <2>1, SameGoesOn
<1>5. CreatedByOne'
  BY <1>2, <1>4, CreatedByOneKept DEF Once
<1>6. ASSUME NEW f, f # e, Unseen(f)
      PROVE  Unseen(f)'
  <2>1. \A d \in AllCrews : f \notin rows'[d]
    BY <1>1, <1>2, <1>6 DEF Unseen, Types, ServerOk
  <2>2. \A x \in Requests : f \notin req'[x].got
    BY <1>3, <1>6 DEF Unseen
  <2>3. \A i \in DOMAIN events' : events'[i].type = "created" => events'[i].n # f
    <3>1. \A i \in DOMAIN events' :
            (i \in DOMAIN events /\ events'[i] = events[i]) \/ events'[i].n = e
      BY SMTT(30), <1>2 DEF Emits, Event, Types
    <3> QED
      BY <1>6, <3>1 DEF Unseen
  <2> QED
    BY <1>2, <1>6, <2>1, <2>2, <2>3 DEF Unseen
<1>7. Unmade'
  BY <1>1, <1>2, <1>6, NoneIsNot DEF Once, Unmade
<1>8. ~ \E x \in Requests : Creating(x, e)'
  <2> SUFFICES ASSUME NEW x \in Requests, Creating(x, e)'
               PROVE  FALSE
    OBVIOUS
  <2>1. Creating(x, e)
    BY <1>4, CreatingKept
  <2>2. x = r
    BY <1>0, <1>1, <2>1 DEF Creating, Open, Once, CreatedByOne
  <2> QED
    BY <1>3, <2>2 DEF Creating
<1>9. Withheld'
  <2> SUFFICES ASSUME NEW f \in Ids,
                      queue[f] \in {"queued", "failed"} \/ \E x \in Requests : Creating(x, f)'
               PROVE  Unseen(f)'
    BY <1>2 DEF Withheld
  <2>1. f # e
    BY <1>1, <1>8
  <2>2. queue[f] \in {"queued", "failed"} \/ \E x \in Requests : Creating(x, f)
    BY <1>4, CreatingKept
  <2> QED
    BY <1>6, <2>1, <2>2 DEF Once, Withheld
<1> QED
  BY <1>2, <1>5, <1>7, <1>9 DEF Once, Listed, ListedOnce

LEMMA ServeOnce ==
  ASSUME Types, Once, NEW r \in Requests, serve(r) \/ fails(r)
  PROVE  Once'
<1>1. CASE serve(r) /\ req[r].op # "create"
  <2>1. \A x \in Requests \ {r} : req'[x] = req[x]
    BY <1>1 DEF serve, Types
  <2>2. GoesOn(r)
    <3>1. /\ req'[r].op # "create"
          /\ req'[r].got = IF req[r].op = "load" THEN rows[req[r].crew] ELSE {}
          /\ req[r].crew \in AllCrews
      BY <1>1 DEF serve, Types, Call, CallOk
    <3> QED
      BY <3>1 DEF GoesOn
  <2>3. NothingNew
    <3>1. CASE req[r].op = "delete"
      <4>1. rows' = [rows EXCEPT ![req[r].crew] = @ \ {req[r].item}]
            /\ Emits(Event("removed", req[r].crew, req[r].item))
        BY <1>1, <3>1 DEF serve
      <4>2. \A c \in AllCrews : rows'[c] \subseteq rows[c]
        BY <4>1 DEF Types, ServerOk
      <4>3. \A i \in DOMAIN events' :
              (i \in DOMAIN events /\ events'[i] = events[i]) \/ events'[i].type = "removed"
        BY <4>1 DEF Emits, Event, Types
      <4> QED
        BY <4>2, <4>3 DEF NothingNew
    <3>2. CASE req[r].op # "delete"
      <4>1. UNCHANGED <<rows, events>>
        BY <1>1, <3>2 DEF serve
      <4> QED
        BY <4>1 DEF NothingNew
    <3> QED
      BY <3>1, <3>2
  <2> QED
    BY <1>1, <2>1, <2>2, <2>3, SameGoesOn, OnceKept DEF serve, shown
<1>2. CASE fails(r)
  <2>1. \A x \in Requests \ {r} : req'[x] = req[x]
    BY <1>2 DEF fails, Types
  <2>2. GoesOn(r)
    BY <1>2 DEF fails, Types, Call, GoesOn, Open
  <2>3. NothingNew
    BY <1>2 DEF fails, server, NothingNew
  <2> QED
    BY <1>2, <2>1, <2>2, <2>3, SameGoesOn, OnceKept DEF fails, shown, server
<1> QED
  BY <1>1, <1>2, ServeCreateOnce

\* The answer of a write is lost; that of a create makes way for a second entity.
LEMMA AnswerLostOnce ==
  ASSUME Types, Once, NEW r \in Requests, answerLost(r)
  PROVE  Once'
<1>1. CASE req[r].op \in {"delete", "updateMyStatus"} /\ home' = home /\ req' = [req EXCEPT ![r].ok = FALSE]
  <2>1. \A x \in Requests \ {r} : req'[x] = req[x]
    BY <1>1 DEF Types
  <2>2. GoesOn(r)
    BY <1>1 DEF Types, Call, GoesOn, Open
  <2>3. NothingNew
    BY DEF answerLost, NothingNew
  <2> QED
    BY <1>1, <2>1, <2>2, <2>3, SameGoesOn, OnceKept DEF answerLost, shown
<1>2. ASSUME NEW e \in Ids, req[r].op = "create", home[e] = None,
             home' = [home EXCEPT ![e] = req[r].crew],
             req' = [req EXCEPT ![r].ok = FALSE, ![r].item = e]
      PROVE  Once'
  <2>1. Open(r) /\ req[r].at = "answered" /\ req[r].crew \in AllCrews
    BY DEF answerLost, Open, Types, CallOk
  <2>2. /\ req'[r].op = "create" /\ req'[r].item = e /\ req'[r].crew = req[r].crew
        /\ req'[r].got = req[r].got
        /\ \A x \in Requests \ {r} : req'[x] = req[x]
    BY <1>2 DEF Types, Call
  <2>3. UNCHANGED <<items, queue, rows, events>> /\ home'[e] = req[r].crew
    BY <1>2 DEF answerLost, shown, Types, ServerOk
  <2>4. ASSUME NEW f, Unseen(f)
        PROVE  Unseen(f)'
    <3>1. \A x \in Requests : req'[x].got = req[x].got
      BY <2>2
    <3> QED
      BY <2>3, <2>4, <3>1 DEF Unseen
  <2>5. Unseen(e) /\ queue[e] = "none"
    BY <1>2 DEF Once, Unmade
  <2>6. \A x \in DOMAIN items : x.id # e
    BY <1>2, NoneIsNot DEF Once, Listed, Types, ShownOk, Entity
  <2>7. Unmade'
    BY <1>2, <2>1, <2>3, <2>4, NoneIsNot DEF Once, Unmade, Types, ServerOk
  <2>8. \A x \in Requests : Open(x) /\ req[x].op = "create" => req[x].item # e
    BY <1>2, NoneIsNot DEF Once, CreatedByOne, Types, CallOk, Open
  <2>9. CreatedByOne'
    <3> SUFFICES ASSUME NEW x \in Requests, Open(x)', req'[x].op = "create"
                 PROVE  /\ home'[req'[x].item] = req'[x].crew /\ queue'[req'[x].item] = "none"
                        /\ \A y \in Requests : Open(y)' /\ req'[y].op = "create"
                                                  /\ req'[y].item = req'[x].item => y = x
      BY DEF CreatedByOne
    <3>1. CASE x = r
      BY <2>2, <2>3, <2>5, <2>8, <3>1 DEF Open
    <3>2. CASE x # r
      <4>1. req'[x] = req[x] /\ Open(x) /\ req[x].op = "create" /\ req[x].item # e /\ req[x].item \in Ids
        BY <2>2, <2>8, <3>2 DEF Open, Types, CallOk
      <4>2. home'[req[x].item] = home[req[x].item]
        BY <1>2, <4>1 DEF Types, ServerOk
      <4>3. \A y \in Requests : Open(y)' /\ req'[y].op = "create" /\ req'[y].item = req[x].item => y = x
        BY <2>2, <4>1 DEF Open, Once, CreatedByOne
      <4> QED
        BY <2>3, <4>1, <4>2, <4>3 DEF Once, CreatedByOne
    <3> QED
      BY <3>1, <3>2
  <2>10. Withheld'
    <3> SUFFICES ASSUME NEW f \in Ids, f # e,
                        queue[f] \in {"queued", "failed"} \/ \E x \in Requests : Creating(x, f)'
                 PROVE  Unseen(f)'
      BY <2>3, <2>4, <2>5 DEF Withheld
    <3>1. \A x \in Requests : Creating(x, f)' => Creating(x, f)
      BY <2>2 DEF Creating
    <3> QED
      BY <2>4, <3>1 DEF Once, Withheld
  <2>11. Listed' /\ ListedOnce'
    BY <1>2, <2>3, <2>6 DEF Once, Listed, ListedOnce, Types, ServerOk, ShownOk, Entity
  <2> QED
    BY <2>7, <2>9, <2>10, <2>11 DEF Once
<1> QED
  BY <1>1, <1>2 DEF answerLost

\* An entity is about to be made.
LEMMA CreateItemOnce ==
  ASSUME Types, Once, NEW r \in Requests, createItem(r)
  PROVE  Once'
<1>1. PICK e \in Ids : /\ active # None /\ req[r].at = None /\ home[e] = None
                       /\ home' = [home EXCEPT ![e] = active]
                       /\ req' = Sent(r, "create", active, e)
                       /\ UNCHANGED <<kind, shown, queue, rows, events>>
  BY DEF createItem, Sendable
<1>2. active \in AllCrews /\ home'[e] = active
  BY <1>1 DEF Types, ShownOk, ServerOk
<1>3. /\ req'[r].op = "create" /\ req'[r].item = e /\ req'[r].crew = active /\ req'[r].got = {}
      /\ req'[r].at = "sent" /\ req'[r].ok
      /\ \A x \in Requests \ {r} : req'[x] = req[x]
  BY <1>1 DEF Sent, Types, Unused
<1>4. UNCHANGED <<items, queue, rows, events>>
  BY <1>1 DEF shown
<1>5. ASSUME NEW f, Unseen(f)
      PROVE  Unseen(f)'
  BY <1>3, <1>4, <1>5 DEF Unseen
<1>6. Unseen(e) /\ queue[e] = "none"
  BY <1>1 DEF Once, Unmade
<1>7. \A x \in DOMAIN items : x.id # e
  BY <1>1, NoneIsNot DEF Once, Listed, Types, ShownOk, Entity
<1>8. Unmade'
  BY <1>1, <1>2, <1>4, <1>5, NoneIsNot DEF Once, Unmade, Types, ServerOk
<1>9. \A x \in Requests : Open(x) /\ req[x].op = "create" => req[x].item # e
  BY <1>1, NoneIsNot DEF Once, CreatedByOne, Types, CallOk, Open
<1>10. CreatedByOne'
  <2> SUFFICES ASSUME NEW x \in Requests, Open(x)', req'[x].op = "create"
               PROVE  /\ home'[req'[x].item] = req'[x].crew /\ queue'[req'[x].item] = "none"
                      /\ \A y \in Requests : Open(y)' /\ req'[y].op = "create"
                                                /\ req'[y].item = req'[x].item => y = x
    BY DEF CreatedByOne
  <2>1. CASE x = r
    BY <1>2, <1>3, <1>4, <1>6, <1>9, <2>1 DEF Open
  <2>2. CASE x # r
    <3>1. req'[x] = req[x] /\ Open(x) /\ req[x].op = "create" /\ req[x].item # e /\ req[x].item \in Ids
      BY <1>3, <1>9, <2>2 DEF Open, Types, CallOk
    <3>2. home'[req[x].item] = home[req[x].item]
      BY <1>1, <3>1 DEF Types, ServerOk
    <3>3. \A y \in Requests : Open(y)' /\ req'[y].op = "create" /\ req'[y].item = req[x].item => y = x
      BY <1>3, <3>1 DEF Open, Once, CreatedByOne
    <3> QED
      BY <1>4, <3>1, <3>2, <3>3 DEF Once, CreatedByOne
  <2> QED
    BY <2>1, <2>2
<1>11. Withheld'
  <2> SUFFICES ASSUME NEW f \in Ids, f # e,
                      queue[f] \in {"queued", "failed"} \/ \E x \in Requests : Creating(x, f)'
               PROVE  Unseen(f)'
    BY <1>4, <1>5, <1>6 DEF Withheld
  <2>1. \A x \in Requests : Creating(x, f)' => Creating(x, f)
    BY <1>3 DEF Creating
  <2> QED
    BY <1>5, <2>1 DEF Once, Withheld
<1>12. Listed' /\ ListedOnce'
  BY <1>1, <1>4, <1>7 DEF Once, Listed, ListedOnce, Types, ServerOk, ShownOk, Entity
<1> QED
  BY <1>8, <1>10, <1>11, <1>12 DEF Once

\* A create is answered: the entity is listed, or its create queued and a placeholder listed.
LEMMA AnswerOnce ==
  ASSUME Types, Once, NEW r \in Requests, created(r) \/ createQueued(r)
  PROVE  Once'
<1>1. PICK e, c : e = req[r].item /\ c = req[r].crew
  OBVIOUS
<1>2. /\ e \in Ids /\ c \in AllCrews /\ home[e] = c /\ queue[e] = "none" /\ Open(r)
      /\ req[r].op = "create" /\ req[r].at = "answered"
  BY <1>1, AnsweredCall DEF created, createQueued, Answered, Open, Once, CreatedByOne
<1>3. \A x \in Requests : GoesOn(x)
  BY DoneGoesOn, LoadGoesOn DEF created, createQueued
<1>4. ~ (Open(r)' /\ req'[r].op = "create") /\ \A x \in Requests \ {r} : req'[x] = req[x]
  <2>1. CASE Done(r)
    BY <2>1, NoneIsNot DEF Done, Types, Unused, Open
  <2>2. CASE req' = [req EXCEPT ![r] = Load(r, c)]
    BY <2>2 DEF Types, Load, Unused
  <2> QED
    BY <1>1, <2>1, <2>2 DEF created, createQueued, Types
<1>5. UNCHANGED <<home, rows, events, kind>>
  BY DEF created, createQueued, server
<1>6. NothingNew
  BY <1>5 DEF NothingNew
<1>7. ~ \E x \in Requests : Creating(x, e)'
  BY <1>1, <1>2, <1>4 DEF Creating, Open, Once, CreatedByOne
<1>8. IsABag(items)
  BY DEF Types, ShownOk
<1>9. \A x \in Requests : Open(x)' /\ req'[x].op = "create" => req[x].item # e
  BY <1>1, <1>2, <1>4 DEF Open, Once, CreatedByOne
<1>10. CASE created(r)
  <2>1. queue' = queue /\ (items' = items \/ items' = With(items, Real(e)))
    BY <1>1, <1>10 DEF created
  <2>2. \A x \in DOMAIN items' :
          (x \in DOMAIN items /\ items'[x] = items[x]) \/ (x.id = e /\ x.crew = c /\ ~x.temp)
    <3>1. Real(e).id = e /\ Real(e).crew = c /\ ~Real(e).temp
      BY <1>2 DEF Real
    <3> QED
      BY <1>8, <2>1, <3>1, LongerKeeps
  <2>3. ASSUME NEW f, f # e, Unseen(f)
        PROVE  Unseen(f)'
    BY <1>3, <1>6, <2>2, <2>3, UnseenKept
  <2>4. CreatedByOne'
    BY <1>3, <1>5, <2>1, CreatedByOneKept DEF Once
  <2>5. Unmade'
    BY <1>2, <1>5, <2>1, <2>3, NoneIsNot DEF Once, Unmade
  <2>6. Withheld'
    BY <1>2, <1>3, <1>7, <2>1, <2>3, CreatingKept DEF Once, Withheld
  <2>7. Listed' /\ ListedOnce'
    BY <1>2, <1>5, <2>1, <2>2 DEF Once, Listed, ListedOnce
  <2> QED
    BY <2>4, <2>5, <2>6, <2>7 DEF Once
<1>11. CASE createQueued(r)
  <2>1. queue' = [queue EXCEPT ![e] = "queued"] /\ items' = With(items, Temp(e, c)) /\ ~req[r].ok
    BY <1>1, <1>11 DEF createQueued
  <2>2. \A x \in DOMAIN items' :
          (x \in DOMAIN items /\ items'[x] = items[x]) \/ (x.id = e /\ x.crew = c /\ x.temp)
    <3>1. Temp(e, c).id = e /\ Temp(e, c).crew = c /\ Temp(e, c).temp
      BY DEF Temp
    <3> QED
      BY <1>8, <2>1, <3>1, LongerKeeps
  <2>3. ASSUME NEW f, Unseen(f)
        PROVE  Unseen(f)'
    BY <1>3, <1>6, <2>2, <2>3, UnseenKept
  <2>4. Unseen(e)
    BY <1>1, <1>2, <2>1 DEF Creating, Once, Withheld
  <2>5. CreatedByOne'
    <3>1. \A x \in Requests : Open(x)' /\ req'[x].op = "create"
                               => queue'[req[x].item] = queue[req[x].item]
      BY <1>9, <2>1
    <3> QED
      BY <1>3, <1>5, <3>1, CreatedByOneKept DEF Once
  <2>6. queue \in [Ids -> QueueStates]
    BY DEF Types
  <2>7. Unmade'
    BY <1>2, <1>5, <2>1, <2>3, <2>6, NoneIsNot DEF Once, Unmade
  <2>8. Withheld'
    BY <1>2, <1>3, <1>7, <2>1, <2>3, <2>4, <2>6, CreatingKept DEF Once, Withheld
  <2>9. \A x \in DOMAIN items : x.id \in Ids
    BY DEF Types, ShownOk, Entity
  <2>10. Listed'
    BY <1>2, <1>5, <2>1, <2>2, <2>6, <2>9 DEF Once, Listed
  <2>11. ListedOnce'
    <3>1. \A x \in DOMAIN items : x.id = e => x.temp
      BY <2>4 DEF Unseen
    <3> QED
      BY <1>2, <2>1, <2>2, <2>6, <2>9, <3>1 DEF Once, ListedOnce
  <2> QED
    BY <2>5, <2>7, <2>8, <2>10, <2>11 DEF Once
<1> QED
  BY <1>10, <1>11

\* The server makes an entity: nothing else is seen that was not, and its create is not under way.
LEMMA MadeUnseen ==
  ASSUME Types, NEW e, NEW c, UNCHANGED <<items, req>>, NEW f, f # e, Unseen(f),
         rows' = [rows EXCEPT ![c] = @ \cup {e}], Emits(Event("created", c, e))
  PROVE  Unseen(f)'
<1>1. \A d \in AllCrews : f \notin rows'[d]
  BY DEF Unseen, Types, ServerOk
<1>2. \A i \in DOMAIN events' : (i \in DOMAIN events /\ events'[i] = events[i]) \/ events'[i].n = e
  BY DEF Emits, Event, Types
<1>3. \A i \in DOMAIN events' : events'[i].type = "created" => events'[i].n # f
  BY <1>2 DEF Unseen
<1> QED
  BY <1>1, <1>3 DEF Unseen

LEMMA ReplayOnce ==
  ASSUME Types, Once, NEW e \in Ids, replay(e)
  PROVE  Once'
<1>1. queue[e] = "queued" /\ home[e] # None /\ UNCHANGED <<kind, items, home, req>>
  BY DEF replay, shown, Once, Unmade
<1>2. queue \in [Ids -> QueueStates] /\ \A x \in DOMAIN items : x.id \in Ids
  BY DEF Types, ShownOk, Entity
<1>3. queue' = [queue EXCEPT ![e] = "replayed"] \/ queue' = [queue EXCEPT ![e] = "failed"]
  BY DEF replay
<1>4. \A r \in Requests : Open(r) /\ req[r].op = "create" => req[r].item # e /\ req[r].item \in Ids
  BY <1>1 DEF Once, CreatedByOne, Types, CallOk, Open
<1>5. CreatedByOne'
  BY <1>1, <1>2, <1>3, <1>4 DEF Once, CreatedByOne, Open
<1>6. Listed'
  BY <1>1, <1>2, <1>3 DEF Once, Listed
<1>7. ListedOnce'
  BY <1>1, <1>2, <1>3 DEF Once, ListedOnce
<1>8. ~ \E r \in Requests : Creating(r, e)
  BY <1>4 DEF Creating, Open
<1>9. Unmade' /\ Withheld'
  <2>1. CASE /\ queue' = [queue EXCEPT ![e] = "replayed"]
             /\ rows' = [rows EXCEPT ![home[e]] = @ \cup {e}]
             /\ Emits(Event("created", home[e], e))
    <3>1. ASSUME NEW f, f # e, Unseen(f)
          PROVE  Unseen(f)'
      BY <1>1, <2>1, <3>1, MadeUnseen
    <3>2. Unmade'
      BY <1>1, <1>2, <2>1, <3>1 DEF Once, Unmade
    <3>3. Withheld'
      BY <1>1, <1>2, <1>8, <2>1, <3>1 DEF Once, Withheld, Creating
    <3> QED
      BY <3>2, <3>3
  <2>2. CASE queue' = [queue EXCEPT ![e] = "failed"] /\ UNCHANGED <<rows, events>>
    <3>1. \A f : Unseen(f) => Unseen(f)'
      BY <1>1, <2>2 DEF Unseen
    <3>2. Unmade'
      BY <1>1, <1>2, <2>2, <3>1 DEF Once, Unmade
    <3>3. Withheld'
      BY <1>1, <1>2, <2>2, <3>1 DEF Once, Withheld, Creating
    <3> QED
      BY <3>2, <3>3
  <2> QED
    BY <2>1, <2>2 DEF replay
<1> QED
  BY <1>5, <1>6, <1>7, <1>9 DEF Once

LEMMA ReconcileOnce ==
  ASSUME Types, Once, NEW e \in Ids, reconcile(e)
  PROVE  Once'
<1>1. /\ queue[e] = "replayed" /\ home[e] # None /\ UNCHANGED <<kind, home, req, rows, events>>
      /\ queue' = [queue EXCEPT ![e] = "done"]
  BY DEF reconcile, server, Once, Unmade
<1>2. /\ queue \in [Ids -> QueueStates] /\ \A x \in DOMAIN items : x \in Entity
      /\ home[e] \in AllCrews /\ IsABag(items)
  BY <1>1 DEF Types, ShownOk, ServerOk
<1>3. \A x \in Entity : x.id \in Ids
  BY DEF Entity
<1>4. PICK t : t = Temp(e, home[e])
  OBVIOUS
<1>5. PICK o : o = Real(e)
  OBVIOUS
<1>6. o.id = e /\ o.crew = home[e] /\ ~o.temp
  BY <1>5 DEF Real
<1>7. \A x \in Entity : x.id = e /\ x.crew = home[e] /\ x.temp => x = t
  BY <1>2, <1>4 DEF Entity, Temp
<1>8. \A x \in DOMAIN items : x.id = e /\ x.temp => x = t
  BY <1>2, <1>7 DEF Once, Listed
<1>9. /\ DOMAIN Without(items, t) = DOMAIN items \ {t} /\ IsABag(Without(items, t))
      /\ \A y \in DOMAIN items \ {t} : Without(items, t)[y] = items[y]
  BY <1>2, WithoutIs
<1>10. \/ items' = items /\ t \notin DOMAIN items
       \/ items' = Without(items, t)
       \/ items' = With(Without(items, t), o) /\ o \notin DOMAIN items
  BY <1>4, <1>5 DEF reconcile, Reconciled, BagIn, BagToSet
<1>11. \A x \in DOMAIN items' :
         \/ x \in DOMAIN items /\ x # t /\ items'[x] = items[x]
         \/ x = o /\ items'[x] = 1
  <2>1. CASE items' = items /\ t \notin DOMAIN items
    BY <2>1
  <2>2. CASE items' = Without(items, t)
    BY <1>9, <2>2
  <2>3. CASE items' = With(Without(items, t), o) /\ o \notin DOMAIN items
    BY <1>9, <2>3, LongerKeeps
  <2> QED
    BY <1>10, <2>1, <2>2, <2>3
<1>12. \A r \in Requests : Open(r) /\ req[r].op = "create" => req[r].item # e
  BY <1>1 DEF Once, CreatedByOne
<1>13. CreatedByOne'
  BY <1>1, <1>12 DEF Once, CreatedByOne, Open
<1>14. ASSUME NEW f, f # e, Unseen(f)
       PROVE  Unseen(f)'
  <2>1. \A x \in DOMAIN items' : x.id = f => x.temp
    BY <1>6, <1>11, <1>14 DEF Unseen
  <2> QED
    BY <1>1, <1>14, <2>1 DEF Unseen
<1>15. Unmade'
  BY <1>1, <1>2, <1>14 DEF Once, Unmade
<1>16. Withheld'
  <2>1. ~ \E r \in Requests : Creating(r, e)
    BY <1>12 DEF Creating, Open
  <2> QED
    BY <1>1, <1>2, <1>14, <2>1 DEF Once, Withheld, Creating
<1>17. Listed'
  BY <1>1, <1>2, <1>3, <1>6, <1>8, <1>11 DEF Once, Listed
<1>18. ListedOnce'
  BY <1>1, <1>2, <1>3, <1>6, <1>8, <1>11 DEF Once, ListedOnce
<1> QED
  BY <1>13, <1>15, <1>16, <1>17, <1>18 DEF Once

\* The server's list takes the place of what is shown.
LEMMA LoadedOnce ==
  ASSUME Types, Once, NEW r \in Requests, loaded(r)
  PROVE  Once'
<1>1. /\ \A x \in Requests : GoesOn(x)
      /\ home' = home /\ queue' = queue /\ rows' = rows /\ events' = events
  BY DoneGoesOn DEF loaded, server
<1>2. NothingNew
  BY <1>1 DEF NothingNew
<1>3. CASE ~req[r].ok
  BY <1>1, <1>2, <1>3, OnceKept DEF loaded
<1>4. CASE req[r].ok
  <2> DEFINE S == {Real(f) : f \in req[r].got}
  <2>1. DOMAIN items' = S /\ \A x \in S : items'[x] = 1
    BY <1>4, SetIsBag DEF loaded
  <2>2. \A x \in S : x.id \in req[r].got /\ x.crew = home[x.id] /\ ~x.temp
    BY DEF Real
  <2>3. \A x \in DOMAIN items' :
          x.id \in req[r].got /\ x.crew = home[x.id] /\ ~x.temp /\ items'[x] = 1
    <3> HIDE DEF S
    <3> QED
      BY <2>1, <2>2
  <2>4. ASSUME NEW f, Unseen(f)
        PROVE  Unseen(f)'
    <3>1. \A x \in DOMAIN items' : x.id = f /\ ~x.temp => x \in DOMAIN items
      BY <2>3, <2>4 DEF Unseen
    <3> QED
      BY <1>1, <1>2, <2>4, <3>1, UnseenKept
  <2>5. Unmade'
    BY <1>1, <2>4 DEF Once, Unmade
  <2>6. CreatedByOne'
    BY <1>1, CreatedByOneKept DEF Once
  <2>7. Withheld'
    BY <1>1, <2>4, CreatingKept DEF Once, Withheld
  <2>8. Listed' /\ ListedOnce'
    BY <1>1, <2>3 DEF Listed, ListedOnce
  <2> QED
    BY <2>5, <2>6, <2>7, <2>8 DEF Once
<1> QED
  BY <1>3, <1>4

LEMMA OthersOnce ==
  ASSUME Types, Once, otherCreates \/ otherRemoves \/ otherStatus \/ removesMe
  PROVE  Once'
<1>1. CASE otherCreates
  <2>1. PICK e \in Ids, c \in Crews :
          /\ home[e] = None /\ home' = [home EXCEPT ![e] = c]
          /\ rows' = [rows EXCEPT ![c] = @ \cup {e}] /\ Emits(Event("created", c, e))
          /\ UNCHANGED <<items, queue, req>>
    BY <1>1 DEF otherCreates, shown
  <2>2. ASSUME NEW f, f # e, Unseen(f)
        PROVE  Unseen(f)'
    BY <2>1, <2>2, MadeUnseen
  <2>3. queue[e] = "none" /\ c # None /\ home \in [Ids -> AllCrews \cup {None}]
    BY <2>1, NoneIsNot DEF Once, Unmade, Types, ServerOk, AllCrews
  <2>4. \A r \in Requests : Open(r) /\ req[r].op = "create" => req[r].item # e /\ req[r].item \in Ids
    BY <2>1, NoneIsNot DEF Once, CreatedByOne, Types, CallOk, Open
  <2>5. \A x \in DOMAIN items : x.id # e /\ x.id \in Ids
    BY <2>1, NoneIsNot DEF Once, Listed, Types, ShownOk, Entity
  <2>6. Unmade'
    BY <2>1, <2>2, <2>3 DEF Once, Unmade
  <2>7. CreatedByOne'
    BY <2>1, <2>3, <2>4 DEF Once, CreatedByOne, Open
  <2>8. Withheld'
    BY <2>1, <2>2, <2>3, <2>4 DEF Once, Withheld, Creating, Open
  <2>9. Listed' /\ ListedOnce'
    BY <2>1, <2>3, <2>5 DEF Once, Listed, ListedOnce
  <2> QED
    BY <2>6, <2>7, <2>8, <2>9 DEF Once
<1>2. CASE otherRemoves \/ otherStatus \/ removesMe
  <2>1. UNCHANGED <<items, queue, req, home>>
    BY <1>2 DEF otherRemoves, otherStatus, removesMe, shown, server
  <2>2. \A x \in Requests : GoesOn(x)
    BY <2>1, SameGoesOn
  <2>3. \A c \in AllCrews : rows'[c] \subseteq rows[c]
    BY <1>2 DEF otherRemoves, otherStatus, removesMe, server, Types, ServerOk
  <2>4. \E t \in {"removed", "status", "revoked"} : \E c, n : Emits(Event(t, c, n))
    BY <1>2 DEF otherRemoves, otherStatus, removesMe
  <2>5. \A i \in DOMAIN events' :
          (i \in DOMAIN events /\ events'[i] = events[i]) \/ events'[i].type # "created"
    BY <2>4 DEF Emits, Event, Types
  <2>6. NothingNew
    BY <2>3, <2>5 DEF NothingNew
  <2> QED
    BY <2>1, <2>2, <2>6, OnceKept
<1> QED
  BY <1>1, <1>2

LEMMA EventOnce ==
  ASSUME Types, Once, listEvent \/ statusEvent \/ revokedEvent
  PROVE  Once'
<1> DEFINE e == Head(events)
<1>1. /\ events # <<>> /\ e = events[1] /\ 1 \in DOMAIN events /\ events' = Tail(events)
      /\ e \in Notice /\ UNCHANGED <<home, rows, queue>>
  BY HeadAndTail DEF listEvent, statusEvent, revokedEvent, server, Types
<1>2. NothingNew
  <2>1. \A i \in DOMAIN events' : i + 1 \in DOMAIN events /\ events'[i] = events[i + 1]
    BY <1>1 DEF Types
  <2> QED
    BY <1>1, <2>1 DEF NothingNew
<1>3. CASE listEvent
  <2>1. \A x \in Requests : GoesOn(x)
    <3>1. UNCHANGED req \/ \E c : \E r \in Requests : req' = [req EXCEPT ![r] = Load(r, c)]
      BY <1>3, Counting DEF listEvent, Reload
    <3> QED
      BY <3>1, LoadGoesOn, SameGoesOn
  <2>2. e.n \in Ids
    BY <1>1, <1>3 DEF listEvent, Notice
  <2>3. IsABag(items)
    BY DEF Types, ShownOk
  <2>4. PICK o : o = Real(e.n)
    OBVIOUS
  <2>5. o.id = e.n /\ o.crew = home[e.n] /\ ~o.temp
    BY <2>4 DEF Real
  <2>6. \/ items' = items \/ items' = Without(items, o)
        \/ items' = With(items, o) /\ o \notin DOMAIN items /\ e.type = "created"
    BY <1>3, <2>4 DEF listEvent, Upserted, BagIn, BagToSet
  <2>7. CASE items' = items \/ items' = Without(items, o)
    <3>1. \A x \in DOMAIN items' : x \in DOMAIN items /\ items'[x] = items[x]
      BY <2>3, <2>7, ShorterKeeps
    <3> QED
      BY <1>1, <1>2, <2>1, <3>1, OnceKept
  <2>8. CASE items' = With(items, o) /\ o \notin DOMAIN items /\ e.type = "created"
    <3>1. \A x \in DOMAIN items' :
            (x \in DOMAIN items /\ items'[x] = items[x]) \/ (x = o /\ items'[x] = 1)
      <4>1. /\ \A x \in DOMAIN With(items, o) :
                 (x \in DOMAIN items /\ With(items, o)[x] = items[x]) \/ x = o
            /\ With(items, o)[o] = 1
        <5>1. o \notin DOMAIN items
          BY <2>8
        <5> QED
          BY <2>3, <5>1, LongerKeeps
      <4>2. PICK w : w = With(items, o)
        OBVIOUS
      <4>3. \A x \in DOMAIN w : (x \in DOMAIN items /\ w[x] = items[x]) \/ (x = o /\ w[x] = 1)
        BY <4>1, <4>2
      <4>4. items' = w
        <5>1. items' = With(items, o)
          BY <2>8
        <5> QED
          BY <4>2, <5>1
      <4> QED
        BY <4>3, <4>4
    <3>2. ASSUME NEW f, Unseen(f)
          PROVE  Unseen(f)'
      <4>1. f # e.n
        BY <1>1, <2>8, <3>2 DEF Unseen
      <4>2. \A x \in DOMAIN items' : x.id = f /\ ~x.temp => x \in DOMAIN items
        BY <2>5, <3>1, <4>1
      <4> QED
        BY <1>2, <2>1, <3>2, <4>2, UnseenKept
    <3>3. Unmade'
      BY <1>1, <3>2 DEF Once, Unmade
    <3>4. CreatedByOne'
      BY <1>1, <2>1, CreatedByOneKept DEF Once
    <3>5. Withheld'
      BY <1>1, <2>1, <3>2, CreatingKept DEF Once, Withheld
    <3>6. Listed' /\ ListedOnce'
      BY <1>1, <2>5, <3>1 DEF Once, Listed, ListedOnce
    <3> QED
      BY <3>3, <3>4, <3>5, <3>6 DEF Once
  <2> QED
    BY <2>6, <2>7, <2>8
<1>4. CASE statusEvent \/ revokedEvent
  <2>1. UNCHANGED req /\ (items' = items \/ items' = EmptyBag)
    BY <1>4 DEF statusEvent, revokedEvent, Revoked, list
  <2>2. \A x \in DOMAIN items' : x \in DOMAIN items /\ items'[x] = items[x]
    BY <2>1, EmptyIsBag
  <2> QED
    BY <1>1, <1>2, <2>1, <2>2, SameGoesOn, OnceKept
<1> QED
  BY <1>3, <1>4

\* Sign-out empties the queue and the list.
LEMMA SignOutOnce ==
  ASSUME Types, Once, resetAllStores
  PROVE  Once'
<1>1. /\ DOMAIN items' = {} /\ \A e \in Ids : queue'[e] = "none"
      /\ UNCHANGED <<home, rows, events, req>>
  BY EmptyIsBag DEF resetAllStores, server
<1>2. \A f : Unseen(f) => Unseen(f)'
  BY <1>1 DEF Unseen
<1>3. Unmade' /\ Listed' /\ ListedOnce'
  BY <1>1, <1>2 DEF Once, Unmade, Listed, ListedOnce
<1>4. CreatedByOne'
  BY <1>1 DEF Once, CreatedByOne, Open, Types, CallOk
<1>5. Withheld'
  BY <1>1, <1>2 DEF Once, Withheld, Creating
<1> QED
  BY <1>3, <1>4, <1>5 DEF Once

LEMMA NextOnce == Types /\ Once /\ [Next]_vars => Once'
<1> SUFFICES ASSUME Types, Once, [Next]_vars
             PROVE  Once'
  OBVIOUS
<1>1. ASSUME NEW r \in Requests, Request(r)
      PROVE  Once'
  BY <1>1, ServeOnce, AnswerLostOnce, SettledOnce, SentOnce, CreateItemOnce, AnswerOnce, LoadedOnce DEF Request
<1>2. CASE UNCHANGED vars
  <2>1. UNCHANGED <<items, queue, rows, home, events, req>>
    BY <1>2 DEF vars, shown, server
  <2> QED
    BY <2>1 DEF Once, Unmade, Unseen, CreatedByOne, Open, Withheld, Creating, Listed, ListedOnce
<1> QED
  BY <1>1, <1>2, ReplayOnce, ReconcileOnce, OthersOnce, EventOnce, SignOutOnce DEF Next

-----------------------------------------------------------------------------
(* The theorems.                                                           *)

LEMMA Inductive == Spec => [](Types /\ Once)
<1>1. Init => Types /\ Once
  BY InitTypes, InitOnce
<1>2. Types /\ Once /\ [Next]_vars => Types' /\ Once'
  BY NextTypes, NextOnce
<1> QED
  BY <1>1, <1>2, PTL DEF Spec

\* The types of TypeOK: what the handlers, the reconciler and the realtime setters leave in the
\* store are entities of crews, and only the statuses of crews.
THEOREM TypeCorrect == Spec => []TypeOK
<1>1. Types => TypeOK
  BY DEF Types, ShownOk, ServerOk, TypeOK, Entity, StatusRows, Row, QueueStates, BagToSet
<1> QED
  BY <1>1, Inductive, PTL

\* OfflineCreatedOnce: the reconciler, meeting-point events and reloads list an entity that was
\* created offline at most once, and its placeholder is gone once its replay is reconciled.
THEOREM CreatedOnce == Spec => []OfflineCreatedOnce
<1>1. Types /\ Once => OfflineCreatedOnce
  <2> SUFFICES ASSUME Types, Once, NEW e \in Ids, queue[e] # "none"
               PROVE  /\ Copies(Real(e)) <= 1
                      /\ queue[e] = "done" => \A c \in AllCrews : Copies(Temp(e, c)) = 0
    BY DEF OfflineCreatedOnce
  <2>1. Copies(Real(e)) <= 1
    <3>1. PICK o : o = Real(e)
      OBVIOUS
    <3>2. o.id = e /\ ~o.temp
      BY <3>1 DEF Real
    <3>3. o \in DOMAIN items => items[o] = 1
      BY <3>2 DEF Once, ListedOnce
    <3> QED
      BY <3>1, <3>3 DEF Copies, BagIn, BagToSet
  <2>2. ASSUME queue[e] = "done", NEW c \in AllCrews
        PROVE  Copies(Temp(e, c)) = 0
    <3>1. PICK t : t = Temp(e, c)
      OBVIOUS
    <3>2. t.id = e /\ t.temp
      BY <3>1 DEF Temp
    <3>3. t \notin DOMAIN items
      BY <2>2, <3>2 DEF Once, Listed
    <3> QED
      BY <3>1, <3>3 DEF Copies, BagIn, BagToSet
  <2> QED
    BY <2>1, <2>2
<1> QED
  BY <1>1, Inductive, PTL

-----------------------------------------------------------------------------
(* The open crew and its roster.                                           *)

\* LastSelectWins: whatever answers come late, the open crew is the one selected last or one
\* that createCrew or reformCrew has made.
THEOREM LastSelected == Spec => []LastSelectWins
<1>1. Init => LastSelectWins
  BY DEF Init, LastSelectWins
<1>2. LastSelectWins /\ [Next]_vars => LastSelectWins'
  <2> SUFFICES ASSUME LastSelectWins, [Next]_vars
               PROVE  LastSelectWins'
    OBVIOUS
  <2>1. ASSUME NEW r \in Requests, Request(r)
        PROVE  LastSelectWins'
    <3>1. CASE selectCrew(r)
      BY <3>1 DEF selectCrew, LastSelectWins
    <3>2. CASE selected(r)
      BY <3>2 DEF selected, LastSelectWins
    <3>3. CASE \E op \in {"createCrew", "reformCrew"} : makeCrew(r, op) \/ crewMade(r, op)
      BY <3>3 DEF makeCrew, crewMade, shown, LastSelectWins
    <3>4. CASE crewLeft(r) \/ crewDeleted(r) \/ memberAdded(r)
      BY <3>4 DEF crewLeft, crewDeleted, memberAdded, LastSelectWins
    <3>5. CASE serve(r) \/ fails(r) \/ answerLost(r) \/ load(r) \/ createItem(r) \/ createRefused(r) \/ deleteItem(r)
               \/ loadStatuses(r) \/ \E op \in {"leaveCrew", "deleteCrew", "forceAddMember"} : manage(r, op)
      BY <3>5 DEF serve, fails, answerLost, load, createItem, createRefused, deleteItem, loadStatuses, manage,
                  shown, LastSelectWins
    <3>6. CASE loaded(r) \/ created(r) \/ createQueued(r) \/ deleted(r)
               \/ statusesLoaded(r) \/ updateMyStatus(r) \/ statusUpdated(r)
      BY <3>6 DEF loaded, created, createQueued, deleted, statusesLoaded, updateMyStatus,
                  statusUpdated, LastSelectWins
    <3> QED
      BY <2>1, <3>1, <3>2, <3>3, <3>4, <3>5, <3>6 DEF Request
  <2>2. ASSUME NEW e \in Ids, replay(e) \/ reconcile(e)
        PROVE  LastSelectWins'
    BY <2>2 DEF replay, reconcile, shown, LastSelectWins
  <2>3. CASE otherCreates \/ otherRemoves \/ otherStatus \/ removesMe
    BY <2>3 DEF otherCreates, otherRemoves, otherStatus, removesMe, shown, LastSelectWins
  <2>4. CASE listEvent \/ statusEvent \/ revokedEvent \/ resetAllStores
    BY <2>4 DEF listEvent, statusEvent, revokedEvent, Revoked, resetAllStores, LastSelectWins
  <2>5. CASE UNCHANGED vars
    BY <2>5 DEF vars, shown, LastSelectWins
  <2> QED
    BY <2>1, <2>2, <2>3, <2>4, <2>5 DEF Next
<1> QED
  BY <1>1, <1>2, PTL DEF Spec

\* A member is being added by hand.
Adding(r) == Open(r) /\ req[r].op = "forceAddMember"

\* Nothing is under way with it but loads that events started, and the crew it is added to stays
\* open or none is.
AddingAlone ==
  \A r \in Requests : Adding(r) =>
    /\ active \in {None, req[r].crew}
    /\ \A x \in Requests \ {r} : Open(x) => req[x].op = "load"

Matched == RosterMatchesCrew /\ AddingAlone

\* A request that is open was, and for the same; or it is a load.
Onward(x) ==
  Open(x)' => req'[x].op = "load" \/ (Open(x) /\ req'[x].op = req[x].op /\ req'[x].crew = req[x].crew)

LEMMA AddingKept ==
  ASSUME AddingAlone, \A x \in Requests : Onward(x), active' \in {None, active}
  PROVE  AddingAlone'
BY DEF AddingAlone, Adding, Onward

LEMMA NotAdding ==
  ASSUME AddingAlone, \A x \in Requests : Onward(x), NEW r \in Requests, Open(r),
         req[r].op \notin {"load", "forceAddMember"}
  PROVE  AddingAlone'
BY DEF AddingAlone, Adding, Onward

LEMMA SettledOnward ==
  ASSUME Types, NEW r \in Requests, Done(r)
  PROVE  \A x \in Requests : Onward(x)
<1>1. ~Open(r)'
  BY NoneIsNot DEF Done, Types, Unused, Open
<1>2. \A x \in Requests \ {r} : req'[x] = req[x]
  BY DEF Done, Types
<1> QED
  BY <1>1, <1>2 DEF Onward, Open

LEMMA LoadOnward ==
  ASSUME Types, NEW r \in Requests, NEW c, req' = [req EXCEPT ![r] = Load(r, c)]
  PROVE  \A x \in Requests : Onward(x)
<1>1. req'[r].op = "load"
  BY DEF Load, Types, Unused
<1>2. \A x \in Requests \ {r} : req'[x] = req[x]
  BY DEF Types
<1> QED
  BY <1>1, <1>2 DEF Onward, Open

LEMMA SameOnward ==
  ASSUME req' = req
  PROVE  \A x \in Requests : Onward(x)
BY DEF Onward, Open

\* What the user starts next to nothing that must be alone.
LEMMA SentAdding ==
  ASSUME Types, "forceAddMember" \in Ops => "forceAddMember" \in Alone,
         NEW r \in Requests, NEW op, Sendable(r, op), NEW e, NEW c,
         \/ req' = Sent(r, op, c, e)
         \/ \E s : req' = [Sent(r, op, c, e) EXCEPT ![r].prev = s],
         op = "forceAddMember" => c = active /\ active' = active
  PROVE  AddingAlone'
<1>1. \A x \in Requests : ~Adding(x)
  BY DEF Sendable, Adding, Types, CallOk, Open
<1>2. req'[r].op = op /\ req'[r].crew = c
  BY DEF Sent, Types, Unused
<1>3. \A x \in Requests \ {r} : req'[x] = req[x]
  BY DEF Sent, Types
<1>4. \A x \in Requests \ {r} : ~Adding(x)'
  BY <1>1, <1>3 DEF Adding, Open
<1>5. CASE op = "forceAddMember"
  <2>1. \A x \in Requests \ {r} : ~Open(x)'
    BY <1>3, <1>5 DEF Sendable, Open
  <2> QED
    BY <1>2, <1>4, <1>5, <2>1 DEF AddingAlone
<1>6. CASE op # "forceAddMember"
  BY <1>2, <1>4, <1>6 DEF AddingAlone, Adding
<1> QED
  BY <1>5, <1>6

LEMMA StartedMatched ==
  ASSUME Types, Matched, "forceAddMember" \in Ops => "forceAddMember" \in Alone, NEW r \in Requests,
         \/ selectCrew(r) \/ load(r) \/ createItem(r) \/ deleteItem(r)
         \/ loadStatuses(r) \/ updateMyStatus(r)
         \/ \E op \in {"createCrew", "reformCrew"} : makeCrew(r, op)
         \/ \E op \in {"leaveCrew", "deleteCrew", "forceAddMember"} : manage(r, op)
  PROVE  Matched'
<1>1. CASE selectCrew(r)
  <2>1. AddingAlone'
    BY <1>1, SentAdding DEF selectCrew, Matched
  <2> QED
    BY <1>1, <2>1 DEF selectCrew, Matched, RosterMatchesCrew
<1>2. CASE updateMyStatus(r)
  <2>1. AddingAlone'
    BY <1>2, SentAdding DEF updateMyStatus, Matched
  <2> QED
    BY <1>2, <2>1 DEF updateMyStatus, Matched, RosterMatchesCrew
<1>3. CASE load(r) \/ deleteItem(r) \/ loadStatuses(r)
           \/ \E op \in {"leaveCrew", "deleteCrew", "forceAddMember"} : manage(r, op)
  <2>1. \E op, e : Sendable(r, op) /\ req' = Sent(r, op, active, e) /\ UNCHANGED <<active, roster>>
    BY <1>3 DEF load, deleteItem, loadStatuses, manage, shown
  <2>2. AddingAlone'
    BY <2>1, SentAdding DEF Matched
  <2> QED
    BY <2>1, <2>2 DEF Matched, RosterMatchesCrew
<1>4. CASE createItem(r)
  <2>1. \E e : Sendable(r, "create") /\ req' = Sent(r, "create", active, e) /\ UNCHANGED <<active, roster>>
    BY <1>4 DEF createItem, shown
  <2>2. AddingAlone'
    BY <2>1, SentAdding DEF Matched
  <2> QED
    BY <2>1, <2>2 DEF Matched, RosterMatchesCrew
<1>5. CASE \E op \in {"createCrew", "reformCrew"} : makeCrew(r, op)
  <2>1. PICK op \in {"createCrew", "reformCrew"} : makeCrew(r, op)
    BY <1>5
  <2>2. Sendable(r, op) /\ req' = Sent(r, op, Fresh, 0) /\ op # "forceAddMember"
        /\ UNCHANGED <<active, roster>>
    BY <2>1 DEF makeCrew, shown
  <2>3. AddingAlone'
    BY <2>2, SentAdding DEF Matched
  <2> QED
    BY <2>2, <2>3 DEF Matched, RosterMatchesCrew
<1> QED
  BY <1>1, <1>2, <1>3, <1>4, <1>5

\* What an answer does: the roster follows the crew, or the crew is closed; a member is added
\* only where AddingAlone says which crew is open.
LEMMA SettledMatched ==
  ASSUME Types, Matched, NEW r \in Requests,
         \/ selected(r) \/ crewLeft(r) \/ crewDeleted(r) \/ memberAdded(r)
         \/ \E op \in {"createCrew", "reformCrew"} : crewMade(r, op)
  PROVE  Matched'
<1>1. Open(r) /\ \A x \in Requests : Onward(x)
  BY SettledOnward DEF selected, crewLeft, crewDeleted, memberAdded, crewMade, Answered, Open
<1>2. CASE selected(r)
  <2>1. req[r].op = "select"
    BY <1>2 DEF selected, Answered
  <2>2. AddingAlone'
    BY <1>1, <2>1, NotAdding DEF Matched
  <2> QED
    BY <1>2, <2>2 DEF selected, Matched, RosterMatchesCrew
<1>3. CASE \E op \in {"createCrew", "reformCrew"} : crewMade(r, op)
  <2>1. req[r].op \in {"createCrew", "reformCrew"}
    BY <1>3 DEF crewMade, Answered
  <2>2. AddingAlone'
    BY <1>1, <2>1, NotAdding DEF Matched
  <2> QED
    BY <1>3, <2>2 DEF crewMade, Matched, RosterMatchesCrew
<1>4. CASE crewLeft(r) \/ crewDeleted(r)
  <2>1. active' \in {None, active}
    BY <1>4 DEF crewLeft, crewDeleted
  <2>2. AddingAlone'
    BY <1>1, <2>1, AddingKept DEF Matched
  <2> QED
    BY <1>4, <2>2 DEF crewLeft, crewDeleted, Matched, RosterMatchesCrew
<1>5. CASE memberAdded(r)
  <2>1. Adding(r) /\ active' = active
    BY <1>1, <1>5 DEF memberAdded, Answered, Adding
  <2>2. active \in {None, req[r].crew}
    BY <2>1 DEF Matched, AddingAlone
  <2>3. AddingAlone'
    BY <1>1, <2>1, AddingKept DEF Matched
  <2> QED
    BY <1>5, <2>1, <2>2, <2>3 DEF memberAdded, Matched, RosterMatchesCrew
<1> QED
  BY <1>2, <1>3, <1>4, <1>5

LEMMA HandledMatched ==
  ASSUME Types, Matched, NEW r \in Requests,
         \/ serve(r) \/ fails(r) \/ answerLost(r) \/ loaded(r) \/ created(r) \/ createRefused(r) \/ createQueued(r)
         \/ deleted(r) \/ statusesLoaded(r) \/ statusUpdated(r)
  PROVE  Matched'
<1>1. UNCHANGED <<active, roster>>
  BY DEF serve, fails, answerLost, loaded, created, createRefused, createQueued, deleted, statusesLoaded,
         statusUpdated, shown
<1>2. \A x \in Requests : Onward(x)
  <2>1. CASE serve(r) \/ fails(r) \/ answerLost(r)
    <3>1. Open(r) /\ req'[r].op = req[r].op /\ req'[r].crew = req[r].crew
      BY <2>1 DEF serve, fails, answerLost, Types, Call, Open
    <3>2. \A x \in Requests \ {r} : req'[x] = req[x]
      BY <2>1 DEF serve, fails, answerLost, Types
    <3> QED
      BY <3>1, <3>2 DEF Onward, Open
  <2>2. CASE loaded(r) \/ createRefused(r) \/ createQueued(r) \/ statusesLoaded(r) \/ statusUpdated(r)
    BY <2>2, SettledOnward DEF loaded, createRefused, createQueued, statusesLoaded, statusUpdated
  <2>3. CASE created(r) \/ deleted(r)
    <3>1. Done(r) \/ req' = [req EXCEPT ![r] = Load(r, req[r].crew)]
      BY <2>3 DEF created, deleted, Done, Types
    <3> QED
      BY <3>1, SettledOnward, LoadOnward
  <2> QED
    BY <2>1, <2>2, <2>3
<1>3. AddingAlone'
  BY <1>1, <1>2, AddingKept DEF Matched
<1> QED
  BY <1>1, <1>3 DEF Matched, RosterMatchesCrew

\* Events, replays and signing out close the crew or leave it open.
LEMMA OtherMatched ==
  ASSUME Types, Matched,
         \/ \E e \in Ids : replay(e) \/ reconcile(e)
         \/ otherCreates \/ otherRemoves \/ otherStatus \/ removesMe
         \/ listEvent \/ statusEvent \/ revokedEvent \/ resetAllStores
         \/ UNCHANGED vars
  PROVE  Matched'
<1>1. UNCHANGED <<active, roster>> \/ (active' = None /\ roster' = None)
  BY DEF replay, reconcile, otherCreates, otherRemoves, otherStatus, removesMe, listEvent, statusEvent,
         revokedEvent, Revoked, resetAllStores, vars, shown
<1>2. \A x \in Requests : Onward(x)
  <2>1. CASE req' = req
    BY <2>1, SameOnward
  <2>2. CASE listEvent
    BY <2>1, <2>2, LoadOnward DEF listEvent, Reload
  <2> QED
    BY <2>1, <2>2 DEF replay, reconcile, otherCreates, otherRemoves, otherStatus, removesMe, statusEvent,
                      revokedEvent, resetAllStores, vars
<1>3. AddingAlone'
  BY <1>1, <1>2, AddingKept DEF Matched
<1> QED
  BY <1>1, <1>3 DEF Matched, RosterMatchesCrew

\* RosterMatchesCrew: switching, leaving, losing access and late answers never show one crew's
\* members under another, as long as the user starts nothing while a member is being added.
THEOREM RosterOfCrew ==
  ASSUME "forceAddMember" \in Ops => "forceAddMember" \in Alone
  PROVE  Spec => []RosterMatchesCrew
<1>1. Init => Matched
  BY NoneIsNot DEF Init, Matched, RosterMatchesCrew, AddingAlone, Adding, Open, Unused
<1>2. Types /\ Matched /\ [Next]_vars => Matched'
  <2> SUFFICES ASSUME Types, Matched, [Next]_vars
               PROVE  Matched'
    OBVIOUS
  <2>1. ASSUME NEW r \in Requests, Request(r)
        PROVE  Matched'
    BY <2>1, StartedMatched, SettledMatched, HandledMatched DEF Request
  <2> QED
    BY <2>1, OtherMatched DEF Next
<1>3. Matched => RosterMatchesCrew
  BY DEF Matched
<1> QED
  BY <1>1, <1>2, <1>3, Inductive, PTL DEF Spec

-----------------------------------------------------------------------------
(* Statuses.                                                               *)

\* What is kept of another member's status does not get older.
OtherKept == ~(status'.other.crew = status.other.crew /\ status'.other.at < status.other.at)

\* OthersNeverRegress: only a list of statuses that was loaded goes back to an older row of
\* another member; the rollback of an update keeps that row, and a delayed event is dropped.
THEOREM OthersAdvance == Spec => OthersNeverRegress
<1>1. Types /\ [Next]_vars
        => (status'.other.crew = status.other.crew /\ status'.other.at < status.other.at
              => \E r \in Requests : Answered(r, "loadStatuses") /\ req'[r].at = "done")
  <2> SUFFICES ASSUME Types, [Next]_vars
               PROVE  OtherKept \/ \E r \in Requests : Answered(r, "loadStatuses") /\ req'[r].at = "done"
    BY DEF OtherKept
  <2>1. /\ status.other.crew \in AllCrews \cup {None} /\ status.other.at \in Nat
        /\ status.other.crew = None => status.other.at = 0
    BY DEF Types, ShownOk, StatusRows, Row
  <2>2. ASSUME status'.other = status.other
        PROVE  OtherKept
    BY <2>1, <2>2 DEF OtherKept
  <2>3. ASSUME status' = NoStatuses
        PROVE  OtherKept
    BY <2>1, <2>3 DEF OtherKept, NoStatuses, NoStatus
  <2>4. status \in StatusRows
    BY DEF Types, ShownOk
  <2>5. ASSUME NEW r \in Requests, Request(r)
        PROVE  OtherKept \/ (Answered(r, "loadStatuses") /\ req'[r].at = "done")
    <3>1. CASE statusesLoaded(r)
      BY <3>1 DEF statusesLoaded, Done, Types, Unused
    <3>2. CASE updateMyStatus(r) \/ statusUpdated(r)
      BY <2>2, <2>4, <3>2 DEF updateMyStatus, statusUpdated, RolledBack, StatusRows
    <3>3. CASE selectCrew(r)
      BY <2>2, <2>3, <3>3 DEF selectCrew
    <3>4. CASE ~(statusesLoaded(r) \/ updateMyStatus(r) \/ statusUpdated(r) \/ selectCrew(r))
      <4>1. status' = status
        BY <2>5, <3>4 DEF Request, serve, fails, answerLost, selected, makeCrew, crewMade, manage, crewLeft,
              crewDeleted, memberAdded, load, loaded, createItem, created, createRefused, createQueued,
              deleteItem, deleted, loadStatuses, shown, list
      <4> QED
        BY <2>2, <4>1
    <3> QED
      BY <3>1, <3>2, <3>3, <3>4
  <2>6. ASSUME statusEvent
        PROVE  OtherKept
    <3>1. Head(events) \in Notice
      BY <2>6, HeadAndTail DEF statusEvent
    <3>2. Head(events).crew # None /\ Head(events).n \in Nat
      BY <3>1, NoneIsNot DEF Notice
    <3> QED
      BY <2>1, <2>2, <2>4, <2>6, <3>2 DEF statusEvent, Applied, OtherKept, StatusRows
  <2>7. ASSUME revokedEvent \/ resetAllStores
        PROVE  OtherKept
    BY <2>2, <2>3, <2>7 DEF revokedEvent, Revoked, resetAllStores, list
  <2>8. ASSUME \/ \E e \in Ids : replay(e) \/ reconcile(e)
               \/ otherCreates \/ otherRemoves \/ otherStatus \/ removesMe \/ listEvent
               \/ UNCHANGED vars
        PROVE  OtherKept
    BY <2>2, <2>8 DEF replay, reconcile, otherCreates, otherRemoves, otherStatus, removesMe, listEvent,
                      vars, shown
  <2> QED
    BY <2>5, <2>6, <2>7, <2>8 DEF Next
<1> QED
  BY <1>1, Inductive, PTL DEF Spec, OthersNeverRegress

=============================================================================
