---------------------------- MODULE Idempotency -----------------------------
(***************************************************************************)
(* The Idempotency-Key middleware of the API server (lib/middleware.ts),   *)
(* with the request timeout mounted in front of it.  A request carries a   *)
(* key; the first one with that key runs its handler, the others get its   *)
(* response.  Handlers are external: a handler performs its mutation at    *)
(* some point and then answers with a JSON body, or ends without one.      *)
(***************************************************************************)
EXTENDS Integers, FiniteSets, SequencesExt

CONSTANTS
  Requests,    \* HTTP requests, each with an Idempotency-Key
  IpOf,        \* the address it came from
  Keyings,     \* the ways in which clients may give the requests Idempotency-Keys
  None,        \* no entry, no response
  MaxEntries   \* maxEntries

Statuses == {"ok", "error", "timeout"}

CacheKeys == {<<IpOf[r], keying[r]>> : r \in Requests, keying \in Keyings}

EntryType == [key : CacheKeys, by : Requests, pending : BOOLEAN, status : Statuses \cup {None}]

ResponseType == [by : Requests, status : Statuses]

ASSUME RequestsAssumption ==
  /\ IsFiniteSet(Requests)
  /\ None \notin Requests /\ None \notin Statuses \cup {"null"}
  /\ None \notin EntryType /\ None \notin ResponseType
  /\ \A keying \in Keyings : DOMAIN keying = Requests
  /\ MaxEntries \in Nat \ {0}

VARIABLES
  key,      \* the Idempotency-Key of each request; it never changes
  cache,    \* Map: what it holds at a key, and its keys in the order of insertion
  st,       \* where a request is: new, waiting, running its handler, ended
  on,       \* the reservation a waiting request waits for
  settled,  \* how a request's reservation was released
  did,      \* the request's handler has performed its mutation
  conn,     \* its connection: open, response sent, closed by the client
  reply,    \* the response the client got: [by, status]
  dropped   \* history: keys whose slot was given up (eviction, ttl, no response)

vars == <<key, cache, st, on, settled, did, conn, reply, dropped>>

\* userAuth is mounted later, so req.user is not set here: the address is used.
CacheKey(r) == <<IpOf[r], key[r]>>

Init ==
  /\ key \in Keyings
  /\ cache = [at |-> [k \in CacheKeys |-> None], order |-> <<>>]
  /\ st = [r \in Requests |-> "new"] /\ on = [r \in Requests |-> None]
  /\ settled = [r \in Requests |-> None]
  /\ did = [r \in Requests |-> FALSE] /\ conn = [r \in Requests |-> "open"]
  /\ reply = [r \in Requests |-> None] /\ dropped = {}

-----------------------------------------------------------------------------
(* The cache: a Map, whose keys keep the place of their first insertion.   *)

Has(m, k) == m.at[k] # None

\* Mutant: a reservation is not marked pending.
set_NotPending(m, e) ==
  [m EXCEPT !.at[e.key] = [e EXCEPT !.pending = FALSE],
            !.order = IF Has(m, e.key) THEN @ ELSE Append(@, e.key)]

set(m, e) ==
  [m EXCEPT !.at[e.key] = e, !.order = IF Has(m, e.key) THEN @ ELSE Append(@, e.key)]

delete(m, k) ==
  [m EXCEPT !.at[k] = None, !.order = RemoveFirst(@, k)]

Reservation(r) == [key |-> CacheKey(r), by |-> r, pending |-> TRUE, status |-> None]

Record(r, s) == [key |-> CacheKey(r), by |-> r, pending |-> FALSE, status |-> s]

\* At maxEntries the oldest key goes, whatever it holds.
evictOldest(m) == IF Len(m.order) < MaxEntries THEN m ELSE delete(m, Head(m.order))

\* The reservation in the slot is r's.
Owns(r) == Has(cache, CacheKey(r)) /\ cache.at[CacheKey(r)] = Reservation(r)

NoteDropped == dropped' = dropped \cup {k \in CacheKeys : Has(cache, k) /\ ~Has(cache', k)}

-----------------------------------------------------------------------------
\* Mutant: the slot is only filled when the response is known.
run_NoReservation(r) ==
  /\ st' = [st EXCEPT ![r] = "run"]
  /\ UNCHANGED <<cache, settled, did, conn, reply, dropped>>

\* run(): reserve the slot, then call the handler.
run(r) ==
  /\ cache' = set(cache, Reservation(r))
  /\ st' = [st EXCEPT ![r] = "run"]
  /\ UNCHANGED <<settled, did, conn, reply, dropped>>

\* The response reaches a client that is there and has none yet.
answer(r, by, s) ==
  IF conn[r] = "open"
  THEN /\ reply' = [reply EXCEPT ![r] = [by |-> by, status |-> s]]
       /\ conn' = [conn EXCEPT ![r] = "sent"]
  ELSE UNCHANGED <<reply, conn>>

\* Promise callbacks run before the next event: no released waiter is still to go on.
Quiet == \A r \in Requests : st[r] = "wait" => settled[on[r]] = None

\* The middleware: a free key runs, a record is replayed, a reservation is
\* waited for.
middleware(r) ==
  /\ st[r] = "new" /\ Quiet
  /\ LET e == cache.at[CacheKey(r)] IN
       \/ e = None /\ run(r) /\ UNCHANGED on
       \/ /\ e # None /\ ~e.pending
          /\ answer(r, e.by, e.status)
          /\ st' = [st EXCEPT ![r] = "end"]
          /\ UNCHANGED <<cache, on, settled, did, dropped>>
       \/ /\ e # None /\ e.pending
          /\ st' = [st EXCEPT ![r] = "wait"]
          /\ on' = [on EXCEPT ![r] = e.by]
          /\ UNCHANGED <<cache, settled, did, conn, reply, dropped>>

\* settled.then: replay the outcome, or run if there was none.  Nobody asks
\* whether this request's own client is still there.
wake(r) ==
  /\ st[r] = "wait" /\ settled[on[r]] # None
  /\ UNCHANGED on
  /\ \/ settled[on[r]] = "null" /\ run(r)
     \/ /\ settled[on[r]] # "null"
        /\ answer(r, on[r], settled[on[r]])
        /\ st' = [st EXCEPT ![r] = "end"]
        /\ UNCHANGED <<cache, settled, did, dropped>>

\* Mutant: waiters are not woken by a response.
release_Never(r, v) == UNCHANGED settled

\* release(): only the first call counts.
release(r, v) ==
  settled' = IF settled[r] = None THEN [settled EXCEPT ![r] = v] ELSE settled

\* The wrapped res.json: evict, cache the response, wake the waiters, send.
json(r, s) ==
  /\ cache' = set(evictOldest(cache), Record(r, s))
  /\ NoteDropped
  /\ release(r, s)
  /\ answer(r, r, s)

mutate(r) ==
  /\ st[r] = "run" /\ ~did[r]
  /\ did' = [did EXCEPT ![r] = TRUE]
  /\ UNCHANGED <<cache, st, on, settled, conn, reply, dropped>>

\* The handler answers: success after its mutation, an error before or after.
handlerAnswers(r, s) ==
  /\ st[r] = "run" /\ (s = "ok" => did[r])
  /\ json(r, s)
  /\ st' = [st EXCEPT ![r] = "end"]
  /\ UNCHANGED <<on, did>>

\* Mutant: the reservation stays behind.
onEnd_KeepsSlot(r) == release(r, "null") /\ UNCHANGED cache

\* onEnd: the response is over and there was no JSON body.
onEnd(r) ==
  /\ release(r, "null")
  /\ cache' = IF settled[r] = None /\ Owns(r) THEN delete(cache, CacheKey(r)) ELSE cache

\* The client hangs up.  Only a running request listens for it, and its
\* handler goes on.
close(r) ==
  /\ st[r] \in {"wait", "run"} /\ conn[r] = "open" /\ Quiet
  /\ conn' = [conn EXCEPT ![r] = "closed"]
  /\ IF st[r] = "run" THEN onEnd(r) ELSE UNCHANGED <<cache, settled>>
  /\ NoteDropped
  /\ UNCHANGED <<st, on, did, reply>>

\* sendError(res, 408): through the wrapped res.json if the handler runs.
\* Timers fire in the order they were set, and the request a waiter waits for
\* arrived before it: its timer fires first, unless its client has gone.
timeout(r) ==
  /\ st[r] \in {"wait", "run"} /\ conn[r] = "open" /\ Quiet
  /\ st[r] = "wait" => conn[on[r]] # "open"
  /\ IF st[r] = "run" THEN json(r, "timeout")
     ELSE answer(r, r, "timeout") /\ UNCHANGED <<cache, settled, dropped>>
  /\ UNCHANGED <<st, on, did>>

\* The handler throws after its 408 was sent: the error handler of server.ts
\* returns when the headers are sent.
handlerEnds(r) ==
  /\ st[r] = "run" /\ conn[r] = "sent"
  /\ st' = [st EXCEPT ![r] = "end"]
  /\ UNCHANGED <<cache, on, settled, did, conn, reply, dropped>>

\* The timer: an entry older than ttl goes, a reservation too.  Ages are left open: any
\* entry may have passed its ttl.
sweep(k) ==
  /\ Has(cache, k) /\ Quiet
  /\ cache' = delete(cache, k)
  /\ NoteDropped
  /\ UNCHANGED <<st, on, settled, did, conn, reply>>

Next ==
  /\ UNCHANGED key
  /\ \/ \E r \in Requests :
          \/ middleware(r) \/ wake(r) \/ mutate(r) \/ close(r) \/ timeout(r)
          \/ handlerEnds(r)
          \/ \E s \in {"ok", "error"} : handlerAnswers(r, s)
     \/ \E k \in CacheKeys : sweep(k)

Spec == Init /\ [][Next]_vars

\* The event loop runs resolved promises, and the request timer fires for a
\* request that has no response yet.  Handlers may hang for ever.
FairSpec ==
  Spec /\ \A r \in Requests :
            WF_vars(UNCHANGED key /\ wake(r)) /\ WF_vars(UNCHANGED key /\ timeout(r))

-----------------------------------------------------------------------------
(* Properties.                                                             *)

\* Every variable holds a value of its type.
TypeOK ==
  /\ key \in Keyings
  /\ cache \in [at : [CacheKeys -> EntryType \cup {None}], order : Seq(CacheKeys)]
  /\ st \in [Requests -> {"new", "wait", "run", "end"}]
  /\ on \in [Requests -> Requests \cup {None}]
  /\ settled \in [Requests -> Statuses \cup {"null", None}]
  /\ did \in [Requests -> BOOLEAN] /\ conn \in [Requests -> {"open", "sent", "closed"}]
  /\ reply \in [Requests -> ResponseType \cup {None}]
  /\ dropped \subseteq CacheKeys

\* A key is executed a second time only after its slot was given up: while the slot stands
\* duplicates never run, however they, a disconnect or a timeout interleave, and each that is
\* not told "timeout" gets the response of the one execution, also when that came after its own
\* requester's timeout.
ExecutedOnce ==
  \A r, s \in Requests :
    r # s /\ CacheKey(r) = CacheKey(s) /\ CacheKey(r) \notin dropped =>
      /\ ~(did[r] /\ did[s])
      /\ reply[r] # None /\ reply[s] # None =>
           reply[r] = reply[s] \/ "timeout" \in {reply[r].status, reply[s].status}

\* A pending reservation belongs to a request whose handler runs and whose
\* waiters have not been woken: no key is blocked by a request that has ended.
NoOrphanReservation ==
  \A k \in CacheKeys : Has(cache, k) /\ cache.at[k].pending =>
    st[cache.at[k].by] = "run" /\ settled[cache.at[k].by] = None

\* No client waits for ever for another request's outcome, even behind a handler that
\* never answers; and a waiter goes on once the request it waits for has been answered or
\* has ended, in whatever way.
WaitersAreReleased ==
  \A r \in Requests :
    /\ st[r] = "wait" ~> st[r] # "wait" \/ conn[r] # "open"
    /\ st[r] = "wait" /\ (st[on[r]] = "end" \/ conn[on[r]] = "sent") ~> st[r] # "wait"
=============================================================================
