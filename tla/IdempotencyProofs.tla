-------------------------- MODULE IdempotencyProofs --------------------------
(***************************************************************************)
(* Proofs about Idempotency, for any finite set of requests, addresses,    *)
(* keys and any size of the cache.                                         *)
(***************************************************************************)
EXTENDS Idempotency, TLAPS, WellFoundedInduction

CacheType == [at : [CacheKeys -> EntryType \cup {None}], order : Seq(CacheKeys)]

\* A request that has not reached the middleware has left no trace.
NewIsUntouched ==
  \A r \in Requests : st[r] = "new" =>
    conn[r] = "open" /\ ~did[r] /\ settled[r] = None /\ reply[r] = None

\* What is in a slot is what run() or json() put there for a request with that key.
Fits(e, k) ==
  \E r \in Requests :
    /\ CacheKey(r) = k
    /\ e = Reservation(r) \/ \E s \in Statuses : e = Record(r, s)

EntriesFit == \A k \in CacheKeys : Has(cache, k) => Fits(cache.at[k], k)

\* A waiter waits for another request, and holds no reservation.  One that has been told
\* "timeout" waits for a request that will not be released with null.
WaitersWait ==
  \A r \in Requests : st[r] = "wait" =>
    /\ on[r] \in Requests \ {r} /\ settled[r] = None
    /\ conn[r] = "sent" => conn[on[r]] # "open" /\ settled[on[r]] # "null"

\* A handler whose client has a response has released its waiters.
AnsweredIsSettled == \A r \in Requests : st[r] = "run" /\ conn[r] = "sent" => settled[r] # None

\* Request b, whose entry e is in the slot: it runs, or has answered; only a 408 can be
\* overtaken by another answer.
Executor(b, e) ==
  \/ /\ e.pending /\ st[b] = "run" /\ settled[b] = None /\ conn[b] = "open" /\ reply[b] = None
  \/ /\ ~e.pending /\ e.status \in Statuses /\ settled[b] \in {e.status, "timeout"}
     /\ \/ st[b] = "end"
        \/ st[b] = "run" /\ e.status = "timeout" /\ conn[b] = "sent"
     /\ reply[b] # None =>
          reply[b].status = "timeout" \/ reply[b] = [by |-> b, status |-> e.status]

\* Any other request with that key: it never ran, and was told "timeout" or what e records.
Bystander(r, e) ==
  /\ st[r] \in {"new", "wait", "end"} /\ ~did[r] /\ settled[r] = None
  /\ st[r] = "wait" => on[r] = e.by
  /\ reply[r] # None =>
       \/ reply[r].status = "timeout"
       \/ ~e.pending /\ reply[r] = [by |-> e.by, status |-> e.status]

\* A slot that was not given up: one request executes, and without an entry none has arrived.
SlotOk(k) ==
  IF Has(cache, k)
  THEN /\ Executor(cache.at[k].by, cache.at[k])
       /\ \A r \in Requests \ {cache.at[k].by} : CacheKey(r) = k => Bystander(r, cache.at[k])
  ELSE \A r \in Requests : CacheKey(r) = k => st[r] = "new"

SlotsOk == \A k \in CacheKeys \ dropped : SlotOk(k)

IInv ==
  /\ TypeOK /\ NewIsUntouched /\ EntriesFit /\ WaitersWait /\ AnsweredIsSettled
  /\ NoOrphanReservation /\ SlotsOk

-----------------------------------------------------------------------------
(* Sequences.                                                              *)

\* A set of numbers that is not empty has a least element.
LEMMA MinOf ==
  ASSUME NEW I, I \subseteq Nat, I # {}
  PROVE  Min(I) \in I
<1> DEFINE R == {ss \in Nat \X Nat : ss[1] < ss[2]}
<1>1. IsWellFoundedOn(R, Nat)
  BY NatLessThanWellFounded DEF OpToRel
<1>2. \E x \in I : \A y \in I : ~ (<<y, x>> \in R)
  <2> HIDE DEF R
  <2> QED
    BY <1>1, WFMin
<1>3. PICK x \in I : \A y \in I : ~ (<<y, x>> \in R)
  BY <1>2
<1>4. \A y \in I : x =< y
  <2> TAKE y \in I
  <2>1. x \in Nat /\ y \in Nat
    OBVIOUS
  <2>2. ~ (y < x)
    BY <2>1, <1>3
  <2> QED
    BY <2>1, <2>2
<1> QED
  BY <1>4 DEF Min

\* Removing an element leaves a sequence of the others.
LEMMA RemoveFirstType ==
  ASSUME NEW S, NEW s \in Seq(S), NEW e
  PROVE  RemoveFirst(s, e) \in Seq(S)
<1>1. CASE \E i \in 1..Len(s) : s[i] = e
  <2> DEFINE I == {i \in 1..Len(s) : s[i] = e}
  <2>1. Min(I) \in 1..Len(s)
    <3>1. I \subseteq Nat /\ I # {} /\ I \subseteq 1..Len(s)
      BY <1>1
    <3> HIDE DEF I
    <3> QED
      BY <3>1, MinOf
  <2>2. RemoveFirst(s, e) = RemoveAt(s, Min(I))
    BY <1>1 DEF RemoveFirst, SelectInSeq
  <2> HIDE DEF I
  <2>3. SubSeq(s, 1, Min(I) - 1) \in Seq(S) /\ SubSeq(s, Min(I) + 1, Len(s)) \in Seq(S)
    BY <2>1
  <2> QED
    BY <2>2, <2>3 DEF RemoveAt
<1>2. CASE ~ \E i \in 1..Len(s) : s[i] = e
  BY <1>2 DEF RemoveFirst
<1> QED
  BY <1>1, <1>2

-----------------------------------------------------------------------------
(* The cache.                                                              *)

\* A request's key is one of the cache's.
LEMMA KeyOfRequest ==
  ASSUME key \in Keyings, NEW r \in Requests
  PROVE  CacheKey(r) \in CacheKeys
BY DEF CacheKey, CacheKeys

\* set() fills the slot of the entry's key and touches no other.
LEMMA SetFills ==
  ASSUME NEW m \in CacheType, NEW e \in EntryType
  PROVE  set(m, e) \in CacheType /\ set(m, e).at = [m.at EXCEPT ![e.key] = e]
<1>1. e.key \in CacheKeys /\ m.at \in [CacheKeys -> EntryType \cup {None}] /\ m.order \in Seq(CacheKeys)
  BY DEF EntryType, CacheType
<1>2. Append(m.order, e.key) \in Seq(CacheKeys)
  BY <1>1
<1>3. [m.at EXCEPT ![e.key] = e] \in [CacheKeys -> EntryType \cup {None}]
  BY <1>1
<1> QED
  BY <1>1, <1>2, <1>3 DEF set, CacheType

\* delete() empties one slot.
LEMMA DeleteEmpties ==
  ASSUME NEW m \in CacheType, NEW k \in CacheKeys
  PROVE  delete(m, k) \in CacheType /\ delete(m, k).at = [m.at EXCEPT ![k] = None]
<1>1. m.at \in [CacheKeys -> EntryType \cup {None}] /\ m.order \in Seq(CacheKeys)
  BY DEF CacheType
<1>2. RemoveFirst(m.order, k) \in Seq(CacheKeys)
  BY <1>1, RemoveFirstType
<1>3. [m.at EXCEPT ![k] = None] \in [CacheKeys -> EntryType \cup {None}]
  BY <1>1
<1> QED
  BY <1>1, <1>2, <1>3 DEF delete, CacheType

\* evictOldest() empties slots and fills none.
LEMMA EvictEmpties ==
  ASSUME NEW m \in CacheType
  PROVE  /\ evictOldest(m) \in CacheType
         /\ \A k \in CacheKeys : evictOldest(m).at[k] \in {None, m.at[k]}
<1>1. CASE Len(m.order) < MaxEntries
  BY <1>1 DEF evictOldest
<1>2. CASE ~ (Len(m.order) < MaxEntries)
  <2>1. m.order \in Seq(CacheKeys) /\ m.at \in [CacheKeys -> EntryType \cup {None}]
    BY DEF CacheType
  <2>2. m.order # <<>>
    BY <1>2, <2>1, RequestsAssumption
  <2>3. Head(m.order) \in CacheKeys
    BY <2>1, <2>2
  <2>4. evictOldest(m) = delete(m, Head(m.order))
    BY <1>2 DEF evictOldest
  <2>5. /\ delete(m, Head(m.order)) \in CacheType
        /\ delete(m, Head(m.order)).at = [m.at EXCEPT ![Head(m.order)] = None]
    BY <2>3, DeleteEmpties
  <2>6. \A k \in CacheKeys : [m.at EXCEPT ![Head(m.order)] = None][k] \in {None, m.at[k]}
    BY <2>1
  <2> QED
    BY <2>4, <2>5, <2>6
<1> QED
  BY <1>1, <1>2

-----------------------------------------------------------------------------
(* What the parts of an action do, slot by slot and request by request.    *)

LEMMA TypeOfCache == TypeOK => cache \in CacheType
BY DEF TypeOK, CacheType

\* A reservation and a record are entries of the request's slot.
LEMMA EntryTypes ==
  ASSUME TypeOK, NEW r \in Requests, NEW s \in Statuses
  PROVE  /\ Reservation(r) \in EntryType /\ Reservation(r).key = CacheKey(r)
         /\ Record(r, s) \in EntryType /\ Record(r, s).key = CacheKey(r)
<1>1. CacheKey(r) \in CacheKeys
  BY KeyOfRequest DEF TypeOK
<1> QED
  BY <1>1 DEF Reservation, Record, EntryType

\* run() reserves the slot.
LEMMA RunReserves ==
  ASSUME TypeOK, NEW r \in Requests, run(r)
  PROVE  /\ cache' \in CacheType
         /\ cache'.at = [cache.at EXCEPT ![CacheKey(r)] = Reservation(r)]
<1>1. Reservation(r) \in EntryType /\ Reservation(r).key = CacheKey(r)
  BY EntryTypes DEF Statuses
<1> QED
  BY <1>1, SetFills, TypeOfCache DEF run

\* json() records the response; other slots keep what they hold or are emptied.
LEMMA JsonRecords ==
  ASSUME TypeOK, NEW r \in Requests, NEW s \in Statuses, json(r, s)
  PROVE  /\ cache' \in CacheType
         /\ cache'.at[CacheKey(r)] = Record(r, s)
         /\ \A k \in CacheKeys \ {CacheKey(r)} : cache'.at[k] \in {None, cache.at[k]}
<1> DEFINE m == evictOldest(cache)
<1>1. m \in CacheType /\ \A k \in CacheKeys : m.at[k] \in {None, cache.at[k]}
  BY TypeOfCache, EvictEmpties
<1>2. Record(r, s) \in EntryType /\ Record(r, s).key = CacheKey(r)
  BY EntryTypes
<1>3. cache' = set(m, Record(r, s))
  BY DEF json
<1> HIDE DEF m
<1>4. cache' \in CacheType /\ cache'.at = [m.at EXCEPT ![CacheKey(r)] = Record(r, s)]
  BY <1>1, <1>2, <1>3, SetFills
<1>5. m.at \in [CacheKeys -> EntryType \cup {None}] /\ CacheKey(r) \in CacheKeys
  BY <1>1, KeyOfRequest DEF CacheType, TypeOK
<1> QED
  BY <1>1, <1>4, <1>5

\* release() settles a reservation once.
LEMMA ReleaseSettles ==
  ASSUME TypeOK, NEW r \in Requests, NEW v, release(r, v)
  PROVE  settled' = [settled EXCEPT ![r] = IF settled[r] = None THEN v ELSE settled[r]]
BY DEF release, TypeOK

\* answer() reaches a client that has no response and is there.
LEMMA AnswerSends ==
  ASSUME TypeOK, NEW r \in Requests, NEW by, NEW s, answer(r, by, s)
  PROVE  /\ conn' = [conn EXCEPT ![r] = IF conn[r] = "open" THEN "sent" ELSE conn[r]]
         /\ reply' = [reply EXCEPT ![r] = IF conn[r] = "open" THEN [by |-> by, status |-> s]
                                          ELSE reply[r]]
BY DEF answer, TypeOK

\* onEnd() empties at most the slot that the request has reserved.
LEMMA OnEndFrees ==
  ASSUME TypeOK, NEW r \in Requests, onEnd(r)
  PROVE  /\ cache' \in CacheType
         /\ settled' = [settled EXCEPT ![r] = IF settled[r] = None THEN "null" ELSE settled[r]]
         /\ \A k \in CacheKeys : cache'.at[k] \in {None, cache.at[k]}
         /\ settled[r] = None /\ cache.at[CacheKey(r)] = Reservation(r)
              => cache'.at[CacheKey(r)] = None
<1>1. settled' = [settled EXCEPT ![r] = IF settled[r] = None THEN "null" ELSE settled[r]]
  BY ReleaseSettles DEF onEnd
<1>2. CacheKey(r) \in CacheKeys /\ cache \in CacheType
  BY KeyOfRequest, TypeOfCache DEF TypeOK
<1>3. /\ delete(cache, CacheKey(r)) \in CacheType
      /\ delete(cache, CacheKey(r)).at = [cache.at EXCEPT ![CacheKey(r)] = None]
  BY <1>2, DeleteEmpties
<1>4. cache.at \in [CacheKeys -> EntryType \cup {None}]
  BY <1>2 DEF CacheType
<1>5. cache' = IF settled[r] = None /\ Owns(r) THEN delete(cache, CacheKey(r)) ELSE cache
  BY DEF onEnd
<1>6. cache.at[CacheKey(r)] = Reservation(r) => Owns(r)
  <2>1. Reservation(r) \in EntryType
    BY EntryTypes DEF Statuses
  <2> QED
    BY <2>1, RequestsAssumption DEF Owns, Has
<1> QED
  BY <1>1, <1>2, <1>3, <1>4, <1>5, <1>6

-----------------------------------------------------------------------------
(* Steps of one request: what it takes to keep each part of the invariant. *)

\* Only request r moves.
Moves(r) ==
  /\ key' = key
  /\ \A q \in Requests \ {r} :
       /\ st'[q] = st[q] /\ on'[q] = on[q] /\ settled'[q] = settled[q]
       /\ did'[q] = did[q] /\ conn'[q] = conn[q] /\ reply'[q] = reply[q]

\* An entry that fits its slot, field by field.
LEMMA FitFields ==
  ASSUME EntriesFit, NEW k \in CacheKeys, Has(cache, k)
  PROVE  /\ cache.at[k].by \in Requests /\ CacheKey(cache.at[k].by) = k
         /\ cache.at[k].pending \in BOOLEAN
         /\ cache.at[k].pending => cache.at[k] = Reservation(cache.at[k].by)
         /\ ~cache.at[k].pending => cache.at[k].status \in Statuses
<1>1. PICK r \in Requests :
        /\ CacheKey(r) = k
        /\ cache.at[k] = Reservation(r) \/ \E s \in Statuses : cache.at[k] = Record(r, s)
  BY DEF EntriesFit, Fits
<1>2. Reservation(r).by = r /\ Reservation(r).pending = TRUE
  BY DEF Reservation
<1>3. \A s \in Statuses : Record(r, s).by = r /\ Record(r, s).pending = FALSE /\ Record(r, s).status = s
  BY DEF Record
<1>4. CASE cache.at[k] = Reservation(r)
  BY <1>1, <1>2, <1>4
<1>5. CASE \E s \in Statuses : cache.at[k] = Record(r, s)
  BY <1>1, <1>3, <1>5
<1> QED
  BY <1>1, <1>4, <1>5

\* Slots are kept, emptied, or filled by request r.
LEMMA FitStep ==
  ASSUME EntriesFit, NEW r \in Requests, key' = key,
         \A k \in CacheKeys :
           \/ cache'.at[k] \in {None, cache.at[k]}
           \/ /\ k = CacheKey(r)
              /\ cache'.at[k] = Reservation(r) \/ \E s \in Statuses : cache'.at[k] = Record(r, s)
  PROVE  EntriesFit'
<1> SUFFICES ASSUME NEW k \in CacheKeys', Has(cache, k)'
             PROVE  Fits(cache.at[k], k)'
  BY DEF EntriesFit
<1>1. k \in CacheKeys
  BY DEF CacheKeys
<1>2. \A q : CacheKey(q)' = CacheKey(q) /\ Reservation(q)' = Reservation(q)
  BY DEF CacheKey, Reservation
<1>3. \A q, s : Record(q, s)' = Record(q, s)
  BY DEF CacheKey, Record
<1>4. CASE cache'.at[k] = cache.at[k]
  BY <1>1, <1>2, <1>3, <1>4 DEF EntriesFit, Fits, Has
<1>5. CASE cache'.at[k] # cache.at[k]
  BY <1>1, <1>2, <1>3, <1>5 DEF Fits, Has
<1> QED
  BY <1>4, <1>5

\* A request that moves is no longer new.
LEMMA NewStep ==
  ASSUME NewIsUntouched, NEW r \in Requests, Moves(r), st'[r] # "new"
  PROVE  NewIsUntouched'
BY DEF NewIsUntouched, Moves

\* Those who wait for r go on waiting for it.
LEMMA WaitStep ==
  ASSUME TypeOK, WaitersWait, NEW r \in Requests, Moves(r),
         conn[r] # "open" /\ settled[r] # "null" => conn'[r] # "open" /\ settled'[r] # "null",
         st'[r] = "wait" =>
           /\ on'[r] \in Requests \ {r} /\ settled'[r] = None
           /\ conn'[r] = "sent" => conn[on'[r]] # "open" /\ settled[on'[r]] # "null"
  PROVE  WaitersWait'
<1> SUFFICES ASSUME NEW q \in Requests, st'[q] = "wait"
             PROVE  /\ on'[q] \in Requests \ {q} /\ settled'[q] = None
                    /\ conn'[q] = "sent" => conn'[on'[q]] # "open" /\ settled'[on'[q]] # "null"
  BY DEF WaitersWait
<1>1. CASE q = r
  BY <1>1 DEF Moves
<1>2. CASE q # r
  <2>1. /\ on[q] \in Requests \ {q} /\ settled[q] = None
        /\ conn[q] = "sent" => conn[on[q]] # "open" /\ settled[on[q]] # "null"
    BY <1>2 DEF WaitersWait, Moves
  <2>2. on'[q] = on[q] /\ settled'[q] = settled[q] /\ conn'[q] = conn[q]
    BY <1>2 DEF Moves
  <2>3. CASE on[q] = r
    BY <2>1, <2>2, <2>3
  <2>4. CASE on[q] # r
    BY <2>1, <2>2, <2>4 DEF Moves
  <2> QED
    BY <2>3, <2>4
<1> QED
  BY <1>1, <1>2

LEMMA AnsweredStep ==
  ASSUME AnsweredIsSettled, NEW r \in Requests, Moves(r),
         st'[r] = "run" /\ conn'[r] = "sent" => settled'[r] # None
  PROVE  AnsweredIsSettled'
BY DEF AnsweredIsSettled, Moves

\* Reservations are kept for others; what r reserves, it reserves running and unsettled.
LEMMA OrphanStep ==
  ASSUME EntriesFit, NoOrphanReservation, NEW r \in Requests, Moves(r),
         \A k \in CacheKeys \ {CacheKey(r)} : cache'.at[k] \in {None, cache.at[k]},
         \/ cache'.at[CacheKey(r)] = None
         \/ ~cache'.at[CacheKey(r)].pending
         \/ cache'.at[CacheKey(r)] = cache.at[CacheKey(r)] /\ cache.at[CacheKey(r)].by # r
         \/ /\ cache'.at[CacheKey(r)] = Reservation(r) \/ cache'.at[CacheKey(r)] = cache.at[CacheKey(r)]
            /\ st'[r] = "run" /\ settled'[r] = None
  PROVE  NoOrphanReservation'
<1> SUFFICES ASSUME NEW k \in CacheKeys', Has(cache, k)', cache'.at[k].pending
             PROVE  st'[cache'.at[k].by] = "run" /\ settled'[cache'.at[k].by] = None
  BY DEF NoOrphanReservation
<1>1. k \in CacheKeys
  BY DEF CacheKeys
<1>2. CASE cache'.at[k] = cache.at[k] /\ cache.at[k].by # r
  <2>1. Has(cache, k)
    BY <1>2 DEF Has
  <2>2. /\ cache.at[k].by \in Requests \ {r}
        /\ st[cache.at[k].by] = "run" /\ settled[cache.at[k].by] = None
    BY <1>1, <1>2, <2>1, FitFields DEF NoOrphanReservation
  <2> QED
    BY <1>2, <2>2 DEF Moves
<1>3. CASE k = CacheKey(r) /\ ~(cache'.at[k] = cache.at[k] /\ cache.at[k].by # r)
  <2>1. cache'.at[k] = Reservation(r) => cache'.at[k].by = r
    BY DEF Reservation
  <2> QED
    BY <1>3, <2>1 DEF Has
<1>4. CASE k # CacheKey(r)
  <2>1. cache'.at[k] = cache.at[k] /\ Has(cache, k)
    BY <1>1, <1>4 DEF Has
  <2>2. cache.at[k].by # r
    BY <1>1, <1>4, <2>1, FitFields
  <2> QED
    BY <1>2, <2>1, <2>2
<1> QED
  BY <1>2, <1>3, <1>4

\* The slots of other keys: a slot that is not given up keeps its entry.
LEMMA OtherSlots ==
  ASSUME TypeOK, EntriesFit, SlotsOk, NEW r \in Requests, Moves(r), dropped \subseteq dropped',
         NEW k \in CacheKeys \ dropped', k # CacheKey(r), cache'.at[k] = cache.at[k]
  PROVE  SlotOk(k)'
<1>1. SlotOk(k)
  BY DEF SlotsOk
<1>2. \A q : CacheKey(q)' = CacheKey(q)
  BY DEF CacheKey, Moves
<1>3. CASE Has(cache, k)
  <2>1. cache.at[k].by \in Requests \ {r}
    BY <1>3, FitFields
  <2>2. Has(cache, k)'
    BY <1>3 DEF Has
  <2>3. Executor(cache.at[k].by, cache.at[k])'
    <3>1. Executor(cache.at[k].by, cache.at[k])
      BY <1>1, <1>3 DEF SlotOk
    <3> QED
      BY <2>1, <3>1 DEF Executor, Moves
  <2>4. ASSUME NEW q \in Requests \ {cache.at[k].by}, CacheKey(q) = k
        PROVE  Bystander(q, cache.at[k])'
    <3>1. Bystander(q, cache.at[k])
      BY <1>1, <1>3, <2>4 DEF SlotOk
    <3> QED
      BY <2>4, <3>1 DEF Bystander, Moves
  <2> QED
    BY <1>2, <2>2, <2>3, <2>4 DEF SlotOk
<1>4. CASE ~Has(cache, k)
  BY <1>1, <1>2, <1>4 DEF SlotOk, Has, Moves
<1> QED
  BY <1>3, <1>4

-----------------------------------------------------------------------------
(* The actions.                                                            *)

\* What the invariant says of a request's own slot, when it was not given up.
LEMMA OwnSlot ==
  ASSUME IInv, NEW r \in Requests, CacheKey(r) \notin dropped
  PROVE  /\ CacheKey(r) \in CacheKeys
         /\ SlotOk(CacheKey(r))
         /\ st[r] # "new" => Has(cache, CacheKey(r))
<1>1. CacheKey(r) \in CacheKeys
  BY KeyOfRequest DEF IInv, TypeOK
<1>2. SlotOk(CacheKey(r))
  BY <1>1 DEF IInv, SlotsOk
<1> QED
  BY <1>1, <1>2 DEF SlotOk

\* run(): in a slot that was not given up, there is nothing yet.
LEMMA RunStep ==
  ASSUME IInv, NEW r \in Requests, key' = key, UNCHANGED on, run(r),
         st[r] # "run", settled[r] = None, conn[r] # "sent",
         CacheKey(r) \notin dropped => ~Has(cache, CacheKey(r))
  PROVE  IInv'
<1> USE DEF IInv
<1>1. /\ cache' \in CacheType
      /\ cache'.at = [cache.at EXCEPT ![CacheKey(r)] = Reservation(r)]
  BY RunReserves
<1>2. CacheKey(r) \in CacheKeys /\ Reservation(r) \in EntryType /\ Reservation(r) # None
  BY KeyOfRequest, EntryTypes, RequestsAssumption DEF TypeOK, Statuses
<1>3. /\ cache'.at[CacheKey(r)] = Reservation(r)
      /\ \A k \in CacheKeys \ {CacheKey(r)} : cache'.at[k] = cache.at[k]
  BY <1>1, <1>2, TypeOfCache DEF CacheType
<1>4. st' = [st EXCEPT ![r] = "run"] /\ UNCHANGED <<settled, did, conn, reply, dropped>>
  BY DEF run
<1>5. Moves(r) /\ st'[r] = "run"
  BY <1>4 DEF Moves, TypeOK
<1>6. TypeOK'
  BY <1>1, <1>4 DEF TypeOK, CacheType
<1>7. NewIsUntouched'
  BY <1>5, NewStep
<1>8. EntriesFit'
  BY <1>3, FitStep
<1>9. WaitersWait'
  BY <1>4, <1>5, WaitStep
<1>10. AnsweredIsSettled'
  BY <1>4, <1>5, AnsweredStep
<1>11. NoOrphanReservation'
  BY <1>3, <1>4, <1>5, OrphanStep
<1>12. SlotsOk'
  <2> SUFFICES ASSUME NEW k \in CacheKeys \ dropped
               PROVE  SlotOk(k)'
    BY <1>4 DEF SlotsOk, CacheKeys
  <2>1. CASE k # CacheKey(r)
    BY <2>1, <1>3, <1>4, <1>5, OtherSlots
  <2>2. CASE k = CacheKey(r)
    <3>1. \A q \in Requests : CacheKey(q) = k => st[q] = "new"
      BY <2>2, OwnSlot DEF SlotOk
    <3>2. \A q \in Requests : CacheKey(q)' = CacheKey(q)
      BY DEF CacheKey
    <3>3. Reservation(r).by = r /\ Reservation(r).pending = TRUE
      BY DEF Reservation
    <3>4. Executor(r, Reservation(r))'
      <4>1. reply[r] = None /\ conn[r] = "open"
        BY <2>2, <3>1 DEF NewIsUntouched
      <4>2. Reservation(r)'.pending = TRUE
        BY DEF Reservation
      <4> QED
        BY <1>4, <1>5, <4>1, <4>2 DEF Executor
    <3>5. ASSUME NEW q \in Requests \ {r}, CacheKey(q) = k
          PROVE  Bystander(q, Reservation(r))'
      <4>1. st[q] = "new" /\ ~did[q] /\ settled[q] = None /\ reply[q] = None
        BY <3>1, <3>5 DEF NewIsUntouched
      <4> QED
        BY <1>5, <4>1 DEF Bystander, Moves
    <3>6. Reservation(r)' = Reservation(r) /\ Has(cache, k)'
      BY <1>2, <1>3, <2>2 DEF Reservation, CacheKey, Has
    <3> QED
      BY <1>3, <2>2, <3>2, <3>3, <3>4, <3>5, <3>6 DEF SlotOk
  <2> QED
    BY <2>1, <2>2
<1> QED
  BY <1>6, <1>7, <1>8, <1>9, <1>10, <1>11, <1>12

\* A replay: the outcome in the slot of a request that runs or has run reaches another one.
LEMMA ReplayStep ==
  ASSUME IInv, NEW r \in Requests, NEW b \in Requests, NEW s \in Statuses, key' = key,
         answer(r, b, s), st' = [st EXCEPT ![r] = "end"], UNCHANGED <<cache, on, settled, did, dropped>>,
         st[r] \in {"new", "wait"},
         CacheKey(r) \notin dropped =>
           LET e == cache.at[CacheKey(r)]
           IN  /\ Has(cache, CacheKey(r)) /\ e.by = b /\ ~e.pending
               /\ s \in {e.status, "timeout"}
  PROVE  IInv'
<1> USE DEF IInv
<1>1. /\ conn' = [conn EXCEPT ![r] = IF conn[r] = "open" THEN "sent" ELSE conn[r]]
      /\ reply' = [reply EXCEPT ![r] = IF conn[r] = "open" THEN [by |-> b, status |-> s] ELSE reply[r]]
  BY AnswerSends
<1>2. Moves(r) /\ st'[r] = "end"
  BY <1>1 DEF Moves, TypeOK
<1>3. TypeOK'
  <2>1. [by |-> b, status |-> s] \in ResponseType
    BY DEF ResponseType
  <2>2. conn' \in [Requests -> {"open", "sent", "closed"}]
    BY <1>1 DEF TypeOK
  <2>3. reply' \in [Requests -> ResponseType \cup {None}]
    BY <1>1, <2>1 DEF TypeOK
  <2> QED
    BY <2>2, <2>3 DEF TypeOK
<1>4. NewIsUntouched'
  BY <1>2, NewStep
<1>5. EntriesFit'
  BY FitStep
<1>6. WaitersWait'
  BY <1>1, <1>2, WaitStep DEF TypeOK
<1>7. AnsweredIsSettled'
  BY <1>2, AnsweredStep
<1>8. NoOrphanReservation'
  <2>1. ASSUME cache.at[CacheKey(r)] # None, cache.at[CacheKey(r)].pending
        PROVE  cache.at[CacheKey(r)].by # r
    BY <2>1, KeyOfRequest DEF NoOrphanReservation, Has, TypeOK
  <2> QED
    BY <1>2, <2>1, OrphanStep
<1>9. SlotsOk'
  <2> SUFFICES ASSUME NEW k \in CacheKeys \ dropped
               PROVE  SlotOk(k)'
    BY DEF SlotsOk, CacheKeys
  <2>1. CASE k # CacheKey(r)
    BY <2>1, <1>2, OtherSlots
  <2>2. CASE k = CacheKey(r)
    <3> DEFINE e == cache.at[k]
    <3>1. /\ Has(cache, k) /\ e.by = b /\ ~e.pending /\ s \in {e.status, "timeout"}
          /\ Executor(b, e) /\ \A q \in Requests \ {b} : CacheKey(q) = k => Bystander(q, e)
      BY <2>2, OwnSlot DEF SlotOk
    <3>2. b # r
      BY <3>1 DEF Executor
    <3>3. Has(cache, k)' /\ \A q \in Requests : CacheKey(q)' = CacheKey(q)
      BY <3>1 DEF Has, CacheKey
    <3>4. Executor(b, e)'
      BY <1>2, <3>1, <3>2 DEF Executor, Moves
    <3>5. ASSUME NEW q \in Requests \ {b}, CacheKey(q) = k
          PROVE  Bystander(q, e)'
      <4>1. Bystander(q, e)
        BY <3>1, <3>5
      <4>2. CASE q # r
        BY <1>2, <4>1, <4>2 DEF Bystander, Moves
      <4>3. CASE q = r
        <5>1. ~did'[r] /\ settled'[r] = None
          BY <4>1, <4>3 DEF Bystander
        <5>2. reply'[r] \in {reply[r], [by |-> b, status |-> s]}
          BY <1>1 DEF TypeOK
        <5>3. reply'[r] # None =>
                \/ reply'[r].status = "timeout"
                \/ ~e.pending /\ reply'[r] = [by |-> e.by, status |-> e.status]
          BY <3>1, <4>1, <4>3, <5>2 DEF Bystander
        <5> QED
          BY <1>2, <4>3, <5>1, <5>3 DEF Bystander
      <4> QED
        BY <4>2, <4>3
    <3> QED
      BY <3>1, <3>3, <3>4, <3>5 DEF SlotOk
  <2> QED
    BY <2>1, <2>2
<1> QED
  BY <1>3, <1>4, <1>5, <1>6, <1>7, <1>8, <1>9

\* A request that moves, and changes no slot and no response: what is left to show is what
\* the slot's entry says of it.
LEMMA QuietStep ==
  ASSUME IInv, TypeOK', NEW r \in Requests, Moves(r), st[r] # "new", st'[r] # "new",
         UNCHANGED <<cache, dropped, settled>>,
         \A e : Executor(r, e) => Executor(r, e)',
         \A e : st[r] # "run" /\ Bystander(r, e) => Bystander(r, e)',
         WaitersWait', AnsweredIsSettled', st[r] = "run" /\ settled[r] = None => st'[r] = "run"
  PROVE  IInv'
<1> USE DEF IInv
<1>1. NewIsUntouched'
  BY NewStep
<1>2. EntriesFit'
  BY FitStep DEF Moves
<1>3. NoOrphanReservation'
  <2>1. ASSUME Has(cache, CacheKey(r)), cache.at[CacheKey(r)].pending, cache.at[CacheKey(r)].by = r
        PROVE  st'[r] = "run" /\ settled'[r] = None
    BY <2>1, KeyOfRequest DEF NoOrphanReservation, TypeOK
  <2> QED
    BY <2>1, OrphanStep DEF Has
<1>4. SlotsOk'
  <2> SUFFICES ASSUME NEW k \in CacheKeys \ dropped
               PROVE  SlotOk(k)'
    BY DEF SlotsOk, CacheKeys
  <2>1. CASE k # CacheKey(r)
    BY <2>1, OtherSlots
  <2>2. CASE k = CacheKey(r)
    <3> DEFINE e == cache.at[k]
    <3>1. /\ Has(cache, k) /\ Executor(e.by, e) /\ e.by \in Requests
          /\ \A q \in Requests \ {e.by} : CacheKey(q) = k => Bystander(q, e)
      BY <2>2, OwnSlot, FitFields DEF SlotOk
    <3>2. Has(cache, k)' /\ \A q \in Requests : CacheKey(q)' = CacheKey(q)
      BY <3>1 DEF Has, CacheKey, Moves
    <3>3. Executor(e.by, e)'
      <4>1. CASE e.by = r
        BY <3>1, <4>1
      <4>2. CASE e.by # r
        BY <3>1, <4>2 DEF Executor, Moves
      <4> QED
        BY <4>1, <4>2
    <3>4. ASSUME NEW q \in Requests \ {e.by}, CacheKey(q) = k
          PROVE  Bystander(q, e)'
      <4>1. Bystander(q, e)
        BY <3>1, <3>4
      <4>2. CASE q = r
        BY <4>1, <4>2 DEF Bystander
      <4>3. CASE q # r
        BY <4>1, <4>3 DEF Bystander, Moves
      <4> QED
        BY <4>2, <4>3
    <3> QED
      BY <3>1, <3>2, <3>3, <3>4 DEF SlotOk
  <2> QED
    BY <2>1, <2>2
<1> QED
  BY <1>1, <1>2, <1>3, <1>4

LEMMA MutateStep ==
  ASSUME IInv, key' = key, NEW r \in Requests, mutate(r)
  PROVE  IInv'
<1>1. Moves(r) /\ TypeOK'
  BY DEF IInv, mutate, Moves, TypeOK
<1>2. WaitersWait' /\ AnsweredIsSettled'
  BY DEF IInv, mutate, WaitersWait, AnsweredIsSettled
<1>3. \A e : Executor(r, e) => Executor(r, e)'
  BY DEF mutate, Executor
<1> QED
  BY <1>1, <1>2, <1>3, QuietStep DEF mutate

\* The error handler after a 408.
LEMMA EndsStep ==
  ASSUME IInv, key' = key, NEW r \in Requests, handlerEnds(r)
  PROVE  IInv'
<1>1. Moves(r) /\ TypeOK' /\ st'[r] = "end"
  BY DEF IInv, handlerEnds, Moves, TypeOK
<1>2. WaitersWait'
  BY <1>1, WaitStep DEF IInv, handlerEnds
<1>3. AnsweredIsSettled'
  BY <1>1, AnsweredStep DEF IInv
<1>4. \A e : Executor(r, e) => Executor(r, e)'
  <2> TAKE e
  <2>1. e' = e
    OBVIOUS
  <2> QED
    BY <1>1, <2>1 DEF handlerEnds, Executor
<1>5. settled[r] # None
  BY DEF IInv, AnsweredIsSettled, handlerEnds
<1> QED
  BY <1>1, <1>2, <1>3, <1>4, <1>5, QuietStep DEF handlerEnds

\* A waiter's client hangs up: nothing listens.
LEMMA CloseWaitingStep ==
  ASSUME IInv, key' = key, NEW r \in Requests, close(r), st[r] = "wait"
  PROVE  IInv'
<1>1. /\ conn' = [conn EXCEPT ![r] = "closed"]
      /\ UNCHANGED <<cache, settled, st, on, did, reply>>
  BY DEF close
<1>2. dropped' = dropped
  <2>1. \A k \in CacheKeys : ~(Has(cache, k) /\ ~Has(cache', k))
    BY <1>1 DEF Has
  <2> QED
    BY <2>1 DEF close, NoteDropped
<1>3. Moves(r) /\ TypeOK'
  BY <1>1, <1>2 DEF IInv, Moves, TypeOK
<1>4. conn'[r] = "closed"
  BY <1>1 DEF IInv, TypeOK
<1>5. WaitersWait'
  BY <1>1, <1>3, <1>4, WaitStep DEF IInv, WaitersWait
<1>6. AnsweredIsSettled'
  BY <1>1, <1>3, AnsweredStep DEF IInv
<1>7. \A e : Executor(r, e) => Executor(r, e)'
  BY DEF Executor
<1>8. \A e : Bystander(r, e) => Bystander(r, e)'
  BY <1>1 DEF Bystander
<1> QED
  BY <1>1, <1>2, <1>3, <1>5, <1>6, <1>7, <1>8, QuietStep

\* A waiter is told "timeout": its executor has not been released, so not with null either.
LEMMA TimeoutWaitingStep ==
  ASSUME IInv, key' = key, NEW r \in Requests, timeout(r), st[r] = "wait"
  PROVE  IInv'
<1>1. /\ conn' = [conn EXCEPT ![r] = IF conn[r] = "open" THEN "sent" ELSE conn[r]]
      /\ reply' = [reply EXCEPT ![r] = IF conn[r] = "open" THEN [by |-> r, status |-> "timeout"]
                                       ELSE reply[r]]
      /\ UNCHANGED <<cache, settled, dropped, st, on, did>>
  BY AnswerSends DEF IInv, timeout
<1>2. conn[r] = "open" /\ conn[on[r]] # "open" /\ settled[on[r]] = None
  BY DEF timeout, Quiet
<1>3. Moves(r) /\ TypeOK'
  <2>1. [by |-> r, status |-> "timeout"] \in ResponseType
    BY DEF ResponseType, Statuses
  <2> QED
    BY <1>1, <2>1 DEF IInv, Moves, TypeOK
<1>4. conn'[r] = "sent" /\ reply'[r] = [by |-> r, status |-> "timeout"]
  BY <1>1, <1>2 DEF IInv, TypeOK
<1>5. None # "null"
  BY RequestsAssumption
<1>6. WaitersWait'
  BY <1>1, <1>2, <1>3, <1>4, <1>5, WaitStep DEF IInv, WaitersWait
<1>7. AnsweredIsSettled'
  BY <1>1, <1>3, AnsweredStep DEF IInv
<1>8. \A e : Bystander(r, e) => Bystander(r, e)'
  BY <1>1, <1>4 DEF Bystander
<1>9. \A e : Executor(r, e) => Executor(r, e)'
  BY DEF Executor
<1> QED
  BY <1>1, <1>3, <1>6, <1>7, <1>8, <1>9, QuietStep

\* A duplicate that finds a reservation waits for the one that made it.
LEMMA JoinStep ==
  ASSUME IInv, key' = key, NEW r \in Requests, st[r] = "new",
         Has(cache, CacheKey(r)), cache.at[CacheKey(r)].pending,
         st' = [st EXCEPT ![r] = "wait"], on' = [on EXCEPT ![r] = cache.at[CacheKey(r)].by],
         UNCHANGED <<cache, settled, did, conn, reply, dropped>>
  PROVE  IInv'
<1> USE DEF IInv
<1> DEFINE e == cache.at[CacheKey(r)]
<1>1. CacheKey(r) \in CacheKeys
  BY KeyOfRequest DEF TypeOK
<1>2. e.by \in Requests /\ st[e.by] = "run"
  BY <1>1, FitFields DEF NoOrphanReservation
<1>3. Moves(r) /\ st'[r] = "wait" /\ on'[r] = e.by /\ e.by # r
  BY <1>2 DEF Moves, TypeOK
<1>4. TypeOK'
  BY <1>2 DEF TypeOK
<1>5. NewIsUntouched'
  BY <1>3, NewStep
<1>6. EntriesFit'
  BY FitStep
<1>7. WaitersWait'
  BY <1>2, <1>3, WaitStep DEF NewIsUntouched
<1>8. AnsweredIsSettled'
  BY <1>3, AnsweredStep
<1>9. NoOrphanReservation'
  BY <1>3, OrphanStep
<1>10. SlotsOk'
  <2> SUFFICES ASSUME NEW k \in CacheKeys \ dropped
               PROVE  SlotOk(k)'
    BY DEF SlotsOk, CacheKeys
  <2>1. CASE k # CacheKey(r)
    BY <2>1, <1>3, OtherSlots
  <2>2. CASE k = CacheKey(r)
    <3>1. Executor(e.by, e) /\ \A q \in Requests \ {e.by} : CacheKey(q) = k => Bystander(q, e)
      BY <2>2, OwnSlot DEF SlotOk
    <3>2. Has(cache, k)' /\ e' = e /\ \A q \in Requests : CacheKey(q)' = CacheKey(q)
      BY <2>2 DEF Has, CacheKey
    <3>3. Executor(e.by, e)'
      BY <1>2, <1>3, <3>1, <3>2 DEF Executor, Moves
    <3>4. ASSUME NEW q \in Requests \ {e.by}, CacheKey(q) = k
          PROVE  Bystander(q, e)'
      <4>1. Bystander(q, e)
        BY <3>1, <3>4
      <4>2. CASE q = r
        BY <1>3, <3>2, <4>1, <4>2 DEF Bystander
      <4>3. CASE q # r
        BY <1>3, <3>2, <4>1, <4>3 DEF Bystander, Moves
      <4> QED
        BY <4>2, <4>3
    <3> QED
      BY <2>2, <3>2, <3>3, <3>4 DEF SlotOk
  <2> QED
    BY <2>1, <2>2
<1> QED
  BY <1>4, <1>5, <1>6, <1>7, <1>8, <1>9, <1>10

\* A slot that is emptied is noted in dropped.
LEMMA DroppedNoted ==
  ASSUME TypeOK, NoteDropped, NEW k \in CacheKeys \ dropped', Has(cache, k)
  PROVE  Has(cache, k)' /\ dropped \subseteq dropped' /\ k \notin dropped
BY DEF NoteDropped, Has

\* The client of a running request hangs up: its reservation is given up, or it had none left.
LEMMA CloseRunningStep ==
  ASSUME IInv, key' = key, NEW r \in Requests, close(r), st[r] = "run"
  PROVE  IInv'
<1> USE DEF IInv
<1>1. /\ conn' = [conn EXCEPT ![r] = "closed"] /\ conn[r] = "open" /\ onEnd(r)
      /\ UNCHANGED <<st, on, did, reply>> /\ NoteDropped
  BY DEF close
<1>2. /\ cache' \in CacheType
      /\ settled' = [settled EXCEPT ![r] = IF settled[r] = None THEN "null" ELSE settled[r]]
      /\ \A k \in CacheKeys : cache'.at[k] \in {None, cache.at[k]}
      /\ settled[r] = None /\ cache.at[CacheKey(r)] = Reservation(r) => cache'.at[CacheKey(r)] = None
  BY <1>1, OnEndFrees
<1>3. Moves(r) /\ conn'[r] = "closed" /\ st'[r] = "run"
  BY <1>1, <1>2 DEF Moves, TypeOK
<1>4. TypeOK'
  <2>1. settled' \in [Requests -> Statuses \cup {"null", None}]
    BY <1>2 DEF TypeOK
  <2>2. conn' \in [Requests -> {"open", "sent", "closed"}]
    BY <1>1 DEF TypeOK
  <2>3. dropped' \subseteq CacheKeys'
    BY <1>1 DEF NoteDropped, TypeOK, CacheKeys
  <2> QED
    BY <1>1, <1>2, <2>1, <2>2, <2>3 DEF TypeOK, CacheType
<1>5. NewIsUntouched'
  BY <1>3, NewStep
<1>6. EntriesFit'
  BY <1>2, FitStep
<1>7. WaitersWait'
  BY <1>1, <1>3, WaitStep
<1>8. AnsweredIsSettled'
  BY <1>3, AnsweredStep
<1>9. NoOrphanReservation'
  <2>1. CacheKey(r) \in CacheKeys
    BY KeyOfRequest DEF TypeOK
  <2>2. ASSUME cache'.at[CacheKey(r)] # None, cache'.at[CacheKey(r)].pending
        PROVE  cache'.at[CacheKey(r)] = cache.at[CacheKey(r)] /\ cache.at[CacheKey(r)].by # r
    <3>1. cache'.at[CacheKey(r)] = cache.at[CacheKey(r)] /\ Has(cache, CacheKey(r))
      BY <1>2, <2>1, <2>2 DEF Has
    <3>2. cache.at[CacheKey(r)] = Reservation(cache.at[CacheKey(r)].by)
      BY <2>1, <2>2, <3>1, FitFields
    <3>3. settled[cache.at[CacheKey(r)].by] = None
      BY <2>1, <2>2, <3>1 DEF NoOrphanReservation
    <3> QED
      BY <1>2, <2>2, <3>1, <3>2, <3>3
  <2> QED
    BY <1>2, <1>3, <2>2, OrphanStep
<1>10. SlotsOk'
  <2> SUFFICES ASSUME NEW k \in CacheKeys \ dropped'
               PROVE  SlotOk(k)'
    BY DEF SlotsOk, CacheKeys
  <2>1. dropped \subseteq dropped'
    BY <1>1 DEF NoteDropped
  <2>2. cache'.at[k] = cache.at[k]
    <3>1. CASE Has(cache, k)
      BY <1>1, <1>2, <3>1, DroppedNoted DEF Has
    <3>2. CASE ~Has(cache, k)
      BY <1>2, <3>2 DEF Has
    <3> QED
      BY <3>1, <3>2
  <2>3. k # CacheKey(r)
    <3> SUFFICES ASSUME k = CacheKey(r)
                 PROVE  FALSE
      OBVIOUS
    <3>1. Has(cache, k) /\ SlotOk(k) /\ Has(cache, k)'
      BY <1>1, <2>1, OwnSlot, DroppedNoted
    <3>2. /\ cache.at[k].by \in Requests
          /\ cache.at[k].pending => cache.at[k] = Reservation(cache.at[k].by)
      BY <3>1, FitFields
    <3>3. cache.at[k].by = r
      BY <3>1, <3>2 DEF SlotOk, Bystander
    <3>4. Executor(r, cache.at[k])
      BY <3>1, <3>3 DEF SlotOk
    <3>5. cache.at[k].pending /\ settled[r] = None
      BY <1>1, <3>4 DEF Executor
    <3> QED
      BY <1>2, <3>1, <3>2, <3>3, <3>5 DEF Has
  <2> QED
    BY <1>3, <2>1, <2>2, <2>3, OtherSlots
<1> QED
  BY <1>4, <1>5, <1>6, <1>7, <1>8, <1>9, <1>10

\* The wrapped res.json: an answer that can be the second one, after the 408.
LEMMA JsonStep ==
  ASSUME IInv, key' = key, NEW r \in Requests, NEW s \in Statuses, st[r] = "run", json(r, s),
         UNCHANGED <<on, did>>,
         \/ st' = [st EXCEPT ![r] = "end"]
         \/ st' = st /\ s = "timeout" /\ conn[r] = "open"
  PROVE  IInv'
<1> USE DEF IInv
<1>1. /\ cache' \in CacheType /\ cache'.at[CacheKey(r)] = Record(r, s)
      /\ \A k \in CacheKeys \ {CacheKey(r)} : cache'.at[k] \in {None, cache.at[k]}
  BY JsonRecords
<1>2. settled' = [settled EXCEPT ![r] = IF settled[r] = None THEN s ELSE settled[r]]
  BY ReleaseSettles DEF json
<1>3. /\ conn' = [conn EXCEPT ![r] = IF conn[r] = "open" THEN "sent" ELSE conn[r]]
      /\ reply' = [reply EXCEPT ![r] = IF conn[r] = "open" THEN [by |-> r, status |-> s] ELSE reply[r]]
  BY AnswerSends DEF json
<1>4. NoteDropped
  BY DEF json
<1>5. Moves(r) /\ st'[r] \in {"run", "end"} /\ (st'[r] = "run" => s = "timeout" /\ conn[r] = "open")
  BY <1>2, <1>3 DEF Moves, TypeOK
<1>6. /\ settled'[r] = IF settled[r] = None THEN s ELSE settled[r]
      /\ conn'[r] = IF conn[r] = "open" THEN "sent" ELSE conn[r]
      /\ reply'[r] = IF conn[r] = "open" THEN [by |-> r, status |-> s] ELSE reply[r]
  BY <1>2, <1>3 DEF TypeOK
<1>7. None # s /\ s # "null" /\ None # "null"
  BY RequestsAssumption DEF Statuses
<1>8. Record(r, s).by = r /\ Record(r, s).pending = FALSE /\ Record(r, s).status = s
  BY DEF Record
<1>9. TypeOK'
  <2>1. st' \in [Requests -> {"new", "wait", "run", "end"}]
    BY DEF TypeOK
  <2>2. settled' \in [Requests -> Statuses \cup {"null", None}]
    BY <1>2 DEF TypeOK
  <2>3. conn' \in [Requests -> {"open", "sent", "closed"}]
    BY <1>3 DEF TypeOK
  <2>4. reply' \in [Requests -> ResponseType \cup {None}]
    BY <1>3 DEF TypeOK, ResponseType
  <2>5. dropped' \subseteq CacheKeys'
    BY <1>4 DEF NoteDropped, TypeOK, CacheKeys
  <2> QED
    BY <1>1, <2>1, <2>2, <2>3, <2>4, <2>5 DEF TypeOK, CacheType
<1>10. NewIsUntouched'
  BY <1>5, NewStep
<1>11. EntriesFit'
  BY <1>1, FitStep
<1>12. WaitersWait'
  BY <1>5, <1>6, <1>7, WaitStep
<1>13. AnsweredIsSettled'
  BY <1>5, <1>6, <1>7, AnsweredStep
<1>14. NoOrphanReservation'
  BY <1>1, <1>5, <1>8, OrphanStep
<1>15. SlotsOk'
  <2> SUFFICES ASSUME NEW k \in CacheKeys \ dropped'
               PROVE  SlotOk(k)'
    BY DEF SlotsOk, CacheKeys
  <2>1. dropped \subseteq dropped'
    BY <1>4 DEF NoteDropped
  <2>2. CASE k # CacheKey(r)
    <3>1. cache'.at[k] = cache.at[k]
      <4>1. CASE Has(cache, k)
        BY <1>1, <1>4, <2>2, <4>1, DroppedNoted DEF Has
      <4>2. CASE ~Has(cache, k)
        BY <1>1, <2>2, <4>2 DEF Has
      <4> QED
        BY <4>1, <4>2
    <3> QED
      BY <1>5, <2>1, <2>2, <3>1, OtherSlots
  <2>3. CASE k = CacheKey(r)
    <3> DEFINE e == cache.at[k]
    <3>1. Has(cache, k) /\ SlotOk(k)
      BY <2>1, <2>3, OwnSlot
    <3>2. e.by = r
      BY <2>3, <3>1 DEF SlotOk, Bystander
    <3>3. Executor(r, e) /\ \A q \in Requests \ {r} : CacheKey(q) = k => Bystander(q, e)
      BY <3>1, <3>2 DEF SlotOk
    <3>4. ~e.pending => e.status = "timeout" /\ conn[r] = "sent" /\ settled[r] = "timeout"
      BY <3>3 DEF Executor
    <3>5. cache'.at[k] = Record(r, s) /\ Has(cache, k)'
      <4>1. Record(r, s) \in EntryType
        BY EntryTypes
      <4> QED
        BY <1>1, <2>3, <4>1, RequestsAssumption DEF Has
    <3>6. settled'[r] \in {s, "timeout"}
      BY <1>6, <3>3, <3>4 DEF Executor
    <3>7. reply'[r] # None => reply'[r].status = "timeout" \/ reply'[r] = [by |-> r, status |-> s]
      <4>1. CASE e.pending
        BY <1>6, <3>3, <4>1 DEF Executor
      <4>2. CASE ~e.pending
        BY <1>6, <3>3, <3>4, <4>2 DEF Executor
      <4> QED
        BY <4>1, <4>2
    <3>8. ASSUME NEW d, d.pending = FALSE, d.status = s
          PROVE  Executor(r, d)'
      BY <1>5, <1>6, <3>6, <3>7, <3>8 DEF Executor
    <3>9. ASSUME NEW d, d.by = r, NEW q \in Requests \ {r}, CacheKey(q) = k
          PROVE  Bystander(q, d)'
      <4>1. Bystander(q, e)
        BY <3>3, <3>9
      <4>2. reply[q] # None => reply[q].status = "timeout"
        BY <3>2, <3>4, <4>1 DEF Bystander
      <4> QED
        BY <1>5, <3>2, <3>9, <4>1, <4>2 DEF Bystander, Moves
    <3>10. \A q \in Requests : CacheKey(q)' = CacheKey(q)
      BY DEF CacheKey
    <3>11. Executor(cache.at[k].by, cache.at[k])'
      BY <1>8, <3>5, <3>8
    <3>12. \A q \in (Requests \ {cache.at[k].by})' : CacheKey(q)' = k => Bystander(q, cache.at[k])'
      BY <1>8, <3>5, <3>9, <3>10
    <3> QED
      BY <3>5, <3>11, <3>12 DEF SlotOk
  <2> QED
    BY <2>2, <2>3
<1> QED
  BY <1>9, <1>10, <1>11, <1>12, <1>13, <1>14, <1>15

\* The timer empties a slot, which is given up.
LEMMA SweepStep ==
  ASSUME IInv, key' = key, NEW j \in CacheKeys, sweep(j)
  PROVE  IInv'
<1> USE DEF IInv
<1>1. UNCHANGED <<st, on, settled, did, conn, reply>> /\ NoteDropped /\ Has(cache, j)
  BY DEF sweep
<1>2. cache' \in CacheType /\ \A k \in CacheKeys : cache'.at[k] \in {None, cache.at[k]}
  <2>1. cache \in CacheType
    BY TypeOfCache
  <2>2. delete(cache, j) \in CacheType /\ delete(cache, j).at = [cache.at EXCEPT ![j] = None]
    BY <2>1, DeleteEmpties
  <2>3. cache' = delete(cache, j)
    BY DEF sweep
  <2> QED
    BY <2>1, <2>2, <2>3 DEF CacheType
<1>3. TypeOK'
  <2>1. dropped' \subseteq CacheKeys'
    BY <1>1 DEF NoteDropped, TypeOK, CacheKeys
  <2> QED
    BY <1>1, <1>2, <2>1 DEF TypeOK, CacheType
<1>4. NewIsUntouched' /\ AnsweredIsSettled'
  BY <1>1 DEF NewIsUntouched, AnsweredIsSettled
<1>5. WaitersWait'
  BY <1>1 DEF WaitersWait
<1>6. EntriesFit' /\ NoOrphanReservation'
  <2> SUFFICES ASSUME NEW k \in CacheKeys', Has(cache, k)'
               PROVE  /\ Fits(cache.at[k], k)'
                      /\ cache'.at[k].pending =>
                           st'[cache'.at[k].by] = "run" /\ settled'[cache'.at[k].by] = None
    BY DEF EntriesFit, NoOrphanReservation
  <2>1. k \in CacheKeys /\ cache'.at[k] = cache.at[k] /\ Has(cache, k)
    BY <1>2 DEF Has, CacheKeys
  <2>2. /\ Fits(cache.at[k], k)
        /\ cache.at[k].pending => st[cache.at[k].by] = "run" /\ settled[cache.at[k].by] = None
    BY <2>1 DEF EntriesFit, NoOrphanReservation
  <2>3. Fits(cache.at[k], k)'
    BY <2>1, <2>2 DEF Fits, CacheKey, Reservation, Record
  <2> QED
    BY <1>1, <2>1, <2>2, <2>3
<1>7. SlotsOk'
  <2> SUFFICES ASSUME NEW k \in CacheKeys \ dropped'
               PROVE  SlotOk(k)'
    BY DEF SlotsOk, CacheKeys
  <2>1. dropped \subseteq dropped'
    BY <1>1 DEF NoteDropped
  <2>2. SlotOk(k)
    BY <2>1 DEF SlotsOk
  <2>3. \A q : CacheKey(q)' = CacheKey(q)
    BY DEF CacheKey
  <2>4. CASE Has(cache, k)
    <3>1. Has(cache, k)' /\ cache'.at[k] = cache.at[k]
      BY <1>1, <1>2, <2>4, DroppedNoted DEF Has
    <3>2. \A e, b : Executor(b, e)' <=> Executor(b, e)
      BY <1>1 DEF Executor
    <3>3. \A e, q : Bystander(q, e)' <=> Bystander(q, e)
      BY <1>1 DEF Bystander
    <3> QED
      BY <2>2, <2>3, <2>4, <3>1, <3>2, <3>3 DEF SlotOk
  <2>5. CASE ~Has(cache, k)
    BY <1>1, <1>2, <2>2, <2>3, <2>5 DEF SlotOk, Has
  <2> QED
    BY <2>4, <2>5
<1> QED
  BY <1>3, <1>4, <1>5, <1>6, <1>7

\* A request reaches the middleware: it runs, is replayed, or waits.
LEMMA MiddlewareStep ==
  ASSUME IInv, key' = key, NEW r \in Requests, middleware(r)
  PROVE  IInv'
<1> DEFINE e == cache.at[CacheKey(r)]
<1>1. CacheKey(r) \in CacheKeys /\ st[r] = "new"
  BY KeyOfRequest DEF IInv, TypeOK, middleware
<1>2. settled[r] = None /\ conn[r] = "open"
  BY <1>1 DEF IInv, NewIsUntouched
<1>3. CASE e = None /\ run(r) /\ UNCHANGED on
  BY <1>1, <1>2, <1>3, RunStep DEF Has
<1>4. CASE /\ e # None /\ ~e.pending
           /\ answer(r, e.by, e.status)
           /\ st' = [st EXCEPT ![r] = "end"]
           /\ UNCHANGED <<cache, on, settled, did, dropped>>
  <2>1. e.by \in Requests /\ e.status \in Statuses
    BY <1>1, <1>4, FitFields DEF IInv, Has
  <2>2. Has(cache, CacheKey(r))
    BY <1>4 DEF Has
  <2> QED
    BY <1>1, <1>4, <2>1, <2>2, ReplayStep
<1>5. CASE /\ e # None /\ e.pending
           /\ st' = [st EXCEPT ![r] = "wait"]
           /\ on' = [on EXCEPT ![r] = e.by]
           /\ UNCHANGED <<cache, settled, did, conn, reply, dropped>>
  BY <1>1, <1>5, JoinStep DEF Has
<1> QED
  BY <1>3, <1>4, <1>5 DEF middleware

\* A waiter goes on.  If it has to run the handler itself, its slot was given up: a slot that
\* stands has an executor, which is not released with null.
LEMMA WakeStep ==
  ASSUME IInv, key' = key, NEW r \in Requests, wake(r)
  PROVE  IInv'
<1> DEFINE k == CacheKey(r)
<1>1. st[r] = "wait" /\ settled[on[r]] # None /\ UNCHANGED on
  BY DEF wake
<1>2. /\ on[r] \in Requests \ {r} /\ settled[r] = None
      /\ conn[r] = "sent" => conn[on[r]] # "open" /\ settled[on[r]] # "null"
  BY <1>1 DEF IInv, WaitersWait
<1>3. settled[on[r]] \in Statuses \cup {"null"}
  BY <1>1, <1>2 DEF IInv, TypeOK
<1>4. k \notin dropped =>
        /\ Has(cache, k) /\ cache.at[k].by = on[r]
        /\ ~cache.at[k].pending /\ settled[on[r]] \in {cache.at[k].status, "timeout"}
        /\ cache.at[k].status \in Statuses
  <2> SUFFICES ASSUME k \notin dropped
               PROVE  /\ Has(cache, k) /\ cache.at[k].by = on[r]
                      /\ ~cache.at[k].pending /\ settled[on[r]] \in {cache.at[k].status, "timeout"}
                      /\ cache.at[k].status \in Statuses
    OBVIOUS
  <2>1. Has(cache, k) /\ SlotOk(k)
    BY <1>1, OwnSlot
  <2>2. /\ Executor(cache.at[k].by, cache.at[k])
        /\ r # cache.at[k].by => Bystander(r, cache.at[k])
    BY <2>1 DEF SlotOk
  <2>3. r # cache.at[k].by
    BY <1>1, <2>2 DEF Executor
  <2>4. cache.at[k].by = on[r]
    BY <1>1, <2>2, <2>3 DEF Bystander
  <2> QED
    BY <1>1, <2>1, <2>2, <2>4 DEF Executor
<1>5. CASE settled[on[r]] = "null" /\ run(r)
  <2>1. k \in dropped
    BY <1>4, <1>5 DEF Statuses
  <2> QED
    BY <1>1, <1>2, <1>5, <2>1, RunStep
<1>6. CASE /\ settled[on[r]] # "null"
           /\ answer(r, on[r], settled[on[r]])
           /\ st' = [st EXCEPT ![r] = "end"]
           /\ UNCHANGED <<cache, settled, did, dropped>>
  BY <1>1, <1>2, <1>3, <1>4, <1>6, ReplayStep
<1> QED
  BY <1>5, <1>6 DEF wake

-----------------------------------------------------------------------------
(* The invariant, and what it gives.                                       *)

LEMMA InitInv == Init => IInv
<1> SUFFICES ASSUME Init
             PROVE  IInv
  OBVIOUS
<1>1. cache \in CacheType /\ \A k \in CacheKeys : ~Has(cache, k)
  BY DEF Init, CacheType, Has
<1>2. TypeOK
  BY <1>1 DEF Init, TypeOK, CacheType
<1>3. NewIsUntouched /\ WaitersWait /\ AnsweredIsSettled
  BY DEF Init, NewIsUntouched, WaitersWait, AnsweredIsSettled
<1>4. EntriesFit /\ NoOrphanReservation
  BY <1>1 DEF EntriesFit, NoOrphanReservation
<1>5. SlotsOk
  BY <1>1 DEF Init, SlotsOk, SlotOk
<1> QED
  BY <1>2, <1>3, <1>4, <1>5 DEF IInv

LEMMA NextInv ==
  ASSUME IInv, [Next]_vars
  PROVE  IInv'
<1>1. ASSUME NEW r \in Requests, key' = key, close(r)
      PROVE  IInv'
  BY <1>1, CloseWaitingStep, CloseRunningStep DEF close
<1>2. ASSUME NEW r \in Requests, key' = key, timeout(r)
      PROVE  IInv'
  <2>1. CASE st[r] = "run"
    BY <1>2, <2>1, JsonStep DEF timeout, Statuses
  <2>2. CASE st[r] = "wait"
    BY <1>2, <2>2, TimeoutWaitingStep
  <2> QED
    BY <1>2, <2>1, <2>2 DEF timeout
<1>3. ASSUME NEW r \in Requests, NEW s \in {"ok", "error"}, key' = key, handlerAnswers(r, s)
      PROVE  IInv'
  BY <1>3, JsonStep DEF handlerAnswers, Statuses
<1>4. CASE UNCHANGED vars
  <2> USE DEF vars
  <2>1. TypeOK' /\ NewIsUntouched' /\ WaitersWait' /\ AnsweredIsSettled'
    BY <1>4 DEF IInv, TypeOK, NewIsUntouched, WaitersWait, AnsweredIsSettled, CacheKeys
  <2>2. EntriesFit'
    <3>1. \A e, k : Fits(e, k)' <=> Fits(e, k)
      BY <1>4 DEF Fits, CacheKey, Reservation, Record
    <3> QED
      BY <1>4, <3>1 DEF IInv, EntriesFit, CacheKeys, Has
  <2>3. SlotsOk'
    BY <1>4 DEF IInv, SlotsOk, SlotOk, CacheKeys, Has, CacheKey, Executor, Bystander
  <2>4. NoOrphanReservation'
    BY <1>4 DEF IInv, NoOrphanReservation, CacheKeys, Has
  <2> QED
    BY <2>1, <2>2, <2>3, <2>4 DEF IInv
<1> QED
  BY <1>1, <1>2, <1>3, <1>4, MiddlewareStep, WakeStep, MutateStep, EndsStep, SweepStep DEF Next

LEMMA InvHolds == Spec => []IInv
<1>1. Init => IInv
  BY InitInv
<1>2. IInv /\ [Next]_vars => IInv'
  BY NextInv
<1> QED
  BY <1>1, <1>2, PTL DEF Spec

\* Every variable of the middleware keeps its type (IdempotencyMiddleware, requestTimeout):
\* what is replayed to a duplicate is always a response, never a reservation's missing one.
THEOREM TypeCorrect == Spec => []TypeOK
<1>1. IInv => TypeOK
  BY DEF IInv
<1> QED
  BY <1>1, InvHolds, PTL

\* No key is blocked by a request that has ended: whatever mix of disconnects, 408s, answers
\* and ttl sweeps, a pending reservation has a running handler that will settle its waiters.
THEOREM NoOrphan == Spec => []NoOrphanReservation
<1>1. IInv => NoOrphanReservation
  BY DEF IInv
<1> QED
  BY <1>1, InvHolds, PTL

\* Two requests with one key, for any number of requests, addresses, keys and cache entries:
\* unless the slot was given up, at most one of them performs the mutation, and those that are
\* answered with anything but the 408 get the same response.
THEOREM OneExecution == Spec => []ExecutedOnce
<1>1. ASSUME IInv, NEW r \in Requests, NEW s \in Requests,
             r # s, CacheKey(r) = CacheKey(s), CacheKey(r) \notin dropped
      PROVE  /\ ~(did[r] /\ did[s])
             /\ reply[r] # None /\ reply[s] # None =>
                  reply[r] = reply[s] \/ "timeout" \in {reply[r].status, reply[s].status}
  <2> DEFINE k == CacheKey(r)
  <2> DEFINE e == cache.at[k]
  <2>1. SlotOk(k)
    BY <1>1, OwnSlot
  <2>2. CASE Has(cache, k)
    <3>1. Executor(e.by, e) /\ \A q \in Requests \ {e.by} : CacheKey(q) = k => Bystander(q, e)
      BY <2>1, <2>2 DEF SlotOk
    <3>2. \A q \in {r, s} : q # e.by => Bystander(q, e)
      BY <1>1, <3>1
    <3>3. ~(did[r] /\ did[s])
      BY <1>1, <3>2 DEF Bystander
    <3>4. ASSUME NEW q \in {r, s}, reply[q] # None, reply[q].status # "timeout"
          PROVE  reply[q] = [by |-> e.by, status |-> e.status]
      <4>1. CASE q = e.by
        BY <3>1, <3>4, <4>1 DEF Executor
      <4>2. CASE q # e.by
        BY <3>2, <3>4, <4>2 DEF Bystander
      <4> QED
        BY <4>1, <4>2
    <3> QED
      BY <3>3, <3>4
  <2>3. CASE ~Has(cache, k)
    BY <1>1, <2>1, <2>3 DEF SlotOk, IInv, NewIsUntouched
  <2> QED
    BY <2>2, <2>3
<1>2. IInv => ExecutedOnce
  BY <1>1 DEF ExecutedOnce
<1> QED
  BY <1>2, InvHolds, PTL
=============================================================================
