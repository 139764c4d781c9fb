---------------------------- MODULE OfflineQueue ----------------------------
(***************************************************************************)
(* The persistent offline mutation queue of the mobile app                 *)
(* (packages/shared/src/services/offlineQueue.ts) with the parts of        *)
(* uiStore.ts and resetStores.ts it calls.  One JavaScript thread runs     *)
(* everything; asynchronous activities interleave wherever the code        *)
(* awaits: storage reads and writes, the HTTP replay, and the writes that  *)
(* the app sends past the queue while it is online (api.ts).               *)
(*                                                                         *)
(* A write is known by its version number; the queue holds at most one     *)
(* entry per clientId.  Queue order is only used through createdAt, so the *)
(* stored queue is a set of entries.  The server is external.              *)
(***************************************************************************)
EXTENDS Integers, Sequences, FiniteSets

CONSTANTS
  ClientIds,        \* the deterministic client ids the app uses
  Posts,            \* client ids of POST writes (creates with a temporary id)
  DependsOn,        \* DependsOn[c]: the temporary id that c's url contains
  Users,            \* accounts that sign in on the device
  None,             \* a value that is none of the above
  MaxRetries,       \* MAX_RETRIES
  MaxAge,           \* MAX_QUEUE_AGE_MS, in ticks
  MaxWrites,        \* bound: writes made by the user
  MaxTime,          \* bound: clock
  MaxJobs,          \* bound: callers waiting for the queue lock
  MaxCrashes,       \* bound: restarts of the app
  MaxLogouts,       \* bound: sign-outs
  MaxDirect,        \* bound: writes sent online, past the queue
  MaxUserActions,   \* bound: Retry and Dismiss taps
  EditsBusy         \* may a resource be written while an earlier write of it
                    \* is on its way to the server or is listed as failed?

Versions == 1..MaxWrites

\* How a replay ends: a 2xx, a 4xx, anything else.
Outcomes == {"ok", "permanent", "transient"}

ASSUME ConstantsAssumption ==
  /\ Posts \subseteq ClientIds
  /\ None \notin ClientIds /\ None \notin Users /\ None \notin Outcomes
  /\ DependsOn \in [ClientIds -> ClientIds \cup {None}]
  /\ IsFiniteSet(ClientIds)
  /\ MaxRetries \in Nat \ {0}
  /\ MaxAge \in Nat \ {0}
  /\ {MaxWrites, MaxTime, MaxJobs, MaxCrashes, MaxLogouts, MaxDirect,
      MaxUserActions} \subseteq Nat
  /\ EditsBusy \in BOOLEAN

Times == 0..MaxTime

\* QueuedMutation: `owner` and `ver` identify the write, `ref` is the
\* temporary id the url still contains (None once it names a real id).
Entry == [clientId : ClientIds, ver : Versions, owner : Users, createdAt : Times,
          retries : 0..(MaxRetries - 1), ref : ClientIds \cup {None}]

\* null is not an entry.
ASSUME NoneAssumption == None \notin Entry

\* A write that was sent online and is not answered yet; what it says, and whose it
\* is, was fixed when it was sent.
Request == [clientId : ClientIds, ver : Versions, owner : Users,
            ref : ClientIds \cup {None}]

\* FailedSyncItem
Item == [clientId : ClientIds, ver : Versions, owner : Users,
         ref : ClientIds \cup {None}]

Ops == {"enqueue", "retry", "snapshot", "remove", "bump", "rewrite", "clear",
        "refresh"}

VARIABLES
  \* persisted on the device
  queue,        \* QUEUE_KEY: set of entries
  failedDisk,   \* FAILED_KEY: set of items
  \* memory of the running app
  lock,         \* callers of withQueueLock, in order; the first one runs
  drain,        \* the activation of drainQueue, if any
  persisting,   \* activations of persistFailedSync
  failedSync,   \* uiStore.failedSync
  pendingSync,  \* uiStore.pendingSync
  offlineMode,  \* uiStore.offlineMode
  booting,      \* refreshPendingCount has not yet hydrated failedSync
  \* environment
  session,      \* who is signed in
  now,          \* Date.now()
  late,         \* versions in requests that the server may still get to, whether or
                \* not their sender waits for it
  fetches,      \* writes sent past the queue, until apiRequest has its answer
  \* bookkeeping of the model
  nextVer, crashes, logouts, directs, taps,
  accepted,     \* versions whose enqueueMutation promise resolved
  synced,       \* versions the server applied
  surfaced,     \* versions that recordFailed was called for
  waived,       \* versions replaced by a newer one, dismissed or signed out
  overtaken,    \* <<v, w>>: v had been sent, and was not answered, when w was made
  astray,       \* versions that were on their way when their account signed out
  retried,      \* versions for which Retry was tapped
  unreported    \* failed versions taken from the queue, killed before the report

device  == <<queue, failedDisk>>
memory  == <<lock, drain, persisting, failedSync, pendingSync, offlineMode, booting>>
outside == <<session, now, late, fetches>>
budget  == <<nextVer, crashes, logouts, directs, taps>>
excused == <<overtaken, astray, retried, unreported>>
history == <<accepted, synced, surfaced, waived, excused>>
vars    == <<device, memory, outside, budget, history>>

Idle == [phase |-> "idle", todo |-> {}, cur |-> None, outcome |-> None, as |-> None]

Init ==
  /\ queue = {} /\ failedDisk = {}
  /\ lock = <<>> /\ drain = Idle /\ persisting = {}
  /\ failedSync = {} /\ pendingSync = 0 /\ offlineMode = FALSE /\ booting = FALSE
  /\ session \in Users
  /\ now = 0 /\ late = {} /\ fetches = {}
  /\ nextVer = 1 /\ crashes = 0 /\ logouts = 0 /\ directs = 0 /\ taps = 0
  /\ accepted = {} /\ synced = {} /\ surfaced = {} /\ waived = {}
  /\ overtaken = {} /\ astray = {} /\ retried = {} /\ unreported = {}

-----------------------------------------------------------------------------
(* Operators on queues and failed lists, both keyed by clientId.           *)

Without(S, c) == {x \in S : x.clientId # c}

Upsert(S, x) == Without(S, x.clientId) \cup {x}

IsFresh(e) == now - e.createdAt < MaxAge

ItemOf(e) == [clientId |-> e.clientId, ver |-> e.ver, owner |-> e.owner, ref |-> e.ref]

VersionsOf(S) == {x.ver : x \in S}

\* Versions of the entries of S that e replaces and is newer than.
Superseded(S, e) == {x.ver : x \in {y \in S : y.clientId = e.clientId /\ y.ver < e.ver}}

NewEntry(x) ==
  [clientId |-> x.clientId, ver |-> x.ver, owner |-> x.owner, createdAt |-> now,
   retries |-> 0, ref |-> x.ref]

Job(op, e) == [op |-> op, arg |-> e, loaded |-> FALSE, read |-> {}, prune |-> FALSE]

\* recordFailed: show every item of S at once, and start to persist each.
recordFailed(S) ==
  /\ failedSync' = {i \in failedSync : \A x \in S : x.clientId # i.clientId} \cup S
  /\ persisting' = persisting \cup {[item |-> i, read |-> None] : i \in S}
  /\ surfaced' = surfaced \cup VersionsOf(S)

-----------------------------------------------------------------------------
(* withQueueLock: a chain of promises, so the callers run in call order.   *)

\* Mutant: no mutual exclusion.
MayRun_Unlocked(i) == TRUE

MayRun(i) == i = 1

Drop(i) == [k \in 1..(Len(lock) - 1) |-> IF k < i THEN lock[k] ELSE lock[k + 1]]

\* Mutant: aged entries vanish.
readQueue_Silent(i) ==
  /\ i \in DOMAIN lock /\ MayRun(i) /\ ~lock[i].loaded
  /\ lock' = [lock EXCEPT ![i].loaded = TRUE, ![i].prune = TRUE,
                          ![i].read = {e \in queue : IsFresh(e)}]
  /\ UNCHANGED <<device, drain, persisting, failedSync, pendingSync, offlineMode,
                 booting, outside, budget, history>>

\* The lock's holder reads the stored queue.  Entries older than MaxAge are
\* left out and recorded as failed; clearQueue alone does not read.
readQueue(i) ==
  /\ i \in DOMAIN lock /\ MayRun(i) /\ ~lock[i].loaded
  /\ LET stale == IF lock[i].op = "clear" THEN {} ELSE {e \in queue : ~IsFresh(e)}
         fresh == IF lock[i].op = "clear" THEN {} ELSE queue \ stale
     IN  /\ lock' = [lock EXCEPT ![i] = [@ EXCEPT !.loaded = TRUE, !.read = fresh,
                                                   !.prune = (stale # {})]]
         /\ recordFailed({ItemOf(e) : e \in stale})
  /\ UNCHANGED <<device, drain, pendingSync, offlineMode, booting, outside, budget,
                 accepted, synced, waived, excused>>

\* Mutant: the count is not published.
writeQueue_NoCount(q) == queue' = q /\ UNCHANGED pendingSync

writeQueue(q) == queue' = q /\ pendingSync' = Cardinality(q)

\* The write-back of a read that dropped aged entries.
pruneWrite(i) ==
  /\ i \in DOMAIN lock /\ MayRun(i) /\ lock[i].prune
  /\ writeQueue(lock[i].read)
  /\ lock' = [lock EXCEPT ![i].prune = FALSE]
  /\ UNCHANGED <<failedDisk, drain, persisting, failedSync, offlineMode, booting,
                 outside, budget, history>>

Holds(i, op) ==
  /\ i \in DOMAIN lock /\ MayRun(i)
  /\ lock[i].op = op /\ lock[i].loaded /\ ~lock[i].prune

\* enqueueMutation's section: upsert by clientId, stamped with the time now.
enqueueMutation(i) ==
  /\ Holds(i, "enqueue")
  /\ LET e == [lock[i].arg EXCEPT !.createdAt = now]
     IN  /\ writeQueue(Upsert(lock[i].read, e))
         /\ accepted' = accepted \cup {e.ver}
         /\ waived' = waived \cup Superseded(lock[i].read, e)
  /\ lock' = Drop(i)
  /\ UNCHANGED <<failedDisk, drain, persisting, failedSync, offlineMode, booting,
                 outside, budget, synced, surfaced, excused>>

\* retryFailed's: the same upsert, then the item leaves uiStore.failedSync
\* (the persisted copy stays), and drainQueue is called if the app is online.
retryFailed(i) ==
  /\ Holds(i, "retry")
  /\ LET e == [lock[i].arg EXCEPT !.createdAt = now]
     IN  /\ writeQueue(Upsert(lock[i].read, e))
         /\ failedSync' = Without(failedSync, e.clientId)
         /\ waived' = waived \cup Superseded(lock[i].read, e)
  /\ IF ~offlineMode /\ drain.phase = "idle"
     THEN /\ lock' = Append(Drop(i), Job("snapshot", None))
          /\ drain' = [Idle EXCEPT !.phase = "snapshot"]
     ELSE lock' = Drop(i) /\ drain' = drain
  /\ UNCHANGED <<failedDisk, persisting, offlineMode, booting,
                 outside, budget, accepted, synced, surfaced, excused>>

\* clearQueue's section: sign-out throws every pending write away.
clearQueue(i) ==
  /\ Holds(i, "clear")
  /\ writeQueue({})
  /\ waived' = waived \cup accepted
  /\ lock' = Drop(i)
  /\ UNCHANGED <<failedDisk, drain, persisting, failedSync, offlineMode, booting,
                 outside, budget, accepted, synced, surfaced, excused>>

\* refreshPendingCount: publish the count, then hydrate the failed items.
refreshPendingCount(i) ==
  /\ Holds(i, "refresh")
  /\ pendingSync' = Cardinality(lock[i].read)
  /\ booting' = TRUE
  /\ lock' = Drop(i)
  /\ UNCHANGED <<device, drain, persisting, failedSync, offlineMode, outside, budget, history>>

hydrateFailedSync ==
  /\ booting
  /\ booting' = FALSE
  /\ failedSync' = {i \in failedSync : \A x \in failedDisk : x.clientId # i.clientId}
                     \cup failedDisk
  /\ UNCHANGED <<device, lock, drain, persisting, pendingSync, offlineMode,
                 outside, budget, history>>

-----------------------------------------------------------------------------
(* persistFailedSync: a read-modify-write of FAILED_KEY outside the lock.  *)

persistRead(p) ==
  /\ p \in persisting /\ p.read = None
  /\ persisting' = (persisting \ {p}) \cup {[item |-> p.item, read |-> failedDisk]}
  /\ UNCHANGED <<device, lock, drain, failedSync, pendingSync, offlineMode, booting,
                 outside, budget, history>>

persistWrite(p) ==
  /\ p \in persisting /\ p.read # None
  /\ failedDisk' = Upsert(p.read, p.item)
  /\ persisting' = persisting \ {p}
  /\ UNCHANGED <<queue, lock, drain, failedSync, pendingSync, offlineMode, booting,
                 outside, budget, history>>

-----------------------------------------------------------------------------
(* drainQueue: one pass over a snapshot, one request at a time.            *)

\* The two callers that matter, a reconnect and a timer, both need the app
\* online; _draining admits one activation.
drainQueue ==
  /\ drain.phase = "idle" /\ ~offlineMode
  /\ Len(lock) < MaxJobs
  /\ drain' = [Idle EXCEPT !.phase = "snapshot"]
  /\ lock' = Append(lock, Job("snapshot", None))
  /\ UNCHANGED <<device, persisting, failedSync, pendingSync, offlineMode, booting,
                 outside, budget, history>>

takeSnapshot(i) ==
  /\ Holds(i, "snapshot")
  /\ drain' = [drain EXCEPT !.phase = "loop", !.todo = lock[i].read]
  /\ lock' = Drop(i)
  /\ UNCHANGED <<device, persisting, failedSync, pendingSync, offlineMode, booting,
                 outside, budget, history>>

\* Send the oldest write left, with the credentials of this moment.  The loop
\* does not ask isOffline() here.
replay(m) ==
  /\ drain.phase = "loop" /\ m \in drain.todo
  /\ \A o \in drain.todo : m.createdAt <= o.createdAt
  /\ drain' = [phase |-> "inflight", todo |-> drain.todo \ {m}, cur |-> m,
               outcome |-> None, as |-> session]
  /\ UNCHANGED <<device, lock, persisting, failedSync, pendingSync, offlineMode,
                 booting, outside, budget, history>>

drainDone ==
  /\ drain.phase = "loop" /\ drain.todo = {}
  /\ drain' = Idle
  /\ UNCHANGED <<device, lock, persisting, failedSync, pendingSync, offlineMode,
                 booting, outside, budget, history>>

\* The server answers.  It can apply a write only for a signed-in sender and
\* only when the url names an entity it knows; otherwise it answers 4xx.
serverHandles(o) ==
  /\ drain.phase = "inflight" /\ drain.outcome = None
  /\ o = "ok" => drain.cur.ref = None /\ drain.as # None
  /\ drain' = [drain EXCEPT !.outcome = o]
  /\ synced' = IF o = "ok" THEN synced \cup {drain.cur.ver} ELSE synced
  /\ UNCHANGED <<device, lock, persisting, failedSync, pendingSync, offlineMode,
                 booting, session, now, late, fetches, budget, accepted, surfaced,
                 waived, excused>>

\* A request abandoned before the server handled it may still be applied.
Abandoned ==
  IF drain.phase = "inflight" /\ drain.outcome = None
     /\ drain.cur.ref = None /\ drain.as # None
  THEN {drain.cur.ver} ELSE {}

\* Success: the app is reachable again, and the entry is to be removed.
replayOk ==
  /\ drain.phase = "inflight" /\ drain.outcome = "ok"
  /\ offlineMode' = FALSE
  /\ drain' = [drain EXCEPT !.phase = "locked"]
  /\ lock' = Append(lock, Job("remove", None))
  /\ UNCHANGED <<device, persisting, failedSync, pendingSync, booting, outside,
                 budget, history>>

\* Mutant: the attempt is not counted.
nextRetries_Same(m) == m.retries

nextRetries(m) == m.retries + 1

\* Mutant: one attempt too many.
GivesUp_OffByOne(m) == nextRetries(m) > MaxRetries

GivesUp(m) == nextRetries(m) >= MaxRetries

\* The catch block.  `o` is "transient" for a 5xx, a network error and the 15 s
\* abort alike.  Offline: stop.  Permanent, or retries used up: remove.
\* Otherwise count the attempt.
replayFails(o) ==
  /\ drain.phase = "inflight"
  /\ o = "permanent" => drain.outcome = "permanent"
  /\ late' = late \cup Abandoned
  /\ IF offlineMode
     THEN drain' = Idle /\ lock' = lock
     ELSE LET op == IF o = "permanent" \/ GivesUp(drain.cur) THEN "remove" ELSE "bump"
          IN  /\ drain' = [drain EXCEPT !.phase = "locked", !.outcome = o]
              /\ lock' = Append(lock, Job(op, None))
  /\ UNCHANGED <<device, persisting, failedSync, pendingSync, offlineMode, booting,
                 session, now, fetches, budget, history>>

\* Remove by clientId.  A failure is reported once the section is done; after a
\* successful create the other urls are rewritten in one more section.
removeReplayed(i) ==
  /\ Holds(i, "remove")
  /\ writeQueue(Without(lock[i].read, drain.cur.clientId))
  /\ IF drain.outcome = "ok" /\ drain.cur.clientId \in Posts
     THEN /\ lock' = Append(Drop(i), Job("rewrite", None))
          /\ drain' = drain
     ELSE /\ lock' = Drop(i)
          /\ drain' = [drain EXCEPT !.phase = IF drain.outcome = "ok" THEN "loop" ELSE "report"]
  /\ UNCHANGED <<failedDisk, persisting, failedSync, offlineMode, booting, outside,
                 budget, history>>

\* Back from the section: the write that was removed is shown as failed.
reportFailed ==
  /\ drain.phase = "report"
  /\ recordFailed({ItemOf(drain.cur)})
  /\ drain' = [drain EXCEPT !.phase = "loop"]
  /\ UNCHANGED <<device, lock, pendingSync, offlineMode, booting, outside, budget,
                 accepted, synced, waived, excused>>

\* The write a failed replay has taken from the queue and not reported yet.
Reporting == IF drain.phase = "report" THEN {drain.cur} ELSE {}

\* The attempt is counted on whatever entry now has the clientId, if any.
bumpRetries(i) ==
  /\ Holds(i, "bump")
  /\ IF \E e \in lock[i].read : e.clientId = drain.cur.clientId
     THEN writeQueue({IF e.clientId = drain.cur.clientId
                      THEN [e EXCEPT !.retries = nextRetries(drain.cur)] ELSE e
                        : e \in lock[i].read})
     ELSE UNCHANGED <<queue, pendingSync>>
  /\ drain' = [drain EXCEPT !.phase = "loop"]
  /\ lock' = Drop(i)
  /\ UNCHANGED <<failedDisk, persisting, failedSync, offlineMode, booting, outside,
                 budget, history>>

\* The temporary id in the stored urls becomes the real one.  The snapshot
\* being drained keeps the urls it was read with.
rewriteUrls(i) ==
  /\ Holds(i, "rewrite")
  /\ IF \E e \in lock[i].read : e.ref = drain.cur.clientId
     THEN writeQueue({IF e.ref = drain.cur.clientId THEN [e EXCEPT !.ref = None] ELSE e
                        : e \in lock[i].read})
     ELSE UNCHANGED <<queue, pendingSync>>
  /\ drain' = [drain EXCEPT !.phase = "loop"]
  /\ lock' = Drop(i)
  /\ UNCHANGED <<failedDisk, persisting, failedSync, offlineMode, booting, outside,
                 budget, history>>

\* The server gets to a request that no drain waits for; nothing says that it will.
lateRequest(v) ==
  /\ v \in late
  /\ late' = late \ {v}
  /\ synced' = synced \cup {v}
  /\ UNCHANGED <<device, memory, session, now, fetches, budget, accepted, surfaced,
                 waived, excused>>

-----------------------------------------------------------------------------
(* The user and the environment.                                           *)

\* An earlier write of c is being replayed or sent, or a failed one is still listed.
Busy(c) ==
  \/ drain.phase = "snapshot"
  \/ drain.phase # "idle" /\ \E m \in drain.todo \cup {drain.cur} : m # None /\ m.clientId = c
  \/ \E r \in fetches : r.clientId = c
  \/ \E i \in failedSync \cup failedDisk : i.clientId = c

\* A write of c is stored, or is about to be.
Waits(c) ==
  \/ \E e \in queue : e.clientId = c
  \/ \E i \in DOMAIN lock : lock[i].op = "enqueue" /\ lock[i].arg.clientId = c

MayWrite(c) ==
  /\ session # None /\ nextVer <= MaxWrites
  /\ EditsBusy \/ ~Busy(c)

\* The temporary id in c's url, while the create it stands for is queued.
RefOf(c) == IF \E e \in queue : e.clientId = DependsOn[c] THEN DependsOn[c] ELSE None

\* The user writes c: the next version, of the account signed in now.
NewWrite(c) == [clientId |-> c, ver |-> nextVer, owner |-> session, ref |-> RefOf(c)]

makeWrite ==
  /\ nextVer' = nextVer + 1
  /\ overtaken' = overtaken \cup {<<r.ver, nextVer>> : r \in fetches}

enqueueOfflineMutation(x) ==
  /\ Len(lock) < MaxJobs
  /\ lock' = Append(lock, Job("enqueue", NewEntry(x)))

\* apiRequest while offline: the write goes to the queue.
maybeQueueOffline(c) ==
  /\ MayWrite(c) /\ offlineMode
  /\ makeWrite /\ enqueueOfflineMutation(NewWrite(c))
  /\ UNCHANGED <<device, drain, persisting, failedSync, pendingSync, offlineMode,
                 booting, outside, crashes, logouts, directs, taps, accepted, synced,
                 surfaced, waived, astray, retried, unreported>>

\* apiRequest while online: the write is sent with the url and the credentials of
\* this moment.  Whether the server gets to it does not depend on the sender.
fetch(c) ==
  /\ MayWrite(c) /\ ~offlineMode /\ directs < MaxDirect
  /\ EditsBusy \/ ~Waits(c)
  /\ makeWrite
  /\ fetches' = fetches \cup {NewWrite(c)}
  /\ late' = IF RefOf(c) = None THEN late \cup {nextVer} ELSE late
  /\ directs' = directs + 1
  /\ UNCHANGED <<device, memory, session, now, crashes, logouts, taps,
                 accepted, synced, surfaced, waived, astray, retried, unreported>>

\* An answer comes.  An error is thrown to the caller.  After a success the app
\* counts as online, unless the path may have been answered by a cache.
fetchAnswered(r) ==
  /\ r \in fetches
  /\ fetches' = fetches \ {r}
  /\ \/ UNCHANGED offlineMode
     \/ r.ver \in synced /\ offlineMode' = FALSE
  /\ UNCHANGED <<device, lock, drain, persisting, failedSync, pendingSync, booting,
                 session, now, late, budget, history>>

\* The network fails or 15 s have passed: markOffline, and the write goes to the
\* queue after all, whoever is signed in by now and whatever was written since.
fetchFails(r) ==
  /\ r \in fetches
  /\ fetches' = fetches \ {r}
  /\ offlineMode' = TRUE
  /\ enqueueOfflineMutation(r)
  /\ UNCHANGED <<device, drain, persisting, failedSync, pendingSync, booting,
                 session, now, late, budget, history>>

\* The Retry button: enqueue the write again, as it was recorded.
retryTap(x) ==
  /\ x \in failedSync /\ taps < MaxUserActions /\ Len(lock) < MaxJobs
  /\ EditsBusy \/ \A e \in queue : e.clientId # x.clientId
  /\ lock' = Append(lock, Job("retry", NewEntry(x)))
  /\ retried' = retried \cup {x.ver}
  /\ taps' = taps + 1
  /\ UNCHANGED <<device, drain, persisting, failedSync, pendingSync, offlineMode,
                 booting, outside, nextVer, crashes, logouts, directs, accepted, synced,
                 surfaced, waived, overtaken, astray, unreported>>

\* The Dismiss button: dismissFailedSync changes the store, not FAILED_KEY.
dismissFailedSync(x) ==
  /\ x \in failedSync /\ taps < MaxUserActions
  /\ failedSync' = Without(failedSync, x.clientId)
  /\ waived' = waived \cup {x.ver}
  /\ taps' = taps + 1
  /\ UNCHANGED <<device, lock, drain, persisting, pendingSync, offlineMode, booting,
                 outside, nextVer, crashes, logouts, directs, accepted, synced, surfaced,
                 excused>>

\* Mutant: the queue is not cleared.
resetAllStores_KeepQueue ==
  /\ session # None /\ logouts < MaxLogouts
  /\ session' = None
  /\ failedSync' = {} /\ pendingSync' = 0 /\ offlineMode' = FALSE
  /\ failedDisk' = {}
  /\ waived' = waived \cup accepted
  /\ logouts' = logouts + 1
  /\ astray' = astray \cup VersionsOf(fetches)
  /\ UNCHANGED <<queue, lock, drain, persisting, booting, now, late, fetches,
                 nextVer, crashes, directs, taps, accepted, synced, surfaced,
                 overtaken, retried, unreported>>

\* Sign-out: resetAllStores empties the store, removes FAILED_KEY and queues
\* clearQueue behind the lock.  A running drain and the requests on their way
\* are not told.
resetAllStores ==
  /\ session # None /\ logouts < MaxLogouts /\ Len(lock) < MaxJobs
  /\ session' = None
  /\ failedSync' = {} /\ pendingSync' = 0 /\ offlineMode' = FALSE
  /\ failedDisk' = {}
  /\ lock' = Append(lock, Job("clear", None))
  /\ waived' = waived \cup accepted
  /\ logouts' = logouts + 1
  /\ astray' = astray \cup VersionsOf(fetches)
  /\ UNCHANGED <<queue, drain, persisting, booting, now, late, fetches,
                 nextVer, crashes, directs, taps, accepted, synced, surfaced,
                 overtaken, retried, unreported>>

login(u) ==
  /\ session = None /\ session' = u
  /\ UNCHANGED <<device, memory, now, late, fetches, budget, history>>

\* NetInfo reports a change of connectivity.
setOfflineMode ==
  /\ offlineMode' = ~offlineMode
  /\ UNCHANGED <<device, lock, drain, persisting, failedSync, pendingSync, booting,
                 outside, budget, history>>

tick ==
  /\ now < MaxTime /\ now' = now + 1
  /\ UNCHANGED <<device, memory, session, late, fetches, budget, history>>

\* The process dies and starts again: refreshPendingCount runs on mount.
crash ==
  /\ crashes < MaxCrashes /\ crashes' = crashes + 1
  /\ lock' = <<Job("refresh", None)>>
  /\ drain' = Idle /\ persisting' = {} /\ failedSync' = {} /\ pendingSync' = 0
  /\ offlineMode' = FALSE /\ booting' = FALSE
  /\ late' = late \cup Abandoned /\ fetches' = {}
  /\ unreported' = unreported \cup VersionsOf(Reporting)
  /\ UNCHANGED <<device, session, now, nextVer, logouts, directs, taps, accepted,
                 synced, surfaced, waived, overtaken, astray, retried>>

-----------------------------------------------------------------------------
LockStep ==
  \E i \in DOMAIN lock :
    \/ readQueue(i) \/ pruneWrite(i) \/ enqueueMutation(i) \/ retryFailed(i)
    \/ clearQueue(i) \/ refreshPendingCount(i) \/ takeSnapshot(i)
    \/ removeReplayed(i) \/ bumpRetries(i) \/ rewriteUrls(i)

PersistStep == \E p \in persisting : persistRead(p) \/ persistWrite(p)

DrainStep ==
  \/ \E m \in drain.todo : replay(m)
  \/ drainDone \/ replayOk \/ reportFailed
  \/ \E o \in {"permanent", "transient"} : replayFails(o)

FetchStep == \E r \in fetches : fetchAnswered(r) \/ fetchFails(r)

UserStep ==
  \/ \E c \in ClientIds : maybeQueueOffline(c) \/ fetch(c)
  \/ \E x \in failedSync : retryTap(x) \/ dismissFailedSync(x)
  \/ resetAllStores
  \/ \E u \in Users : login(u)

Environment ==
  \/ \E o \in Outcomes : serverHandles(o)
  \/ \E v \in late : lateRequest(v)
  \/ setOfflineMode \/ tick \/ crash

Next ==
  \/ LockStep \/ PersistStep \/ hydrateFailedSync
  \/ drainQueue \/ DrainStep \/ FetchStep
  \/ UserStep \/ Environment

\* The event loop runs every resolved promise; the 15 s abort ends every
\* request.  Nothing is assumed of the user, the network or the clock, and
\* nothing makes a drain start.
Fairness ==
  /\ WF_vars(LockStep) /\ WF_vars(PersistStep) /\ WF_vars(hydrateFailedSync)
  /\ WF_vars(DrainStep) /\ WF_vars(FetchStep)

Spec == Init /\ [][Next]_vars

FairSpec == Spec /\ Fairness

-----------------------------------------------------------------------------
(* Properties.                                                             *)

JobType == [op : Ops, arg : Entry \cup {None}, loaded : BOOLEAN, read : SUBSET Entry,
            prune : BOOLEAN]

DrainType == [phase : {"idle", "snapshot", "loop", "inflight", "locked", "report"},
              todo : SUBSET Entry, cur : Entry \cup {None},
              outcome : Outcomes \cup {None}, as : Users \cup {None}]

\* Every variable holds a value of its type.  The retry count of a stored entry
\* stays below MAX_RETRIES.
TypeOK ==
  /\ queue \subseteq Entry /\ failedDisk \subseteq Item
  /\ lock \in Seq(JobType) /\ drain \in DrainType
  /\ persisting \subseteq [item : Item, read : (SUBSET Item) \cup {None}]
  /\ failedSync \subseteq Item /\ pendingSync \in Nat
  /\ offlineMode \in BOOLEAN /\ booting \in BOOLEAN
  /\ session \in Users \cup {None} /\ now \in Times
  /\ late \subseteq Versions /\ fetches \subseteq Request
  /\ nextVer \in Nat \ {0}
  /\ crashes \in Nat /\ logouts \in Nat /\ directs \in Nat /\ taps \in Nat
  /\ accepted \subseteq Versions /\ synced \subseteq Versions
  /\ surfaced \subseteq Versions /\ waived \subseteq Versions
  /\ overtaken \subseteq Versions \X Versions /\ astray \subseteq Versions
  /\ retried \subseteq Versions /\ unreported \subseteq Versions

\* withQueueLock serialises the read-modify-write sections: what a section read
\* is still what is stored when it writes (less the entries it is pruning).
LockedReadIsCurrent ==
  \A i \in DOMAIN lock :
    lock[i].loaded /\ lock[i].op # "clear" =>
      /\ i = 1
      /\ lock[i].read \subseteq queue
      /\ ~lock[i].prune => lock[i].read = queue

\* The stored queue has one entry per clientId: repeated writes collapse.
UniqueClientIds == \A a, b \in queue : a.clientId = b.clientId => a = b

\* With nobody in the lock, uiStore.pendingSync is the depth of the stored queue,
\* across restarts, sign-outs, pruning and drains.
PendingMirrorsQueue == lock = <<>> => pendingSync = Cardinality(queue)

\* "No silent drops": a write whose enqueueMutation resolved is still queued, was
\* applied by the server, was or is about to be recorded as failed, or was given up
\* by the user (replaced by a newer write, dismissed, signed out); except for one
\* the app was killed over, between removing it as failed and reporting it.
NoSilentDrops ==
  accepted \subseteq VersionsOf(queue) \cup synced \cup surfaced \cup VersionsOf(Reporting)
                       \cup waived \cup unreported

\* "Latest write for a resource wins": a stored entry is replaced by an older write of
\* the same clientId only where the user has retried that one, or it was sent before
\* the newer was made and failed after.
LatestEntryWins ==
  [][\A a \in queue, b \in queue' :
       a.clientId = b.clientId /\ b.ver < a.ver =>
         b.ver \in retried \/ <<b.ver, a.ver>> \in overtaken]_queue

\* After sign-out no section resurrects the queue: unless clearQueue still waits
\* in the lock, a stored entry is of the account signed in, or it was on its way to the
\* server when its account signed out, or it had failed and somebody tapped Retry.
QueueBelongsToSession ==
  (\A i \in DOMAIN lock : lock[i].op # "clear") =>
    \A e \in queue : e.owner = session \/ e.ver \in astray \cup retried

\* While the device stays online and passes keep being started, the retry cap
\* and the surfacing of failures empty the queue: no entry can stay for ever.
QueueDrains ==
  (<>[]~offlineMode /\ []<>(drain.phase # "idle" \/ queue = {})) => []<>(queue = {})

\* The write whose replay has ended, while the drain's section waits or runs.
Replaying == IF drain.phase = "locked" THEN {drain.cur} ELSE {}

Atomic == INSTANCE AtomicQueue
            WITH store <- queue, replaying <- Replaying, owed <- VersionsOf(Reporting),
                 clock <- now, applied <- synced, reported <- surfaced, restarts <- crashes

\* withQueueLock, readQueue and drainQueue: the stored queue changes as an atomic queue would,
\* and what leaves it has aged and been reported, or a replay of the resource has succeeded,
\* or has failed and is reported next, unless the app restarts first.
ImplementsAtomicQueue == Atomic!Spec
=============================================================================
