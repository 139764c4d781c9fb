# Festival planner: TLA+ specifications and proofs

This directory holds a verification project for the festival planner: TLA+
modules translated from the source, TLC configurations that check them on small
instances, and TLAPS proofs. Paths are relative to the repository.

## 1. The system

A festival planner for groups of friends ("crews"): an Express and Socket.IO
server over PostgreSQL, with Redis when it is configured; a web client and a
mobile client that share stores and services in `packages/shared`. Festivals have
bad coverage, so the clients queue their writes while offline and replay them
later; the server de-duplicates replays.

| Part | State it keeps | Operations | Interacts with | Hard because |
|---|---|---|---|---|
| Offline queue (`services/offlineQueue.ts`, `uiStore.ts`, `resetStores.ts`) | queue and failed list in storage; badge, failed list and drain flag in memory | enqueue, drain, retry, dismiss, prune, persist, hydrate, clear | called by the API client and the UI; replays through the API client | every operation awaits storage; crashes; sign-out during a drain; late requests |
| API client (`services/api.ts`) | tokens, in-flight refresh | request, queue when offline, abort, refresh | queue, server | timeouts and retries |
| Idempotency middleware (`lib/middleware.ts`) | map of reservations and responses | reserve, record, wait, evict, sweep | every non-GET route | concurrent duplicates, disconnects, timeouts, a bounded map |
| Crews (`routes/crew*.ts`, `stores/crews.ts`, `stores/users.ts`) | crews, crew_members, festival_profiles | create, join, leave, kick, transfer, update, delete, reform, admin operations, account deletion | sockets (eviction), notifications | a handler is several statements; checks go stale between them |
| Crew rooms and live location (`routes/socket.ts`, `live-location-cache.ts`, `presence.ts`, `routes/crew-members.ts`) | rooms, socket data, presence, cached positions, sharing registry | join, leave, share, update, stop, sync, evict, disconnect | crews, sessions | handlers await in the middle; eviction races joins |
| Sessions, tokens and links (`app-context/session.ts`, `stores/sessions.ts`, `stores/email-tokens.ts`, `routes/auth.ts`, `routes/email-auth.ts`, `routes/account.ts`) | sessions, refresh tokens, reset links, links that confirm an address | sign in and out, refresh, rotate, revoke, change and reset the password, change the address | all routes, sockets | a change of the credentials is several statements, and others run between them |
| Rate limiting (`lib/rate-limiting.ts`, `lib/redis.ts`) | windows in Redis or memory | hit, reset, fall back | all routes, sockets | fall-back between two stores |
| Notifications (`lib/notifications/*`) | a durable job per event, a log row per user, an in-memory queue of pushes to resend | trigger, fan out, send, log, resend, mail | push services, BullMQ | crashes between a send and its row, retried jobs, lost tokens |
| Reminders (`reminder-scheduler.ts`) | sent marks | tick | notifications | wall-clock windows |
| Client stores (`stores/crewStore.ts`, `realtime/*`) | the open crew, its roster, lists and statuses, placeholders of offline creates | select, load, create, delete, update, reconcile, roll back, revoke | queue, sockets | answers, events and replays come in any order |
| Connectivity (`OfflineBanner.tsx`, `connectivityHysteresis.ts`, parts of `api.ts`) | the offline flag, an armed flip, a retry timer | NetInfo events, timers, outcomes of requests, foreground | starts the queue's drains | a radio that flaps; four sources of truth |
| Web queue (`useOfflineQueue.ts`) | IndexedDB entries, timers | process, back off | API | several tabs |
| Crew features, festivals, ratings, admin, workers, UI | rows of their own | independent updates | | mostly single-statement |

What makes each part correct:

* queue: a queued write is never lost silently, the latest write of a resource
  wins, nothing of one account is left for or sent by another, the badge is right,
  the queue empties when it can;
* idempotency: a key runs once, every duplicate gets that response, nobody waits
  for ever, no slot is blocked for ever;
* crews: exactly one owner, the member cap respected, a reform is idempotent and
  adds only people who joined the festival;
* crew rooms: a person who was removed or has stopped sharing is no longer relayed
  nor shown; a socket shares with the crew whose room it is in;
* credentials: what was obtained with credentials that were replaced is worth nothing
  afterwards; links are cut when they should be;
* notifications: everybody is told, once, and everything that was started ends;
* client stores: what is shown belongs to the crew that is open, an entity is listed once,
  nothing another member did is taken back;
* connectivity: the flag comes to agree with the radio, and entries that wait have
  something that will start a drain.

## 2. Modules

| Module | Models |
|---|---|
| `OfflineQueue` | the offline queue with its storage, the mutex, the drain, the failed list, sign-out and restart |
| `AtomicQueue` | what the queue promises: its storage changes as if every operation were one step |
| `Connectivity` | the offline flag, the delayed transitions and everything that starts a drain |
| `Idempotency` | the Idempotency-Key middleware with the request timeout |
| `CrewMembership` | the crew tables and the handlers that change them |
| `CrewRoom` | sockets, rooms, presence and live location |
| `Credentials` | sessions, refresh tokens and links of one account |
| `CrewStore` | the client's crew store against answers, events and replays |
| `Notifications` | a re-engagement event from its trigger to the last resend |
| `*Proofs` | inductive invariants and theorems |
| `MC_*` | the instances TLC checks |

`PROJECT.json` maps each definition to the lines it stands for. All of them follow one
scheme: an action is the code between two `await`s of one activation, and everything else
may happen between two actions. A handler of the server is a sequence of the names of the
statements it awaits, and one action per kind of statement.

### OfflineQueue and AtomicQueue

State: `queue` and `failedDisk` are the two storage keys; `lock` is the promise
chain of `withQueueLock`, with a section's progress (`loaded`, `read`, `prune`) in
its first element; `drain` is the activation of `drainQueue` with its snapshot;
`persisting` are the activations of `persistFailedSync`; `failedSync`,
`pendingSync` and `offlineMode` are fields of `uiStore`; `booting` says that the
start-up's hydration is still to come. `session`, `now` and `late` are the surroundings,
and `fetches` the writes that `apiRequest` has sent past the queue: what they say, and whose
they are, is fixed when they are sent (`fetch`), and the answer (`fetchAnswered`) or the
failure that puts them into the queue after all (`fetchFails`) comes at any later time. A
write is a version number, so "newer" can be said. Histories keep what the properties
except: `overtaken` (a write was made while an earlier one was on its way), `astray` (on its
way when its account signed out), `retried` (a tap on Retry) and `unreported` (removed as
failed, and the app was killed before `recordFailed`).

Every `await` splits an operation: a section reads (`readQueue`), may prune
(`pruneWrite`), then writes (`enqueueMutation`, `retryFailed`, `clearQueue`,
`refreshPendingCount`, `takeSnapshot`, `removeReplayed`, `bumpRetries`,
`rewriteUrls`); `replay`, its outcome and the report of a failure (`reportFailed`, after
the section that removes the write) are separate steps; `persistFailedSync` is
a read and a write outside the mutex. `crash` ends the process between any two.
A request may reach the server whether or not its sender still waits (`late`). `EditsBusy`
says whether the user may write a resource while an earlier write of it is replayed, sent or
listed as failed, send one past a queued one, and retry one over a queued one: the contract of
`NoSilentDrops` holds when it is FALSE, and `queue_v_edit` shows what happens when it is TRUE.

`AtomicQueue` has the stored queue and what the server has applied and the user been
told. Each of its steps changes what is stored now (`Put`, `Take`, `Count`, `Rename`,
`Expire`, `Clear`), and an entry leaves only if a write of its resource was applied or is
owed a report, if it has aged and was reported, if it is replaced, or at sign-out. A report
that is owed is made (`Report`), unless the app restarts first.
`OfflineQueue!ImplementsAtomicQueue` is the refinement: `store` is `queue`, `reported` is
the history of what was surfaced, `owed` what has been removed as failed and not reported,
`restarts` the restarts, `replaying` the drain's current write once its replay has ended.

Abstracted: bodies and urls (only the temporary id a url contains is kept), the
order of entries with equal `createdAt`, storage errors, the three-way method
switch of `replay`.

### Connectivity

State: `offline` and `pending` are fields of `uiStore`; `reported`, `flip` and `retry` are
the refs of `OfflineBanner` (last report, armed flip with the ticks it has to go, retry
timer); `pass` is a running `drainQueue` with the entries it has left and whether the
banner started it; `writes` are writes whose enqueue is under way. Histories: `stranded`
(below), `overruled` (a request has set the flag since the last report) and `outage` (the
ticks since an outage was reported that is not decided). `netinfo` is the whole listener
with `decideFlap`; `flipFires`, `retryFires`, `foreground`, `markOnlineAndDrain`,
`markOffline` and `retryFailed` are the other callbacks. The queue is its depth here. A
success on a `/festivals` path does not count as reachability (`api.ts:206`); none of the
paths that are queued is one (`api.ts:91-110`), so a replay that succeeds always counts.

### Idempotency

State: the `Map` with its insertion order (`cache`), the progress of each request
(`st`, `on`, `settled`), whether its mutation was performed (`did`), its connection
(`conn`) and the response it got (`reply`). `dropped` is a history variable: the keys
whose slot was given up by eviction, by the ttl timer or by a request that ended
without a response. `run`, `json`, `release` and `onEnd` are the
closures of the middleware. A route handler is external: it performs its mutation,
then answers, fails or hangs. A released waiter goes on before the next event
(`Quiet`), because promise callbacks run before the event loop continues. The key
is the address and the header: the middleware is mounted before authentication. Ages
are abstracted: `sweep` may find any entry expired, at any time, so the results hold
for every ttl and timer period.

### CrewMembership

State: the tables (`crews`, `joined` in `joined_at` order, `owners`, `profiles`,
`accounts`) and, for each request, the statement it waits for and what it has read.
A transaction, and an insert under the row lock, is one step. Foreign keys, primary keys
and the unique index of migration 061 are conditions of the inserts (`CanInsert`,
`CanCreate`, `ReformKeysUnique`).

A behaviour is one of several situations (`scenario`): who is a member, which endpoints are
called and for which festivals, how many requests are served at once, and which endpoints are
served alone (`exclusive`). The last is how a contract that the code keeps only without a
certain race is stated; the race itself is an observation. `planReformRoster` is a set: who is
added, not in which order; a cap is positive, as `lib/schemas.ts` demands. `OneOwner` excepts
crews an admin removed a member from; section 3 says why. The users in `leaving` lose profiles
at any moment, an admin deleting one (`deleteProfile`) or by the soft deletion of their account
(`softDelete`): neither touches `crew_members`, so a member need not have a profile, and
`MembersHaveJoined` is about who becomes one. `lapsed` is a history, per request: the profiles
that went while it was served.

Abstracted: names, totems and invite codes; broadcasts and notifications; what else a soft
deletion does (`getMembers` hides the account, counts include it; a later sign-in takes the
deletion back, without the profiles); the deletion of a festival with all that is in it
(`routes/festivals.ts:319-366`); the statements inside a transaction.

### CrewRoom

State: `sock` is `socket.data` with the state of the connection, `rooms` are
`socket.rooms`, `online` is `state.onlineUsers`, `cache` and `reg` are the Redis keys of
positions and of sharing sockets, `member` and `sessions` are the tables, and `tasks` the
handlers in flight, each at its await and with what it has read. `relayed` counts positions
relayed by a socket whose user is not a member; `RelayLimit` is what `StreamIsCut` allows,
from the number of handlers in flight and `MEMBERSHIP_RECHECK_EVERY_N` (`recheckEvery`): a
handler in flight at the removal may still share again, and in each share every handler lets
the updates between two rechecks pass. `fetchSockets` of an eviction may time out.
A situation (`scenario`) says which events happen, which of them a client only sends when
the previous one is answered, and which meet no other handler in flight. Redis commands
take effect when they are issued: one process sends them over one connection
(`ecosystem.config.cjs` starts one instance).

Abstracted: coordinates, rate limits of events, the expiry of Redis keys, presence of other
processes.

### Credentials

State: the tables `sessions`, `refresh`, `resets`, `changes`, the address on file, the
in-memory `_adminResetTokens` (`remembered`) and `copies`, the copies of the user's row that
are, or may yet be, in the in-memory map of users. All handlers but `login` read the user with
`getUserById` (`lib/app-context/cache.ts`), from a map that may be a minute old. A write bumps
its version; but a request that has read the table before the write stores what it has read
after it, under the version of then (`cache.ts:83-89`), and for another minute that is the map.
So `getUsers` adds a copy of the row, a handler reads any copy there is, and
`invalidateUserCache` only marks the copies as no longer in force. That subsumes every order
of loads and every age. One process serves (`ecosystem.config.cjs`), so that the Redis
message to other processes does nothing. Fifteen endpoints are lists of statements;
`insert` and `commit` are the two halves of `createUserSession`'s transaction, so that two
sign-ins do not see each other's rows. A behaviour calls the endpoints of one group
(`ops`). `proof` is a history: whether a session, token or
link was obtained with the credentials in force, with ones that were replaced, or by a
request that had passed its check when they were, or had looked at a copy of the row that was
not in force: the last two are `raced`. Besides, three kinds of links are marked `raced` and
excepted from `ChangeLinksAreCut`: those that an administrator's reset leaves; those to the
address a password change has read, when the address has moved since; and everything in force
when a confirmation that read an older address (`identityMoved` is false) writes its own and
cuts nothing. `validate`, of a refresh token, reads the row and its session in two statements,
and keeps the first's session for the second. Left out: registration, expiry, hashing,
rate limits, whether an address is taken or verified.

### CrewStore

State: the fields of the store (`active`, `roster`, `items`, `status`) and the module
variables `_lastSelectCrewId` and `_cachedCrewId`; the server's rows; the events on their
way; the offline creates that wait for their replay; and the requests, each sent, answered
by the server and settled by the client in three steps; an answer may be lost after the
server has done its part (`answerLost`, at most `MaxLost` times for creates: the replay of
such a create makes another entity, so each costs one of `Ids`). The slices of the store do not
depend on each other, so a behaviour looks at one (`kind`). What an entity says is left
out: only which are listed, for which crew, and whether they are placeholders. `items` is
a bag, since the setters of the store may list an entity twice. Events come in order and may
be lost.

### Notifications

State: the BullMQ job, the two possible runs of its executor (the worker's, and the one a
request runs itself when Redis refuses the job), a `notify.send` per run and user with the
devices it has left, the device tokens, the log rows of pushes and mails, and the retry queue
with its batch and its timer: `drain(n, old)` takes the first `n` entries and drops those that
are past their age (`old`), in the order of the queue (`InOrder`). `got` and `mails` count what
arrives; `past` keeps what excuses a second arrival or a missing one (an overlap of two runs, a
send whose row may be missing or whose answer was lost, a read that failed). Reads, sends and
inserts fail, a bounded number of times, and the process crashes. A send, a resend or a mail
that is reported as failed may have arrived; the two tries inside a send (`withRetry`,
`send.ts:320-328`) are one call, whose answer "late" stands for a try that arrived. Quiet hours,
unread counts, batching and silent syncs are left out; BullMQ, FCM, APNs and the mail service
are external.

## 3. Runs

Every passing run finishes within five minutes on two workers. Deadlock is checked for
the queue, which can always be written to or drained again; elsewhere behaviours end when
their bounded requests are answered.

| Run | Instance | Shows |
|---|---|---|
| `queue_restart` | a create and a write that depends on it, a write sent past the queue, entries that age out, a kill between any two steps; 4.6M states | no silent drop but for a kill before a report; the badge is the depth of the queue; the storage implements `AtomicQueue` |
| `queue_signout` | one resource, two accounts, sign-out at any moment, a request on its way, a tap, edits during replay; 5.5M | nothing stored is left for the next account, and no newer entry is replaced by an older, but by a request that was on its way or a retry |
| `queue_drains` | taps on Retry and Dismiss, fairness; 490k | the queue empties if drains keep being started while online |
| `connectivity` | a confirmation delay of five ticks against one, three entries; 11k | an outage is decided in five ticks however the radio flaps; the flag comes to agree with the last report unless a request overrules it; entries left by a pass have a timer |
| `idem_replays` | three requests, duplicates or one to another key, in a cache of one entry, disconnects, timeouts, expiry; 128k | while the slot stands one execution and one response; no orphaned reservation; no waiter waits for ever |
| `crew_tables` | ten endpoints, three at once, on a crew with one free place; reforms, joins, kicks and account deletions of a full crew; reforms of reforms (`MC_Chain`); reforms while admins remove members (`MC_Removed`); and joins, creates and reforms while profiles go (`MC_Left`); 2.0M | the cap and the single owner; a reform is idempotent, its loser finds the winner's crew unless the requester has left it, only people who joined become members |
| `rooms` | one socket with events and requests in any order, members that come and go, or a session that does; one socket that moves between two crews, everything at once (`MC_Moves`); and two sockets and two crews with clients that wait for answers; 2.0M | a removed member's stream is cut after boundedly many positions; presence lists rooms; removed members leave the room; a socket shares with the crew it is in |
| `credentials` | four requests, two at a time, of fifteen endpoints in three overlapping groups (sessions, reset links, addresses), with copies of the user's row of any age; 4.8M | after a change of the credentials nothing obtained with the old ones is left but for requests in flight and old copies; one pending change of address asked for with those in force, cut with the password; sign-ins exceed the maximum by no more than their concurrency |
| `crewstore` | three requests, one entity, a lost answer, each slice of the store; 1.8M | the last crew selected is shown, with its own roster; an offline create ends up listed once; a roll-back takes back nobody else's status |
| `notify` | two users, three devices, two triggers, two failures or late answers, one crash; 581k | pushes and mails reach a device or a mailbox once; everybody is tried; the retry queue is served; everything ends |

Two runs are disagreements between the code and its own comments. Each checks
one property and TLC finds a counterexample; "findings" of `PROJECT.json` quotes the
line.

| Run | Counterexample |
|---|---|
| `queue_v_edit` | a write enqueued while its older version is replayed is removed with it |
| `notify_v_email` | a job that is tried again after its pushes were logged mails nobody of those it pushed to |

### Observations

The models also show the following, seen with TLC when a property was stated in
its full strength, or found in the code while it was translated. They are not kept as
runs; the properties that are checked say what they except.

* Queue. An older write replaces a newer one of its resource in two ways: a request that is
  sent, gets no answer for 15 s and is then queued, over what was queued meanwhile
  (`api.ts:356-371`), and a tap on Retry. `LatestEntryWins` allows these two and nothing else;
  the comment at `offlineQueue.ts:206` does not mention them. A request on its way at a sign-out
  is queued when it fails, after `clearQueue`, and is replayed with the credentials of the next
  account, which the comment of `clearQueue` (`offlineQueue.ts:182-183`) rules out; a replay
  that fails after a sign-out is listed as failed under the next account, who can retry it.
  `QueueBelongsToSession` excepts both by name. A kill between the removal of a failed write and
  `recordFailed` loses it (`unreported`), and one before the end of `persistFailedSync` leaves
  it in neither list (`offlineQueue.ts:352-361`, `:133-145`). Overlapping `persistFailedSync`
  calls lose an item of the stored failed list; a dismissed item can come back after a restart.
  The rewritten ids of `rewriteUrls` are not seen by the pass that is running, which has its
  snapshot; the rest of a snapshot is replayed after a sign-out, under the next account
  (`offlineQueue.ts:313`). A request that arrives late can land after a newer write. A kill
  between the session's end and `clearQueue` leaves entries for the next account. A storage read
  error counts as an empty queue (`offlineQueue.ts:48`).
* Connectivity. The comment at `OfflineBanner.tsx:60-63` names NetInfo transitions and the
  foreground as the only other triggers of a drain, but a request that succeeds
  (`api.ts:211`) and a tap on Retry (`offlineQueue.ts:399`) start passes with no timer
  behind them, and a write may come into the queue after the app is online again: what they
  leave waits for the next event. A failed request sets the flag although the radio is up,
  and without another event or request it stays set.
* Idempotency. After a disconnect every waiter is released with `null`, and all of them
  execute. Users behind one address who use the same key share a slot. The client's key
  names the resource and not the write (`offlineQueue.ts:261`), so a later, different write
  of it is answered from the cache (`middleware.ts:92`).
* Crews. Two concurrent transfers leave two owners; account deletion goes by `created_by`,
  which a transfer does not change. The cap under the row lock is the one read with the
  crew, stale if a PUT comes between. Auto-adds of a reform use no cap under the lock. A
  requester who has left the crew made before, or was removed from it, does not find it: both
  reads look among the requester's crews (`crews.ts:344-347`, `:373-389`), while the index is on
  the creator and refuses another, so that the reform is answered with 500, although
  `crews.ts:294-297` says that the crew is returned. `ReformFindsExisting` excepts this. The
  response's `owner` field is the creator. The per-festival crew limit is
  checked and used in different statements. A kick can race an account deletion that makes
  its target the owner, and leave the crew without one. `adminRemove` does not ask whether
  it removes the owner. `hardDelete` can fail on the reform index after the profiles were
  deleted. Deleting a profile (`profiles.ts:222-235`) and the soft deletion of an account
  (`account.ts:542-577`) leave the memberships: a member of a crew need not have joined its
  festival, also after a sign-in that takes the deletion back (`auth.ts:315`).
* Rooms. `join:crew` does not set `data.userId`, so evictions and sign-out miss sockets that
  never joined a festival; a join that read the membership before a removal enters the room
  after the eviction. An eviction ends a share of another crew, and does not drop the cached
  position; a share of a second crew leaves the first one's. An update or a share in flight
  writes the cache, and the registry, after a stop or a disconnect. `disconnectSocket`
  clears the user, so that the disconnect handler skips the sharing clean-up.
  `leave:festival` leaves the crew's room while `data.crewId` stays. A refused share keeps
  its registry slot; updates do not refresh the registry's ttl.
* Credentials. The map of users that a request loaded before a write and stored after it
  (`cache.ts:83-89`) is taken for current for a minute: with nothing in flight, a confirmation
  may then move the address and cut no session, links to a replaced address stay pending or are
  asked for, and a replaced password is accepted by change-password and account/email. A sign-in
  or refresh in flight over a change of the credentials mints a session that survives it. Two
  calls of refresh-token with one token both rotate it. An administrator's reset does not cut
  pending changes of address; its one-time link is recorded in the table and in memory, and
  accepted more than once. `verify-email` decides whether the address moved from what it read
  before, so that a confirmation that moves the address may cut no session, which
  `email-auth.ts:197-204` says it does. Three requests for a link that read the address on both
  sides of its change leave two links pending. `/refresh` ends the session that its refresh
  token is linked to.
* Crew store. Answers to loads and creates that were sent for one crew are listed under the
  next; createCrew leaves the lists of the previous crew; kick, transfer and forceAdd write
  the roster of whichever crew is open; a late selectCrew re-opens a crew after sign-out. A create
  whose answer is lost after the server made it is made twice: only the replay carries an
  Idempotency-Key (`offlineQueue.ts:261-265`), and the user sees two entities. The
  placeholder of a refused create stays; a load before the replay drops it. Two overlapping
  status updates of the user roll back to each other.
* Notifications. A failed row counts as told: after a crash the user is not pushed to again.
  A crash after the first device's row leaves the other devices. A crash between a send and
  its row, a lost insert, a late answer, or an inline run that overlaps the worker's sends
  twice. A failed read of the targets skips people and the job succeeds. An entry is resent
  up to four times where `retry.ts:6` says three.

### Bounds

Queue: two resources suffice for the interactions the code has between entries (same client id,
dependent id, unrelated); two writes for "older and newer"; `MaxRetries` 2 so that both a retry
and giving up happen; two callers of the mutex (`MaxJobs`), since a section only meets the one
it waits behind. One crash, one sign-out and two accounts: each further one starts from a state
already covered. `queue_signout` has one resource, as its properties are about one entry and its
successor; one request past the queue, one tap, `MaxRetries` 1 (a replay that fails is listed at
once, so that it can be retried) and no time; the two accounts are symmetric. Connectivity: the
two delays as the code has them (5 s and 1 s), and three entries, so that a pass leaves some.
Idempotency: a first request and two duplicates is the smallest case in which two waiters meet;
`MaxEntries` 1 makes a response to one key evict the other. Crews: three users (an owner, a
member, an outsider), two festivals, three requests in a behaviour: a race needs two, and the
third sets up or observes; reforms into the source's own festival and of reformed crews have a
situation of their own, and so have two requests that add members while profiles of one of these
go (`MC_Left`). Rooms: two handlers in flight, one of them an eviction or an update; a second
socket and crew for what one must not do to the other; every second update is rechecked, so that
a removal falls between two checks. Credentials: two requests in flight for a race, and two more
for what came before and what is tried after; the groups overlap in what changes the
credentials. Crew store: two crews and a new one, three requests (two that overtake each other
and one that moves the user), one entity and one lost create, an event on its way.
Notifications: one user with two devices and one with one, a chunk of one so that there are two,
a retry queue of one so that it is full, two attempts.

### Fairness

The event loop runs every resolved promise, so steps of the mutex, of `persistFailedSync` and of
a running drain are weakly fair; `AbortController` ends a request after 15 s, so the outcomes of
a replay and of a request sent past the queue are too. Nothing is assumed of the user, of the
network or of who starts a drain: `QueueDrains` says so in its premise. In `Connectivity` timers
fire, time passes and requests end; events of NetInfo, taps and successes need not happen. In
`Idempotency`, promise callbacks and the request timer are weakly fair and handlers may hang. In
`Notifications` BullMQ's worker takes jobs, an executor's calls answer or fail, and the retry
timer fires; triggers, crashes and failures are never fair. No liveness is stated of the other
server modules: their handlers are finite lists of statements.

## 4. Proofs

Each theorem holds for every value of the constants that the module's assumption allows.
`PROJECT.json` lists them.

`OfflineQueueProofs` (any finite set of client ids, any accounts, bounds, ages and
retry limit, edits during replay or not): `TypeCorrect`, `SectionsAreAtomic` (what a section
has read is what is stored), `OneEntryPerClientId`, `PendingCountCorrect`.
The inductive invariant `IInv` is `TypeOK /\ DrainJobs /\ LockInv`. `TypeOK` is not
inductive alone: `bumpRetries` stores `retries + 1` and stays below the limit only
because a queued "bump" belongs to a drain whose current entry is below it, which
is `DrainJobs` (at most one of the drain's jobs waits in the lock, and it belongs
to the phase the drain is in). `LockInv` says who may have read: only the first
caller (`OnlyHolderReads`), what it read is what is stored, less what it prunes,
and the badge equals the depth of the queue unless a section that will set it is
waiting. The proof has one step per action and one lemma per way an action
changes the lock (a caller joins, the holder reads, the holder leaves, restart).

The same module then proves what becomes of the writes, from `WInv`, which is inductive with
`IInv`. The actions are first reduced to what they do to the lock, the stored queue, the
failed lists and the drain (`LockFootprint`, `QueueFootprint`, `SurfacedFootprint`,
`WorkingFootprint`); each part of `WInv` follows from those.

* `NothingIsDropped`: `NoSilentDrops`, with `EditsBusy` FALSE and as long as nobody has tapped
  Retry or Dismiss. An entry that is removed by
  clientId has the version that was replayed, since the drain's snapshot is what is stored
  (`SnapshotIsCurrent`, with `DrainKnown`); one that is pruned was recorded first
  (`PrunedSurfaced`); one that is upserted over is older (`WritesInOrder`), a request that
  fails late among it, since with `EditsBusy` FALSE nothing was written meanwhile.
* `NothingIsLeftBehind`: `QueueBelongsToSession`, unless a restart has come after a sign-out,
  which forgets a `clearQueue` that waits. `OwnersKept` says that a write that no `clearQueue`
  follows in the lock is of the account signed in, or `astray`, or `retried`. TLC finds a
  counterexample when one of the exceptions is dropped.
* `LatestWriteWins`: `LatestEntryWins`, with no assumption. A write that waits in the lock is newer
  than all that is stored, replayed or recorded as failed, or was retried, or was on its way
  when the newer one was made (`WritesInOrder`).

`NoneAssumption`, that null is not an entry, is used to tell a drain at work from an idle one.

`OfflineQueueProofs` also proves `Refinement`: `Spec => ImplementsAtomicQueue`. It adds two
facts to `IInv`: what a section prunes has aged and was surfaced when it read (`PruneReported`),
and a replay that succeeded has been applied (`OkIsApplied`). A removal either follows a replay
that was applied or leaves a report owed, which `reportFailed` makes and only `crash` forgets.
`Simulation` then maps each action to one of the abstract steps or to a stutter.

`ConnectivityProofs` proves `TypeCorrect`, `OutageDecided` and `LeftoversServed` (any delays, any
bound on the queue). For the second the invariant is `OutageIsArmed`: while an outage is
timed the app believes that it is online, the flip to offline is armed, and the time it has
to go and the time since the report together do not exceed the delay - which fails as soon
as an online event may drop the flip. `LeftoversHaveATimer` is inductive with the types.

`NotificationsProofs` proves `QueueServed` (a drain that ends with entries left arms the timer,
whatever joins the queue meanwhile) and `NobodyIsLost`: when a run has returned, everybody was
tried unless a read of the targets failed. Its invariant (`FanOutOk`) follows a user through a
run: tried already, in the chunk that is being sent, in what is left of the fan-out, or with a
row.

`IdempotencyProofs` (any requests, addresses, keys, capacity) proves `TypeCorrect`, `NoOrphan`
(a pending reservation belongs to a request that is being served) and `OneExecution`: while its
slot stands, a key executes once. The invariant says who may have done what, by slot (`SlotOk`):
the request of the entry (`Executor`) runs or has answered, and every other request with that key
(`Bystander`) never ran and was told what the entry records, or a timeout. It needs to know that a
waiter is never told a timeout by a request that releases its waiters with null (`WaitersWait`),
and that what is in a slot was put there for its key (`EntriesFit`).

`CrewMembershipProofs` (any users, festivals, endpoints and number of requests) proves
`TypeCorrect` and `OneReform`: like reforms that are answered name one crew. Its `CInv` is the
types of the tables and of what a request has read at each statement (`TInv`); `ReformKeysUnique`,
the index of migration 061; `ForeignKeys`; `Ids` (nobody has heard of a crew not yet created);
`Answers`, `Reforms` and `Pairs`: a request that names a crew has found or made one of its
requester, source and festival, as far as those still exist, and two like requests name the same.
The weaker `Wanted` ("as far as they exist") is what survives the deletion of users and crews,
which set the columns of the index to NULL.

It then proves who is added, and what holds in some situations only; there each assumption is a
predicate on `scenario`, and what it excludes is a race the code has.

* `JoinedFirst`, in every situation: the user of a request past its profile check, and everybody
  a reform plans to add, has a profile or had one while the request was served
  (`ProfilesChecked`, `EligibleJoined`); `lapsed` only grows meanwhile (`Lapses`).
* `CapKept`, where a PUT and a reform run beside nothing: `addMember` takes the cap it was
  given (`RowMax` says that it is the crew's), and the places a reform's loop counts are
  there (`SlotsFree`). A PUT lowers a cap that has been read; a join beside a reform's loop takes
  a place that was counted as free.
* `OneOwnerKept`, where transfers run beside nothing and users are not deleted, or the other way
  around: a leave or kick past its check has found no owner (`FoundOwners`), which a transfer or
  the promotion of an heir would undo; `hardDelete` goes by the creator, who is the owner as long
  as nobody transfers (`OwnedByCreator`).
* `ReformFinds`, where a crew is deleted beside nothing (`DeletesAlone`; users may be deleted at
  any time, and take the crews left empty with them): an action property, from two invariants.
  The crew that a reform has found or made stays while its requester does (`NewStands`, from
  `CrewStays`), and whoever lost on the index lost to a crew that is there (`LostToOne`), which
  the second read finds among the requester's crews.

`CrewRoomProofs` (any users, crews, sockets and bounds, and any situations).

* `TypeCorrect`; its invariant `Types` says what a handler has read at each await.
* `PresenceListed`: a socket is in the room of at most the festival that it names, and is listed
  there or has a join in flight that is about to write its entry (`EveryPlaced`).
* `GateNamesRoom`: `socket.data.crewId` and the one crew room change together (`Gated`), and an
  eviction that takes the room alone comes when the member is gone (`KickedFirst`). Where
  somebody leaves a festival, or a removed member is added again before the eviction, that is not so
  (`Steady` excludes both).
* `RemovedAreEvicted`, where removals meet no other handler (`Orderly`). Whoever is in a crew's room
  is a member or about to be evicted (`RoomsMember`), a join is let in on an answer that still
  holds (`EntersMember`), the eviction has seen the whole room (`Fetched`), and evictions find
  sockets since they name their users (`JoinsKnown`, `RoomsKnown`).
* `StreamEnds`: a count of relayed positions is not inductive, so `Cut` bounds a potential: the
  positions relayed, and all that the handlers in flight may still relay. A recheck that will find
  nobody pays for nothing, one that found the member for one position, a share that found the
  member for all that a whole share lets through (`Weight`), the share itself for what is left of
  its count (`Left`) and for what each handler may let pass before its own recheck (`Free`,
  `Others`). Once the user is no member the potential never rises, whatever else is done; when
  the member is removed it is at most `RelayLimit`.

`CredentialsProofs` (any addresses, groups of endpoints, maximum of sessions and concurrency).
`CInv` has what a request has read and proved at each statement (`Served`), that a live refresh
token is linked to the session made with it (`Linked`), and `Cutting`: a session obtained with
replaced credentials is going to be deleted by a request in flight. `TypeCorrect` and
`StaleAreCut` follow: a session minted after a copy of the row that is not in force was read is
`raced`, and a copy that is in force has the address on file (`CopiesInv`). `OverflowBounded`
counts sessions: a count alone is not inductive, since a transaction may evict by what it has
read long before. `OInv` orders the transactions that have read and not committed so that each
is either followed by few enough, or has overlooked few enough (`Fits`); a commit uses the place
it has in the order. `ChangesCut` adds `LInv`: a link that is left will be cut by a request in
flight (`LeftAreCut`), a request that still proves the credentials in force has read the address
in force (`KeptIsOnFile`), so that its link replaces those to other addresses, and a request
mints its link with its last statement.

`CrewStoreProofs` (any number of entities, requests, events and versions, any of the operations).

* `TypeCorrect`; `CreatedOnce`, from `Once`: an entity that was not made is listed nowhere
  (`Unmade`), its create is one request (`CreatedByOne`), the server does not know it before it has
  seen the create (`Withheld`), what is listed is of the crew it was made for, a placeholder only
  while the replay is not reconciled (`Listed`), and a row is in the bag once (`ListedOnce`).
* `LastSelected`: `LastSelectWins` is inductive, since every answer is checked against
  `_lastSelectCrewId` or the open crew before it is taken.
* `RosterOfCrew`, where `forceAddMember` runs beside nothing else: `AddingAlone` says that the crew
  it adds to is still the one that is open, if one is.
* `OthersAdvance`: the action property `OthersNeverRegress`, step by step from the types.

`NotificationsProofs` also proves `TypeCorrect` and `ToldOnce` (any users, devices, attempts,
chunks, capacities and failures). The types need the sizes of the retry queue and the batch
together (`Waiting`: what fails again joins the queue without being counted), and that a job
whose worker runs is active and has attempts left (`JobInv`). `ToldOnce` is `HeardOnce`: unless
two runs overlapped, there is one (`Alone`), and whom it has still to push to has no row
(`Unsent`); a resend that arrived and was reported as failed leaves its device in doubt before
it is queued again (`RetryingPast`). A device that no send is in doubt of has heard nothing and
waits nowhere (`Silent`), or its owner has a row, or is about to have one (`Logging`); it waits
in the queue or the batch at most once, and then has not heard (`Fine`); the same for mailboxes
(`MailOk`).

Model-checked only: liveness (`QueueDrains`, `WaitersAreReleased`, `EverythingEnds`,
`BarComesTrue`), since fairness and ENABLED are outside the prover. Every other property of a
passing run is proved, where a theorem has an assumption in the situations that it names.

## 5. Plan

1. Done: the queue and its refinement, connectivity, idempotency, crews, rooms,
   credentials, the crew store, notifications.
2. The web queue (`packages/web/src/hooks/useOfflineQueue.ts`): tabs that share IndexedDB, each
   with its own guard, removal by id, the bridge's triggers.
3. The reminder scheduler: overlapping ticks and a restart between a send and its mark.
4. Rate limiting with the fall-back from Redis to memory and back.
5. Votes on polls that close, the seats of rides, claims of packing items.
6. The queue composed with `Idempotency` on the server's side.
7. Theorems about those modules; of the modules there are, every safety and action property
   that a run checks is proved.

## 6. Not modelled

Screens, styles, maps, exports, images, e-mail, Spotify and weather (pure I/O or
rendering) are most of the repository's lines; admin reports, audit and metrics
(append-only); deployment, scripts and migrations other than the constraints they create;
SQL isolation below the level of a transaction. The web queue, reminders, rate-limit
windows and the remaining crew features are left for the plan. `PROJECT.json` lists every
part with its reason.
