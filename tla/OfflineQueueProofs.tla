------------------------ MODULE OfflineQueueProofs --------------------------
(***************************************************************************)
(* Proofs about OfflineQueue, for every set of client ids and accounts and *)
(* every value of the bounds.                                              *)
(***************************************************************************)
EXTENDS OfflineQueue, TLAPS, FiniteSetTheorems

DrainOps == {"remove", "bump", "rewrite"}

DrainJobOps == DrainOps \cup {"snapshot"}

\* A caller j of the lock is consistent with what the drain d is doing.
JobOk(j, d) ==
  /\ j.op \in {"enqueue", "retry"} => j.arg \in Entry
  /\ j.op = "snapshot" => d.phase = "snapshot"
  /\ j.op \in DrainOps => d.phase = "locked"
  /\ j.op = "bump" => ~GivesUp(d.cur)

\* The sections that belong to the running drain: there is at most one, the
\* drain waits for it, and what it works on is known.
DrainJobs ==
  /\ drain.phase \in {"inflight", "locked", "report"} => drain.cur \in Entry
  /\ \A i \in DOMAIN lock : JobOk(lock[i], drain)
  /\ \A i, j \in DOMAIN lock :
       lock[i].op \in DrainJobOps /\ lock[j].op \in DrainJobOps => i = j

\* Stored queues are finite, so that their depth is a number.
FiniteQueues ==
  /\ IsFiniteSet(queue)
  /\ \A i \in DOMAIN lock : lock[i].loaded => IsFiniteSet(lock[i].read)

\* Only the first caller of withQueueLock has read anything.
OnlyHolderReads == \A i \in DOMAIN lock : lock[i].loaded => i = 1

\* A section prunes only what it has read.
PruneHasRead ==
  \A i \in DOMAIN lock : lock[i].prune => lock[i].loaded /\ lock[i].op # "clear"

\* Only a sign-out or a restart lets pendingSync differ from the stored depth,
\* until clearQueue or refreshPendingCount has had its turn.
PendingCounts ==
  (\A i \in DOMAIN lock : lock[i].op \notin {"clear", "refresh"})
    => pendingSync = Cardinality(queue)

LockInv == FiniteQueues /\ OnlyHolderReads /\ PruneHasRead
             /\ LockedReadIsCurrent /\ UniqueClientIds /\ PendingCounts

IInv == TypeOK /\ DrainJobs /\ LockInv

-----------------------------------------------------------------------------
(* The lock's sequence.                                                    *)

\* Dropping the caller i leaves the others in their order.
LEMMA DropSeq ==
  ASSUME NEW S, lock \in Seq(S), NEW i \in DOMAIN lock
  PROVE  /\ Drop(i) \in Seq(S)
         /\ Len(Drop(i)) = Len(lock) - 1
         /\ DOMAIN Drop(i) = 1..(Len(lock) - 1)
         /\ \A k \in DOMAIN Drop(i) :
              Drop(i)[k] = IF k < i THEN lock[k] ELSE lock[k + 1]
<1>1. Len(lock) \in Nat /\ DOMAIN lock = 1..Len(lock) /\ \A k \in 1..Len(lock) : lock[k] \in S
  OBVIOUS
<1>2. Drop(i) \in [1..(Len(lock) - 1) -> S]
  BY <1>1 DEF Drop
<1>3. Len(lock) - 1 \in Nat
  BY <1>1
<1> QED
  BY <1>1, <1>2, <1>3 DEF Drop

\* A new caller makes a well-typed lock.
LEMMA AppendJob ==
  ASSUME NEW s \in Seq(JobType), NEW op \in Ops, NEW e \in Entry \cup {None}
  PROVE  /\ Append(s, Job(op, e)) \in Seq(JobType)
         /\ <<Job(op, e)>> \in Seq(JobType)
<1>1. Job(op, e) \in JobType
  BY DEF Job, JobType
<1> QED
  BY <1>1

\* Replacing one element keeps a sequence's domain and its other elements.
LEMMA ReplaceJob ==
  ASSUME NEW S, NEW s \in Seq(S), NEW i \in DOMAIN s, NEW j \in S
  PROVE  /\ [s EXCEPT ![i] = j] \in Seq(S)
         /\ DOMAIN [s EXCEPT ![i] = j] = DOMAIN s
         /\ \A k \in DOMAIN s : [s EXCEPT ![i] = j][k] = IF k = i THEN j ELSE s[k]
OBVIOUS

\* The image of a finite set is finite.
LEMMA FiniteImage ==
  ASSUME NEW S, IsFiniteSet(S), NEW f, f \in [S -> {f[x] : x \in S}]
  PROVE  IsFiniteSet({f[x] : x \in S})
<1>1. f \in Surjection(S, {f[x] : x \in S})
  BY DEF Surjection
<1> QED
  BY <1>1, FS_Surjection

\* What the user writes is a request of the account signed in.
LEMMA NewWriteType ==
  ASSUME TypeOK, NEW c \in ClientIds, MayWrite(c)
  PROVE  NewWrite(c) \in Request /\ nextVer \in Versions
<1>1. nextVer \in Versions /\ session \in Users
  BY ConstantsAssumption DEF TypeOK, MayWrite, Versions
<1>2. RefOf(c) \in ClientIds \cup {None}
  BY ConstantsAssumption DEF RefOf
<1> QED
  BY <1>1, <1>2 DEF NewWrite, Request

\* What a write, or a failed one that is retried, puts in the lock is an entry.
LEMMA NewEntryType ==
  ASSUME TypeOK, NEW x \in Request \cup Item
  PROVE  NewEntry(x) \in Entry
<1>1. now \in Times /\ 0 \in 0..(MaxRetries - 1)
  BY ConstantsAssumption DEF TypeOK
<1> QED
  BY <1>1 DEF NewEntry, Entry, Request, Item

\* What recordFailed shows of an entry is a FailedSyncItem.
LEMMA ItemOfType == ASSUME NEW e \in Entry PROVE ItemOf(e) \in Item
BY DEF ItemOf, Entry, Item

\* Sections written back are well-typed and finite.
LEMMA WrittenQueues ==
  ASSUME NEW S \in SUBSET Entry, IsFiniteSet(S), NEW e \in Entry, NEW c
  PROVE  /\ Upsert(S, e) \in SUBSET Entry /\ IsFiniteSet(Upsert(S, e))
         /\ Without(S, c) \in SUBSET Entry /\ IsFiniteSet(Without(S, c))
<1>1. Without(S, c) \subseteq S /\ Without(S, e.clientId) \subseteq S
  BY DEF Without
<1>2. IsFiniteSet(Without(S, c)) /\ IsFiniteSet(Without(S, e.clientId))
  BY <1>1, FS_Subset
<1>3. IsFiniteSet(Without(S, e.clientId) \cup {e})
  BY <1>2, FS_AddElement
<1> QED
  BY <1>1, <1>2, <1>3 DEF Upsert

\* The section that works is the first caller, and it read the stored queue.
LEMMA HolderRead ==
  ASSUME IInv, NEW i \in DOMAIN lock, NEW op, Holds(i, op)
  PROVE  /\ i = 1 /\ lock[i] \in JobType /\ lock[i].op = op
         /\ lock[i].read \in SUBSET Entry /\ IsFiniteSet(lock[i].read)
         /\ Cardinality(lock[i].read) \in Nat
         /\ op # "clear" => lock[i].read = queue
<1>1. i = 1 /\ lock[i] \in JobType /\ lock[i].loaded /\ ~lock[i].prune /\ lock[i].op = op
  BY DEF IInv, LockInv, TypeOK, Holds, OnlyHolderReads
<1>2. lock[i].read \in SUBSET Entry
  BY <1>1 DEF JobType
<1>3. IsFiniteSet(lock[i].read)
  BY <1>1 DEF IInv, LockInv, FiniteQueues
<1>4. op # "clear" => lock[i].read = queue
  BY <1>1 DEF IInv, LockInv, LockedReadIsCurrent
<1> QED
  BY <1>1, <1>2, <1>3, <1>4, FS_CardinalityType

\* recordFailed keeps the failed lists in their types.
LEMMA RecordedType ==
  ASSUME TypeOK, NEW S \in SUBSET Item, recordFailed(S)
  PROVE  /\ failedSync' \subseteq Item /\ surfaced' \subseteq Versions
         /\ persisting' \subseteq [item : Item, read : (SUBSET Item) \cup {None}]
<1>1. failedSync' \subseteq Item
  BY DEF TypeOK, recordFailed
<1>2. surfaced' \subseteq Versions
  BY DEF TypeOK, recordFailed, VersionsOf, Item
<1>3. persisting' \subseteq [item : Item, read : (SUBSET Item) \cup {None}]
  BY DEF TypeOK, recordFailed
<1> QED
  BY <1>1, <1>2, <1>3

\* A section that writes back a pruned queue is the first caller.
LEMMA PruningRead ==
  ASSUME IInv, NEW i \in DOMAIN lock, pruneWrite(i)
  PROVE  /\ i = 1 /\ lock[i] \in JobType
         /\ lock[i].read \in SUBSET Entry /\ IsFiniteSet(lock[i].read)
         /\ Cardinality(lock[i].read) \in Nat /\ lock[i].read \subseteq queue
<1>1. lock[i] \in JobType /\ lock[i].prune
  BY DEF IInv, TypeOK, pruneWrite
<1>2. lock[i].loaded /\ lock[i].op # "clear"
  BY <1>1 DEF IInv, LockInv, PruneHasRead
<1>3. i = 1 /\ lock[i].read \subseteq queue
  BY <1>2 DEF IInv, LockInv, LockedReadIsCurrent
<1>4. lock[i].read \in SUBSET Entry /\ IsFiniteSet(lock[i].read)
  BY <1>1, <1>2 DEF IInv, LockInv, FiniteQueues, JobType
<1> QED
  BY <1>1, <1>3, <1>4, FS_CardinalityType

\* Every step keeps every variable in its type.
LEMMA TypeStep == IInv /\ [Next]_vars => TypeOK'
<1> SUFFICES ASSUME IInv, [Next]_vars PROVE TypeOK'
  OBVIOUS
<1> USE ConstantsAssumption
<1>a. TypeOK /\ DrainJobs
  BY DEF IInv
<1>1. ASSUME NEW i \in DOMAIN lock, readQueue(i) PROVE TypeOK'
  <2> DEFINE stale == IF lock[i].op = "clear" THEN {} ELSE {e \in queue : ~IsFresh(e)}
             fresh == IF lock[i].op = "clear" THEN {} ELSE queue \ stale
             failed == {ItemOf(e) : e \in stale}
  <2> DEFINE j == [lock[i] EXCEPT !.loaded = TRUE, !.read = fresh, !.prune = (stale # {})]
  <2>1. lock' = [lock EXCEPT ![i] = j]
    BY <1>1 DEF readQueue
  <2>2. fresh \in SUBSET Entry /\ failed \subseteq Item /\ (stale # {}) \in BOOLEAN
    BY <1>a, ItemOfType DEF TypeOK
  <2>3. lock' \in Seq(JobType)
    <3>1. lock[i] \in JobType
      BY <1>a DEF TypeOK
    <3>2. j \in JobType
      BY <3>1, <2>2 DEF JobType
    <3>3. lock \in Seq(JobType)
      BY <1>a DEF TypeOK
    <3> HIDE DEF j
    <3> QED
      BY <2>1, <3>2, <3>3, ReplaceJob
  <2>4. recordFailed(failed)
    BY <1>1 DEF readQueue
  <2>5. /\ failedSync' \subseteq Item /\ surfaced' \subseteq Versions
        /\ persisting' \subseteq [item : Item, read : (SUBSET Item) \cup {None}]
    BY <1>a, <2>2, <2>4, RecordedType
  <2> QED
    BY <1>1, <1>a, <2>3, <2>5 DEF readQueue, TypeOK, outside, budget, device, excused
<1>2. ASSUME NEW i \in DOMAIN lock, pruneWrite(i) PROVE TypeOK'
  <2>1. lock[i] \in JobType /\ lock[i].read \in SUBSET Entry
    BY <1>2, <1>a, PruningRead
  <2>2. Cardinality(lock[i].read) \in Nat
    BY <1>2, PruningRead
  <2>3. lock' \in Seq(JobType)
    <3>1. lock' = [lock EXCEPT ![i] = [lock[i] EXCEPT !.prune = FALSE]]
      BY <1>2 DEF pruneWrite
    <3>2. [lock[i] EXCEPT !.prune = FALSE] \in JobType
      BY <2>1 DEF JobType
    <3>3. lock \in Seq(JobType)
      BY <1>a DEF TypeOK
    <3> QED
      BY <3>1, <3>2, <3>3, ReplaceJob
  <2> QED
    BY <1>2, <1>a, <2>1, <2>2, <2>3 DEF pruneWrite, writeQueue, TypeOK, outside, budget, history, excused
<1>3. ASSUME NEW i \in DOMAIN lock, enqueueMutation(i) PROVE TypeOK'
  <2> DEFINE e == [lock[i].arg EXCEPT !.createdAt = now]
  <2>1. Holds(i, "enqueue") /\ lock[i].arg \in Entry /\ lock[i].op = "enqueue"
    BY <1>3, <1>a DEF enqueueMutation, DrainJobs, JobOk, Holds
  <2>2. e \in Entry
    BY <1>a, <2>1 DEF TypeOK, Entry
  <2>3. /\ Upsert(lock[i].read, e) \in SUBSET Entry
        /\ Cardinality(Upsert(lock[i].read, e)) \in Nat
        /\ Superseded(lock[i].read, e) \subseteq Versions
    <3>1. lock[i].read \in SUBSET Entry /\ IsFiniteSet(lock[i].read)
      BY <2>1, HolderRead
    <3>2. Upsert(lock[i].read, e) \in SUBSET Entry /\ IsFiniteSet(Upsert(lock[i].read, e))
      BY <2>2, <3>1, WrittenQueues
    <3>3. Superseded(lock[i].read, e) \subseteq Versions
      BY <3>1 DEF Superseded, Entry
    <3> QED
      BY <3>2, <3>3, FS_CardinalityType
  <2>4. Drop(i) \in Seq(JobType)
    BY <1>a, DropSeq DEF TypeOK
  <2>5. e.ver \in Versions
    BY <2>2 DEF Entry
  <2> QED
    BY <1>3, <1>a, <2>3, <2>4, <2>5 DEF enqueueMutation, writeQueue, TypeOK, outside,
       budget, excused
<1>4. ASSUME NEW i \in DOMAIN lock, retryFailed(i) PROVE TypeOK'
  <2> DEFINE e == [lock[i].arg EXCEPT !.createdAt = now]
  <2>1. Holds(i, "retry") /\ lock[i].arg \in Entry /\ lock[i].op = "retry"
    BY <1>4, <1>a DEF retryFailed, DrainJobs, JobOk, Holds
  <2>2. e \in Entry
    BY <1>a, <2>1 DEF TypeOK, Entry
  <2>3. /\ Upsert(lock[i].read, e) \in SUBSET Entry
        /\ Cardinality(Upsert(lock[i].read, e)) \in Nat
        /\ Superseded(lock[i].read, e) \subseteq Versions
    <3>1. lock[i].read \in SUBSET Entry /\ IsFiniteSet(lock[i].read)
      BY <2>1, HolderRead
    <3>2. Upsert(lock[i].read, e) \in SUBSET Entry /\ IsFiniteSet(Upsert(lock[i].read, e))
      BY <2>2, <3>1, WrittenQueues
    <3>3. Superseded(lock[i].read, e) \subseteq Versions
      BY <3>1 DEF Superseded, Entry
    <3> QED
      BY <3>2, <3>3, FS_CardinalityType
  <2>4. lock' \in Seq(JobType)
    <3>1. Drop(i) \in Seq(JobType) /\ Append(Drop(i), Job("snapshot", None)) \in Seq(JobType)
      BY <1>a, DropSeq, AppendJob DEF TypeOK, Ops
    <3> QED
      BY <1>4, <3>1 DEF retryFailed
  <2>5. Without(failedSync, e.clientId) \subseteq Item
    BY <1>a DEF TypeOK, Without
  <2>6. drain' \in DrainType
    <3>1. drain' = drain \/ drain' = [Idle EXCEPT !.phase = "snapshot"]
      BY <1>4 DEF retryFailed
    <3>2. drain \in DrainType
      BY <1>a DEF TypeOK
    <3> QED
      BY <3>1, <3>2 DEF DrainType, Idle
  <2> QED
    BY <1>4, <1>a, <2>3, <2>4, <2>5, <2>6 DEF retryFailed, writeQueue, TypeOK,
       outside, budget, excused
<1>5. ASSUME NEW i \in DOMAIN lock, clearQueue(i) PROVE TypeOK'
  <2>1. Drop(i) \in Seq(JobType)
    BY <1>a, DropSeq DEF TypeOK
  <2>2. Cardinality({}) \in Nat
    BY FS_EmptySet
  <2> QED
    BY <1>5, <1>a, <2>1, <2>2 DEF clearQueue, writeQueue, TypeOK, outside, budget, excused
<1>6. ASSUME NEW i \in DOMAIN lock, refreshPendingCount(i) PROVE TypeOK'
  BY <1>6, <1>a, HolderRead, DropSeq DEF refreshPendingCount, TypeOK, device, outside,
     budget, history, excused
<1>7. ASSUME NEW i \in DOMAIN lock, takeSnapshot(i) PROVE TypeOK'
  BY <1>7, <1>a, HolderRead, DropSeq DEF takeSnapshot, TypeOK, DrainType, device, outside,
     budget, history, excused
<1>8. ASSUME NEW i \in DOMAIN lock, removeReplayed(i) PROVE TypeOK'
  <2> DEFINE q == Without(lock[i].read, drain.cur.clientId)
  <2>1. Holds(i, "remove") /\ drain.cur \in Entry
    BY <1>8, <1>a DEF removeReplayed, DrainJobs, JobOk, Holds, DrainOps
  <2>2. q \in SUBSET Entry /\ Cardinality(q) \in Nat
    BY <2>1, HolderRead, WrittenQueues, FS_CardinalityType
  <2>3. Drop(i) \in Seq(JobType) /\ Append(Drop(i), Job("rewrite", None)) \in Seq(JobType)
    BY <1>a, DropSeq, AppendJob DEF TypeOK, Ops
  <2>4. drain' \in DrainType
    <3>1. drain' = drain \/ \E ph \in {"loop", "report"} : drain' = [drain EXCEPT !.phase = ph]
      BY <1>8 DEF removeReplayed
    <3>2. drain \in DrainType
      BY <1>a DEF TypeOK
    <3> QED
      BY <3>1, <3>2 DEF DrainType
  <2>5. lock' \in Seq(JobType)
    BY <1>8, <2>3 DEF removeReplayed
  <2> QED
    BY <1>8, <1>a, <2>2, <2>4, <2>5
       DEF removeReplayed, writeQueue, TypeOK, outside, budget, history, excused
<1>9. ASSUME NEW i \in DOMAIN lock, bumpRetries(i) PROVE TypeOK'
  <2> DEFINE f(e) == IF e.clientId = drain.cur.clientId
                     THEN [e EXCEPT !.retries = nextRetries(drain.cur)] ELSE e
             q == {f(e) : e \in lock[i].read}
             g == [e \in lock[i].read |-> f(e)]
  <2>1. Holds(i, "bump") /\ drain.cur \in Entry /\ ~GivesUp(drain.cur)
    BY <1>9, <1>a DEF bumpRetries, DrainJobs, JobOk, Holds, DrainOps
  <2>2. nextRetries(drain.cur) \in 0..(MaxRetries - 1)
    BY <2>1 DEF GivesUp, nextRetries, Entry
  <2>3. q \in SUBSET Entry
    BY <2>1, <2>2, HolderRead DEF Entry
  <2>4. Cardinality(q) \in Nat
    <3>1. IsFiniteSet(lock[i].read)
      BY <2>1, HolderRead
    <3>2. q = {g[e] : e \in lock[i].read} /\ g \in [lock[i].read -> {g[e] : e \in lock[i].read}]
      OBVIOUS
    <3> HIDE DEF g, q
    <3>3. IsFiniteSet(q)
      BY <3>1, <3>2, FiniteImage
    <3> QED
      BY <3>3, FS_CardinalityType
  <2>5. Drop(i) \in Seq(JobType)
    BY <1>a, DropSeq DEF TypeOK
  <2>6. drain' \in DrainType
    BY <1>9, <1>a DEF bumpRetries, TypeOK, DrainType
  <2> QED
    BY <1>9, <1>a, <2>3, <2>4, <2>5, <2>6
       DEF bumpRetries, writeQueue, TypeOK, outside, budget, history, excused
<1>10. ASSUME NEW i \in DOMAIN lock, rewriteUrls(i) PROVE TypeOK'
  <2> DEFINE f(e) == IF e.ref = drain.cur.clientId THEN [e EXCEPT !.ref = None] ELSE e
             q == {f(e) : e \in lock[i].read}
             g == [e \in lock[i].read |-> f(e)]
  <2>1. Holds(i, "rewrite") /\ q \in SUBSET Entry
    BY <1>10, HolderRead DEF rewriteUrls, Entry
  <2>2. Cardinality(q) \in Nat
    <3>1. IsFiniteSet(lock[i].read)
      BY <2>1, HolderRead
    <3>2. q = {g[e] : e \in lock[i].read} /\ g \in [lock[i].read -> {g[e] : e \in lock[i].read}]
      OBVIOUS
    <3> HIDE DEF g, q
    <3>3. IsFiniteSet(q)
      BY <3>1, <3>2, FiniteImage
    <3> QED
      BY <3>3, FS_CardinalityType
  <2>3. Drop(i) \in Seq(JobType)
    BY <1>a, DropSeq DEF TypeOK
  <2>4. drain' \in DrainType
    BY <1>10, <1>a DEF rewriteUrls, TypeOK, DrainType
  <2> QED
    BY <1>10, <1>a, <2>1, <2>2, <2>3, <2>4
       DEF rewriteUrls, writeQueue, TypeOK, outside, budget, history, excused
<1>11. ASSUME NEW p \in persisting, persistRead(p) PROVE TypeOK'
  BY <1>11, <1>a DEF persistRead, TypeOK, device, outside, budget, history, excused
<1>12. ASSUME NEW p \in persisting, persistWrite(p) PROVE TypeOK'
  <2>1. p.item \in Item /\ p.read \in SUBSET Item
    BY <1>12, <1>a DEF persistWrite, TypeOK
  <2>2. Upsert(p.read, p.item) \subseteq Item
    BY <2>1 DEF Upsert, Without
  <2> QED
    BY <1>12, <1>a, <2>2 DEF persistWrite, TypeOK, outside, budget, history, excused
<1>13. CASE hydrateFailedSync
  BY <1>13, <1>a DEF hydrateFailedSync, TypeOK, device, outside, budget, history, excused
<1>14. CASE drainQueue
  <2>1. lock' \in Seq(JobType)
    BY <1>14, <1>a, AppendJob DEF drainQueue, TypeOK, Ops
  <2>2. drain' \in DrainType
    BY <1>14 DEF drainQueue, DrainType, Idle
  <2> QED
    BY <1>14, <1>a, <2>1, <2>2 DEF drainQueue, TypeOK, device, outside, budget, history, excused
<1>15. ASSUME NEW m \in drain.todo, replay(m) PROVE TypeOK'
  BY <1>15, <1>a DEF replay, TypeOK, DrainType, device, outside, budget, history, excused
<1>16. CASE drainDone
  BY <1>16, <1>a DEF drainDone, TypeOK, DrainType, Idle, device, outside, budget, history, excused
<1>17. CASE replayOk
  <2>1. lock' \in Seq(JobType)
    BY <1>17, <1>a, AppendJob DEF replayOk, TypeOK, Ops
  <2>2. drain' \in DrainType
    BY <1>17, <1>a DEF replayOk, TypeOK, DrainType
  <2> QED
    BY <1>17, <1>a, <2>1, <2>2 DEF replayOk, TypeOK, device, outside, budget, history, excused
<1>18. ASSUME NEW o \in {"permanent", "transient"}, replayFails(o) PROVE TypeOK'
  <2>1. lock' \in Seq(JobType)
    <3>1. CASE offlineMode
      BY <1>18, <1>a, <3>1 DEF replayFails, TypeOK
    <3>2. CASE ~offlineMode
      <4>1. /\ Append(lock, Job("remove", None)) \in Seq(JobType)
            /\ Append(lock, Job("bump", None)) \in Seq(JobType)
        BY <1>a, AppendJob DEF TypeOK, Ops
      <4> QED
        BY <1>18, <3>2, <4>1 DEF replayFails
    <3> QED
      BY <3>1, <3>2
  <2>2. drain' \in DrainType
    <3>1. CASE offlineMode
      BY <1>18, <3>1 DEF replayFails, DrainType, Idle
    <3>2. CASE ~offlineMode
      <4>1. drain' = [drain EXCEPT !.phase = "locked", !.outcome = o]
        BY <1>18, <3>2 DEF replayFails
      <4> QED
        BY <1>a, <4>1 DEF TypeOK, DrainType, Outcomes
    <3> QED
      BY <3>1, <3>2
  <2>3. Abandoned \subseteq Versions
    BY <1>a DEF Abandoned, DrainJobs, Entry
  <2> QED
    BY <1>18, <1>a, <2>1, <2>2, <2>3 DEF replayFails, TypeOK, device, budget, history, excused
<1>19. ASSUME NEW o \in Outcomes, serverHandles(o) PROVE TypeOK'
  <2>1. drain' \in DrainType
    <3>1. drain' = [drain EXCEPT !.outcome = o]
      BY <1>19 DEF serverHandles
    <3>2. drain \in DrainType
      BY <1>a DEF TypeOK
    <3> QED
      BY <3>1, <3>2 DEF DrainType
  <2>2. drain.cur.clientId \in ClientIds /\ drain.cur.ver \in Versions
    BY <1>19, <1>a DEF serverHandles, DrainJobs, Entry
  <2>3. synced' \subseteq Versions
    BY <1>19, <1>a, <2>2 DEF serverHandles, TypeOK
  <2> QED
    BY <1>19, <1>a, <2>1, <2>3 DEF serverHandles, TypeOK, device, budget, excused
<1>20. ASSUME NEW v \in late, lateRequest(v) PROVE TypeOK'
  <2>1. synced' \subseteq Versions /\ late' \subseteq Versions
    BY <1>20, <1>a DEF lateRequest, TypeOK
  <2> QED
    BY <1>20, <1>a, <2>1 DEF lateRequest, TypeOK, device, memory, budget, excused
<1>b. ASSUME NEW c \in ClientIds, MayWrite(c), makeWrite
      PROVE  nextVer' \in Nat \ {0} /\ overtaken' \subseteq Versions \X Versions
  <2>1. nextVer' = nextVer + 1 /\ nextVer \in Nat \ {0}
    BY <1>b, <1>a DEF makeWrite, TypeOK
  <2>2. nextVer \in Versions /\ \A r \in fetches : r.ver \in Versions
    BY <1>b, <1>a, NewWriteType DEF TypeOK, Request
  <2>3. overtaken' = overtaken \cup {<<r.ver, nextVer>> : r \in fetches}
    BY <1>b DEF makeWrite
  <2>4. overtaken \subseteq Versions \X Versions
    BY <1>a DEF TypeOK
  <2> QED
    BY <2>1, <2>2, <2>3, <2>4
<1>c. ASSUME NEW x \in Request, enqueueOfflineMutation(x) PROVE lock' \in Seq(JobType)
  <2>1. NewEntry(x) \in Entry /\ "enqueue" \in Ops /\ lock \in Seq(JobType)
    BY <1>a, NewEntryType DEF TypeOK, Ops
  <2>2. lock' = Append(lock, Job("enqueue", NewEntry(x)))
    BY <1>c DEF enqueueOfflineMutation
  <2> QED
    BY <2>1, <2>2, AppendJob
<1>21. ASSUME NEW c \in ClientIds, maybeQueueOffline(c) PROVE TypeOK'
  <2>1. lock' \in Seq(JobType)
    BY <1>21, <1>a, <1>c, NewWriteType DEF maybeQueueOffline
  <2>2. nextVer' \in Nat \ {0} /\ overtaken' \subseteq Versions \X Versions
    BY <1>21, <1>b DEF maybeQueueOffline
  <2>3. UNCHANGED <<device, drain, persisting, failedSync, pendingSync, offlineMode, booting,
                    outside, crashes, logouts, directs, taps, accepted, synced, surfaced,
                    waived, astray, retried, unreported>>
    BY <1>21 DEF maybeQueueOffline
  <2> QED
    BY <1>a, <2>1, <2>2, <2>3 DEF TypeOK, device, outside
<1>22. ASSUME NEW c \in ClientIds, fetch(c) PROVE TypeOK'
  <2>1. NewWrite(c) \in Request /\ nextVer \in Versions
    BY <1>22, <1>a, NewWriteType DEF fetch
  <2>2. fetches' \subseteq Request /\ late' \subseteq Versions
    BY <1>22, <1>a, <2>1 DEF fetch, TypeOK
  <2>3. nextVer' \in Nat \ {0} /\ overtaken' \subseteq Versions \X Versions
    BY <1>22, <1>b DEF fetch
  <2>4. directs' \in Nat
    BY <1>22, <1>a DEF fetch, TypeOK
  <2>5. UNCHANGED <<device, memory, session, now, crashes, logouts, taps, accepted, synced,
                    surfaced, waived, astray, retried, unreported>>
    BY <1>22 DEF fetch
  <2> QED
    BY <1>a, <2>2, <2>3, <2>4, <2>5 DEF TypeOK, device, memory
<1>23. ASSUME NEW r \in fetches, fetchFails(r) PROVE TypeOK'
  <2>1. lock' \in Seq(JobType)
    BY <1>23, <1>a, <1>c DEF fetchFails, TypeOK
  <2>2. fetches' \subseteq Request /\ offlineMode' \in BOOLEAN
    BY <1>23, <1>a DEF fetchFails, TypeOK
  <2>3. UNCHANGED <<device, drain, persisting, failedSync, pendingSync, booting, session,
                    now, late, budget, history>>
    BY <1>23 DEF fetchFails
  <2> QED
    BY <1>a, <2>1, <2>2, <2>3 DEF TypeOK, device, budget, history, excused
<1>24. ASSUME NEW x \in failedSync, retryTap(x) PROVE TypeOK'
  <2>1. x \in Item
    BY <1>a DEF TypeOK
  <2>2. NewEntry(x) \in Entry
    BY <1>a, <2>1, NewEntryType
  <2>3. lock' \in Seq(JobType)
    <3>1. lock' = Append(lock, Job("retry", NewEntry(x))) /\ "retry" \in Ops
      BY <1>24 DEF retryTap, Ops
    <3> QED
      BY <1>a, <2>2, <3>1, AppendJob DEF TypeOK
  <2>4. retried' \subseteq Versions /\ taps' \in Nat
    BY <1>24, <1>a, <2>1 DEF retryTap, TypeOK, Item
  <2>5. UNCHANGED <<device, drain, persisting, failedSync, pendingSync, offlineMode, booting,
                    outside, nextVer, crashes, logouts, directs, accepted, synced, surfaced,
                    waived, overtaken, astray, unreported>>
    BY <1>24 DEF retryTap
  <2> QED
    BY <1>a, <2>3, <2>4, <2>5 DEF TypeOK, device, outside
<1>25. ASSUME NEW x \in failedSync, dismissFailedSync(x) PROVE TypeOK'
  BY <1>25, <1>a DEF dismissFailedSync, TypeOK, Without, Item, device, outside, excused
<1>26. CASE resetAllStores
  <2>1. lock' \in Seq(JobType)
    BY <1>26, <1>a, AppendJob DEF resetAllStores, TypeOK, Ops
  <2>4. waived' \subseteq Versions /\ logouts' \in Nat /\ session' \in Users \cup {None}
    BY <1>26, <1>a DEF resetAllStores, TypeOK
  <2>5. VersionsOf(fetches) \subseteq Versions
    BY <1>a DEF TypeOK, VersionsOf, Request
  <2>2. waived' \subseteq Versions /\ logouts' \in Nat /\ session' \in Users \cup {None}
        /\ astray' \subseteq Versions
    BY <1>26, <1>a, <2>4, <2>5 DEF resetAllStores, TypeOK
  <2>3. failedSync' \subseteq Item /\ failedDisk' \subseteq Item /\ pendingSync' \in Nat
        /\ offlineMode' \in BOOLEAN
    BY <1>26 DEF resetAllStores
  <2> QED
    BY <1>26, <1>a, <2>1, <2>2, <2>3 DEF resetAllStores, TypeOK
<1>27. ASSUME NEW u \in Users, login(u) PROVE TypeOK'
  BY <1>27, <1>a DEF login, TypeOK, device, memory, budget, history, excused
<1>28. CASE setOfflineMode
  BY <1>28, <1>a DEF setOfflineMode, TypeOK, device, outside, budget, history, excused
<1>29. CASE tick
  BY <1>29, <1>a DEF tick, TypeOK, Times, device, memory, budget, history, excused
<1>30. CASE crash
  <2>1. lock' \in Seq(JobType)
    BY <1>30, <1>a, AppendJob DEF crash, TypeOK, Ops
  <2>2. drain' \in DrainType
    BY <1>30 DEF crash, DrainType, Idle
  <2>3. Abandoned \subseteq Versions /\ VersionsOf(Reporting) \subseteq Versions
    BY <1>a DEF Abandoned, Reporting, VersionsOf, DrainJobs, Entry
  <2>4. persisting' = {} /\ failedSync' = {} /\ pendingSync' \in Nat
        /\ offlineMode' \in BOOLEAN /\ booting' \in BOOLEAN
    BY <1>30 DEF crash
  <2>5. crashes' \in Nat /\ late' \subseteq Versions /\ fetches' = {}
        /\ unreported' \subseteq Versions
    BY <1>30, <1>a, <2>3 DEF crash, TypeOK
  <2>6. UNCHANGED <<device, session, now, nextVer, logouts, directs, taps, accepted, synced,
                    surfaced, waived, overtaken, astray, retried>>
    BY <1>30 DEF crash
  <2> QED
    BY <1>a, <2>1, <2>2, <2>4, <2>5, <2>6 DEF TypeOK, device
<1>31. CASE UNCHANGED vars
  BY <1>31, <1>a DEF TypeOK, vars, device, memory, outside, budget, history, excused
<1>32. CASE reportFailed
  <2>1. ItemOf(drain.cur) \in Item /\ recordFailed({ItemOf(drain.cur)})
    BY <1>32, <1>a, ItemOfType DEF reportFailed, DrainJobs
  <2>2. /\ failedSync' \subseteq Item /\ surfaced' \subseteq Versions
        /\ persisting' \subseteq [item : Item, read : (SUBSET Item) \cup {None}]
    <3>1. {ItemOf(drain.cur)} \in SUBSET Item
      BY <2>1
    <3> QED
      BY <1>a, <2>1, <3>1, RecordedType
  <2>3. drain' \in DrainType
    BY <1>32, <1>a DEF reportFailed, TypeOK, DrainType
  <2> QED
    BY <1>32, <1>a, <2>2, <2>3 DEF reportFailed, TypeOK, device, outside, budget, excused
<1>33. ASSUME NEW r \in fetches, fetchAnswered(r) PROVE TypeOK'
  <2>1. fetches' \subseteq Request /\ offlineMode' \in BOOLEAN
    BY <1>33, <1>a DEF fetchAnswered, TypeOK
  <2>2. UNCHANGED <<device, lock, drain, persisting, failedSync, pendingSync, booting,
                    session, now, late, budget, history>>
    BY <1>33 DEF fetchAnswered
  <2> QED
    BY <1>a, <2>1, <2>2 DEF TypeOK, device, budget, history, excused
<1> QED
  BY <1>1, <1>2, <1>3, <1>4, <1>5, <1>6, <1>7, <1>8, <1>9, <1>10, <1>11, <1>12, <1>13,
     <1>14, <1>15, <1>16, <1>17, <1>18, <1>19, <1>20, <1>21, <1>22, <1>23, <1>24, <1>25,
     <1>26, <1>27, <1>28, <1>29, <1>30, <1>31, <1>32, <1>33
     DEF Next, LockStep, PersistStep, DrainStep, FetchStep, UserStep, Environment

-----------------------------------------------------------------------------
(* The lock and the stored queue.  A step leaves both alone, appends a      *)
(* caller, or is a step of the first caller.                                *)

\* A step that leaves the lock and the stored queue alone keeps LockInv.
LEMMA LockUntouched ==
  ASSUME LockInv, UNCHANGED <<lock, queue, pendingSync>>
  PROVE  LockInv'
BY DEF LockInv, FiniteQueues, OnlyHolderReads, PruneHasRead, LockedReadIsCurrent,
       UniqueClientIds, PendingCounts

\* withQueueLock appends a caller that has read nothing.
LEMMA CallerAppended ==
  ASSUME IInv, NEW op \in Ops, NEW e \in Entry \cup {None},
         lock' = Append(lock, Job(op, e)), queue' = queue,
         op # "clear" => pendingSync' = pendingSync
  PROVE  LockInv'
<1>1. lock \in Seq(JobType) /\ Len(lock) \in Nat /\ DOMAIN lock = 1..Len(lock)
  BY DEF IInv, TypeOK
<1>2. DOMAIN lock' = 1..(Len(lock) + 1)
  BY <1>1
<1>3. \A k \in DOMAIN lock : lock'[k] = lock[k]
  BY <1>1
<1>4. lock'[Len(lock) + 1] = Job(op, e)
  BY <1>1
<1>5. \A k \in DOMAIN lock' : k \in DOMAIN lock \/ k = Len(lock) + 1
  BY <1>1, <1>2
<1>6. ~Job(op, e).loaded /\ ~Job(op, e).prune /\ Job(op, e).op = op
  BY DEF Job
<1>7. FiniteQueues' /\ OnlyHolderReads' /\ PruneHasRead'
  BY <1>3, <1>4, <1>5, <1>6 DEF IInv, LockInv, FiniteQueues, OnlyHolderReads, PruneHasRead
<1>8. LockedReadIsCurrent' /\ UniqueClientIds'
  BY <1>3, <1>4, <1>5, <1>6 DEF IInv, LockInv, LockedReadIsCurrent, UniqueClientIds
<1>9. PendingCounts'
  <2> SUFFICES ASSUME \A k \in DOMAIN lock' : lock'[k].op \notin {"clear", "refresh"}
               PROVE  pendingSync' = Cardinality(queue)
    BY DEF PendingCounts
  <2>1. \A k \in DOMAIN lock : lock[k].op \notin {"clear", "refresh"}
    BY <1>1, <1>2, <1>3
  <2>2. op # "clear"
    BY <1>1, <1>2, <1>4, <1>6
  <2> QED
    BY <2>1, <2>2 DEF IInv, LockInv, PendingCounts
<1> QED
  BY <1>7, <1>8, <1>9 DEF LockInv

\* The first caller leaves: nobody else has read anything.
LEMMA OthersWait ==
  ASSUME IInv, NEW i \in DOMAIN lock, NEW op, Holds(i, op)
  PROVE  \A k \in DOMAIN Drop(i) :
           /\ Drop(i)[k] = lock[k + 1] /\ k + 1 \in DOMAIN lock /\ k + 1 # i
           /\ ~Drop(i)[k].loaded /\ ~Drop(i)[k].prune
<1> SUFFICES ASSUME NEW k \in DOMAIN Drop(i)
             PROVE  /\ Drop(i)[k] = lock[k + 1] /\ k + 1 \in DOMAIN lock /\ k + 1 # i
                    /\ ~Drop(i)[k].loaded /\ ~Drop(i)[k].prune
  OBVIOUS
<1>1. lock \in Seq(JobType) /\ i = 1
  BY HolderRead DEF IInv, TypeOK
<1>2. /\ k \in 1..(Len(lock) - 1)
      /\ Drop(i)[k] = IF k < i THEN lock[k] ELSE lock[k + 1]
  BY <1>1, DropSeq
<1>3. Drop(i)[k] = lock[k + 1] /\ k + 1 \in DOMAIN lock /\ k + 1 # 1
  BY <1>1, <1>2
<1>4. ~lock[k + 1].loaded
  BY <1>3 DEF IInv, LockInv, OnlyHolderReads
<1>5. ~lock[k + 1].prune
  BY <1>3, <1>4 DEF IInv, LockInv, PruneHasRead
<1> QED
  BY <1>1, <1>3, <1>4, <1>5

\* With no section under way only the stored queue matters.
LEMMA NobodyReads ==
  ASSUME \A k \in DOMAIN lock' : ~lock'[k].loaded /\ ~lock'[k].prune,
         IsFiniteSet(queue'), UniqueClientIds', PendingCounts'
  PROVE  LockInv'
BY DEF LockInv, FiniteQueues, OnlyHolderReads, PruneHasRead, LockedReadIsCurrent

\* A section writes the queue and its count, and leaves.
LEMMA SectionEnds ==
  ASSUME IInv, NEW i \in DOMAIN lock, NEW op, Holds(i, op),
         NEW next,
         \/ lock' = Drop(i)
         \/ lock' = Append(Drop(i), Job(next, None)),
         IsFiniteSet(queue'), UniqueClientIds',
         pendingSync' = Cardinality(queue')
  PROVE  LockInv'
<1>1. \A k \in DOMAIN Drop(i) : ~Drop(i)[k].loaded /\ ~Drop(i)[k].prune
  BY OthersWait
<1>2. Drop(i) \in Seq(JobType)
  BY DropSeq DEF IInv, TypeOK
<1>3. ~Job(next, None).loaded /\ ~Job(next, None).prune
  BY DEF Job
<1>4. \A k \in DOMAIN lock' : ~lock'[k].loaded /\ ~lock'[k].prune
  <2>1. CASE lock' = Drop(i)
    BY <1>1, <2>1
  <2>2. CASE lock' = Append(Drop(i), Job(next, None))
    <3>1. \A k \in DOMAIN lock' : IF k \in DOMAIN Drop(i) THEN lock'[k] = Drop(i)[k]
                                   ELSE lock'[k] = Job(next, None)
      BY <1>2, <2>2
    <3> QED
      BY <1>1, <1>3, <3>1
  <2> QED
    BY <2>1, <2>2
<1>5. PendingCounts'
  BY DEF PendingCounts
<1> QED
  BY <1>4, <1>5, NobodyReads

\* Both ways to change one entry of a section keep clientIds unique.
LEMMA UpsertUnique ==
  ASSUME NEW S, \A a, b \in S : a.clientId = b.clientId => a = b, NEW e, NEW c
  PROVE  /\ \A a, b \in Upsert(S, e) : a.clientId = b.clientId => a = b
         /\ \A a, b \in Without(S, c) : a.clientId = b.clientId => a = b
BY DEF Upsert, Without

\* A section that has read works on the stored queue.
LEMMA SectionStart ==
  ASSUME IInv, NEW i \in DOMAIN lock, NEW op, Holds(i, op), op # "clear"
  PROVE  /\ lock[i].read \subseteq Entry /\ IsFiniteSet(lock[i].read) /\ lock[i].read = queue
         /\ \A a, b \in lock[i].read : a.clientId = b.clientId => a = b
<1>1. lock[i].read \subseteq Entry /\ IsFiniteSet(lock[i].read) /\ lock[i].read = queue
  BY HolderRead
<1> QED
  BY <1>1 DEF IInv, LockInv, UniqueClientIds

\* A section that changes entries and keeps their clientIds.
LEMMA MappedSection ==
  ASSUME IInv, NEW i \in DOMAIN lock, NEW op, Holds(i, op), lock' = Drop(i),
         NEW g, g \in [lock[i].read -> {g[e] : e \in lock[i].read}],
         IsFiniteSet(lock[i].read),
         \A a, b \in lock[i].read : a.clientId = b.clientId => a = b,
         \A e \in lock[i].read : g[e].clientId = e.clientId,
         queue' = {g[e] : e \in lock[i].read}, pendingSync' = Cardinality(queue')
  PROVE  LockInv'
<1>1. IsFiniteSet(queue')
  BY FiniteImage
<1>2. UniqueClientIds'
  BY DEF UniqueClientIds
<1> QED
  BY <1>1, <1>2, SectionEnds

\* A section that writes nothing.
LEMMA ReadOnlySection ==
  ASSUME IInv, NEW i \in DOMAIN lock, NEW op \in {"snapshot", "bump", "rewrite"},
         Holds(i, op), lock' = Drop(i), queue' = queue, pendingSync' = pendingSync
  PROVE  LockInv'
<1>1. \A k \in DOMAIN lock' : ~lock'[k].loaded /\ ~lock'[k].prune
  BY OthersWait
<1>2. IsFiniteSet(queue') /\ UniqueClientIds'
  BY DEF IInv, LockInv, FiniteQueues, UniqueClientIds
<1>3. PendingCounts'
  <2>1. lock \in Seq(JobType) /\ i = 1 /\ lock[i].op = op
    BY HolderRead DEF IInv, TypeOK
  <2>2. \A k \in DOMAIN lock : k # 1 => k - 1 \in DOMAIN Drop(i) /\ Drop(i)[k - 1] = lock[k]
    BY <2>1, DropSeq
  <2> QED
    BY <2>1, <2>2 DEF IInv, LockInv, PendingCounts
<1> QED
  BY <1>1, <1>2, <1>3, NobodyReads

\* Every step keeps the lock discipline.
LEMMA LockInvStep == IInv /\ [Next]_vars => LockInv'
<1> SUFFICES ASSUME IInv, [Next]_vars PROVE LockInv'
  OBVIOUS
<1>a. TypeOK /\ DrainJobs /\ LockInv
  BY DEF IInv
<1>1. ASSUME NEW i \in DOMAIN lock, readQueue(i) PROVE LockInv'
  <2> DEFINE stale == IF lock[i].op = "clear" THEN {} ELSE {e \in queue : ~IsFresh(e)}
             fresh == IF lock[i].op = "clear" THEN {} ELSE queue \ stale
             j == [lock[i] EXCEPT !.loaded = TRUE, !.read = fresh, !.prune = (stale # {})]
  <2>1. /\ lock' = [lock EXCEPT ![i] = j] /\ i = 1
        /\ queue' = queue /\ pendingSync' = pendingSync
    BY <1>1 DEF readQueue, MayRun, device
  <2>2. lock \in Seq(JobType) /\ lock[i] \in JobType
    BY <1>a DEF TypeOK
  <2>3. j.loaded /\ j.read = fresh /\ j.prune = (stale # {}) /\ j.op = lock[i].op
    BY <2>2 DEF JobType
  <2> HIDE DEF j
  <2>4. /\ DOMAIN lock' = DOMAIN lock
        /\ \A k \in DOMAIN lock : lock'[k] = IF k = i THEN j ELSE lock[k]
    BY <2>1, <2>2
  <2>5. fresh \subseteq queue /\ IsFiniteSet(fresh)
    BY <1>a, FS_Subset DEF LockInv, FiniteQueues
  <2>6. lock[i].op # "clear" /\ stale = {} => fresh = queue
    OBVIOUS
  <2>7. stale # {} => lock[i].op # "clear"
    OBVIOUS
  <2> HIDE DEF fresh, stale
  <2>9. FiniteQueues' /\ OnlyHolderReads'
    BY <1>a, <2>1, <2>3, <2>4, <2>5 DEF LockInv, FiniteQueues, OnlyHolderReads
  <2>10. PruneHasRead'
    BY <1>a, <2>3, <2>4, <2>7 DEF LockInv, PruneHasRead
  <2>11. LockedReadIsCurrent' /\ UniqueClientIds'
    BY <1>a, <2>1, <2>3, <2>4, <2>5, <2>6 DEF LockInv, LockedReadIsCurrent, UniqueClientIds
  <2>12. PendingCounts'
    BY <1>a, <2>1, <2>3, <2>4 DEF LockInv, PendingCounts
  <2> QED
    BY <2>9, <2>10, <2>11, <2>12 DEF LockInv
<1>2. ASSUME NEW i \in DOMAIN lock, pruneWrite(i) PROVE LockInv'
  <2> DEFINE j == [lock[i] EXCEPT !.prune = FALSE]
  <2>1. /\ lock' = [lock EXCEPT ![i] = j] /\ i = 1
        /\ queue' = lock[i].read /\ pendingSync' = Cardinality(lock[i].read)
    BY <1>2 DEF pruneWrite, writeQueue, MayRun
  <2>2. lock \in Seq(JobType) /\ lock[i] \in JobType
    BY <1>a DEF TypeOK
  <2>3. j.loaded = lock[i].loaded /\ j.read = lock[i].read /\ j.prune = FALSE /\ j.op = lock[i].op
    BY <2>2 DEF JobType
  <2> HIDE DEF j
  <2>4. /\ DOMAIN lock' = DOMAIN lock
        /\ \A k \in DOMAIN lock : lock'[k] = IF k = i THEN j ELSE lock[k]
    BY <2>1, <2>2
  <2>5. IsFiniteSet(lock[i].read) /\ lock[i].read \subseteq queue
    BY <1>2, PruningRead
  <2>6. FiniteQueues' /\ OnlyHolderReads' /\ PruneHasRead'
    BY <1>a, <2>1, <2>3, <2>4, <2>5 DEF LockInv, FiniteQueues, OnlyHolderReads, PruneHasRead
  <2>7. LockedReadIsCurrent' /\ UniqueClientIds'
    BY <1>a, <2>1, <2>3, <2>4, <2>5
       DEF LockInv, OnlyHolderReads, LockedReadIsCurrent, UniqueClientIds
  <2> QED
    BY <2>1, <2>6, <2>7 DEF LockInv, PendingCounts
<1>3. ASSUME NEW i \in DOMAIN lock, enqueueMutation(i) \/ retryFailed(i) PROVE LockInv'
  <2> DEFINE e == [lock[i].arg EXCEPT !.createdAt = now]
             q == Upsert(lock[i].read, e)
  <2>1. PICK op \in {"enqueue", "retry"} : Holds(i, op)
    BY <1>3 DEF enqueueMutation, retryFailed
  <2>2. /\ queue' = q /\ pendingSync' = Cardinality(q)
        /\ lock' = Drop(i) \/ lock' = Append(Drop(i), Job("snapshot", None))
    BY <1>3 DEF enqueueMutation, retryFailed, writeQueue
  <2>3. e \in Entry
    BY <1>a, <2>1 DEF TypeOK, DrainJobs, JobOk, Holds, Entry
  <2>4. /\ lock[i].read \subseteq Entry /\ IsFiniteSet(lock[i].read)
        /\ \A a, b \in lock[i].read : a.clientId = b.clientId => a = b
    BY <2>1, SectionStart
  <2>5. IsFiniteSet(q)
    BY <2>3, <2>4, WrittenQueues
  <2>6. UniqueClientIds'
    BY <2>2, <2>4, UpsertUnique DEF UniqueClientIds
  <2> QED
    BY <2>1, <2>2, <2>5, <2>6, SectionEnds
<1>4. ASSUME NEW i \in DOMAIN lock, clearQueue(i) PROVE LockInv'
  <2>1. Holds(i, "clear") /\ queue' = {} /\ pendingSync' = Cardinality({}) /\ lock' = Drop(i)
    BY <1>4 DEF clearQueue, writeQueue
  <2>2. IsFiniteSet(queue') /\ UniqueClientIds'
    BY <2>1, FS_EmptySet DEF UniqueClientIds
  <2> QED
    BY <2>1, <2>2, SectionEnds
<1>5. ASSUME NEW i \in DOMAIN lock, refreshPendingCount(i) PROVE LockInv'
  <2>1. /\ Holds(i, "refresh") /\ pendingSync' = Cardinality(lock[i].read)
        /\ lock' = Drop(i) /\ queue' = queue
    BY <1>5 DEF refreshPendingCount, device
  <2>2. lock[i].read = queue /\ IsFiniteSet(queue)
    BY <2>1, SectionStart
  <2>3. UniqueClientIds'
    BY <1>a, <2>1 DEF LockInv, UniqueClientIds
  <2> QED
    BY <2>1, <2>2, <2>3, SectionEnds
<1>6. ASSUME NEW i \in DOMAIN lock, takeSnapshot(i) PROVE LockInv'
  BY <1>6, ReadOnlySection DEF takeSnapshot, device
<1>7. ASSUME NEW i \in DOMAIN lock, removeReplayed(i) PROVE LockInv'
  <2> DEFINE q == Without(lock[i].read, drain.cur.clientId)
  <2>1. /\ Holds(i, "remove") /\ queue' = q /\ pendingSync' = Cardinality(q)
        /\ lock' = Drop(i) \/ lock' = Append(Drop(i), Job("rewrite", None))
    BY <1>7 DEF removeReplayed, writeQueue
  <2>2. /\ lock[i].read \subseteq Entry /\ IsFiniteSet(lock[i].read)
        /\ \A a, b \in lock[i].read : a.clientId = b.clientId => a = b
    BY <2>1, SectionStart
  <2>3. IsFiniteSet(q)
    BY <2>2, FS_Subset DEF Without
  <2>4. \A a, b \in q : a.clientId = b.clientId => a = b
    BY <2>2 DEF Without
  <2>5. UniqueClientIds'
    BY <2>1, <2>4 DEF UniqueClientIds
  <2> QED
    BY <2>1, <2>3, <2>5, SectionEnds
<1>8. ASSUME NEW i \in DOMAIN lock, bumpRetries(i) PROVE LockInv'
  <2> DEFINE g == [e \in lock[i].read |->
                     IF e.clientId = drain.cur.clientId
                     THEN [e EXCEPT !.retries = nextRetries(drain.cur)] ELSE e]
  <2>1. /\ Holds(i, "bump") /\ lock' = Drop(i)
        /\ \/ queue' = {g[e] : e \in lock[i].read} /\ pendingSync' = Cardinality(queue')
           \/ queue' = queue /\ pendingSync' = pendingSync
    BY <1>8 DEF bumpRetries, writeQueue
  <2>2. /\ lock[i].read \subseteq Entry /\ IsFiniteSet(lock[i].read)
        /\ \A a, b \in lock[i].read : a.clientId = b.clientId => a = b
    BY <2>1, SectionStart
  <2>3. \A e \in lock[i].read : g[e].clientId = e.clientId
    BY <2>2 DEF Entry
  <2>4. g \in [lock[i].read -> {g[e] : e \in lock[i].read}]
    OBVIOUS
  <2> HIDE DEF g
  <2> QED
    BY <2>1, <2>2, <2>3, <2>4, MappedSection, ReadOnlySection
<1>9. ASSUME NEW i \in DOMAIN lock, rewriteUrls(i) PROVE LockInv'
  <2> DEFINE g == [e \in lock[i].read |->
                     IF e.ref = drain.cur.clientId THEN [e EXCEPT !.ref = None] ELSE e]
  <2>1. /\ Holds(i, "rewrite") /\ lock' = Drop(i)
        /\ \/ queue' = {g[e] : e \in lock[i].read} /\ pendingSync' = Cardinality(queue')
           \/ queue' = queue /\ pendingSync' = pendingSync
    BY <1>9 DEF rewriteUrls, writeQueue
  <2>2. /\ lock[i].read \subseteq Entry /\ IsFiniteSet(lock[i].read)
        /\ \A a, b \in lock[i].read : a.clientId = b.clientId => a = b
    BY <2>1, SectionStart
  <2>3. \A e \in lock[i].read : g[e].clientId = e.clientId
    BY <2>2 DEF Entry
  <2>4. g \in [lock[i].read -> {g[e] : e \in lock[i].read}]
    OBVIOUS
  <2> HIDE DEF g
  <2> QED
    BY <2>1, <2>2, <2>3, <2>4, MappedSection, ReadOnlySection
<1>10. CASE drainQueue
  BY <1>10, CallerAppended DEF drainQueue, device, Ops
<1>11. CASE replayOk
  BY <1>11, CallerAppended DEF replayOk, device, Ops
<1>12. ASSUME NEW o \in {"permanent", "transient"}, replayFails(o) PROVE LockInv'
  <2>1. queue' = queue /\ pendingSync' = pendingSync
    BY <1>12 DEF replayFails, device
  <2>2. \/ lock' = lock \/ lock' = Append(lock, Job("remove", None))
        \/ lock' = Append(lock, Job("bump", None))
    BY <1>12 DEF replayFails
  <2> QED
    BY <1>a, <2>1, <2>2, CallerAppended, LockUntouched DEF Ops
<1>13. ASSUME NEW c \in ClientIds, maybeQueueOffline(c) PROVE LockInv'
  <2>1. NewEntry(NewWrite(c)) \in Entry
    BY <1>13, <1>a, NewWriteType, NewEntryType DEF maybeQueueOffline
  <2> QED
    BY <1>13, <2>1, CallerAppended DEF maybeQueueOffline, enqueueOfflineMutation, device, Ops
<1>14. ASSUME NEW r \in fetches, fetchFails(r) PROVE LockInv'
  <2>1. NewEntry(r) \in Entry
    BY <1>a, NewEntryType DEF TypeOK
  <2> QED
    BY <1>14, <2>1, CallerAppended DEF fetchFails, enqueueOfflineMutation, device, Ops
<1>15. ASSUME NEW x \in failedSync, retryTap(x) PROVE LockInv'
  <2>1. NewEntry(x) \in Entry
    BY <1>a, NewEntryType DEF TypeOK
  <2> QED
    BY <1>15, <2>1, CallerAppended DEF retryTap, device, Ops
<1>16. CASE resetAllStores
  BY <1>16, CallerAppended DEF resetAllStores, Ops
<1>17. CASE crash
  <2>1. lock' = <<Job("refresh", None)>> /\ queue' = queue
    BY <1>17 DEF crash, device
  <2>2. \A k \in DOMAIN lock' : lock'[k] = Job("refresh", None)
    BY <2>1
  <2>3. 1 \in DOMAIN lock'
    BY <2>1
  <2>4. UniqueClientIds' /\ PendingCounts' /\ IsFiniteSet(queue')
    BY <1>a, <2>1, <2>2, <2>3 DEF LockInv, FiniteQueues, UniqueClientIds, PendingCounts, Job
  <2> QED
    BY <2>2, <2>4, NobodyReads DEF Job
<1>18. CASE UNCHANGED <<lock, queue, pendingSync>>
  BY <1>18, <1>a, LockUntouched
<1>19. ASSUME NEW p \in persisting, persistRead(p) \/ persistWrite(p)
       PROVE  UNCHANGED <<lock, queue, pendingSync>>
  BY <1>19 DEF persistRead, persistWrite, device
<1>20. ASSUME \/ hydrateFailedSync \/ drainDone \/ setOfflineMode \/ tick \/ reportFailed
              \/ \E m \in drain.todo : replay(m)
              \/ \E o \in Outcomes : serverHandles(o)
              \/ \E v \in late : lateRequest(v)
              \/ \E c \in ClientIds : fetch(c)
              \/ \E r \in fetches : fetchAnswered(r)
              \/ \E x \in failedSync : dismissFailedSync(x)
              \/ \E u \in Users : login(u)
              \/ UNCHANGED vars
       PROVE  UNCHANGED <<lock, queue, pendingSync>>
  BY <1>20 DEF hydrateFailedSync, drainDone, setOfflineMode, tick, replay, serverHandles,
     lateRequest, fetch, fetchAnswered, reportFailed, dismissFailedSync, login, vars, device,
     memory
<1> QED
  BY <1>1, <1>2, <1>3, <1>4, <1>5, <1>6, <1>7, <1>8, <1>9, <1>10, <1>11, <1>12, <1>13,
     <1>14, <1>15, <1>16, <1>17, <1>18, <1>19, <1>20
     DEF Next, LockStep, PersistStep, DrainStep, FetchStep, UserStep, Environment

-----------------------------------------------------------------------------
(* The sections of the drain.                                               *)

\* A step that leaves the lock and the drain alone keeps DrainJobs.
LEMMA DrainJobsUntouched ==
  ASSUME DrainJobs, UNCHANGED <<lock, drain>>
  PROVE  DrainJobs'
BY DEF DrainJobs, JobOk, GivesUp, nextRetries

\* A caller is appended: not the drain's, or the drain had none.
LEMMA DrainJobsAppended ==
  ASSUME IInv, NEW op \in Ops, NEW e \in Entry \cup {None},
         lock' = Append(lock, Job(op, e)),
         \A k \in DOMAIN lock : JobOk(lock[k], drain'),
         JobOk(Job(op, e), drain'),
         drain'.phase \in {"inflight", "locked", "report"} => drain'.cur \in Entry,
         op \in DrainJobOps => \A k \in DOMAIN lock : lock[k].op \notin DrainJobOps
  PROVE  DrainJobs'
<1>1. lock \in Seq(JobType) /\ Len(lock) \in Nat /\ DOMAIN lock = 1..Len(lock)
  BY DEF IInv, TypeOK
<1>2. /\ DOMAIN lock' = 1..(Len(lock) + 1)
      /\ \A k \in DOMAIN lock : lock'[k] = lock[k]
      /\ lock'[Len(lock) + 1] = Job(op, e)
  BY <1>1
<1>3. \A k \in DOMAIN lock' : k \in DOMAIN lock \/ k = Len(lock) + 1
  BY <1>1, <1>2
<1>4. Job(op, e).op = op
  BY DEF Job
<1>5. \A k \in DOMAIN lock' : JobOk(lock'[k], drain')
  BY <1>2, <1>3
<1>6. \A k, l \in DOMAIN lock' :
        lock'[k].op \in DrainJobOps /\ lock'[l].op \in DrainJobOps => k = l
  BY <1>2, <1>3, <1>4 DEF IInv, DrainJobs
<1> QED
  BY <1>5, <1>6 DEF DrainJobs, JobOk, GivesUp, nextRetries

\* Between its sections the drain has no caller in the lock.
LEMMA NoDrainJobs ==
  ASSUME DrainJobs, drain.phase \in {"idle", "loop", "inflight", "report"}
  PROVE  \A k \in DOMAIN lock : lock[k].op \notin DrainJobOps
BY DEF DrainJobs, JobOk, DrainJobOps

\* Callers that are not the drain's do not depend on it.
LEMMA OtherJobsOk ==
  ASSUME DrainJobs, NEW k \in DOMAIN lock, lock[k].op \notin DrainJobOps, NEW d
  PROVE  JobOk(lock[k], d)
BY DEF DrainJobs, JobOk, DrainJobOps, DrainOps

\* A caller that is not the drain's leaves.
LEMMA DrainJobsDropped ==
  ASSUME IInv, NEW i \in DOMAIN lock, NEW op, Holds(i, op), lock' = Drop(i),
         drain' = drain
  PROVE  DrainJobs'
<1>1. \A k \in DOMAIN lock' : lock'[k] = lock[k + 1] /\ k + 1 \in DOMAIN lock
  BY OthersWait
<1>2. \A k \in DOMAIN lock' : k \in Int
  BY DropSeq DEF IInv, TypeOK
<1> QED
  BY <1>1, <1>2 DEF IInv, DrainJobs, JobOk, GivesUp, nextRetries

\* The drain's own caller leaves, and none is left.
LEMMA DrainJobLeaves ==
  ASSUME IInv, NEW i \in DOMAIN lock, NEW op \in DrainJobOps, Holds(i, op)
  PROVE  \A k \in DOMAIN Drop(i) :
           /\ Drop(i)[k].op \notin DrainJobOps
           /\ \A d : JobOk(Drop(i)[k], d)
<1> TAKE k \in DOMAIN Drop(i)
<1>1. Drop(i)[k] = lock[k + 1] /\ k + 1 \in DOMAIN lock /\ k + 1 # i
  BY OthersWait
<1>2. lock[k + 1].op \notin DrainJobOps
  BY <1>1 DEF IInv, DrainJobs, Holds
<1> QED
  BY <1>1, <1>2, OtherJobsOk DEF IInv

\* A section leaves and a section of the drain is appended.
LEMMA DrainCallerFollows ==
  ASSUME NEW i \in DOMAIN lock, NEW op, Drop(i) \in Seq(JobType),
         lock' = Append(Drop(i), Job(op, None)),
         \A k \in DOMAIN Drop(i) :
           Drop(i)[k].op \notin DrainJobOps /\ JobOk(Drop(i)[k], drain'),
         JobOk(Job(op, None), drain'),
         drain'.phase \in {"inflight", "locked", "report"} => drain'.cur \in Entry
  PROVE  DrainJobs'
<1>1. Len(Drop(i)) \in Nat /\ DOMAIN Drop(i) = 1..Len(Drop(i))
  OBVIOUS
<1>2. /\ DOMAIN lock' = 1..(Len(Drop(i)) + 1)
      /\ \A k \in DOMAIN Drop(i) : lock'[k] = Drop(i)[k]
      /\ lock'[Len(Drop(i)) + 1] = Job(op, None)
  BY <1>1
<1>3. \A k \in DOMAIN lock' : k \in DOMAIN Drop(i) \/ k = Len(Drop(i)) + 1
  BY <1>1, <1>2
<1>4. \A k \in DOMAIN lock' : JobOk(lock'[k], drain')
  BY <1>2, <1>3
<1>5. \A k, l \in DOMAIN lock' :
        lock'[k].op \in DrainJobOps /\ lock'[l].op \in DrainJobOps => k = l
  BY <1>2, <1>3
<1> QED
  BY <1>4, <1>5 DEF DrainJobs, JobOk, GivesUp, nextRetries

\* Every step keeps the drain's place in the lock.
LEMMA DrainJobsStep == IInv /\ [Next]_vars => DrainJobs'
<1> SUFFICES ASSUME IInv, [Next]_vars PROVE DrainJobs'
  OBVIOUS
<1>a. TypeOK /\ DrainJobs /\ LockInv
  BY DEF IInv
<1>1. ASSUME NEW i \in DOMAIN lock, readQueue(i) \/ pruneWrite(i) PROVE DrainJobs'
  <2>1. /\ DOMAIN lock' = DOMAIN lock /\ drain' = drain
        /\ \A k \in DOMAIN lock : lock'[k].op = lock[k].op /\ lock'[k].arg = lock[k].arg
    <3>1. drain' = drain /\ lock \in Seq(JobType) /\ lock[i] \in JobType
      BY <1>1, <1>a DEF readQueue, pruneWrite, TypeOK
    <3>2. PICK j : /\ lock' = [lock EXCEPT ![i] = j]
                   /\ j.op = lock[i].op /\ j.arg = lock[i].arg
      <4>1. CASE readQueue(i)
        <5>1. PICK q, b : lock' = [lock EXCEPT ![i] = [lock[i] EXCEPT !.loaded = TRUE,
                                                         !.read = q, !.prune = b]]
          BY <4>1 DEF readQueue
        <5>2. WITNESS [lock[i] EXCEPT !.loaded = TRUE, !.read = q, !.prune = b]
        <5> QED
          BY <3>1, <5>1 DEF JobType
      <4>2. CASE pruneWrite(i)
        <5>1. lock' = [lock EXCEPT ![i] = [lock[i] EXCEPT !.prune = FALSE]]
          BY <4>2 DEF pruneWrite
        <5>2. WITNESS [lock[i] EXCEPT !.prune = FALSE]
        <5> QED
          BY <3>1, <5>1 DEF JobType
      <4> QED
        BY <1>1, <4>1, <4>2
    <3> QED
      BY <3>1, <3>2
  <2> QED
    BY <1>a, <2>1 DEF DrainJobs, JobOk, GivesUp, nextRetries
<1>2. ASSUME NEW i \in DOMAIN lock, enqueueMutation(i) PROVE DrainJobs'
  BY <1>2, DrainJobsDropped DEF enqueueMutation
<1>3. ASSUME NEW i \in DOMAIN lock, retryFailed(i) PROVE DrainJobs'
  <2>1. Holds(i, "retry")
    BY <1>3 DEF retryFailed
  <2>2. CASE lock' = Drop(i) /\ drain' = drain
    BY <2>1, <2>2, DrainJobsDropped
  <2>3. CASE /\ drain.phase = "idle" /\ lock' = Append(Drop(i), Job("snapshot", None))
             /\ drain' = [Idle EXCEPT !.phase = "snapshot"]
    <3>1. \A k \in DOMAIN lock : lock[k].op \notin DrainJobOps /\ JobOk(lock[k], drain')
      BY <1>a, <2>3, NoDrainJobs, OtherJobsOk
    <3>2. \A k \in DOMAIN Drop(i) :
            Drop(i)[k].op \notin DrainJobOps /\ JobOk(Drop(i)[k], drain')
      BY <2>1, <3>1, OthersWait
    <3>3. drain'.phase = "snapshot"
      BY <2>3 DEF Idle
    <3>4. JobOk(Job("snapshot", None), drain') /\ Job("snapshot", None).op = "snapshot"
      BY <3>3 DEF JobOk, Job, DrainOps
    <3>5. Drop(i) \in Seq(JobType)
      BY <1>a, DropSeq DEF TypeOK
    <3> QED
      BY <2>3, <3>2, <3>3, <3>4, <3>5, DrainCallerFollows
  <2> QED
    BY <1>3, <2>2, <2>3 DEF retryFailed
<1>4. ASSUME NEW i \in DOMAIN lock, clearQueue(i) PROVE DrainJobs'
  BY <1>4, DrainJobsDropped DEF clearQueue
<1>5. ASSUME NEW i \in DOMAIN lock, refreshPendingCount(i) PROVE DrainJobs'
  BY <1>5, DrainJobsDropped DEF refreshPendingCount
<1>6. ASSUME NEW i \in DOMAIN lock, NEW op \in DrainJobOps, Holds(i, op), lock' = Drop(i),
             drain'.phase = "loop" \/ (drain'.phase = "report" /\ drain'.cur \in Entry)
      PROVE  DrainJobs'
  <2>1. \A k \in DOMAIN lock' : lock'[k].op \notin DrainJobOps /\ JobOk(lock'[k], drain')
    BY <1>6, DrainJobLeaves
  <2> QED
    BY <1>6, <2>1 DEF DrainJobs, JobOk, GivesUp, nextRetries
<1>7. ASSUME NEW i \in DOMAIN lock, takeSnapshot(i) PROVE DrainJobs'
  <2>1. Holds(i, "snapshot") /\ lock' = Drop(i) /\ drain'.phase = "loop"
    BY <1>7, <1>a DEF takeSnapshot, TypeOK, DrainType
  <2> QED
    BY <1>6, <2>1 DEF DrainJobOps
<1>8. ASSUME NEW i \in DOMAIN lock, bumpRetries(i) PROVE DrainJobs'
  <2>1. Holds(i, "bump") /\ lock' = Drop(i) /\ drain'.phase = "loop"
    BY <1>8, <1>a DEF bumpRetries, TypeOK, DrainType
  <2> QED
    BY <1>6, <2>1 DEF DrainJobOps, DrainOps
<1>9. ASSUME NEW i \in DOMAIN lock, rewriteUrls(i) PROVE DrainJobs'
  <2>1. Holds(i, "rewrite") /\ lock' = Drop(i) /\ drain'.phase = "loop"
    BY <1>9, <1>a DEF rewriteUrls, TypeOK, DrainType
  <2> QED
    BY <1>6, <2>1 DEF DrainJobOps, DrainOps
<1>10. ASSUME NEW i \in DOMAIN lock, removeReplayed(i) PROVE DrainJobs'
  <2>1. Holds(i, "remove") /\ "remove" \in DrainJobOps
    BY <1>10 DEF removeReplayed, DrainJobOps, DrainOps
  <2>2. CASE lock' = Drop(i) /\ \E ph \in {"loop", "report"} : drain' = [drain EXCEPT !.phase = ph]
    <3>1. drain'.phase \in {"loop", "report"} /\ drain'.cur = drain.cur
      BY <1>a, <2>2 DEF TypeOK, DrainType
    <3>2. drain.cur \in Entry
      BY <1>a, <2>1 DEF DrainJobs, JobOk, Holds, DrainOps
    <3> QED
      BY <1>6, <2>1, <2>2, <3>1, <3>2
  <2>3. CASE lock' = Append(Drop(i), Job("rewrite", None)) /\ drain' = drain
    <3>1. Drop(i) \in Seq(JobType)
      BY <1>a, DropSeq DEF TypeOK
    <3>2. drain.phase = "locked" /\ drain.cur \in Entry
      BY <1>a, <2>1 DEF DrainJobs, JobOk, Holds, DrainOps
    <3>3. \A k \in DOMAIN Drop(i) :
            Drop(i)[k].op \notin DrainJobOps /\ JobOk(Drop(i)[k], drain')
      BY <2>1, DrainJobLeaves
    <3>4. JobOk(Job("rewrite", None), drain') /\ Job("rewrite", None).op = "rewrite"
      BY <2>3, <3>2 DEF JobOk, Job, DrainOps
    <3> QED
      BY <2>3, <3>1, <3>2, <3>3, <3>4, DrainCallerFollows
  <2> QED
    BY <1>10, <2>2, <2>3 DEF removeReplayed
<1>11. CASE drainQueue
  <2>1. drain.phase = "idle" /\ lock' = Append(lock, Job("snapshot", None))
        /\ drain'.phase = "snapshot"
    BY <1>11 DEF drainQueue, Idle
  <2>2. \A k \in DOMAIN lock : lock[k].op \notin DrainJobOps /\ JobOk(lock[k], drain')
    BY <1>a, <2>1, NoDrainJobs, OtherJobsOk
  <2>3. JobOk(Job("snapshot", None), drain') /\ "snapshot" \in Ops
    BY <2>1 DEF JobOk, Job, DrainOps, Ops
  <2> QED
    BY <2>1, <2>2, <2>3, DrainJobsAppended
<1>12. CASE replayOk
  <2>1. drain.phase = "inflight" /\ lock' = Append(lock, Job("remove", None))
        /\ drain'.phase = "locked" /\ drain'.cur = drain.cur
    BY <1>12, <1>a DEF replayOk, TypeOK, DrainType
  <2>2. \A k \in DOMAIN lock : lock[k].op \notin DrainJobOps /\ JobOk(lock[k], drain')
    BY <1>a, <2>1, NoDrainJobs, OtherJobsOk
  <2>3. JobOk(Job("remove", None), drain') /\ "remove" \in Ops /\ drain'.cur \in Entry
    BY <1>a, <2>1 DEF JobOk, Job, Ops, DrainJobs
  <2> QED
    BY <2>1, <2>2, <2>3, DrainJobsAppended
<1>13. ASSUME NEW o \in {"permanent", "transient"}, replayFails(o) PROVE DrainJobs'
  <2>1. drain.phase = "inflight"
    BY <1>13 DEF replayFails
  <2>2. \A k \in DOMAIN lock : lock[k].op \notin DrainJobOps /\ JobOk(lock[k], drain')
    BY <1>a, <2>1, NoDrainJobs, OtherJobsOk
  <2>3. CASE offlineMode
    <3>1. lock' = lock /\ drain'.phase = "idle"
      BY <1>13, <2>3 DEF replayFails, Idle
    <3> QED
      BY <1>a, <2>2, <3>1 DEF DrainJobs, JobOk, GivesUp, nextRetries
  <2>4. CASE ~offlineMode
    <3> DEFINE op == IF o = "permanent" \/ GivesUp(drain.cur) THEN "remove" ELSE "bump"
    <3>1. lock' = Append(lock, Job(op, None)) /\ drain'.phase = "locked"
          /\ drain'.cur = drain.cur
      BY <1>13, <1>a, <2>4 DEF replayFails, TypeOK, DrainType
    <3>2. JobOk(Job(op, None), drain') /\ op \in Ops /\ drain'.cur \in Entry
      BY <1>a, <2>1, <3>1 DEF JobOk, Job, Ops, DrainJobs
    <3> QED
      BY <2>2, <3>1, <3>2, DrainJobsAppended
  <2> QED
    BY <2>3, <2>4
<1>14. ASSUME NEW op \in {"enqueue", "retry", "clear"}, NEW e \in Entry \cup {None},
              op # "clear" => e \in Entry,
              lock' = Append(lock, Job(op, e)), drain' = drain
       PROVE  DrainJobs'
  <2>1. \A k \in DOMAIN lock : JobOk(lock[k], drain')
    BY <1>14, <1>a DEF DrainJobs
  <2>2. JobOk(Job(op, e), drain') /\ op \in Ops /\ op \notin DrainJobOps
    BY <1>14 DEF JobOk, Job, Ops, DrainJobOps, DrainOps
  <2>3. drain'.phase \in {"inflight", "locked", "report"} => drain'.cur \in Entry
    BY <1>14, <1>a DEF DrainJobs
  <2> QED
    BY <1>14, <2>1, <2>2, <2>3, DrainJobsAppended
<1>15. ASSUME NEW c \in ClientIds, maybeQueueOffline(c) PROVE DrainJobs'
  <2>1. NewEntry(NewWrite(c)) \in Entry
    BY <1>15, <1>a, NewWriteType, NewEntryType DEF maybeQueueOffline
  <2> QED
    BY <1>15, <1>14, <2>1 DEF maybeQueueOffline, enqueueOfflineMutation
<1>16. ASSUME NEW r \in fetches, fetchFails(r) PROVE DrainJobs'
  <2>1. NewEntry(r) \in Entry
    BY <1>a, NewEntryType DEF TypeOK
  <2> QED
    BY <1>16, <1>14, <2>1 DEF fetchFails, enqueueOfflineMutation
<1>17. ASSUME NEW x \in failedSync, retryTap(x) PROVE DrainJobs'
  <2>1. NewEntry(x) \in Entry
    BY <1>a, NewEntryType DEF TypeOK
  <2> QED
    BY <1>17, <1>14, <2>1 DEF retryTap
<1>18. CASE resetAllStores
  BY <1>18, <1>14 DEF resetAllStores
<1>19. CASE crash
  <2>1. lock' = <<Job("refresh", None)>> /\ drain' = Idle
    BY <1>19 DEF crash
  <2>2. \A k \in DOMAIN lock' : lock'[k].op = "refresh"
    BY <2>1 DEF Job
  <2> QED
    BY <2>1, <2>2 DEF DrainJobs, JobOk, DrainJobOps, DrainOps, Idle
<1>20. ASSUME NEW m \in drain.todo, replay(m) PROVE DrainJobs'
  <2>1. lock' = lock /\ drain.phase = "loop" /\ drain'.phase = "inflight" /\ drain'.cur = m
        /\ m \in Entry
    BY <1>20, <1>a DEF replay, TypeOK, DrainType
  <2>2. \A k \in DOMAIN lock : lock[k].op \notin DrainJobOps /\ JobOk(lock[k], drain')
    BY <1>a, <2>1, NoDrainJobs, OtherJobsOk
  <2> QED
    BY <2>1, <2>2 DEF DrainJobs, JobOk, GivesUp, nextRetries
<1>21. CASE drainDone
  <2>1. lock' = lock /\ drain.phase = "loop" /\ drain'.phase = "idle"
    BY <1>21 DEF drainDone, Idle
  <2>2. \A k \in DOMAIN lock : lock[k].op \notin DrainJobOps /\ JobOk(lock[k], drain')
    BY <1>a, <2>1, NoDrainJobs, OtherJobsOk
  <2> QED
    BY <2>1, <2>2 DEF DrainJobs, JobOk, GivesUp, nextRetries
<1>22. ASSUME NEW o \in Outcomes, serverHandles(o) PROVE DrainJobs'
  <2>1. lock' = lock /\ drain'.phase = drain.phase /\ drain'.cur = drain.cur
    BY <1>22, <1>a DEF serverHandles, TypeOK, DrainType
  <2> QED
    BY <1>a, <2>1 DEF DrainJobs, JobOk, GivesUp, nextRetries
<1>23. CASE UNCHANGED <<lock, drain>>
  BY <1>23, <1>a, DrainJobsUntouched
<1>24. ASSUME NEW p \in persisting, persistRead(p) \/ persistWrite(p)
       PROVE  UNCHANGED <<lock, drain>>
  BY <1>24 DEF persistRead, persistWrite
<1>25. ASSUME \/ hydrateFailedSync \/ setOfflineMode \/ tick
              \/ \E v \in late : lateRequest(v)
              \/ \E c \in ClientIds : fetch(c)
              \/ \E r \in fetches : fetchAnswered(r)
              \/ \E x \in failedSync : dismissFailedSync(x)
              \/ \E u \in Users : login(u)
              \/ UNCHANGED vars
       PROVE  UNCHANGED <<lock, drain>>
  BY <1>25 DEF hydrateFailedSync, setOfflineMode, tick, lateRequest, fetch, fetchAnswered,
     dismissFailedSync, login, vars, memory
<1>26. CASE reportFailed
  <2>1. lock' = lock /\ drain.phase = "report" /\ drain'.phase = "loop"
    BY <1>26, <1>a DEF reportFailed, TypeOK, DrainType
  <2>2. \A k \in DOMAIN lock : lock[k].op \notin DrainJobOps /\ JobOk(lock[k], drain')
    BY <1>a, <2>1, NoDrainJobs, OtherJobsOk
  <2> QED
    BY <2>1, <2>2 DEF DrainJobs, JobOk, GivesUp, nextRetries
<1> QED
  BY <1>1, <1>2, <1>3, <1>4, <1>5, <1>7, <1>8, <1>9, <1>10, <1>11, <1>12, <1>13, <1>15,
     <1>16, <1>17, <1>18, <1>19, <1>20, <1>21, <1>22, <1>23, <1>24, <1>25, <1>26
     DEF Next, LockStep, PersistStep, DrainStep, FetchStep, UserStep, Environment

-----------------------------------------------------------------------------
\* The invariant holds when the app is first started.
LEMMA InitInv == Init => IInv
<1> SUFFICES ASSUME Init PROVE IInv
  OBVIOUS
<1>1. TypeOK
  <2>1. drain \in DrainType /\ lock \in Seq(JobType)
    BY DEF Init, Idle, DrainType
  <2>2. offlineMode \in BOOLEAN /\ booting \in BOOLEAN
    BY DEF Init
  <2>3. now \in Times
    BY ConstantsAssumption DEF Init, Times
  <2>4. pendingSync \in Nat /\ nextVer \in Nat \ {0}
    BY DEF Init
  <2> QED
    BY <2>1, <2>2, <2>3, <2>4 DEF Init, TypeOK
<1>2. DrainJobs
  BY DEF Init, DrainJobs, Idle
<1>3. LockInv
  BY FS_EmptySet DEF Init, LockInv, FiniteQueues, OnlyHolderReads, PruneHasRead,
     LockedReadIsCurrent, UniqueClientIds, PendingCounts
<1> QED
  BY <1>1, <1>2, <1>3 DEF IInv

\* The inductive invariant holds in every reachable state.
THEOREM Inductive == Spec => []IInv
<1>1. IInv /\ [Next]_vars => IInv'
  BY TypeStep, LockInvStep, DrainJobsStep DEF IInv
<1> QED
  BY InitInv, <1>1, PTL DEF Spec

\* Every variable of the queue keeps its type; in particular no stored entry
\* ever carries MAX_RETRIES attempts.
THEOREM TypeCorrect == Spec => []TypeOK
<1>1. IInv => TypeOK
  BY DEF IInv
<1> QED
  BY Inductive, <1>1, PTL

\* withQueueLock works: between the read and the write of a section nobody else
\* changes the stored queue, whatever else runs, crashes or signs out.
THEOREM SectionsAreAtomic == Spec => []LockedReadIsCurrent
<1>1. IInv => LockedReadIsCurrent
  BY DEF IInv, LockInv
<1> QED
  BY Inductive, <1>1, PTL

\* The stored queue never holds two entries with the same clientId.
THEOREM OneEntryPerClientId == Spec => []UniqueClientIds
<1>1. IInv => UniqueClientIds
  BY DEF IInv, LockInv
<1> QED
  BY Inductive, <1>1, PTL

\* Whenever the lock is free, the count shown to the user is the stored depth.
THEOREM PendingCountCorrect == Spec => []PendingMirrorsQueue
<1>1. IInv => PendingMirrorsQueue
  BY DEF IInv, LockInv, PendingCounts, PendingMirrorsQueue
<1> QED
  BY Inductive, <1>1, PTL

-----------------------------------------------------------------------------
(* What becomes of the writes: who owns a stored entry, which version it    *)
(* has, and where it went.                                                  *)

\* How the rest of the lock sees a caller: what it does, and to which entry.
SameJob(j, k) == j.op = k.op /\ j.arg = k.arg

\* The first n callers of the lock leave, and the jobs N are called.
Moves(n, N) ==
  /\ \A k \in DOMAIN lock : k > n => k - n \in DOMAIN lock' /\ SameJob(lock'[k - n], lock[k])
  /\ \A k \in DOMAIN lock' :
       \/ k + n \in DOMAIN lock /\ SameJob(lock'[k], lock[k + n])
       \/ k + n = Len(lock) + 1 /\ lock'[k] \in N
  /\ N # {} => Len(lock) + 1 - n \in DOMAIN lock' /\ lock'[Len(lock) + 1 - n] \in N
  /\ DOMAIN lock' \subseteq Nat

\* Nobody leaves and nobody comes.
LEMMA NoMove == ASSUME TypeOK, UNCHANGED lock PROVE Moves(0, {})
<1>1. lock \in Seq(JobType)
  BY DEF TypeOK
<1> QED
  BY <1>1 DEF Moves, SameJob

\* A caller comes.
LEMMA OneComes ==
  ASSUME TypeOK, NEW op, NEW e, lock' = Append(lock, Job(op, e))
  PROVE  Moves(0, {Job(op, e)})
<1>1. lock \in Seq(JobType)
  BY DEF TypeOK
<1>2. /\ DOMAIN lock' = 1..(Len(lock) + 1)
      /\ \A k \in DOMAIN lock : lock'[k] = lock[k]
      /\ lock'[Len(lock) + 1] = Job(op, e)
  BY <1>1
<1> QED
  BY <1>1, <1>2 DEF Moves, SameJob

\* The section that works leaves.
LEMMA OneLeaves ==
  ASSUME IInv, NEW i \in DOMAIN lock, NEW op, Holds(i, op), lock' = Drop(i)
  PROVE  Moves(1, {})
<1>1. lock \in Seq(JobType) /\ i = 1
  BY HolderRead DEF IInv, TypeOK
<1>2. /\ DOMAIN lock' = 1..(Len(lock) - 1)
      /\ \A k \in DOMAIN lock' : lock'[k] = lock[k + 1]
  BY <1>1, DropSeq
<1> QED
  BY <1>1, <1>2 DEF Moves, SameJob

\* The lock after one caller has left and another has come.
LEMMA ShiftMoves ==
  ASSUME lock \in Seq(JobType), lock # <<>>, NEW new,
         DOMAIN lock' = 1..Len(lock), lock'[Len(lock)] = new,
         \A k \in 1..(Len(lock) - 1) : lock'[k] = lock[k + 1]
  PROVE  Moves(1, {new})
<1>1. Len(lock) \in Nat \ {0} /\ DOMAIN lock = 1..Len(lock)
  OBVIOUS
<1> QED
  BY <1>1 DEF Moves, SameJob

\* The section that works leaves, and another is called.
LEMMA OneFollows ==
  ASSUME IInv, NEW i \in DOMAIN lock, NEW op, Holds(i, op), NEW next,
         lock' = Append(Drop(i), Job(next, None))
  PROVE  Moves(1, {Job(next, None)})
<1>1. lock \in Seq(JobType) /\ i = 1 /\ lock # <<>>
  BY HolderRead DEF IInv, TypeOK
<1>2. /\ Drop(i) \in Seq(JobType) /\ Len(Drop(i)) = Len(lock) - 1
      /\ DOMAIN Drop(i) = 1..(Len(lock) - 1)
      /\ \A k \in DOMAIN Drop(i) : Drop(i)[k] = lock[k + 1]
  BY <1>1, DropSeq
<1>3. /\ DOMAIN lock' = 1..Len(lock)
      /\ \A k \in 1..(Len(lock) - 1) : lock'[k] = lock[k + 1]
      /\ lock'[Len(lock)] = Job(next, None)
  BY <1>1, <1>2
<1> QED
  BY <1>1, <1>3, ShiftMoves

\* A caller reads or prunes: it stays where it is.
LEMMA OneReads ==
  ASSUME TypeOK, NEW i \in DOMAIN lock, readQueue(i) \/ pruneWrite(i)
  PROVE  Moves(0, {})
<1>1. lock \in Seq(JobType) /\ lock[i] \in JobType
  BY DEF TypeOK
<1>2. PICK j : lock' = [lock EXCEPT ![i] = j] /\ SameJob(j, lock[i])
  <2>1. CASE readQueue(i)
    <3>1. PICK q, b : lock' = [lock EXCEPT ![i] = [lock[i] EXCEPT !.loaded = TRUE,
                                                     !.read = q, !.prune = b]]
      BY <2>1 DEF readQueue
    <3> DEFINE j == [lock[i] EXCEPT !.loaded = TRUE, !.read = q, !.prune = b]
    <3>2. j.op = lock[i].op /\ j.arg = lock[i].arg
      BY <1>1 DEF JobType
    <3> HIDE DEF j
    <3>3. SameJob(j, lock[i])
      BY <3>2 DEF SameJob
    <3> QED
      BY <3>1, <3>3 DEF j
  <2>2. CASE pruneWrite(i)
    <3>1. lock' = [lock EXCEPT ![i] = [lock[i] EXCEPT !.prune = FALSE]]
      BY <2>2 DEF pruneWrite
    <3>2. WITNESS [lock[i] EXCEPT !.prune = FALSE]
    <3> QED
      BY <1>1, <3>1 DEF JobType, SameJob
  <2> QED
    BY <2>1, <2>2
<1>3. /\ DOMAIN lock' = DOMAIN lock /\ DOMAIN lock = 1..Len(lock)
      /\ \A k \in DOMAIN lock : SameJob(lock'[k], lock[k])
  BY <1>1, <1>2 DEF SameJob
<1> QED
  BY <1>1, <1>3 DEF Moves

\* The callers a step may add to the lock: sections of the drain, clearQueue, a write
\* made offline, one that has been sent in vain, or a failed item that the user retries.
Called(j) ==
  \/ j.op \in DrainJobOps
  \/ j.op = "clear" /\ logouts' = logouts + 1
  \/ /\ j.op = "enqueue"
     /\ \/ \E c \in ClientIds : maybeQueueOffline(c) /\ j.arg = NewEntry(NewWrite(c))
        \/ \E r \in fetches : fetchFails(r) /\ j.arg = NewEntry(r)
  \/ j.op = "retry" /\ \E x \in failedSync : retryTap(x) /\ j.arg = NewEntry(x)

\* When clearQueue leaves the lock, nothing is stored.
Cleared(n) == n = 1 /\ lock[1].op = "clear" => queue' = {}

\* What a step does to the lock.
LEMMA LockFootprint ==
  ASSUME IInv, [Next]_vars, ~crash
  PROVE  \E n \in {0, 1} : \E N : Moves(n, N) /\ Cleared(n) /\ \A j \in N : Called(j)
<1> DEFINE Goal == \E n \in {0, 1} : \E N : Moves(n, N) /\ Cleared(n) /\ \A j \in N : Called(j)
<1>a. TypeOK
  BY DEF IInv
<1>b. \A n \in {0, 1} : Moves(n, {}) /\ Cleared(n) => Goal
  OBVIOUS
<1>c. \A n \in {0, 1} : \A j : Moves(n, {j}) /\ Cleared(n) /\ Called(j) => Goal
  <2> TAKE n \in {0, 1}
  <2> TAKE j
  <2> HAVE Moves(n, {j}) /\ Cleared(n) /\ Called(j)
  <2> WITNESS n \in {0, 1}
  <2> WITNESS {j}
  <2> QED
    OBVIOUS
<1>d. Cleared(0)
  BY DEF Cleared
<1>e. ASSUME NEW i \in DOMAIN lock, NEW op, Holds(i, op), lock' = Drop(i),
             op = "clear" => queue' = {}
      PROVE  Goal
  <2>1. Cleared(1)
    BY <1>e, HolderRead DEF Cleared
  <2> QED
    BY <1>e, <1>b, <2>1, OneLeaves
<1>f. ASSUME NEW op, NEW e, lock' = Append(lock, Job(op, e)), Called(Job(op, e)) PROVE Goal
  BY <1>f, <1>a, <1>c, <1>d, OneComes
<1>g. ASSUME NEW i \in DOMAIN lock, NEW op, Holds(i, op), op # "clear", NEW next,
             lock' = Append(Drop(i), Job(next, None)), Called(Job(next, None))
      PROVE  Goal
  <2>1. Cleared(1)
    BY <1>g, HolderRead DEF Cleared
  <2> QED
    BY <1>g, <1>c, <2>1, OneFollows
<1> HIDE DEF Goal
<1>1. ASSUME NEW i \in DOMAIN lock, readQueue(i) \/ pruneWrite(i) PROVE Goal
  BY <1>1, <1>a, <1>b, <1>d, OneReads
<1>2. ASSUME NEW i \in DOMAIN lock, retryFailed(i) PROVE Goal
  <2>1. Holds(i, "retry")
    BY <1>2 DEF retryFailed
  <2>2. CASE lock' = Append(Drop(i), Job("snapshot", None))
    <3>1. Called(Job("snapshot", None))
      BY DEF Called, Job, DrainJobOps
    <3> QED
      BY <2>1, <2>2, <3>1, <1>g
  <2>3. CASE lock' = Drop(i)
    BY <2>1, <2>3, <1>e
  <2> QED
    BY <1>2, <2>2, <2>3 DEF retryFailed
<1>3. ASSUME NEW i \in DOMAIN lock, removeReplayed(i) PROVE Goal
  <2>1. Holds(i, "remove")
    BY <1>3 DEF removeReplayed
  <2>2. CASE lock' = Append(Drop(i), Job("rewrite", None))
    <3>1. Called(Job("rewrite", None))
      BY DEF Called, Job, DrainJobOps, DrainOps
    <3> QED
      BY <2>1, <2>2, <3>1, <1>g
  <2>3. CASE lock' = Drop(i)
    BY <2>1, <2>3, <1>e
  <2> QED
    BY <1>3, <2>2, <2>3 DEF removeReplayed
<1>4. ASSUME NEW i \in DOMAIN lock,
             \/ enqueueMutation(i) \/ clearQueue(i) \/ refreshPendingCount(i)
             \/ takeSnapshot(i) \/ bumpRetries(i) \/ rewriteUrls(i)
      PROVE  Goal
  BY <1>4, <1>e DEF enqueueMutation, clearQueue, refreshPendingCount, takeSnapshot,
     bumpRetries, rewriteUrls, writeQueue
<1>6. ASSUME NEW c \in ClientIds, maybeQueueOffline(c) PROVE Goal
  <2> DEFINE e == NewEntry(NewWrite(c))
  <2>1. lock' = Append(lock, Job("enqueue", e))
    BY <1>6 DEF maybeQueueOffline, enqueueOfflineMutation
  <2>2. Job("enqueue", e).op = "enqueue" /\ Job("enqueue", e).arg = e
    BY DEF Job
  <2>3. Called(Job("enqueue", e))
    BY <1>6, <2>2 DEF Called
  <2> HIDE DEF e
  <2> QED
    BY <1>f, <2>1, <2>3
<1>7. ASSUME NEW r \in fetches, fetchFails(r) PROVE Goal
  <2> DEFINE e == NewEntry(r)
  <2>1. lock' = Append(lock, Job("enqueue", e))
    BY <1>7 DEF fetchFails, enqueueOfflineMutation
  <2>2. Job("enqueue", e).op = "enqueue" /\ Job("enqueue", e).arg = e
    BY DEF Job
  <2>3. Called(Job("enqueue", e))
    BY <1>7, <2>2 DEF Called
  <2> HIDE DEF e
  <2> QED
    BY <1>f, <2>1, <2>3
<1>8. ASSUME NEW x \in failedSync, retryTap(x) PROVE Goal
  <2> DEFINE e == NewEntry(x)
  <2>1. lock' = Append(lock, Job("retry", e))
    BY <1>8 DEF retryTap
  <2>2. Job("retry", e).op = "retry" /\ Job("retry", e).arg = e
    BY DEF Job
  <2>3. Called(Job("retry", e))
    BY <1>8, <2>2 DEF Called
  <2> HIDE DEF e
  <2> QED
    BY <1>f, <2>1, <2>3
<1>9. ASSUME NEW op \in DrainJobOps \cup {"clear"}, lock' = Append(lock, Job(op, None)),
             op = "clear" => logouts' = logouts + 1
      PROVE  Goal
  <2>1. Called(Job(op, None))
    BY <1>9 DEF Called, Job
  <2> QED
    BY <1>9, <1>f, <2>1
<1>10. ASSUME resetAllStores \/ drainQueue \/ replayOk PROVE Goal
  <2>1. {"clear", "snapshot", "remove"} \subseteq DrainJobOps \cup {"clear"}
    BY DEF DrainJobOps, DrainOps
  <2>2. PICK op \in {"clear", "snapshot", "remove"} :
          /\ lock' = Append(lock, Job(op, None))
          /\ op = "clear" => logouts' = logouts + 1
    BY <1>10 DEF resetAllStores, drainQueue, replayOk
  <2>3. op \in DrainJobOps \cup {"clear"}
    BY <2>1
  <2> QED
    BY <2>2, <2>3, <1>9
<1>11. ASSUME UNCHANGED lock PROVE Goal
  BY <1>11, <1>a, <1>b, <1>d, NoMove
<1>12. ASSUME NEW o \in {"permanent", "transient"}, replayFails(o) PROVE Goal
  <2>1. {"remove", "bump"} \subseteq DrainJobOps \cup {"clear"}
    BY DEF DrainJobOps, DrainOps
  <2>2. lock' = lock \/ \E op \in {"remove", "bump"} : lock' = Append(lock, Job(op, None))
    BY <1>12 DEF replayFails
  <2> QED
    BY <2>1, <2>2, <1>9, <1>11
<1>13. ASSUME NEW p \in persisting, persistRead(p) \/ persistWrite(p) PROVE UNCHANGED lock
  BY <1>13 DEF persistRead, persistWrite
<1>14. ASSUME \/ hydrateFailedSync \/ setOfflineMode \/ tick \/ drainDone \/ reportFailed
              \/ \E m \in drain.todo : replay(m)
              \/ \E o \in Outcomes : serverHandles(o)
              \/ \E v \in late : lateRequest(v)
              \/ \E c \in ClientIds : fetch(c)
              \/ \E r \in fetches : fetchAnswered(r)
              \/ \E x \in failedSync : dismissFailedSync(x)
              \/ \E u \in Users : login(u)
              \/ UNCHANGED vars
       PROVE  UNCHANGED lock
  BY <1>14 DEF hydrateFailedSync, setOfflineMode, tick, drainDone, reportFailed, replay,
     serverHandles, lateRequest, fetch, fetchAnswered, dismissFailedSync, login, vars, memory
<1>15. LockStep => Goal
  BY <1>1, <1>2, <1>3, <1>4 DEF LockStep
<1>16. UserStep => Goal
  BY <1>6, <1>8, <1>10, <1>11, <1>14 DEF UserStep
<1>17. DrainStep => Goal
  BY <1>10, <1>11, <1>12, <1>14 DEF DrainStep
<1>18. Environment => Goal
  BY <1>11, <1>14 DEF Environment
<1>19. PersistStep \/ UNCHANGED vars => Goal
  BY <1>11, <1>13, <1>14 DEF PersistStep
<1>20. FetchStep => Goal
  BY <1>7, <1>11, <1>14 DEF FetchStep
<1>21. Goal
  BY <1>10, <1>11, <1>14, <1>15, <1>16, <1>17, <1>18, <1>19, <1>20 DEF Next
<1> QED
  BY <1>21 DEF Goal

\* The same write of the same account, whatever its retries, its time and its url.
SameWrite(a, b) == a.clientId = b.clientId /\ a.ver = b.ver /\ a.owner = b.owner

Stored(b) == \E a \in queue : SameWrite(a, b)

\* A step stores nothing new, except for the write that a section upserts.
LEMMA QueueFootprint ==
  ASSUME IInv, [Next]_vars, NEW b \in queue'
  PROVE  \/ Stored(b)
         \/ \E i \in DOMAIN lock : /\ enqueueMutation(i) \/ retryFailed(i)
                                   /\ SameWrite(lock[i].arg, b)
<1> DEFINE Goal == \/ Stored(b)
                   \/ \E i \in DOMAIN lock : /\ enqueueMutation(i) \/ retryFailed(i)
                                             /\ SameWrite(lock[i].arg, b)
<1>a. b \in queue => Goal
  BY DEF Stored, SameWrite
<1>b. Stored(b) => Goal
  OBVIOUS
<1>c. \A i \in DOMAIN lock :
        (enqueueMutation(i) \/ retryFailed(i)) /\ SameWrite(lock[i].arg, b) => Goal
  OBVIOUS
<1> HIDE DEF Goal
<1>1. ASSUME NEW i \in DOMAIN lock, NEW op \in {"enqueue", "retry"}, Holds(i, op),
             queue' = Upsert(lock[i].read, [lock[i].arg EXCEPT !.createdAt = now])
      PROVE  b \in queue \/ SameWrite(lock[i].arg, b)
  <2>1. lock[i].read = queue
    BY <1>1, HolderRead
  <2>2. lock[i].arg \in Entry
    BY <1>1 DEF IInv, DrainJobs, JobOk, Holds
  <2>3. CASE b = [lock[i].arg EXCEPT !.createdAt = now]
    BY <2>2, <2>3 DEF SameWrite, Entry
  <2>4. CASE b \in lock[i].read
    BY <2>1, <2>4
  <2> QED
    BY <1>1, <2>3, <2>4 DEF Upsert, Without
<1>2. ASSUME NEW i \in DOMAIN lock, enqueueMutation(i) \/ retryFailed(i) PROVE Goal
  <2>1. PICK op \in {"enqueue", "retry"} :
          /\ Holds(i, op)
          /\ queue' = Upsert(lock[i].read, [lock[i].arg EXCEPT !.createdAt = now])
    BY <1>2 DEF enqueueMutation, retryFailed, writeQueue
  <2> QED
    BY <1>1, <1>2, <1>a, <1>c, <2>1
<1>3. ASSUME NEW i \in DOMAIN lock, pruneWrite(i) PROVE Goal
  BY <1>3, <1>a, PruningRead DEF pruneWrite, writeQueue
<1>4. ASSUME NEW i \in DOMAIN lock, clearQueue(i) PROVE Goal
  BY <1>4 DEF clearQueue, writeQueue
<1>5. ASSUME NEW i \in DOMAIN lock, removeReplayed(i) PROVE Goal
  <2>1. lock[i].read = queue /\ queue' = Without(lock[i].read, drain.cur.clientId)
    BY <1>5, HolderRead DEF removeReplayed, writeQueue
  <2> QED
    BY <2>1, <1>a DEF Without
<1>6. ASSUME NEW i \in DOMAIN lock, bumpRetries(i) PROVE Goal
  <2>1. lock[i].read = queue /\ queue \subseteq Entry
    BY <1>6, HolderRead DEF bumpRetries, IInv, TypeOK
  <2>2. CASE UNCHANGED queue
    BY <1>a, <2>2
  <2>3. CASE queue' = {IF e.clientId = drain.cur.clientId
                       THEN [e EXCEPT !.retries = nextRetries(drain.cur)] ELSE e
                         : e \in lock[i].read}
    <3>1. PICK e \in queue : b = IF e.clientId = drain.cur.clientId
                                 THEN [e EXCEPT !.retries = nextRetries(drain.cur)] ELSE e
      BY <2>1, <2>3
    <3>2. SameWrite(e, b)
      BY <2>1, <3>1 DEF SameWrite, Entry
    <3> QED
      BY <3>2, <1>b DEF Stored
  <2> QED
    BY <1>6, <2>2, <2>3 DEF bumpRetries, writeQueue
<1>7. ASSUME NEW i \in DOMAIN lock, rewriteUrls(i) PROVE Goal
  <2>1. lock[i].read = queue /\ queue \subseteq Entry
    BY <1>7, HolderRead DEF rewriteUrls, IInv, TypeOK
  <2>2. CASE UNCHANGED queue
    BY <1>a, <2>2
  <2>3. CASE queue' = {IF e.ref = drain.cur.clientId THEN [e EXCEPT !.ref = None] ELSE e
                         : e \in lock[i].read}
    <3>1. PICK e \in queue : b = IF e.ref = drain.cur.clientId
                                 THEN [e EXCEPT !.ref = None] ELSE e
      BY <2>1, <2>3
    <3>2. SameWrite(e, b)
      BY <2>1, <3>1 DEF SameWrite, Entry
    <3> QED
      BY <3>2, <1>b DEF Stored
  <2> QED
    BY <1>7, <2>2, <2>3 DEF rewriteUrls, writeQueue
<1>8. ASSUME UNCHANGED queue PROVE Goal
  BY <1>8, <1>a
<1>9. ASSUME NEW i \in DOMAIN lock, readQueue(i) \/ refreshPendingCount(i) \/ takeSnapshot(i)
      PROVE  UNCHANGED queue
  BY <1>9 DEF readQueue, refreshPendingCount, takeSnapshot, device
<1>10. LockStep => Goal
  BY <1>2, <1>3, <1>4, <1>5, <1>6, <1>7, <1>8, <1>9 DEF LockStep
<1>11. ASSUME PersistStep \/ hydrateFailedSync \/ drainQueue PROVE UNCHANGED queue
  BY <1>11 DEF PersistStep, persistRead, persistWrite, hydrateFailedSync, drainQueue, device
<1>12. ASSUME DrainStep \/ FetchStep PROVE UNCHANGED queue
  BY <1>12 DEF DrainStep, replay, drainDone, replayOk, replayFails, reportFailed, FetchStep,
     fetchAnswered, fetchFails, device
<1>13. ASSUME UserStep PROVE UNCHANGED queue
  BY <1>13 DEF UserStep, maybeQueueOffline, fetch, retryTap, dismissFailedSync,
     resetAllStores, login, device
<1>14. ASSUME Environment \/ UNCHANGED vars PROVE UNCHANGED queue
  BY <1>14 DEF Environment, serverHandles, lateRequest, setOfflineMode, tick, crash, vars,
     device
<1>15. Goal
  BY <1>8, <1>10, <1>11, <1>12, <1>13, <1>14 DEF Next
<1> QED
  BY <1>15 DEF Goal

\* The snapshot entries a drain has still to finish, the one being replayed included.
Working ==
  drain.todo \cup
    (IF drain.phase \in {"inflight", "locked", "report"} THEN {drain.cur} ELSE {})

\* Whatever is listed as failed, in the store, on the device or on its way there, was
\* recorded by recordFailed.
FailedSurfaced ==
  /\ \A x \in failedSync \cup failedDisk : x.ver \in surfaced
  /\ \A p \in persisting : /\ p.item.ver \in surfaced
                           /\ p.read # None => \A x \in p.read : x.ver \in surfaced

\* So was what the user retries.
RetriesSurfaced ==
  \A i \in DOMAIN lock : lock[i].op = "retry" => lock[i].arg.ver \in surfaced \cap retried

\* recordFailed keeps FailedSurfaced and reports the versions it is given.
LEMMA RecordedSurfaced ==
  ASSUME FailedSurfaced, NEW S, recordFailed(S), UNCHANGED failedDisk
  PROVE  /\ FailedSurfaced'
         /\ surfaced' = surfaced \cup VersionsOf(S)
<1>1. surfaced' = surfaced \cup VersionsOf(S) /\ \A x \in S : x.ver \in surfaced'
  BY DEF recordFailed, VersionsOf
<1>2. \A x \in failedSync' \cup failedDisk' : x.ver \in surfaced'
  BY <1>1 DEF FailedSurfaced, recordFailed
<1>3. ASSUME NEW p \in persisting'
      PROVE  /\ p.item.ver \in surfaced'
             /\ p.read # None => \A x \in p.read : x.ver \in surfaced'
  <2>1. CASE p \in persisting
    BY <1>1, <2>1 DEF FailedSurfaced
  <2>2. CASE \E x \in S : p = [item |-> x, read |-> None]
    BY <1>1, <2>2
  <2> QED
    BY <1>3, <2>1, <2>2 DEF recordFailed
<1> QED
  BY <1>1, <1>2, <1>3 DEF FailedSurfaced

\* Which actions call recordFailed, and with what.
LEMMA SurfacedFootprint ==
  ASSUME IInv, [Next]_vars
  PROVE  \/ UNCHANGED surfaced
         \/ \E S : /\ recordFailed(S) /\ UNCHANGED failedDisk
                   /\ VersionsOf(S) \subseteq VersionsOf(queue) \cup VersionsOf(Working)
<1> DEFINE Goal == \/ UNCHANGED surfaced
                   \/ \E S : /\ recordFailed(S) /\ UNCHANGED failedDisk
                             /\ VersionsOf(S) \subseteq VersionsOf(queue) \cup VersionsOf(Working)
<1>a. \A S : /\ recordFailed(S) /\ UNCHANGED failedDisk
             /\ VersionsOf(S) \subseteq VersionsOf(queue) \cup VersionsOf(Working)
             => Goal
  OBVIOUS
<1>b. UNCHANGED surfaced => Goal
  OBVIOUS
<1> HIDE DEF Goal
<1>1. ASSUME NEW i \in DOMAIN lock, readQueue(i) PROVE Goal
  <2> DEFINE stale == IF lock[i].op = "clear" THEN {} ELSE {e \in queue : ~IsFresh(e)}
             S == {ItemOf(e) : e \in stale}
  <2>1. recordFailed(S) /\ UNCHANGED failedDisk
    BY <1>1 DEF readQueue, device
  <2>2. VersionsOf(S) \subseteq VersionsOf(queue)
    BY DEF VersionsOf, ItemOf
  <2> HIDE DEF S
  <2> QED
    BY <1>a, <2>1, <2>2
<1>2. ASSUME reportFailed PROVE Goal
  <2> DEFINE S == {ItemOf(drain.cur)}
  <2>1. recordFailed(S) /\ UNCHANGED failedDisk
    BY <1>2 DEF reportFailed, device
  <2>2. drain.phase = "report"
    BY <1>2 DEF reportFailed
  <2>3. VersionsOf(S) \subseteq VersionsOf(Working)
    BY <2>2 DEF VersionsOf, ItemOf, Working
  <2> HIDE DEF S
  <2> QED
    BY <1>a, <2>1, <2>3
<1>3. LockStep => Goal
  BY <1>1, <1>b DEF LockStep, pruneWrite, enqueueMutation, retryFailed, clearQueue,
     refreshPendingCount, takeSnapshot, removeReplayed, bumpRetries, rewriteUrls, history
<1>4. PersistStep \/ hydrateFailedSync \/ drainQueue => Goal
  BY <1>b DEF PersistStep, persistRead, persistWrite, hydrateFailedSync, drainQueue, history
<1>5. DrainStep => Goal
  <2>1. \A m \in drain.todo : replay(m) => Goal
    BY <1>b DEF replay, history
  <2>2. \A o \in {"permanent", "transient"} : replayFails(o) => Goal
    BY <1>b DEF replayFails, history
  <2>3. drainDone \/ replayOk => Goal
    BY <1>b DEF drainDone, replayOk, history
  <2> QED
    BY <1>2, <2>1, <2>2, <2>3 DEF DrainStep
<1>9. FetchStep => Goal
  BY <1>b DEF FetchStep, fetchAnswered, fetchFails, history
<1>6. UserStep => Goal
  BY <1>b DEF UserStep, maybeQueueOffline, fetch, retryTap, dismissFailedSync,
     resetAllStores, login, history
<1>7. Environment \/ UNCHANGED vars => Goal
  BY <1>b DEF Environment, serverHandles, lateRequest, setOfflineMode, tick, crash, vars,
     history
<1>8. Goal
  BY <1>3, <1>4, <1>5, <1>6, <1>7, <1>9 DEF Next
<1> QED
  BY <1>8 DEF Goal

\* Every step keeps the failed lists within what was recorded.
LEMMA FailedSurfacedStep ==
  ASSUME IInv, FailedSurfaced, [Next]_vars
  PROVE  FailedSurfaced'
<1>1. ASSUME UNCHANGED <<failedSync, failedDisk, persisting, surfaced>> PROVE FailedSurfaced'
  BY <1>1 DEF FailedSurfaced
<1>2. ASSUME NEW S, recordFailed(S), UNCHANGED failedDisk PROVE FailedSurfaced'
  BY <1>2, RecordedSurfaced
<1>3. LockStep => FailedSurfaced'
  <2>1. ASSUME NEW i \in DOMAIN lock, readQueue(i) PROVE FailedSurfaced'
    BY <2>1, <1>2 DEF readQueue, device
  <2>2. ASSUME NEW i \in DOMAIN lock, removeReplayed(i) PROVE FailedSurfaced'
    BY <2>2, <1>1 DEF removeReplayed, history
  <2>3. ASSUME NEW i \in DOMAIN lock, retryFailed(i) PROVE FailedSurfaced'
    BY <2>3 DEF retryFailed, Without, FailedSurfaced
  <2>4. ASSUME NEW i \in DOMAIN lock,
               \/ pruneWrite(i) \/ enqueueMutation(i) \/ clearQueue(i)
               \/ refreshPendingCount(i) \/ takeSnapshot(i) \/ bumpRetries(i)
               \/ rewriteUrls(i)
        PROVE  UNCHANGED <<failedSync, failedDisk, persisting, surfaced>>
    BY <2>4 DEF pruneWrite, enqueueMutation, clearQueue, refreshPendingCount, takeSnapshot,
       bumpRetries, rewriteUrls, device, history
  <2> QED
    BY <1>1, <2>1, <2>2, <2>3, <2>4 DEF LockStep
<1>4. ASSUME NEW p \in persisting, persistRead(p) PROVE FailedSurfaced'
  <2>1. UNCHANGED <<failedSync, failedDisk, surfaced>>
    BY <1>4 DEF persistRead, device, history
  <2>2. \A q \in persisting' :
          q \in persisting \/ (q.item = p.item /\ q.read = failedDisk)
    BY <1>4 DEF persistRead
  <2> QED
    BY <1>4, <2>1, <2>2 DEF FailedSurfaced
<1>5. ASSUME NEW p \in persisting, persistWrite(p) PROVE FailedSurfaced'
  BY <1>5 DEF persistWrite, Upsert, Without, FailedSurfaced, history
<1>6. hydrateFailedSync => FailedSurfaced'
  BY DEF hydrateFailedSync, FailedSurfaced, device, history
<1>7. drainQueue \/ DrainStep \/ FetchStep => FailedSurfaced'
  <2>1. reportFailed => FailedSurfaced'
    BY <1>2 DEF reportFailed, device
  <2> QED
    BY <2>1, <1>1 DEF drainQueue, DrainStep, replay, drainDone, replayOk, replayFails, FetchStep,
       fetchAnswered, fetchFails, device, history
<1>8. UserStep => FailedSurfaced'
  <2>1. ASSUME NEW x \in failedSync, dismissFailedSync(x) PROVE FailedSurfaced'
    BY <2>1 DEF dismissFailedSync, Without, FailedSurfaced, device
  <2>2. resetAllStores => FailedSurfaced'
    BY DEF resetAllStores, FailedSurfaced
  <2>3. ASSUME \/ \E c \in ClientIds : maybeQueueOffline(c) \/ fetch(c)
               \/ \E x \in failedSync : retryTap(x)
               \/ \E u \in Users : login(u)
        PROVE  UNCHANGED <<failedSync, failedDisk, persisting, surfaced>>
    BY <2>3 DEF maybeQueueOffline, fetch, retryTap, login, device, memory, history
  <2> QED
    BY <1>1, <2>1, <2>2, <2>3 DEF UserStep
<1>9. crash => FailedSurfaced'
  BY DEF crash, FailedSurfaced, device, history
<1>10. Environment \/ UNCHANGED vars => FailedSurfaced'
  BY <1>1, <1>9 DEF Environment, serverHandles, lateRequest, setOfflineMode, tick, vars,
     device, memory, history
<1> QED
  BY <1>3, <1>4, <1>5, <1>6, <1>7, <1>8, <1>10 DEF Next, PersistStep

\* What was recorded as failed stays recorded.
LEMMA SurfacedGrows == ASSUME IInv, [Next]_vars PROVE surfaced \subseteq surfaced'
BY SurfacedFootprint DEF recordFailed

\* The model's counters only go up, one at a time.
LEMMA CountersGrow ==
  ASSUME [Next]_vars
  PROVE  /\ nextVer' \in {nextVer, nextVer + 1} /\ taps' \in {taps, taps + 1}
         /\ crashes' \in {crashes, crashes + 1} /\ logouts' \in {logouts, logouts + 1}
<1> DEFINE Goal == /\ nextVer' \in {nextVer, nextVer + 1} /\ taps' \in {taps, taps + 1}
                   /\ crashes' \in {crashes, crashes + 1} /\ logouts' \in {logouts, logouts + 1}
<1>1. UNCHANGED budget => Goal
  BY DEF budget
<1>2. LockStep => UNCHANGED budget
  BY DEF LockStep, readQueue, pruneWrite, enqueueMutation, retryFailed, clearQueue,
     refreshPendingCount, takeSnapshot, removeReplayed, bumpRetries, rewriteUrls
<1>3. PersistStep \/ hydrateFailedSync \/ drainQueue \/ DrainStep \/ FetchStep
        => UNCHANGED budget
  BY DEF PersistStep, persistRead, persistWrite, hydrateFailedSync, drainQueue, DrainStep,
     replay, drainDone, replayOk, replayFails, reportFailed, FetchStep, fetchAnswered, fetchFails
<1>4. UserStep => Goal
  BY DEF UserStep, maybeQueueOffline, fetch, makeWrite, retryTap,
     dismissFailedSync, resetAllStores, login, budget
<1>5. Environment \/ UNCHANGED vars => Goal
  BY DEF Environment, serverHandles, lateRequest, setOfflineMode, tick, crash, vars, budget
<1> HIDE DEF Goal
<1>6. Goal
  BY <1>1, <1>2, <1>3, <1>4, <1>5 DEF Next
<1> QED
  BY <1>6 DEF Goal

\* A restart leaves one caller, which asks for nothing but the count.
LEMMA RestartedLock ==
  ASSUME crash
  PROVE  /\ \A k \in DOMAIN lock' : lock'[k].op = "refresh" /\ ~lock'[k].prune
         /\ Working' = {} /\ UNCHANGED <<queue, surfaced, taps, session, logouts, nextVer>>
         /\ crashes' = crashes + 1
<1>1. \A k \in DOMAIN lock' : lock'[k] = Job("refresh", None)
  BY DEF crash
<1>2. drain'.todo = {} /\ drain'.phase = "idle"
  BY DEF crash, Idle
<1> QED
  BY <1>1, <1>2 DEF crash, Job, Working, device, history

\* What a step adds to the drain's work is what takeSnapshot read.
LEMMA WorkingFootprint ==
  ASSUME IInv, [Next]_vars
  PROVE  \/ Working' \subseteq Working
         \/ \E i \in DOMAIN lock : takeSnapshot(i) /\ Working' \subseteq queue
<1> DEFINE Goal == \/ Working' \subseteq Working
                   \/ \E i \in DOMAIN lock : takeSnapshot(i) /\ Working' \subseteq queue
<1>a. drain \in DrainType
  BY DEF IInv, TypeOK
<1>b. UNCHANGED drain => Goal
  BY DEF Working
<1>c. Working' \subseteq Working => Goal
  OBVIOUS
<1>d. \A i \in DOMAIN lock : takeSnapshot(i) /\ Working' \subseteq queue => Goal
  OBVIOUS
<1> HIDE DEF Goal
<1>1. ASSUME drain'.todo = {}, drain'.phase \in {"idle", "snapshot"} PROVE Goal
  BY <1>1, <1>c DEF Working
<1>2. ASSUME NEW i \in DOMAIN lock, retryFailed(i) PROVE Goal
  BY <1>2, <1>1, <1>b DEF retryFailed, Idle
<1>3. ASSUME NEW i \in DOMAIN lock, takeSnapshot(i) PROVE Goal
  <2>1. lock[i].read = queue
    BY <1>3, HolderRead DEF takeSnapshot
  <2>2. drain'.todo = queue /\ drain'.phase = "loop"
    BY <1>3, <1>a, <2>1 DEF takeSnapshot, DrainType
  <2>3. Working' \subseteq queue
    BY <2>2 DEF Working
  <2> QED
    BY <1>3, <1>d, <2>3
<1>4. ASSUME drain'.todo = drain.todo, drain'.cur = drain.cur,
             \/ drain'.phase = "loop"
             \/ drain'.phase = drain.phase
             \/ drain.phase = "inflight" /\ drain'.phase = "locked"
             \/ drain.phase = "locked" /\ drain'.phase = "report"
      PROVE  Goal
  BY <1>4, <1>c DEF Working
<1>5. ASSUME NEW i \in DOMAIN lock, removeReplayed(i) \/ bumpRetries(i) \/ rewriteUrls(i)
      PROVE  Goal
  <2>1. \/ drain' = drain
        \/ drain' = [drain EXCEPT !.phase = "loop"]
        \/ drain' = [drain EXCEPT !.phase = "report"] /\ drain.phase = "locked"
    <3>1. removeReplayed(i) => drain.phase = "locked"
      BY DEF removeReplayed, Holds, IInv, DrainJobs, JobOk, DrainOps
    <3> QED
      BY <1>5, <3>1 DEF removeReplayed, bumpRetries, rewriteUrls
  <2>2. CASE drain' = [drain EXCEPT !.phase = "loop"]
    BY <1>4, <1>a, <2>2 DEF DrainType
  <2>3. CASE drain' = [drain EXCEPT !.phase = "report"] /\ drain.phase = "locked"
    BY <1>4, <1>a, <2>3 DEF DrainType
  <2> QED
    BY <1>b, <2>1, <2>2, <2>3
<1>6. LockStep => Goal
  BY <1>2, <1>3, <1>5, <1>b DEF LockStep, readQueue, pruneWrite, enqueueMutation, clearQueue,
     refreshPendingCount
<1>7. PersistStep \/ hydrateFailedSync \/ drainQueue => Goal
  BY <1>b, <1>1 DEF PersistStep, persistRead, persistWrite, hydrateFailedSync, drainQueue, Idle
<1>8. ASSUME NEW m \in drain.todo, replay(m) PROVE Goal
  <2>1. drain'.todo = drain.todo \ {m} /\ drain'.cur = m
    BY <1>8 DEF replay
  <2> QED
    BY <2>1, <1>c DEF Working
<1>9. drainDone => Goal
  BY <1>1 DEF drainDone, Idle
<1>10. replayOk => Goal
  BY <1>4, <1>a DEF replayOk, DrainType
<1>11. ASSUME NEW o \in {"permanent", "transient"}, replayFails(o) PROVE Goal
  <2>1. CASE drain' = Idle
    BY <2>1, <1>1 DEF Idle
  <2>2. CASE drain' = [drain EXCEPT !.phase = "locked", !.outcome = o]
    BY <1>11, <2>2, <1>4, <1>a DEF replayFails, DrainType
  <2> QED
    BY <1>11, <2>1, <2>2 DEF replayFails
<1>18. reportFailed => Goal
  BY <1>4, <1>a DEF reportFailed, DrainType
<1>12. DrainStep => Goal
  BY <1>8, <1>9, <1>10, <1>11, <1>18 DEF DrainStep
<1>13. UserStep \/ FetchStep => Goal
  BY <1>b DEF UserStep, maybeQueueOffline, fetch, retryTap, dismissFailedSync,
     resetAllStores, login, FetchStep, fetchAnswered, fetchFails, memory
<1>14. ASSUME NEW o \in Outcomes, serverHandles(o) PROVE Goal
  BY <1>14, <1>4, <1>a DEF serverHandles, DrainType
<1>15. crash => Goal
  BY <1>1 DEF crash, Idle
<1>16. Environment \/ UNCHANGED vars => Goal
  BY <1>b, <1>14, <1>15 DEF Environment, lateRequest, setOfflineMode, tick, vars, memory
<1>17. Goal
  BY <1>6, <1>7, <1>12, <1>13, <1>16 DEF Next
<1> QED
  BY <1>17 DEF Goal

\* Every version the app still has or has recorded as failed.
Known == VersionsOf(queue) \cup VersionsOf(Working) \cup surfaced

\* v may be replaced by w: it is older, or w was on its way to the server when v was made.
Ahead(o, v, w) == v < w \/ <<w, v>> \in o

Before(v, w) == Ahead(overtaken, v, w)

\* Writes enter the stored queue in the order in which they were made, but for those that
\* were sent first: whatever is stored, replayed or failed comes before what waits in the
\* lock, in the order of the callers, and that before what is on its way.
WritesInOrder ==
  /\ \A v \in Known : v < nextVer
  /\ \A r \in fetches :
       /\ r.ver < nextVer
       /\ \A v \in Known : Before(v, r.ver)
       /\ \A q \in fetches : q # r => Before(q.ver, r.ver)
  /\ \A i \in DOMAIN lock : lock[i].op = "enqueue" =>
       /\ lock[i].arg.ver < nextVer
       /\ \A v \in Known : Before(v, lock[i].arg.ver)
       /\ \A r \in fetches : Before(lock[i].arg.ver, r.ver)
       /\ \A k \in DOMAIN lock :
            i < k /\ lock[k].op = "enqueue" => Before(lock[i].arg.ver, lock[k].arg.ver)

\* Versions are numbers.
LEMMA VersionTypes ==
  ASSUME IInv
  PROVE  /\ Known \subseteq Int /\ nextVer \in Int /\ \A r \in fetches : r.ver \in Int
         /\ \A i \in DOMAIN lock : lock[i].op = "enqueue" => lock[i].arg.ver \in Int
<1>1. Versions \subseteq Int
  BY DEF Versions
<1>2. (\A e \in Entry : e.ver \in Versions) /\ \A r \in fetches : r.ver \in Versions
  BY DEF Entry, Request, IInv, TypeOK
<1>3. Working \subseteq Entry
  BY DEF IInv, TypeOK, DrainType, DrainJobs, Working
<1>4. queue \subseteq Entry /\ surfaced \subseteq Versions /\ nextVer \in Int
  BY DEF IInv, TypeOK
<1>5. \A i \in DOMAIN lock : lock[i].op = "enqueue" => lock[i].arg \in Entry
  BY DEF IInv, DrainJobs, JobOk
<1> QED
  BY <1>1, <1>2, <1>3, <1>4, <1>5 DEF Known, VersionsOf

\* A step makes one version known, at the most: that of the write enqueueMutation stores.
LEMMA KnownFootprint ==
  ASSUME IInv, RetriesSurfaced, [Next]_vars, NEW v \in Known'
  PROVE  \/ v \in Known
         \/ \E i \in DOMAIN lock : enqueueMutation(i) /\ v = lock[i].arg.ver
<1>1. CASE v \in VersionsOf(queue)'
  <2>1. PICK b \in queue' : v = b.ver
    BY <1>1 DEF VersionsOf
  <2>2. CASE Stored(b)
    BY <2>1, <2>2 DEF Stored, SameWrite, Known, VersionsOf
  <2>3. ASSUME NEW i \in DOMAIN lock, retryFailed(i), SameWrite(lock[i].arg, b)
        PROVE  v \in Known
    BY <2>1, <2>3 DEF retryFailed, Holds, RetriesSurfaced, SameWrite, Known
  <2>4. ASSUME NEW i \in DOMAIN lock, enqueueMutation(i), SameWrite(lock[i].arg, b)
        PROVE  v = lock[i].arg.ver
    BY <2>1, <2>4 DEF SameWrite
  <2> QED
    BY <2>2, <2>3, <2>4, QueueFootprint
<1>2. CASE v \in VersionsOf(Working)'
  <2>1. PICK m \in Working' : v = m.ver
    BY <1>2 DEF VersionsOf
  <2> QED
    BY <2>1, WorkingFootprint DEF Known, VersionsOf
<1>3. CASE v \in surfaced'
  BY <1>3, SurfacedFootprint DEF recordFailed, Known
<1> QED
  BY <1>1, <1>2, <1>3 DEF Known

\* A request is on its way until it is answered; a new write overtakes those that are.
LEMMA FetchFootprint ==
  ASSUME [Next]_vars
  PROVE  \/ UNCHANGED <<nextVer, overtaken>> /\ fetches' \subseteq fetches
         \/ \E c \in ClientIds : /\ MayWrite(c) /\ makeWrite
                                 /\ UNCHANGED fetches \/ fetch(c)
<1> DEFINE Same == UNCHANGED <<nextVer, overtaken>> /\ fetches' \subseteq fetches
           New == \E c \in ClientIds : /\ MayWrite(c) /\ makeWrite
                                       /\ UNCHANGED fetches \/ fetch(c)
<1>1. LockStep => Same
  BY DEF LockStep, readQueue, pruneWrite, enqueueMutation, retryFailed, clearQueue,
     refreshPendingCount, takeSnapshot, removeReplayed, bumpRetries, rewriteUrls,
     budget, outside, history, excused
<1>2. PersistStep \/ hydrateFailedSync \/ drainQueue \/ DrainStep \/ FetchStep => Same
  BY DEF PersistStep, persistRead, persistWrite, hydrateFailedSync, drainQueue, DrainStep,
     replay, drainDone, replayOk, replayFails, reportFailed, FetchStep, fetchAnswered, fetchFails,
     budget, outside, history, excused
<1>3. ASSUME NEW c \in ClientIds, maybeQueueOffline(c) \/ fetch(c) PROVE New
  <2>1. MayWrite(c) /\ makeWrite /\ (UNCHANGED fetches \/ fetch(c))
    BY <1>3 DEF maybeQueueOffline, fetch, outside
  <2> QED
    BY <2>1
<1>4. ASSUME \/ \E x \in failedSync : retryTap(x) \/ dismissFailedSync(x)
             \/ resetAllStores
             \/ \E u \in Users : login(u)
      PROVE  Same
  BY <1>4 DEF retryTap, dismissFailedSync, resetAllStores, login, budget, outside, history, excused
<1>5. Environment \/ UNCHANGED vars => Same
  BY DEF Environment, serverHandles, lateRequest, setOfflineMode, tick, crash, vars, budget,
     outside, history, excused
<1> HIDE DEF Same, New
<1>6. Same \/ New
  BY <1>1, <1>2, <1>3, <1>4, <1>5 DEF Next, UserStep
<1> QED
  BY <1>6 DEF Same, New

\* What a new write says and whose it is.
LEMMA NewWriteFields ==
  ASSUME NEW c
  PROVE  /\ NewWrite(c).clientId = c /\ NewWrite(c).ver = nextVer /\ NewWrite(c).owner = session
         /\ NewEntry(NewWrite(c)).clientId = c /\ NewEntry(NewWrite(c)).ver = nextVer
         /\ NewEntry(NewWrite(c)).owner = session
BY DEF NewWrite, NewEntry

\* An entry made of a request or an item is the same write.
LEMMA NewEntryFields ==
  ASSUME NEW x
  PROVE  /\ NewEntry(x).clientId = x.clientId /\ NewEntry(x).ver = x.ver
         /\ NewEntry(x).owner = x.owner
BY DEF NewEntry

\* A caller that comes with a write brings a new one, or one whose request has failed.
LEMMA CalledWrite ==
  ASSUME NEW j, Called(j), j.op = "enqueue"
  PROVE  \/ /\ MayWrite(j.arg.clientId) /\ makeWrite /\ UNCHANGED fetches
            /\ j.arg.ver = nextVer /\ j.arg.owner = session
         \/ \E r \in fetches : /\ fetches' = fetches \ {r}
                               /\ j.arg.clientId = r.clientId /\ j.arg.ver = r.ver
                               /\ j.arg.owner = r.owner
<1>1. ASSUME NEW c \in ClientIds, maybeQueueOffline(c), j.arg = NewEntry(NewWrite(c))
      PROVE  /\ MayWrite(j.arg.clientId) /\ makeWrite /\ UNCHANGED fetches
             /\ j.arg.ver = nextVer /\ j.arg.owner = session
  BY <1>1, NewWriteFields DEF maybeQueueOffline, outside
<1>2. ASSUME NEW r \in fetches, fetchFails(r), j.arg = NewEntry(r)
      PROVE  /\ fetches' = fetches \ {r} /\ j.arg.clientId = r.clientId /\ j.arg.ver = r.ver
             /\ j.arg.owner = r.owner
  BY <1>2, NewEntryFields DEF fetchFails
<1> QED
  BY <1>1, <1>2 DEF Called, DrainJobOps, DrainOps

\* Every step keeps the writes in order.
LEMMA OrderStep ==
  ASSUME IInv, RetriesSurfaced, WritesInOrder, [Next]_vars
  PROVE  WritesInOrder'
<1>a. /\ Known \subseteq Int /\ nextVer \in Int /\ \A r \in fetches : r.ver \in Int
      /\ \A i \in DOMAIN lock : lock[i].op = "enqueue" => lock[i].arg.ver \in Int
  BY VersionTypes
<1>b. lock \in Seq(JobType) /\ DOMAIN lock = 1..Len(lock) /\ Len(lock) \in Nat
  BY DEF IInv, TypeOK
<1>1. ASSUME NEW i \in DOMAIN lock, enqueueMutation(i) PROVE WritesInOrder'
  <2>1. i = 1 /\ lock[i].op = "enqueue" /\ Moves(1, {})
        /\ UNCHANGED <<nextVer, fetches, overtaken>>
    BY <1>1, HolderRead, OneLeaves DEF enqueueMutation, budget, outside, excused
  <2>2. \A v \in Known' : v \in Known \/ v = lock[i].arg.ver
    <3> SUFFICES ASSUME NEW v \in Known' PROVE v \in Known \/ v = lock[i].arg.ver
      OBVIOUS
    <3>1. \A k \in DOMAIN lock : enqueueMutation(k) => k = i
      BY <2>1, HolderRead DEF enqueueMutation
    <3>2. \/ v \in Known
          \/ \E k \in DOMAIN lock : enqueueMutation(k) /\ v = lock[k].arg.ver
      BY KnownFootprint
    <3> QED
      BY <3>1, <3>2
  <2>3. \A k \in DOMAIN lock' : /\ k + 1 \in DOMAIN lock /\ SameJob(lock'[k], lock[k + 1])
                                /\ k + 1 > i /\ k \in Nat
    <3>1. \A k \in DOMAIN lock' : k \in Nat /\ k + 1 \in DOMAIN lock
                                 /\ SameJob(lock'[k], lock[k + 1])
      BY <2>1 DEF Moves, SameJob
    <3>2. \A k \in DOMAIN lock' : k \in 1..Len(lock) /\ k >= 1
      <4>1. lock' = Drop(i)
        BY <1>1 DEF enqueueMutation
      <4>2. DOMAIN Drop(i) = 1..(Len(lock) - 1)
        BY <1>b, DropSeq
      <4> QED
        BY <4>1, <4>2, <1>b
    <3> QED
      BY <2>1, <3>1, <3>2
  <2>4. \A v, w : Before(v, w)' <=> Before(v, w)
    BY <2>1 DEF Before, Ahead
  <2>5. /\ \A v \in Known' : v < nextVer
        /\ \A r \in fetches :
             /\ r.ver < nextVer
             /\ \A v \in Known' : Before(v, r.ver)
             /\ \A q \in fetches : q # r => Before(q.ver, r.ver)
    BY <2>1, <2>2 DEF WritesInOrder
  <2>6. ASSUME NEW k \in DOMAIN lock', lock'[k].op = "enqueue"
        PROVE  /\ lock'[k].arg.ver < nextVer
               /\ \A v \in Known' : Before(v, lock'[k].arg.ver)
               /\ \A r \in fetches : Before(lock'[k].arg.ver, r.ver)
               /\ \A l \in DOMAIN lock' :
                    k < l /\ lock'[l].op = "enqueue" => Before(lock'[k].arg.ver, lock'[l].arg.ver)
    <3>1. k + 1 \in DOMAIN lock /\ lock[k + 1].op = "enqueue" /\ lock'[k].arg = lock[k + 1].arg
      BY <2>3, <2>6 DEF SameJob
    <3>2. Before(lock[i].arg.ver, lock[k + 1].arg.ver)
      BY <2>1, <2>3, <3>1 DEF WritesInOrder
    <3>3. \A l \in DOMAIN lock' : k < l /\ lock'[l].op = "enqueue" =>
            Before(lock[k + 1].arg.ver, lock[l + 1].arg.ver) /\ lock'[l].arg = lock[l + 1].arg
      BY <2>3, <3>1 DEF WritesInOrder, SameJob
    <3> QED
      BY <2>2, <3>1, <3>2, <3>3 DEF WritesInOrder
  <2> QED
    BY <2>1, <2>4, <2>5, <2>6 DEF WritesInOrder, Before, Ahead
<1>2. ASSUME \A i \in DOMAIN lock : ~enqueueMutation(i) PROVE WritesInOrder'
  <2>1. Known' \subseteq Known
    <3> SUFFICES ASSUME NEW v \in Known' PROVE v \in Known
      OBVIOUS
    <3>1. \/ v \in Known
          \/ \E k \in DOMAIN lock : enqueueMutation(k) /\ v = lock[k].arg.ver
      BY KnownFootprint
    <3> QED
      BY <1>2, <3>1
  <2>2. /\ nextVer' \in {nextVer, nextVer + 1} /\ overtaken \subseteq overtaken'
        /\ \A r \in fetches' : r \in fetches \/ (r.ver = nextVer /\ nextVer' = nextVer + 1)
        /\ nextVer' # nextVer => \A r \in fetches : <<r.ver, nextVer>> \in overtaken'
        /\ \A q, r \in fetches' : q \notin fetches /\ r \notin fetches => q = r
    <3>1. CASE UNCHANGED <<nextVer, overtaken>> /\ fetches' \subseteq fetches
      BY <3>1
    <3>2. ASSUME NEW c \in ClientIds, makeWrite, UNCHANGED fetches \/ fetch(c)
          PROVE  /\ fetches' \subseteq fetches \cup {NewWrite(c)} /\ nextVer' = nextVer + 1
                 /\ overtaken \subseteq overtaken'
                 /\ \A r \in fetches : <<r.ver, nextVer>> \in overtaken'
      BY <3>2 DEF makeWrite, fetch
    <3> QED
      BY <3>1, <3>2, <1>a, FetchFootprint, NewWriteFields
  <2>3. /\ \A v, w : Before(v, w) => Ahead(overtaken', v, w)
        /\ \A r \in fetches' : r \in fetches \/ \A v \in Int : v < nextVer => Ahead(overtaken', v, r.ver)
        /\ nextVer' # nextVer => \A r \in fetches : Ahead(overtaken', nextVer, r.ver)
    BY <2>2 DEF Before, Ahead
  <2>4. \A v \in Known' : v < nextVer'
    <3>1. \A v \in Known' : v \in Int /\ v < nextVer
      BY <2>1, <1>a DEF WritesInOrder
    <3> QED
      BY <3>1, <1>a, <2>2
  <2>5. ASSUME NEW r \in fetches'
        PROVE  /\ r.ver < nextVer'
               /\ \A v \in Known' : Ahead(overtaken', v, r.ver)
               /\ \A q \in fetches' : q # r => Ahead(overtaken', q.ver, r.ver)
    <3>1. r.ver < nextVer'
      BY <2>2, <1>a DEF WritesInOrder
    <3>2. \A v \in Known' : Ahead(overtaken', v, r.ver)
      BY <1>a, <2>1, <2>3 DEF WritesInOrder
    <3>3. ASSUME NEW q \in fetches', q # r PROVE Ahead(overtaken', q.ver, r.ver)
      <4>1. CASE q \in fetches /\ r \in fetches
        BY <3>3, <4>1, <2>3 DEF WritesInOrder
      <4>2. CASE q \in fetches /\ r \notin fetches
        BY <4>2, <2>3, <1>a DEF WritesInOrder
      <4>3. CASE q \notin fetches /\ r \in fetches
        BY <4>3, <2>2, <2>3, <1>a
      <4> QED
        BY <3>3, <4>1, <4>2, <4>3, <2>2
    <3> QED
      BY <3>1, <3>2, <3>3
  <2>6. CASE crash
    BY <2>4, <2>5, <2>6, RestartedLock DEF WritesInOrder, Before
  <2>7. CASE ~crash
    <3>1. PICK n \in {0, 1} : \E N : Moves(n, N) /\ Cleared(n) /\ \A j \in N : Called(j)
      BY <2>7, LockFootprint
    <3>2. PICK N : Moves(n, N) /\ Cleared(n) /\ \A j \in N : Called(j)
      BY <3>1
    <3> DEFINE Old(k) == /\ k + n \in DOMAIN lock /\ lock[k + n].op = "enqueue"
                         /\ lock'[k].arg = lock[k + n].arg
               Made(k) == /\ lock'[k].arg.ver = nextVer /\ nextVer' = nextVer + 1
                          /\ fetches' = fetches
               Sent(k) == \E r \in fetches : fetches' = fetches \ {r} /\ lock'[k].arg.ver = r.ver
    <3>3. ASSUME NEW k \in DOMAIN lock', lock'[k].op = "enqueue"
          PROVE  Old(k) \/ (k + n = Len(lock) + 1 /\ (Made(k) \/ Sent(k)))
      <4>1. CASE k + n \in DOMAIN lock /\ SameJob(lock'[k], lock[k + n])
        BY <3>3, <4>1 DEF SameJob
      <4>2. CASE k + n = Len(lock) + 1 /\ lock'[k] \in N
        BY <3>2, <3>3, <4>2, CalledWrite DEF makeWrite
      <4> QED
        BY <3>2, <4>1, <4>2 DEF Moves
    <3>4. \A k \in DOMAIN lock' : k \in Nat
      BY <3>2 DEF Moves
    <3>5. ASSUME NEW k \in DOMAIN lock', lock'[k].op = "enqueue"
          PROVE  /\ lock'[k].arg.ver < nextVer'
                 /\ \A v \in Known' : Ahead(overtaken', v, lock'[k].arg.ver)
                 /\ \A r \in fetches' : Ahead(overtaken', lock'[k].arg.ver, r.ver)
      <4>1. CASE Old(k)
        <5>1. lock[k + n].arg.ver \in Int /\ lock[k + n].arg.ver < nextVer
          BY <4>1, <1>a DEF WritesInOrder
        <5>2. \A v \in Known' : Ahead(overtaken', v, lock[k + n].arg.ver)
          BY <4>1, <2>1, <2>3 DEF WritesInOrder
        <5>3. \A r \in fetches' : Ahead(overtaken', lock[k + n].arg.ver, r.ver)
          BY <4>1, <5>1, <2>3 DEF WritesInOrder
        <5> QED
          BY <4>1, <5>1, <5>2, <5>3, <1>a, <2>2
      <4>2. CASE Made(k)
        <5>1. \A v \in Known' : Ahead(overtaken', v, nextVer)
          BY <2>1 DEF WritesInOrder, Before, Ahead
        <5>2. \A r \in fetches' : Ahead(overtaken', nextVer, r.ver)
          BY <4>2, <2>3, <1>a
        <5> QED
          BY <4>2, <5>1, <5>2, <1>a
      <4>3. CASE Sent(k)
        <5>1. PICK r \in fetches : fetches' = fetches \ {r} /\ lock'[k].arg.ver = r.ver
          BY <4>3
        <5>2. r.ver < nextVer' /\ \A v \in Known' : Ahead(overtaken', v, r.ver)
          BY <1>a, <2>1, <2>2, <2>3 DEF WritesInOrder
        <5>3. \A q \in fetches' : Ahead(overtaken', r.ver, q.ver)
          BY <5>1, <2>3 DEF WritesInOrder
        <5> QED
          BY <5>1, <5>2, <5>3
      <4> QED
        BY <3>3, <3>5, <4>1, <4>2, <4>3
    <3>6. ASSUME NEW k \in DOMAIN lock', lock'[k].op = "enqueue",
                 NEW l \in DOMAIN lock', k < l, lock'[l].op = "enqueue"
          PROVE  Ahead(overtaken', lock'[k].arg.ver, lock'[l].arg.ver)
      <4>1. Old(k)
        BY <1>b, <3>3, <3>4, <3>6
      <4>2. CASE Old(l)
        BY <3>4, <3>6, <4>1, <4>2, <2>3 DEF WritesInOrder
      <4>3. CASE Made(l)
        BY <4>1, <4>3 DEF WritesInOrder, Before, Ahead
      <4>4. CASE Sent(l)
        BY <4>1, <4>4, <2>3 DEF WritesInOrder
      <4> QED
        BY <3>3, <3>6, <4>2, <4>3, <4>4
    <3> QED
      BY <2>4, <2>5, <3>5, <3>6 DEF WritesInOrder, Before, Ahead
  <2> QED
    BY <2>6, <2>7
<1> QED
  BY <1>1, <1>2

\* While nobody has tapped Retry or Dismiss, no retry waits in the lock.
NoRetries == taps = 0 => \A i \in DOMAIN lock : lock[i].op # "retry"

\* What may excuse an entry only grows.
LEMMA ExcusesGrow ==
  ASSUME [Next]_vars
  PROVE  astray \subseteq astray' /\ retried \subseteq retried' /\ unreported \subseteq unreported'
<1> DEFINE Goal == astray \subseteq astray' /\ retried \subseteq retried'
                     /\ unreported \subseteq unreported'
<1>1. UNCHANGED excused => Goal
  BY DEF excused
<1>2. LockStep => UNCHANGED excused
  BY DEF LockStep, readQueue, pruneWrite, enqueueMutation, retryFailed, clearQueue,
     refreshPendingCount, takeSnapshot, removeReplayed, bumpRetries, rewriteUrls, history
<1>3. PersistStep \/ hydrateFailedSync \/ drainQueue \/ DrainStep \/ FetchStep
        => UNCHANGED excused
  BY DEF PersistStep, persistRead, persistWrite, hydrateFailedSync, drainQueue, DrainStep,
     replay, drainDone, replayOk, replayFails, reportFailed, FetchStep, fetchAnswered, fetchFails,
     history
<1>4. UserStep => Goal
  BY DEF UserStep, maybeQueueOffline, fetch, retryTap, dismissFailedSync, resetAllStores,
     login, history, excused
<1>5. Environment \/ UNCHANGED vars => Goal
  BY DEF Environment, serverHandles, lateRequest, setOfflineMode, tick, crash, vars, history,
     excused
<1> HIDE DEF Goal
<1>6. Goal
  BY <1>1, <1>2, <1>3, <1>4, <1>5 DEF Next
<1> QED
  BY <1>6 DEF Goal

\* Every step keeps both facts about retries.
LEMMA RetriesStep ==
  ASSUME IInv, FailedSurfaced, RetriesSurfaced, NoRetries, [Next]_vars
  PROVE  RetriesSurfaced' /\ NoRetries'
<1>1. surfaced \subseteq surfaced' /\ retried \subseteq retried'
  BY SurfacedGrows, ExcusesGrow
<1>2. taps' \in {taps, taps + 1} /\ taps \in Nat
  BY CountersGrow DEF IInv, TypeOK
<1>3. CASE crash
  BY <1>3, RestartedLock DEF RetriesSurfaced, NoRetries
<1>4. CASE ~crash
  <2>1. PICK n \in {0, 1} : \E N : Moves(n, N) /\ Cleared(n) /\ \A j \in N : Called(j)
    BY <1>4, LockFootprint
  <2>2. PICK N : Moves(n, N) /\ Cleared(n) /\ \A j \in N : Called(j)
    BY <2>1
  <2>3. ASSUME NEW j, Called(j), j.op = "retry"
        PROVE  taps' = taps + 1 /\ j.arg.ver \in retried' /\ \E x \in failedSync : j.arg.ver = x.ver
    <3>1. PICK x \in failedSync : retryTap(x) /\ j.arg = NewEntry(x)
      BY <2>3 DEF Called, DrainJobOps, DrainOps
    <3> QED
      BY <3>1, NewEntryFields DEF retryTap
  <2>4. ASSUME NEW k \in DOMAIN lock', lock'[k].op = "retry"
        PROVE  \/ /\ k + n \in DOMAIN lock /\ lock[k + n].op = "retry"
                  /\ lock'[k].arg = lock[k + n].arg
               \/ /\ taps' = taps + 1 /\ lock'[k].arg.ver \in retried'
                  /\ \E x \in failedSync : lock'[k].arg.ver = x.ver
    BY <2>2, <2>3, <2>4 DEF Moves, SameJob
  <2>5. RetriesSurfaced'
    BY <1>1, <2>4 DEF RetriesSurfaced, FailedSurfaced
  <2>6. NoRetries'
    BY <1>2, <2>4 DEF NoRetries
  <2> QED
    BY <2>5, <2>6
<1> QED
  BY <1>3, <1>4

\* The latest write for a resource wins, but for one that was sent before it, or that the
\* user has retried.
ReplacedInOrder ==
  \A a \in queue, b \in queue' :
    a.clientId = b.clientId /\ b.ver < a.ver =>
      b.ver \in retried \/ <<b.ver, a.ver>> \in overtaken

\* A stored entry is replaced by an older write only where LatestEntryWins says so.
LEMMA ReplacedStep ==
  ASSUME IInv, RetriesSurfaced, WritesInOrder, [Next]_vars
  PROVE  ReplacedInOrder
<1> SUFFICES ASSUME NEW a \in queue, NEW b \in queue', a.clientId = b.clientId, b.ver < a.ver
             PROVE  b.ver \in retried \/ <<b.ver, a.ver>> \in overtaken
  BY DEF ReplacedInOrder
<1>1. a.ver \in Known /\ a.ver \in Int
  BY VersionTypes DEF Known, VersionsOf
<1>2. CASE Stored(b)
  <2>1. PICK c \in queue : SameWrite(c, b)
    BY <1>2 DEF Stored
  <2>2. c = a
    BY <2>1 DEF SameWrite, IInv, LockInv, UniqueClientIds
  <2> QED
    BY <1>1, <2>1, <2>2 DEF SameWrite
<1>3. ASSUME NEW i \in DOMAIN lock, retryFailed(i), SameWrite(lock[i].arg, b)
      PROVE  b.ver \in retried
  BY <1>3 DEF retryFailed, Holds, RetriesSurfaced, SameWrite
<1>4. ASSUME NEW i \in DOMAIN lock, enqueueMutation(i), SameWrite(lock[i].arg, b)
      PROVE  <<b.ver, a.ver>> \in overtaken
  <2>1. lock[i].op = "enqueue" /\ lock[i].arg.ver \in Int
    BY <1>4, VersionTypes DEF enqueueMutation, Holds
  <2>2. Before(a.ver, lock[i].arg.ver)
    BY <1>1, <2>1 DEF WritesInOrder
  <2> QED
    BY <1>1, <1>4, <2>1, <2>2 DEF SameWrite, Before, Ahead
<1> QED
  BY <1>2, <1>3, <1>4, QueueFootprint

\* Who is signed in changes with a sign-out or a sign-in.
LEMMA SessionFootprint ==
  ASSUME [Next]_vars
  PROVE  UNCHANGED session \/ resetAllStores \/ \E u \in Users : login(u)
<1>1. LockStep => UNCHANGED session
  BY DEF LockStep, readQueue, pruneWrite, enqueueMutation, retryFailed, clearQueue,
     refreshPendingCount, takeSnapshot, removeReplayed, bumpRetries, rewriteUrls, outside
<1>2. PersistStep \/ hydrateFailedSync \/ drainQueue \/ DrainStep \/ FetchStep
        => UNCHANGED session
  BY DEF PersistStep, persistRead, persistWrite, hydrateFailedSync, drainQueue, DrainStep,
     replay, drainDone, replayOk, replayFails, reportFailed, FetchStep, fetchAnswered, fetchFails,
     outside
<1>3. UserStep => UNCHANGED session \/ resetAllStores \/ \E u \in Users : login(u)
  BY DEF UserStep, maybeQueueOffline, fetch, retryTap, dismissFailedSync, outside
<1>4. Environment \/ UNCHANGED vars => UNCHANGED session
  BY DEF Environment, serverHandles, lateRequest, setOfflineMode, tick, crash, vars, outside
<1> QED
  BY <1>1, <1>2, <1>3, <1>4 DEF Next

\* No restart has cut off a sign-out: after one, clearQueue waited in memory only.
SignOutsComplete == crashes = 0 \/ logouts = 0

NoClear == \A i \in DOMAIN lock : lock[i].op # "clear"

LastCleared(i) == \A k \in DOMAIN lock : i < k => lock[k].op # "clear"

\* x is a write of the account signed in, or was on its way when its account signed out.
OwnedHere(x) == x.owner = session \/ x.ver \in astray

\* A stored entry is one of these, or a failed one that was retried.
StoredOwned == NoClear => \A e \in queue : OwnedHere(e) \/ e.ver \in retried

\* So is a write that no clearQueue follows in the lock, and one on its way.
CallersOwned ==
  \A i \in DOMAIN lock : lock[i].op = "enqueue" /\ LastCleared(i) => OwnedHere(lock[i].arg)

FetchesOwned == \A r \in fetches : OwnedHere(r)

OwnersKept ==
  /\ FetchesOwned
  /\ logouts = 0 => session # None /\ NoClear
  /\ SignOutsComplete => CallersOwned /\ StoredOwned

\* Sign-in: with nobody signed in before, there is nothing of theirs.
LEMMA OwnersAtLogin ==
  ASSUME IInv, OwnersKept, NEW u \in Users, login(u)
  PROVE  OwnersKept'
<1>1. session = None /\ logouts # 0 /\ None \notin Users /\ u # None
  BY ConstantsAssumption DEF login, OwnersKept
<1>2. UNCHANGED <<lock, queue, fetches, astray, retried, logouts, crashes>> /\ session' = u
  BY DEF login, device, memory, budget, history, excused
<1>3. (\A e \in queue : e.owner # None) /\ \A r \in fetches : r.owner # None
  BY <1>1 DEF IInv, TypeOK, Entry, Request
<1>4. \A i \in DOMAIN lock : lock[i].op = "enqueue" => lock[i].arg.owner # None
  BY <1>1 DEF IInv, DrainJobs, JobOk, Entry
<1>5. SignOutsComplete' => CallersOwned'
  BY <1>1, <1>2, <1>4 DEF SignOutsComplete, OwnersKept, CallersOwned, LastCleared, OwnedHere
<1>6. SignOutsComplete' => StoredOwned'
  BY <1>1, <1>2, <1>3 DEF SignOutsComplete, OwnersKept, StoredOwned, NoClear, OwnedHere
<1>7. FetchesOwned'
  BY <1>1, <1>2, <1>3 DEF OwnersKept, FetchesOwned, OwnedHere
<1> QED
  BY <1>1, <1>2, <1>5, <1>6, <1>7 DEF OwnersKept

\* Sign-out: everything that is stored or waits has clearQueue behind it.
LEMMA OwnersAtLogout ==
  ASSUME IInv, OwnersKept, resetAllStores
  PROVE  OwnersKept'
<1>1. lock' = Append(lock, Job("clear", None)) /\ logouts' = logouts + 1 /\ logouts \in Nat
  BY DEF resetAllStores, IInv, TypeOK
<1>2. lock \in Seq(JobType) /\ Len(lock) \in Nat
  BY DEF IInv, TypeOK
<1>3. /\ DOMAIN lock' = 1..(Len(lock) + 1)
      /\ lock'[Len(lock) + 1] = Job("clear", None)
  BY <1>1, <1>2
<1>4. lock'[Len(lock) + 1].op = "clear" /\ Len(lock) + 1 \in DOMAIN lock'
  BY <1>2, <1>3 DEF Job
<1>5. ~NoClear'
  BY <1>4 DEF NoClear
<1>6. CallersOwned'
  <2> SUFFICES ASSUME NEW i \in DOMAIN lock', lock'[i].op = "enqueue", LastCleared(i)'
               PROVE  FALSE
    BY DEF CallersOwned
  <2>1. i < Len(lock) + 1
    BY <1>2, <1>3, <1>4
  <2> QED
    BY <1>4, <2>1 DEF LastCleared
<1>7. FetchesOwned'
  BY DEF resetAllStores, FetchesOwned, OwnedHere, VersionsOf
<1> QED
  BY <1>1, <1>5, <1>6, <1>7 DEF OwnersKept, StoredOwned

\* While the same account stays signed in, so do the requests.
LEMMA FetchesKeptOwned ==
  ASSUME [Next]_vars, FetchesOwned, \A x : OwnedHere(x) => OwnedHere(x)'
  PROVE  FetchesOwned'
<1>1. ASSUME NEW c \in ClientIds, fetch(c) PROVE OwnedHere(NewWrite(c)) /\ fetches' = fetches \cup {NewWrite(c)}
  BY <1>1, NewWriteFields DEF fetch, OwnedHere
<1>2. \A r \in fetches' : r \in fetches \/ OwnedHere(r)
  BY <1>1, FetchFootprint
<1> QED
  BY <1>2 DEF FetchesOwned, OwnedHere

\* While the same account stays signed in, the lock and the queue keep their owners.
LEMMA OwnersWhileSignedIn ==
  ASSUME IInv, RetriesSurfaced, OwnersKept, [Next]_vars, ~crash, UNCHANGED session
  PROVE  OwnersKept'
<1>1. PICK n \in {0, 1} : \E N : Moves(n, N) /\ Cleared(n) /\ \A j \in N : Called(j)
  BY LockFootprint
<1>2. PICK N : Moves(n, N) /\ Cleared(n) /\ \A j \in N : Called(j)
  BY <1>1
<1>3. /\ astray \subseteq astray' /\ retried \subseteq retried' /\ logouts \in Nat /\ crashes \in Nat
      /\ logouts' \in {logouts, logouts + 1} /\ crashes' \in {crashes, crashes + 1}
  BY ExcusesGrow, CountersGrow DEF IInv, TypeOK
<1>9. \A x : OwnedHere(x) => OwnedHere(x)'
  BY <1>3 DEF OwnedHere
<1>10. FetchesOwned'
  BY <1>9, FetchesKeptOwned DEF OwnersKept
<1>4. SignOutsComplete' => SignOutsComplete
  BY <1>3 DEF SignOutsComplete
<1>5. lock \in Seq(JobType) /\ DOMAIN lock = 1..Len(lock) /\ Len(lock) \in Nat
  BY DEF IInv, TypeOK
<1>6. logouts' = 0 => session' # None /\ NoClear'
  <2> SUFFICES ASSUME logouts' = 0 PROVE session' # None /\ NoClear'
    OBVIOUS
  <2>1. logouts = 0 /\ session # None /\ NoClear
    BY <1>3 DEF OwnersKept
  <2>2. ASSUME NEW k \in DOMAIN lock', lock'[k].op = "clear" PROVE FALSE
    <3>1. CASE k + n \in DOMAIN lock /\ SameJob(lock'[k], lock[k + n])
      BY <2>1, <2>2, <3>1 DEF NoClear, SameJob
    <3>2. CASE lock'[k] \in N
      BY <1>2, <1>3, <2>2, <3>2 DEF Called, DrainJobOps, DrainOps
    <3> QED
      BY <1>2, <3>1, <3>2 DEF Moves
  <2> QED
    BY <2>1, <2>2 DEF NoClear
<1>7. ASSUME CallersOwned PROVE CallersOwned'
  <2> SUFFICES ASSUME NEW k \in DOMAIN lock', lock'[k].op = "enqueue", LastCleared(k)'
               PROVE  (OwnedHere(lock[k].arg))'
    BY DEF CallersOwned, OwnedHere
  <2>1. CASE k + n \in DOMAIN lock /\ SameJob(lock'[k], lock[k + n])
    <3>1. lock[k + n].op = "enqueue" /\ lock'[k].arg = lock[k + n].arg /\ k \in Nat
      BY <1>2, <2>1 DEF SameJob, Moves
    <3>2. ASSUME NEW l \in DOMAIN lock, k + n < l PROVE lock[l].op # "clear"
      <4>1. l \in Int /\ l > n /\ k < l - n
        BY <1>5, <3>1, <3>2
      <4>2. l - n \in DOMAIN lock' /\ lock'[l - n].op = lock[l].op
        BY <1>2, <4>1 DEF Moves, SameJob
      <4> QED
        BY <4>1, <4>2 DEF LastCleared
    <3>3. LastCleared(k + n)
      BY <3>2 DEF LastCleared
    <3> QED
      BY <1>7, <1>9, <2>1, <3>1, <3>3 DEF CallersOwned
  <2>2. CASE lock'[k] \in N
    <3>1. \/ lock'[k].arg.owner = session
          \/ \E r \in fetches : lock'[k].arg.ver = r.ver /\ lock'[k].arg.owner = r.owner
      BY <1>2, <2>2, CalledWrite
    <3>2. OwnedHere(lock'[k].arg)
      BY <3>1 DEF OwnersKept, FetchesOwned, OwnedHere
    <3> QED
      BY <1>9, <3>2
  <2> QED
    BY <1>2, <2>1, <2>2 DEF Moves
<1>8. ASSUME CallersOwned, StoredOwned PROVE StoredOwned'
  <2> SUFFICES ASSUME NoClear', NEW b \in queue'
               PROVE  OwnedHere(b)' \/ b.ver \in retried'
    BY DEF StoredOwned, OwnedHere
  <2>1. \A l \in DOMAIN lock : l > n => lock[l].op # "clear"
    BY <1>2 DEF Moves, SameJob, NoClear
  <2>2. CASE Stored(b)
    <3>1. PICK a \in queue : SameWrite(a, b)
      BY <2>2 DEF Stored
    <3>2. NoClear
      <4>1. \A l \in DOMAIN lock : l > n \/ (n = 1 /\ l = 1)
        BY <1>5
      <4>2. ~(n = 1 /\ lock[1].op = "clear")
        BY <1>2 DEF Cleared
      <4> QED
        BY <2>1, <4>1, <4>2 DEF NoClear
    <3> QED
      BY <1>3, <1>8, <1>9, <3>1, <3>2 DEF StoredOwned, SameWrite, OwnedHere
  <2>3. ASSUME NEW i \in DOMAIN lock, retryFailed(i), SameWrite(lock[i].arg, b)
        PROVE  b.ver \in retried'
    BY <1>3, <2>3 DEF retryFailed, Holds, RetriesSurfaced, SameWrite
  <2>4. ASSUME NEW i \in DOMAIN lock, enqueueMutation(i), SameWrite(lock[i].arg, b)
        PROVE  OwnedHere(b)'
    <3>1. i = 1 /\ lock[i].op = "enqueue" /\ Moves(1, {})
      BY <2>4, HolderRead, OneLeaves DEF enqueueMutation
    <3>2. LastCleared(i)
      BY <3>1 DEF LastCleared, Moves, SameJob, NoClear
    <3> QED
      BY <1>8, <1>9, <2>4, <3>1, <3>2 DEF CallersOwned, SameWrite, OwnedHere
  <2> QED
    BY <2>2, <2>3, <2>4, QueueFootprint
<1> QED
  BY <1>4, <1>6, <1>7, <1>8, <1>10 DEF OwnersKept

\* Every step keeps the owners.
LEMMA OwnersStep ==
  ASSUME IInv, RetriesSurfaced, OwnersKept, [Next]_vars
  PROVE  OwnersKept'
<1>1. CASE crash
  <2>1. crashes' # 0
    BY <1>1, RestartedLock DEF IInv, TypeOK
  <2>2. NoClear' /\ CallersOwned'
    BY <1>1, RestartedLock DEF NoClear, CallersOwned
  <2>3. SignOutsComplete' => SignOutsComplete /\ NoClear
    BY <1>1, <2>1, RestartedLock DEF SignOutsComplete, OwnersKept
  <2>4. SignOutsComplete' => StoredOwned'
    BY <1>1, <2>3, RestartedLock, ExcusesGrow DEF OwnersKept, StoredOwned, OwnedHere
  <2>5. FetchesOwned'
    BY <1>1 DEF crash, FetchesOwned
  <2> QED
    BY <1>1, <2>2, <2>4, <2>5, RestartedLock DEF OwnersKept
<1>2. CASE ~crash /\ UNCHANGED session
  BY <1>2, OwnersWhileSignedIn
<1> QED
  BY <1>1, <1>2, OwnersAtLogin, OwnersAtLogout, SessionFootprint

\* A drain that is not running has no work; a replay that the server applied is known.
DrainKnown ==
  /\ drain.phase = "idle" => drain.todo = {}
  /\ drain.phase \in {"inflight", "locked"} /\ drain.outcome = "ok" => drain.cur.ver \in synced

\* Aged entries are recorded as failed before they are pruned.
PrunedSurfaced ==
  \A i \in DOMAIN lock : lock[i].prune =>
    \A e \in queue : e \in lock[i].read \/ e.ver \in surfaced

\* Every step keeps DrainKnown.
LEMMA DrainKnownStep ==
  ASSUME IInv, DrainKnown, [Next]_vars
  PROVE  DrainKnown'
<1>a. drain \in DrainType /\ "ok" # None
  BY ConstantsAssumption DEF IInv, TypeOK, Outcomes
<1>1. ASSUME UNCHANGED drain, synced \subseteq synced' PROVE DrainKnown'
  BY <1>1 DEF DrainKnown
<1>2. ASSUME drain'.phase = "idle", drain'.todo = {} PROVE DrainKnown'
  BY <1>2 DEF DrainKnown
<1>3. ASSUME drain'.phase \in {"snapshot", "loop", "report"} PROVE DrainKnown'
  BY <1>3 DEF DrainKnown
<1>4. ASSUME drain'.phase \in {"inflight", "locked"}, drain'.outcome # "ok" PROVE DrainKnown'
  BY <1>4 DEF DrainKnown
<1>5. LockStep => DrainKnown'
  <2>1. ASSUME NEW i \in DOMAIN lock,
               \/ readQueue(i) \/ pruneWrite(i) \/ enqueueMutation(i) \/ clearQueue(i)
               \/ refreshPendingCount(i)
        PROVE  UNCHANGED drain /\ synced \subseteq synced'
    BY <2>1 DEF readQueue, pruneWrite, enqueueMutation, clearQueue, refreshPendingCount, history
  <2>2. ASSUME NEW i \in DOMAIN lock,
               \/ retryFailed(i) \/ takeSnapshot(i) \/ removeReplayed(i) \/ bumpRetries(i)
               \/ rewriteUrls(i)
        PROVE  \/ UNCHANGED drain /\ synced \subseteq synced'
               \/ drain'.phase \in {"snapshot", "loop", "report"}
    BY <2>2, <1>a DEF retryFailed, takeSnapshot, removeReplayed, bumpRetries, rewriteUrls,
       history, Idle, DrainType
  <2> QED
    BY <2>1, <2>2, <1>1, <1>3 DEF LockStep
<1>6. PersistStep \/ hydrateFailedSync => DrainKnown'
  BY <1>1 DEF PersistStep, persistRead, persistWrite, hydrateFailedSync, history
<1>7. drainQueue => DrainKnown'
  BY <1>3 DEF drainQueue, Idle
<1>8. ASSUME NEW m \in drain.todo, replay(m) PROVE DrainKnown'
  BY <1>8, <1>a, <1>4 DEF replay
<1>9. drainDone => DrainKnown'
  BY <1>2 DEF drainDone, Idle
<1>10. replayOk => DrainKnown'
  BY <1>a DEF replayOk, DrainType, DrainKnown, history
<1>11. ASSUME NEW o \in {"permanent", "transient"}, replayFails(o) PROVE DrainKnown'
  <2>1. CASE drain' = Idle
    BY <2>1, <1>2 DEF Idle
  <2>2. CASE drain' = [drain EXCEPT !.phase = "locked", !.outcome = o]
    BY <1>a, <2>2, <1>4 DEF DrainType
  <2> QED
    BY <1>11, <2>1, <2>2 DEF replayFails
<1>16. reportFailed => DrainKnown'
  BY <1>a, <1>3 DEF reportFailed, DrainType
<1>12. UserStep \/ FetchStep => DrainKnown'
  BY <1>1 DEF UserStep, maybeQueueOffline, fetch, retryTap, dismissFailedSync,
     resetAllStores, login, FetchStep, fetchAnswered, fetchFails, memory, history
<1>13. ASSUME NEW o \in Outcomes, serverHandles(o) PROVE DrainKnown'
  <2>1. /\ drain.phase = "inflight" /\ drain'.phase = "inflight" /\ drain'.outcome = o
        /\ drain'.cur = drain.cur /\ (o = "ok" => drain.cur.ver \in synced')
    BY <1>13, <1>a DEF serverHandles, DrainType
  <2> QED
    BY <2>1 DEF DrainKnown
<1>14. crash => DrainKnown'
  BY <1>2 DEF crash, Idle
<1>15. Environment \/ UNCHANGED vars => DrainKnown'
  BY <1>1, <1>13, <1>14 DEF Environment, lateRequest, setOfflineMode, tick, vars, memory,
     history
<1> QED
  BY <1>5, <1>6, <1>7, <1>8, <1>9, <1>10, <1>11, <1>12, <1>15, <1>16 DEF Next, DrainStep

\* Only the first caller prunes.
LEMMA OnlyHolderPrunes ==
  ASSUME IInv, NEW i \in DOMAIN lock, lock[i].prune
  PROVE  i = 1
BY DEF IInv, LockInv, PruneHasRead, OnlyHolderReads

\* Every step keeps PrunedSurfaced.
LEMMA PrunedSurfacedStep ==
  ASSUME IInv, PrunedSurfaced, [Next]_vars
  PROVE  PrunedSurfaced'
<1>a. lock \in Seq(JobType) /\ surfaced \subseteq surfaced'
  BY SurfacedGrows DEF IInv, TypeOK
<1>1. ASSUME \A k \in DOMAIN lock' : ~lock'[k].prune PROVE PrunedSurfaced'
  BY <1>1 DEF PrunedSurfaced
<1>2. ASSUME UNCHANGED <<lock, queue>> PROVE PrunedSurfaced'
  BY <1>2, <1>a DEF PrunedSurfaced
<1>3. ASSUME NEW op, NEW e, lock' = Append(lock, Job(op, e)), UNCHANGED queue
      PROVE  PrunedSurfaced'
  <2>1. \A k \in DOMAIN lock' : \/ k \in DOMAIN lock /\ lock'[k] = lock[k]
                                \/ lock'[k] = Job(op, e)
    BY <1>3, <1>a
  <2> QED
    BY <1>3, <1>a, <2>1 DEF PrunedSurfaced, Job
<1>4. ASSUME NEW i \in DOMAIN lock, NEW op, Holds(i, op), NEW next,
             lock' = Drop(i) \/ lock' = Append(Drop(i), Job(next, None))
      PROVE  PrunedSurfaced'
  <2>1. Drop(i) \in Seq(JobType) /\ \A k \in DOMAIN Drop(i) : ~Drop(i)[k].prune
    BY <1>4, <1>a, DropSeq, OthersWait
  <2>2. ~Job(next, None).prune
    BY DEF Job
  <2>3. \A k \in DOMAIN lock' : ~lock'[k].prune
    <3>1. CASE lock' = Drop(i)
      BY <2>1, <3>1
    <3>2. CASE lock' = Append(Drop(i), Job(next, None))
      <4>1. \A k \in DOMAIN lock' : IF k \in DOMAIN Drop(i) THEN lock'[k] = Drop(i)[k]
                                    ELSE lock'[k] = Job(next, None)
        BY <2>1, <3>2
      <4> QED
        BY <2>1, <2>2, <4>1
    <3> QED
      BY <1>4, <3>1, <3>2
  <2> QED
    BY <1>1, <2>3
<1>5. ASSUME NEW i \in DOMAIN lock, readQueue(i) PROVE PrunedSurfaced'
  <2> DEFINE stale == IF lock[i].op = "clear" THEN {} ELSE {e \in queue : ~IsFresh(e)}
             fresh == IF lock[i].op = "clear" THEN {} ELSE queue \ stale
             j == [lock[i] EXCEPT !.loaded = TRUE, !.read = fresh, !.prune = (stale # {})]
  <2>1. /\ lock' = [lock EXCEPT ![i] = j] /\ UNCHANGED queue /\ i = 1
        /\ recordFailed({ItemOf(e) : e \in stale})
    BY <1>5 DEF readQueue, device, MayRun
  <2>2. j.read = fresh /\ j.prune = (stale # {})
    BY <1>a DEF JobType
  <2>3. stale # {} => fresh = queue \ stale
    OBVIOUS
  <2>4. \A e \in stale : e.ver \in surfaced'
    <3>1. \A e \in stale : e.ver = ItemOf(e).ver
      BY DEF ItemOf
    <3> HIDE DEF stale
    <3> QED
      BY <2>1, <3>1 DEF recordFailed, VersionsOf
  <2> HIDE DEF stale, fresh, j
  <2>5. /\ DOMAIN lock' = DOMAIN lock
        /\ \A k \in DOMAIN lock : lock'[k] = IF k = i THEN j ELSE lock[k]
    BY <1>a, <2>1
  <2>6. \A k \in DOMAIN lock : k # i => ~lock[k].prune
    BY <2>1, OnlyHolderPrunes
  <2> QED
    BY <2>1, <2>2, <2>3, <2>4, <2>5, <2>6 DEF PrunedSurfaced
<1>6. ASSUME NEW i \in DOMAIN lock, pruneWrite(i) PROVE PrunedSurfaced'
  <2>1. \A k \in DOMAIN lock' : ~lock'[k].prune
    <3>1. lock' = [lock EXCEPT ![i] = [lock[i] EXCEPT !.prune = FALSE]] /\ i = 1
      BY <1>6, PruningRead DEF pruneWrite
    <3>2. \A k \in DOMAIN lock : k # i => ~lock[k].prune
      BY <3>1, OnlyHolderPrunes
    <3>3. ~[lock[i] EXCEPT !.prune = FALSE].prune
      BY <1>a DEF JobType
    <3> QED
      BY <1>a, <3>1, <3>2, <3>3
  <2> QED
    BY <1>1, <2>1
<1>7. LockStep => PrunedSurfaced'
  <2>1. ASSUME NEW i \in DOMAIN lock,
               \/ enqueueMutation(i) \/ retryFailed(i) \/ clearQueue(i)
               \/ refreshPendingCount(i) \/ takeSnapshot(i) \/ removeReplayed(i)
               \/ bumpRetries(i) \/ rewriteUrls(i)
        PROVE  \E op : /\ Holds(i, op)
                       /\ \E next : lock' = Drop(i) \/ lock' = Append(Drop(i), Job(next, None))
    BY <2>1 DEF enqueueMutation, retryFailed, clearQueue, refreshPendingCount, takeSnapshot,
       removeReplayed, bumpRetries, rewriteUrls
  <2> QED
    BY <2>1, <1>4, <1>5, <1>6 DEF LockStep
<1>8. PersistStep \/ hydrateFailedSync => PrunedSurfaced'
  BY <1>2 DEF PersistStep, persistRead, persistWrite, hydrateFailedSync, device
<1>9. drainQueue => PrunedSurfaced'
  BY <1>3 DEF drainQueue, device
<1>10. DrainStep \/ FetchStep => PrunedSurfaced'
  BY <1>2, <1>3 DEF DrainStep, replay, drainDone, replayOk, replayFails, reportFailed, FetchStep,
     fetchAnswered, fetchFails, enqueueOfflineMutation, device
<1>11. UserStep => PrunedSurfaced'
  BY <1>2, <1>3 DEF UserStep, maybeQueueOffline, fetch, enqueueOfflineMutation, retryTap,
     dismissFailedSync, resetAllStores, login, device, memory
<1>12. crash => PrunedSurfaced'
  BY <1>1, RestartedLock
<1>13. Environment \/ UNCHANGED vars => PrunedSurfaced'
  BY <1>2, <1>12 DEF Environment, serverHandles, lateRequest, setOfflineMode, tick, vars,
     memory, device
<1> QED
  BY <1>7, <1>8, <1>9, <1>10, <1>11, <1>13 DEF Next

\* Nobody writes a resource during its replay, and nobody has retried a failed write.
Calm == taps = 0 /\ ~EditsBusy

\* Then what the drain works on is what is stored, and stays so until it is removed.
WorkIsCurrent ==
  \A m \in Working :
    /\ \A e \in queue : e.clientId = m.clientId => e.ver = m.ver
    /\ \A i \in DOMAIN lock : lock[i].op = "enqueue" => lock[i].arg.clientId # m.clientId
    /\ \A r \in fetches : r.clientId # m.clientId

\* Writes of one resource wait in the order in which they were made.
WaitersInOrder ==
  \A i \in DOMAIN lock : lock[i].op = "enqueue" =>
    /\ \A e \in queue : e.clientId = lock[i].arg.clientId => e.ver < lock[i].arg.ver
    /\ \A k \in DOMAIN lock :
         i < k /\ lock[k].op = "enqueue" /\ lock[i].arg.clientId = lock[k].arg.clientId
           => lock[i].arg.ver < lock[k].arg.ver

NotStored(c) == \A e \in queue : e.clientId # c

\* While a resource is being sent online there is no other write of it.
FetchesAlone ==
  \A r \in fetches :
    /\ NotStored(r.clientId)
    /\ \A i \in DOMAIN lock : lock[i].op = "enqueue" => lock[i].arg.clientId # r.clientId
    /\ \A q \in fetches : q # r => q.clientId # r.clientId

\* There is no other write of the resource that the caller k brings.
Alone(k) ==
  /\ NotStored(lock[k].arg.clientId)
  /\ \A l \in DOMAIN lock :
       l # k /\ lock[l].op = "enqueue" => lock[l].arg.clientId # lock[k].arg.clientId

\* What the next snapshot will hold is not followed by another write of the same resource.
SnapshotIsLast ==
  \A i, k \in DOMAIN lock : lock[i].op = "snapshot" /\ lock[k].op = "enqueue" => k < i \/ Alone(k)

CalmParts == WorkIsCurrent /\ WaitersInOrder /\ FetchesAlone /\ SnapshotIsLast

CalmWrites == Calm => CalmParts

\* A write that may be made is not of a resource the drain works on.
LEMMA WritesElsewhere ==
  ASSUME IInv, DrainKnown, ~EditsBusy, NEW c, MayWrite(c)
  PROVE  /\ \A m \in Working : m.clientId # c
         /\ \A i \in DOMAIN lock : lock[i].op # "snapshot"
         /\ \A r \in fetches : r.clientId # c
<1>1. ~Busy(c)
  BY DEF MayWrite
<1>2. Working \subseteq drain.todo \cup {drain.cur} /\ (drain.phase = "idle" => Working = {})
  BY DEF Working, DrainKnown
<1>3. \A m \in Working : m \in Entry
  BY DEF Working, IInv, TypeOK, DrainType, DrainJobs
<1>4. ASSUME NEW m \in Working PROVE m.clientId # c
  <2>1. m # None
    BY <1>3, NoneAssumption
  <2> QED
    BY <1>1, <1>2, <2>1 DEF Busy
<1>5. \A i \in DOMAIN lock : lock[i].op # "snapshot"
  BY <1>1 DEF Busy, IInv, DrainJobs, JobOk
<1>6. \A r \in fetches : r.clientId # c
  BY <1>1 DEF Busy
<1> QED
  BY <1>4, <1>5, <1>6

\* While the writes are calm nothing but enqueueMutation stores a new write.
LEMMA CalmQueue ==
  ASSUME IInv, NoRetries, taps = 0, [Next]_vars, NEW b \in queue'
  PROVE  \/ Stored(b)
         \/ \E i \in DOMAIN lock : enqueueMutation(i) /\ SameWrite(lock[i].arg, b)
<1>1. \A i \in DOMAIN lock : ~retryFailed(i)
  BY DEF NoRetries, retryFailed, Holds
<1> QED
  BY <1>1, QueueFootprint

\* enqueueMutation stores a write of a resource the drain does not work on.
LEMMA CalmAtEnqueue ==
  ASSUME IInv, NoRetries, CalmParts, [Next]_vars, Calm,
         NEW i \in DOMAIN lock, enqueueMutation(i)
  PROVE  CalmParts'
<1>1. /\ i = 1 /\ lock[i].op = "enqueue" /\ lock[i].arg \in Entry /\ Moves(1, {})
      /\ Working' = Working /\ UNCHANGED fetches
  BY HolderRead, OneLeaves
     DEF enqueueMutation, Working, outside, Holds, IInv, DrainJobs, JobOk
<1>2. \A k \in DOMAIN lock' : /\ k + 1 \in DOMAIN lock /\ k \in Nat /\ k + 1 # i
                              /\ lock'[k].op = lock[k + 1].op /\ lock'[k].arg = lock[k + 1].arg
  <2>1. \A k \in DOMAIN Drop(i) : k + 1 # i
    BY OthersWait DEF enqueueMutation
  <2> QED
    BY <1>1, <2>1 DEF Moves, SameJob, enqueueMutation
<1>3. \A k \in DOMAIN lock' : k + 1 > i
  BY <1>1, <1>2
<1>4. \A b \in queue' : Stored(b) \/ SameWrite(lock[i].arg, b)
  <2>1. \A k \in DOMAIN lock : enqueueMutation(k) => k = i
    BY <1>1, HolderRead DEF enqueueMutation
  <2> QED
    BY <2>1, CalmQueue DEF Calm
<1>5. WorkIsCurrent'
  BY <1>1, <1>2, <1>4 DEF CalmParts, WorkIsCurrent, Stored, SameWrite
<1>6. WaitersInOrder'
  <2> SUFFICES ASSUME NEW k \in DOMAIN lock', lock'[k].op = "enqueue"
               PROVE  /\ \A e \in queue' : e.clientId = lock'[k].arg.clientId => e.ver < lock'[k].arg.ver
                      /\ \A l \in DOMAIN lock' :
                           k < l /\ lock'[l].op = "enqueue" /\ lock'[k].arg.clientId = lock'[l].arg.clientId
                             => lock'[k].arg.ver < lock'[l].arg.ver
    BY DEF WaitersInOrder
  <2>1. \A l \in DOMAIN lock' : k < l => k + 1 < l + 1
    BY <1>2
  <2>2. \A l \in DOMAIN lock' :
          k < l /\ lock'[l].op = "enqueue" /\ lock'[k].arg.clientId = lock'[l].arg.clientId
            => lock'[k].arg.ver < lock'[l].arg.ver
    BY <1>2, <2>1 DEF CalmParts, WaitersInOrder
  <2>3. i < k + 1 /\ k + 1 \in DOMAIN lock /\ lock[k + 1].op = "enqueue" /\ lock'[k].arg = lock[k + 1].arg
    BY <1>1, <1>2, <1>3
  <2>4. \A e \in queue' : e.clientId = lock'[k].arg.clientId => e.ver < lock'[k].arg.ver
    BY <1>1, <1>4, <2>3 DEF CalmParts, WaitersInOrder, Stored, SameWrite
  <2> QED
    BY <2>2, <2>4
<1>7. FetchesAlone'
  BY <1>1, <1>2, <1>4 DEF CalmParts, FetchesAlone, NotStored, Stored, SameWrite
<1>8. SnapshotIsLast'
  <2> SUFFICES ASSUME NEW k \in DOMAIN lock', NEW l \in DOMAIN lock',
                      lock'[k].op = "snapshot", lock'[l].op = "enqueue"
               PROVE  l < k \/ Alone(l)'
    BY DEF SnapshotIsLast
  <2>1. l + 1 < k + 1 \/ Alone(l + 1)
    BY <1>2 DEF CalmParts, SnapshotIsLast
  <2>2. CASE l + 1 < k + 1
    BY <1>2, <2>2
  <2>3. CASE Alone(l + 1)
    <3>1. NotStored(lock[l + 1].arg.clientId) /\ lock[i].arg.clientId # lock[l + 1].arg.clientId
      BY <1>1, <1>2, <2>3 DEF Alone
    <3>2. (NotStored(lock[l].arg.clientId))'
      BY <1>2, <1>4, <3>1 DEF NotStored, Stored, SameWrite
    <3>3. \A j \in DOMAIN lock' : j # l /\ lock'[j].op = "enqueue" => lock'[j].arg.clientId # lock'[l].arg.clientId
      <4>1. \A j \in DOMAIN lock' : j # l => j + 1 # l + 1
        BY <1>2
      <4> QED
        BY <1>2, <2>3, <4>1 DEF Alone
    <3> QED
      BY <3>2, <3>3 DEF Alone, NotStored
  <2> QED
    BY <2>1, <2>2, <2>3
<1> QED
  BY <1>5, <1>6, <1>7, <1>8 DEF CalmParts

\* takeSnapshot takes what is stored, and no write of it waits or is on its way.
LEMMA CalmAtSnapshot ==
  ASSUME IInv, CalmParts, NEW i \in DOMAIN lock, takeSnapshot(i), Working' \subseteq queue
  PROVE  CalmParts'
<1>1. i = 1 /\ lock[i].op = "snapshot" /\ Moves(1, {}) /\ UNCHANGED <<queue, fetches>>
  BY HolderRead, OneLeaves DEF takeSnapshot, device, outside
<1>2. \A k \in DOMAIN lock' : /\ k + 1 \in DOMAIN lock /\ k \in Nat /\ k + 1 # i
                              /\ lock'[k].op = lock[k + 1].op /\ lock'[k].arg = lock[k + 1].arg
  <2>1. \A k \in DOMAIN Drop(i) : k + 1 # i
    BY OthersWait DEF takeSnapshot
  <2> QED
    BY <1>1, <2>1 DEF Moves, SameJob, takeSnapshot
<1>3. \A k \in DOMAIN lock' : lock'[k].op = "enqueue" => Alone(k + 1)
  <2>1. \A k \in DOMAIN lock' : ~(k + 1 < i)
    BY <1>1, <1>2
  <2> QED
    BY <1>1, <1>2, <2>1 DEF CalmParts, SnapshotIsLast
<1>4. \A a, b \in queue : a.clientId = b.clientId => a = b
  BY DEF IInv, LockInv, UniqueClientIds
<1>5. WorkIsCurrent'
  BY <1>1, <1>2, <1>3, <1>4 DEF CalmParts, WorkIsCurrent, Alone, NotStored, FetchesAlone
<1>6. WaitersInOrder'
  <2>1. \A k, l \in DOMAIN lock' : k < l => k + 1 < l + 1
    BY <1>2
  <2> QED
    BY <1>1, <1>2, <2>1 DEF CalmParts, WaitersInOrder
<1>7. FetchesAlone'
  BY <1>1, <1>2 DEF CalmParts, FetchesAlone, NotStored
<1>8. SnapshotIsLast'
  <2>1. \A k \in DOMAIN lock' : lock'[k].op # "snapshot"
    BY <1>1, <1>2 DEF IInv, DrainJobs, DrainJobOps
  <2> QED
    BY <2>1 DEF SnapshotIsLast
<1> QED
  BY <1>5, <1>6, <1>7, <1>8 DEF CalmParts

\* A request is sent: there is no other write of its resource.
LEMMA CalmAtFetch ==
  ASSUME IInv, DrainKnown, CalmParts, Calm, NEW c \in ClientIds, fetch(c)
  PROVE  CalmParts'
<1>1. UNCHANGED <<lock, queue, drain>> /\ fetches' = fetches \cup {NewWrite(c)}
  BY DEF fetch, device, memory
<1>2. MayWrite(c) /\ ~EditsBusy /\ ~Waits(c)
  BY DEF fetch, Calm
<1>3. /\ NewWrite(c).clientId = c /\ NotStored(c)
      /\ \A m \in Working : m.clientId # c
      /\ \A r \in fetches : r.clientId # c
      /\ \A i \in DOMAIN lock : lock[i].op = "enqueue" => lock[i].arg.clientId # c
  BY <1>2, WritesElsewhere, NewWriteFields DEF Waits, NotStored
<1>4. WorkIsCurrent'
  BY <1>1, <1>3 DEF CalmParts, WorkIsCurrent, Working
<1>5. FetchesAlone'
  BY <1>1, <1>3 DEF CalmParts, FetchesAlone, NotStored
<1>6. WaitersInOrder' /\ SnapshotIsLast'
  BY <1>1 DEF CalmParts, WaitersInOrder, SnapshotIsLast, Alone, NotStored
<1> QED
  BY <1>4, <1>5, <1>6 DEF CalmParts

\* Any other step stores nothing new and starts no drain.
LEMMA CalmOtherwise ==
  ASSUME IInv, DrainKnown, WritesInOrder, CalmParts, Calm, [Next]_vars, ~crash,
         Working' \subseteq Working, \A b \in queue' : Stored(b), fetches' \subseteq fetches
  PROVE  CalmParts'
<1>1. PICK n \in {0, 1} : \E N : Moves(n, N) /\ Cleared(n) /\ \A j \in N : Called(j)
  BY LockFootprint
<1>2. PICK N : Moves(n, N) /\ Cleared(n) /\ \A j \in N : Called(j)
  BY <1>1
<1> DEFINE Old(k) == /\ k + n \in DOMAIN lock /\ lock'[k].op = lock[k + n].op
                     /\ lock'[k].arg = lock[k + n].arg
           Made(k) == MayWrite(lock'[k].arg.clientId) /\ lock'[k].arg.ver = nextVer
           Sent(k) == \E r \in fetches : /\ r \notin fetches'
                                        /\ lock'[k].arg.clientId = r.clientId
                                        /\ lock'[k].arg.ver = r.ver
           Snapshots == \E i \in DOMAIN lock : lock[i].op = "snapshot"
<1>3. ASSUME NEW k \in DOMAIN lock', lock'[k].op = "enqueue"
      PROVE  Old(k) \/ (k + n = Len(lock) + 1 /\ (Made(k) \/ Sent(k)))
  <2>1. CASE k + n \in DOMAIN lock /\ SameJob(lock'[k], lock[k + n])
    BY <1>3, <2>1 DEF SameJob
  <2>2. CASE k + n = Len(lock) + 1 /\ lock'[k] \in N
    BY <1>2, <1>3, <2>2, CalledWrite
  <2> QED
    BY <1>2, <2>1, <2>2 DEF Moves
<1>4. \A k \in DOMAIN lock' : k \in Nat /\ (Old(k) \/ k + n = Len(lock) + 1)
  BY <1>2 DEF Moves, SameJob
<1>5. lock \in Seq(JobType) /\ DOMAIN lock = 1..Len(lock) /\ Len(lock) \in Nat /\ n \in Int
  BY DEF IInv, TypeOK
<1>6. \A k \in DOMAIN lock' : Made(k) =>
        /\ \A m \in Working : m.clientId # lock'[k].arg.clientId
        /\ \A r \in fetches : r.clientId # lock'[k].arg.clientId
        /\ ~Snapshots
  BY WritesElsewhere DEF Calm
<1>7. \A c : NotStored(c) => NotStored(c)'
  BY DEF NotStored, Stored, SameWrite
<1> HIDE DEF Made, Sent
<1>8. ASSUME NEW k \in DOMAIN lock', Sent(k)
      PROVE  /\ NotStored(lock'[k].arg.clientId)
             /\ \A i \in DOMAIN lock : lock[i].op = "enqueue" => lock[i].arg.clientId # lock'[k].arg.clientId
             /\ \A r \in fetches' : r.clientId # lock'[k].arg.clientId
             /\ \A m \in Working : m.clientId # lock'[k].arg.clientId
  BY <1>8 DEF Sent, CalmParts, FetchesAlone, WorkIsCurrent
<1>9. WorkIsCurrent'
  <2> SUFFICES ASSUME NEW m \in Working'
               PROVE  /\ \A b \in queue' : b.clientId = m.clientId => b.ver = m.ver
                      /\ \A k \in DOMAIN lock' : lock'[k].op = "enqueue" => lock'[k].arg.clientId # m.clientId
                      /\ \A r \in fetches' : r.clientId # m.clientId
    BY DEF WorkIsCurrent
  <2>1. \A b \in queue' : b.clientId = m.clientId => b.ver = m.ver
    BY DEF CalmParts, WorkIsCurrent, Stored, SameWrite
  <2>2. ASSUME NEW k \in DOMAIN lock', lock'[k].op = "enqueue" PROVE lock'[k].arg.clientId # m.clientId
    <3>1. CASE Old(k)
      BY <2>2, <3>1 DEF CalmParts, WorkIsCurrent
    <3> QED
      BY <1>3, <1>6, <1>8, <2>2, <3>1
  <2>3. \A r \in fetches' : r.clientId # m.clientId
    BY DEF CalmParts, WorkIsCurrent
  <2> QED
    BY <2>1, <2>2, <2>3
<1>10. WaitersInOrder'
  <2> SUFFICES ASSUME NEW k \in DOMAIN lock', lock'[k].op = "enqueue"
               PROVE  /\ \A b \in queue' : b.clientId = lock'[k].arg.clientId => b.ver < lock'[k].arg.ver
                      /\ \A l \in DOMAIN lock' :
                           k < l /\ lock'[l].op = "enqueue" /\ lock'[k].arg.clientId = lock'[l].arg.clientId
                             => lock'[k].arg.ver < lock'[l].arg.ver
    BY DEF WaitersInOrder
  <2>1. \A b \in queue' : b.clientId = lock'[k].arg.clientId => b.ver < lock'[k].arg.ver
    <3>1. CASE Old(k)
      BY <3>1 DEF CalmParts, WaitersInOrder, Stored, SameWrite
    <3>2. CASE Made(k)
      <4>1. \A e \in queue : e.ver < nextVer
        BY DEF WritesInOrder, Known, VersionsOf
      <4> QED
        BY <3>2, <4>1 DEF Made, Stored, SameWrite
    <3>3. CASE Sent(k)
      BY <1>7, <1>8, <3>3 DEF NotStored
    <3> QED
      BY <1>3, <3>1, <3>2, <3>3
  <2>2. ASSUME NEW l \in DOMAIN lock', k < l, lock'[l].op = "enqueue",
               lock'[k].arg.clientId = lock'[l].arg.clientId
        PROVE  lock'[k].arg.ver < lock'[l].arg.ver
    <3>1. Old(k) /\ k + n < l + n /\ lock[k + n].op = "enqueue"
      BY <1>3, <1>4, <1>5, <2>2
    <3>2. CASE Old(l)
      <4>1. lock[l + n].op = "enqueue"
        BY <2>2, <3>2
      <4> QED
        BY <2>2, <3>1, <3>2, <4>1 DEF CalmParts, WaitersInOrder
    <3>3. CASE Made(l)
      BY <3>1, <3>3 DEF Made, WritesInOrder
    <3>4. CASE Sent(l)
      BY <1>8, <2>2, <3>1, <3>4
    <3> QED
      BY <1>3, <2>2, <3>2, <3>3, <3>4
  <2> QED
    BY <2>1, <2>2
<1>11. FetchesAlone'
  <2> SUFFICES ASSUME NEW r \in fetches'
               PROVE  /\ NotStored(r.clientId)'
                      /\ \A k \in DOMAIN lock' : lock'[k].op = "enqueue" => lock'[k].arg.clientId # r.clientId
                      /\ \A q \in fetches' : q # r => q.clientId # r.clientId
    BY DEF FetchesAlone, NotStored
  <2>1. /\ NotStored(r.clientId) /\ \A q \in fetches : q # r => q.clientId # r.clientId
        /\ \A i \in DOMAIN lock : lock[i].op = "enqueue" => lock[i].arg.clientId # r.clientId
    BY DEF CalmParts, FetchesAlone
  <2>2. ASSUME NEW k \in DOMAIN lock', lock'[k].op = "enqueue" PROVE lock'[k].arg.clientId # r.clientId
    <3>1. CASE Old(k)
      BY <2>1, <2>2, <3>1
    <3> QED
      BY <1>3, <1>6, <1>8, <2>2, <3>1
  <2> QED
    BY <1>7, <2>1, <2>2
<1>12. SnapshotIsLast'
  <2> SUFFICES ASSUME NEW i \in DOMAIN lock', NEW k \in DOMAIN lock',
                      lock'[i].op = "snapshot", lock'[k].op = "enqueue", ~(k < i)
               PROVE  Alone(k)'
    BY DEF SnapshotIsLast
  <2>1. Old(i) /\ ~(k + n < i + n)
    <3>1. k # i /\ k \in Nat /\ i \in Nat
      BY <1>4
    <3>2. k > i
      BY <3>1
    <3>3. k + n \in DOMAIN lock \/ k + n = Len(lock) + 1
      BY <1>4
    <3> QED
      BY <1>4, <1>5, <3>1, <3>2, <3>3
  <2>2. Snapshots
    BY <2>1
  <2>3. NotStored(lock'[k].arg.clientId)
    <3>1. CASE Old(k)
      <4>1. Alone(k + n)
        BY <2>1, <3>1 DEF CalmParts, SnapshotIsLast
      <4> QED
        BY <3>1, <4>1 DEF Alone
    <3> QED
      BY <1>3, <1>6, <1>8, <2>2, <3>1
  <2>4. ASSUME NEW l \in DOMAIN lock', l # k, lock'[l].op = "enqueue"
        PROVE  lock'[l].arg.clientId # lock'[k].arg.clientId
    <3>1. CASE Old(k) /\ Old(l)
      <4>1. Alone(k + n) /\ l + n # k + n /\ lock[l + n].op = "enqueue"
        BY <1>4, <1>5, <2>1, <2>4, <3>1 DEF CalmParts, SnapshotIsLast
      <4> QED
        BY <3>1, <4>1 DEF Alone
    <3>2. CASE Old(k) /\ Sent(l)
      <4>1. lock[k + n].op = "enqueue"
        BY <3>2
      <4> QED
        BY <1>8, <3>2, <4>1
    <3>3. CASE Sent(k) /\ Old(l)
      <4>1. lock[l + n].op = "enqueue"
        BY <2>4, <3>3
      <4> QED
        BY <1>8, <3>3, <4>1
    <3>4. CASE k + n = Len(lock) + 1 /\ l + n = Len(lock) + 1
      BY <1>4, <1>5, <2>4, <3>4
    <3> QED
      BY <1>3, <1>6, <2>2, <2>4, <3>1, <3>2, <3>3, <3>4
  <2> QED
    BY <1>7, <2>3, <2>4 DEF Alone, NotStored
<1> QED
  BY <1>9, <1>10, <1>11, <1>12 DEF CalmParts

\* Every step keeps calm writes calm.
LEMMA CalmStep ==
  ASSUME IInv, NoRetries, DrainKnown, WritesInOrder, CalmWrites, [Next]_vars
  PROVE  CalmWrites'
<1> SUFFICES ASSUME Calm' PROVE CalmParts'
  BY DEF CalmWrites
<1>1. Calm /\ CalmParts
  BY CountersGrow DEF Calm, CalmWrites, IInv, TypeOK
<1>2. CASE crash
  <2>1. Working' = {} /\ fetches' = {} /\ \A k \in DOMAIN lock' : lock'[k].op = "refresh"
    BY <1>2, RestartedLock DEF crash
  <2> QED
    BY <2>1 DEF CalmParts, WorkIsCurrent, WaitersInOrder, FetchesAlone, SnapshotIsLast
<1>3. CASE \E i \in DOMAIN lock : enqueueMutation(i)
  BY <1>1, <1>3, CalmAtEnqueue
<1>4. CASE \E i \in DOMAIN lock : takeSnapshot(i) /\ Working' \subseteq queue
  BY <1>1, <1>4, CalmAtSnapshot
<1>5. CASE \E c \in ClientIds : fetch(c)
  BY <1>1, <1>5, CalmAtFetch
<1>6. CASE /\ ~crash /\ Working' \subseteq Working
           /\ \A i \in DOMAIN lock : ~enqueueMutation(i)
           /\ \A c \in ClientIds : ~fetch(c)
  <2>1. \A b \in queue' : Stored(b)
    BY <1>1, <1>6, CalmQueue DEF Calm
  <2>2. fetches' \subseteq fetches
    BY <1>6, FetchFootprint
  <2> QED
    BY <1>1, <1>6, <2>1, <2>2, CalmOtherwise
<1> QED
  BY <1>2, <1>3, <1>4, <1>5, <1>6, WorkingFootprint

\* What becomes of a stored entry in one step, while the writes are calm: it stays, the
\* server had applied it, it is or will next be recorded as failed, or the user gave it up.
LEMMA EntriesAccountedFor ==
  ASSUME IInv, NoRetries, DrainKnown, PrunedSurfaced, CalmParts,
         Calm, [Next]_vars, NEW e \in queue
  PROVE  \/ e.ver \in VersionsOf(queue') \cup synced \cup surfaced' \cup waived'
         \/ e.ver \in VersionsOf(Reporting)'
         \/ accepted \subseteq waived'
<1> DEFINE Goal == \/ e.ver \in VersionsOf(queue') \cup synced \cup surfaced' \cup waived'
                   \/ e.ver \in VersionsOf(Reporting)'
                   \/ accepted \subseteq waived'
<1>a. ASSUME NEW b \in queue', b.ver = e.ver PROVE Goal
  BY <1>a DEF VersionsOf
<1>b. e.ver \in synced \cup surfaced' \cup waived' => Goal
  OBVIOUS
<1>c. accepted \subseteq waived' \/ e.ver \in VersionsOf(Reporting)' => Goal
  OBVIOUS
<1>d. queue \subseteq Entry /\ surfaced \subseteq surfaced'
  BY SurfacedGrows DEF IInv, TypeOK
<1> HIDE DEF Goal
<1>e. ASSUME e \in queue' PROVE Goal
  BY <1>a, <1>e
<1>1. ASSUME NEW i \in DOMAIN lock, enqueueMutation(i) PROVE Goal
  <2> DEFINE n == [lock[i].arg EXCEPT !.createdAt = now]
  <2>1. lock[i].read = queue /\ lock[i].op = "enqueue" /\ lock[i].arg \in Entry
    BY <1>1, HolderRead DEF enqueueMutation, Holds, IInv, DrainJobs, JobOk
  <2>2. queue' = Upsert(queue, n) /\ waived' = waived \cup Superseded(queue, n)
    BY <1>1, <2>1 DEF enqueueMutation, writeQueue
  <2>3. n.clientId = lock[i].arg.clientId /\ n.ver = lock[i].arg.ver
    BY <2>1 DEF Entry
  <2> HIDE DEF n
  <2>5. CASE e.clientId = n.clientId
    <3>1. e.ver < n.ver
      BY <2>1, <2>3, <2>5 DEF CalmParts, WaitersInOrder
    <3> QED
      BY <2>2, <3>1, <2>5, <1>b DEF Superseded
  <2>6. CASE e.clientId # n.clientId
    BY <2>2, <2>6, <1>e DEF Upsert, Without
  <2> QED
    BY <2>5, <2>6
<1>2. \A i \in DOMAIN lock : ~retryFailed(i)
  BY DEF NoRetries, retryFailed, Holds, Calm
<1>3. ASSUME NEW i \in DOMAIN lock, pruneWrite(i) PROVE Goal
  <2>1. e \in lock[i].read \/ e.ver \in surfaced
    BY <1>3 DEF pruneWrite, PrunedSurfaced
  <2> QED
    BY <1>3, <2>1, <1>b, <1>d, <1>e DEF pruneWrite, writeQueue
<1>4. ASSUME NEW i \in DOMAIN lock, clearQueue(i) PROVE Goal
  BY <1>4, <1>c DEF clearQueue
<1>5. ASSUME NEW i \in DOMAIN lock, removeReplayed(i) PROVE Goal
  <2>1. queue' = Without(queue, drain.cur.clientId)
    BY <1>5, HolderRead DEF removeReplayed, writeQueue
  <2>2. drain.phase = "locked"
    BY <1>5 DEF removeReplayed, Holds, IInv, DrainJobs, JobOk, DrainOps
  <2>3. CASE e.clientId = drain.cur.clientId
    <3>1. e.ver = drain.cur.ver
      BY <2>2, <2>3 DEF CalmParts, WorkIsCurrent, Working
    <3>2. CASE drain.outcome = "ok"
      BY <2>2, <3>1, <3>2, <1>b DEF DrainKnown
    <3>3. CASE drain.outcome # "ok"
      <4>1. drain' = [drain EXCEPT !.phase = "report"] /\ drain \in DrainType
        BY <1>5, <3>3 DEF removeReplayed, IInv, TypeOK
      <4>2. drain'.phase = "report" /\ drain'.cur = drain.cur
        BY <4>1 DEF DrainType
      <4> QED
        BY <3>1, <4>2, <1>c DEF Reporting, VersionsOf
    <3> QED
      BY <3>2, <3>3
  <2>4. CASE e.clientId # drain.cur.clientId
    BY <2>1, <2>4, <1>e DEF Without
  <2> QED
    BY <2>3, <2>4
<1>6. ASSUME NEW i \in DOMAIN lock, bumpRetries(i) PROVE Goal
  <2>1. lock[i].read = queue
    BY <1>6, HolderRead DEF bumpRetries
  <2>2. CASE queue' = {IF x.clientId = drain.cur.clientId
                       THEN [x EXCEPT !.retries = nextRetries(drain.cur)] ELSE x
                         : x \in lock[i].read}
    <3> DEFINE b == IF e.clientId = drain.cur.clientId
                    THEN [e EXCEPT !.retries = nextRetries(drain.cur)] ELSE e
    <3>1. b \in queue'
      BY <2>1, <2>2
    <3>2. b.ver = e.ver
      BY <1>d DEF Entry
    <3> HIDE DEF b
    <3> QED
      BY <3>1, <3>2, <1>a
  <2> QED
    BY <1>6, <2>2, <1>e DEF bumpRetries, writeQueue
<1>7. ASSUME NEW i \in DOMAIN lock, rewriteUrls(i) PROVE Goal
  <2>1. lock[i].read = queue
    BY <1>7, HolderRead DEF rewriteUrls
  <2>2. CASE queue' = {IF x.ref = drain.cur.clientId THEN [x EXCEPT !.ref = None] ELSE x
                         : x \in lock[i].read}
    <3> DEFINE b == IF e.ref = drain.cur.clientId THEN [e EXCEPT !.ref = None] ELSE e
    <3>1. b \in queue'
      BY <2>1, <2>2
    <3>2. b.ver = e.ver
      BY <1>d DEF Entry
    <3> HIDE DEF b
    <3> QED
      BY <3>1, <3>2, <1>a
  <2> QED
    BY <1>7, <2>2, <1>e DEF rewriteUrls, writeQueue
<1>8. UNCHANGED queue => Goal
  BY <1>e
<1>9. LockStep => Goal
  BY <1>1, <1>2, <1>3, <1>4, <1>5, <1>6, <1>7, <1>8
     DEF LockStep, readQueue, refreshPendingCount, takeSnapshot, device
<1>10. PersistStep \/ hydrateFailedSync \/ drainQueue \/ DrainStep \/ FetchStep
         => UNCHANGED queue
  BY DEF PersistStep, persistRead, persistWrite, hydrateFailedSync, drainQueue, DrainStep,
     replay, drainDone, replayOk, replayFails, reportFailed, FetchStep, fetchAnswered, fetchFails,
     device
<1>11. UserStep => UNCHANGED queue
  BY DEF UserStep, maybeQueueOffline, fetch, retryTap, dismissFailedSync,
     resetAllStores, login, device
<1>12. Environment \/ UNCHANGED vars => UNCHANGED queue
  BY DEF Environment, serverHandles, lateRequest, setOfflineMode, tick, crash, vars, device
<1>13. Goal
  BY <1>8, <1>9, <1>10, <1>11, <1>12 DEF Next
<1> QED
  BY <1>13 DEF Goal

\* What was accepted, applied or given up stays so, and what is accepted is stored.
LEMMA HistoryGrows ==
  ASSUME IInv, [Next]_vars
  PROVE  /\ synced \subseteq synced' /\ waived \subseteq waived'
         /\ accepted' \subseteq accepted \cup VersionsOf(queue')
<1> DEFINE Goal == /\ synced \subseteq synced' /\ waived \subseteq waived'
                   /\ accepted' \subseteq accepted \cup VersionsOf(queue')
<1>a. ASSUME synced \subseteq synced', waived \subseteq waived', UNCHANGED accepted PROVE Goal
  BY <1>a
<1>1. ASSUME NEW i \in DOMAIN lock, enqueueMutation(i) PROVE Goal
  <2> DEFINE n == [lock[i].arg EXCEPT !.createdAt = now]
  <2>1. n \in queue' /\ accepted' = accepted \cup {n.ver}
    BY <1>1 DEF enqueueMutation, writeQueue, Upsert
  <2>2. waived \subseteq waived' /\ UNCHANGED synced
    BY <1>1 DEF enqueueMutation
  <2> HIDE DEF n
  <2> QED
    BY <2>1, <2>2 DEF VersionsOf
<1> HIDE DEF Goal
<1>2. LockStep => Goal
  BY <1>1, <1>a DEF LockStep, readQueue, pruneWrite, retryFailed, clearQueue,
     refreshPendingCount, takeSnapshot, removeReplayed, bumpRetries, rewriteUrls, history
<1>3. PersistStep \/ hydrateFailedSync \/ drainQueue \/ DrainStep \/ FetchStep => Goal
  BY <1>a DEF PersistStep, persistRead, persistWrite, hydrateFailedSync, drainQueue, DrainStep,
     replay, drainDone, replayOk, replayFails, reportFailed, FetchStep, fetchAnswered, fetchFails,
     history
<1>4. UserStep => Goal
  BY <1>a DEF UserStep, maybeQueueOffline, fetch, retryTap, dismissFailedSync,
     resetAllStores, login, history
<1>5. Environment \/ UNCHANGED vars => Goal
  BY <1>a DEF Environment, serverHandles, lateRequest, setOfflineMode, tick, crash, vars,
     history
<1>6. Goal
  BY <1>2, <1>3, <1>4, <1>5 DEF Next
<1> QED
  BY <1>6 DEF Goal

-----------------------------------------------------------------------------
\* The invariant of the writes, on top of that of the lock.
WInv ==
  /\ FailedSurfaced /\ RetriesSurfaced /\ NoRetries /\ PrunedSurfaced
  /\ WritesInOrder /\ OwnersKept /\ DrainKnown /\ CalmWrites
  /\ Calm => NoSilentDrops

\* Nothing has been written when the app is first started.
LEMMA InitWrites == Init => WInv
<1> SUFFICES ASSUME Init PROVE WInv
  OBVIOUS
<1>1. lock = <<>> /\ queue = {} /\ surfaced = {} /\ Working = {} /\ drain = Idle
  BY DEF Init, Working, Idle
<1>2. FailedSurfaced
  BY DEF Init, FailedSurfaced
<1>3. RetriesSurfaced /\ NoRetries /\ PrunedSurfaced
  BY <1>1 DEF RetriesSurfaced, NoRetries, PrunedSurfaced
<1>4. WritesInOrder
  BY <1>1 DEF Init, WritesInOrder, Known, VersionsOf
<1>5. OwnersKept
  BY <1>1, ConstantsAssumption
     DEF Init, OwnersKept, NoClear, CallersOwned, StoredOwned, FetchesOwned
<1>6. DrainKnown /\ CalmWrites
  BY <1>1 DEF Init, DrainKnown, CalmWrites, CalmParts, WorkIsCurrent, WaitersInOrder,
     FetchesAlone, SnapshotIsLast, Idle
<1>7. NoSilentDrops
  BY DEF Init, NoSilentDrops
<1> QED
  BY <1>2, <1>3, <1>4, <1>5, <1>6, <1>7 DEF WInv

\* What is to be reported still is, has been, or the app was killed.
LEMMA ReportingKept ==
  ASSUME IInv, [Next]_vars
  PROVE  VersionsOf(Reporting) \subseteq VersionsOf(Reporting)' \cup surfaced' \/ crash
<1> DEFINE Goal == VersionsOf(Reporting) \subseteq VersionsOf(Reporting)' \cup surfaced' \/ crash
<1>a. UNCHANGED drain => Goal
  BY DEF Reporting, VersionsOf
<1>b. drain.phase # "report" => Goal
  BY DEF Reporting, VersionsOf
<1>1. reportFailed => Goal
  <2> SUFFICES ASSUME reportFailed PROVE Goal
    OBVIOUS
  <2>1. ItemOf(drain.cur).ver \in surfaced' /\ ItemOf(drain.cur).ver = drain.cur.ver
    BY DEF reportFailed, recordFailed, VersionsOf, ItemOf
  <2> QED
    BY <2>1 DEF Reporting, VersionsOf
<1>2. crash => Goal
  OBVIOUS
<1> HIDE DEF Goal
<1>3. LockStep => Goal
  <2>1. ASSUME NEW i \in DOMAIN lock,
               \/ takeSnapshot(i) \/ removeReplayed(i) \/ bumpRetries(i) \/ rewriteUrls(i)
        PROVE  Goal
    <3>1. lock[i].op \in DrainJobOps
      BY <2>1 DEF takeSnapshot, removeReplayed, bumpRetries, rewriteUrls, Holds, DrainJobOps, DrainOps
    <3>2. drain.phase # "report"
      BY <3>1, NoDrainJobs DEF IInv
    <3> QED
      BY <3>2, <1>b
  <2>2. ASSUME NEW i \in DOMAIN lock, retryFailed(i) PROVE Goal
    BY <2>2, <1>a, <1>b DEF retryFailed
  <2> QED
    BY <2>1, <2>2, <1>a DEF LockStep, readQueue, pruneWrite, enqueueMutation, clearQueue,
       refreshPendingCount
<1>4. PersistStep \/ hydrateFailedSync \/ drainQueue => Goal
  BY <1>a, <1>b DEF PersistStep, persistRead, persistWrite, hydrateFailedSync, drainQueue
<1>5. DrainStep \/ FetchStep => Goal
  BY <1>1, <1>a, <1>b DEF DrainStep, replay, drainDone, replayOk, replayFails, FetchStep,
     fetchAnswered, fetchFails
<1>6. UserStep => Goal
  BY <1>a DEF UserStep, maybeQueueOffline, fetch, retryTap, dismissFailedSync, resetAllStores,
     login, memory
<1>7. Environment \/ UNCHANGED vars => Goal
  BY <1>2, <1>a, <1>b DEF Environment, serverHandles, lateRequest, setOfflineMode, tick, vars, memory
<1>8. Goal
  BY <1>3, <1>4, <1>5, <1>6, <1>7 DEF Next
<1> QED
  BY <1>8 DEF Goal

\* No step drops an accepted write, while the writes are calm.
LEMMA NoDropStep ==
  ASSUME IInv, WInv, [Next]_vars, Calm'
  PROVE  NoSilentDrops'
<1>1. Calm
  BY CountersGrow DEF Calm, IInv, TypeOK
<1>2. /\ synced \subseteq synced' /\ waived \subseteq waived' /\ surfaced \subseteq surfaced'
      /\ accepted' \subseteq accepted \cup VersionsOf(queue')
  BY HistoryGrows, SurfacedGrows
<1> DEFINE Kept == VersionsOf(queue)' \cup synced' \cup surfaced' \cup VersionsOf(Reporting)'
                     \cup waived' \cup unreported'
<1> SUFFICES ASSUME NEW v \in accepted PROVE v \in Kept
  BY <1>2 DEF NoSilentDrops, VersionsOf
<1>3. v \in VersionsOf(queue) \cup synced \cup surfaced \cup VersionsOf(Reporting)
              \cup waived \cup unreported
  BY <1>1 DEF WInv, NoSilentDrops
<1>4. CASE v \in VersionsOf(queue)
  <2>1. PICK e \in queue : v = e.ver
    BY <1>4 DEF VersionsOf
  <2>2. \/ e.ver \in VersionsOf(queue') \cup synced \cup surfaced' \cup waived'
        \/ e.ver \in VersionsOf(Reporting)'
        \/ accepted \subseteq waived'
    BY <1>1, EntriesAccountedFor DEF WInv, CalmWrites
  <2> QED
    BY <1>2, <2>1, <2>2 DEF VersionsOf
<1>5. CASE v \in VersionsOf(Reporting)
  BY <1>5, ReportingKept DEF crash
<1> QED
  BY <1>2, <1>3, <1>4, <1>5, ExcusesGrow

\* Every step keeps the invariant of the writes.
LEMMA WritesStep == IInv /\ WInv /\ [Next]_vars => WInv'
<1> SUFFICES ASSUME IInv, WInv, [Next]_vars PROVE WInv'
  OBVIOUS
<1>1. FailedSurfaced' /\ RetriesSurfaced' /\ NoRetries'
  BY FailedSurfacedStep, RetriesStep DEF WInv
<1>2. PrunedSurfaced' /\ WritesInOrder' /\ OwnersKept'
  BY PrunedSurfacedStep, OrderStep, OwnersStep DEF WInv
<1>3. DrainKnown' /\ CalmWrites'
  BY DrainKnownStep, CalmStep DEF WInv
<1>4. Calm' => NoSilentDrops'
  BY NoDropStep
<1> QED
  BY <1>1, <1>2, <1>3, <1>4 DEF WInv

\* The invariant of the writes holds in every reachable state.
LEMMA WritesInvariant == Spec => [](IInv /\ WInv)
<1>1. IInv /\ WInv /\ [Next]_vars => (IInv /\ WInv)'
  BY TypeStep, LockInvStep, DrainJobsStep, WritesStep DEF IInv
<1> QED
  BY InitInv, InitWrites, <1>1, PTL DEF Spec

\* "No silent drops": unless a resource is written while an earlier write of it is replayed,
\* sent or listed as failed, or is sent while one is stored, or the user has retried a failed
\* write, a write whose enqueueMutation resolved is stored, was applied, was or is next
\* recorded as failed or was given up, or the app was killed over its report, through any
\* drains, prunings, late requests, restarts and sign-outs.
THEOREM NothingIsDropped == Spec => [](taps = 0 /\ ~EditsBusy => NoSilentDrops)
<1>1. WInv => (taps = 0 /\ ~EditsBusy => NoSilentDrops)
  BY DEF WInv, Calm
<1> QED
  BY WritesInvariant, <1>1, PTL

\* resetAllStores and clearQueue: with clearQueue done, what is stored belongs to the account
\* signed in, or was on its way to the server at a sign-out and failed after it, or had
\* failed and was retried. A restart after a sign-out, which forgets a clearQueue that waits,
\* is left out.
THEOREM NothingIsLeftBehind == Spec => [](crashes = 0 \/ logouts = 0 => QueueBelongsToSession)
<1>1. WInv => (crashes = 0 \/ logouts = 0 => QueueBelongsToSession)
  BY DEF WInv, OwnersKept, SignOutsComplete, StoredOwned, NoClear, OwnedHere,
     QueueBelongsToSession
<1> QED
  BY WritesInvariant, <1>1, PTL

\* "Latest write for a resource wins": with late failures, busy edits, restarts and sign-outs,
\* a stored entry is replaced by an older write only when that one was on its way to the
\* server as the newer was made, or was retried by the user.
THEOREM LatestWriteWins == Spec => LatestEntryWins
<1>1. IInv /\ WInv /\ [Next]_vars => [ReplacedInOrder]_queue
  BY ReplacedStep DEF WInv
<1>2. Spec => [][ReplacedInOrder]_queue
  BY WritesInvariant, <1>1, PTL DEF Spec
<1> QED
  BY <1>2 DEF LatestEntryWins, ReplacedInOrder

-----------------------------------------------------------------------------
(* OfflineQueue implements AtomicQueue.                                    *)

\* What a section is about to prune has aged, and has been recorded as failed.
PruneReported ==
  \A i \in DOMAIN lock : lock[i].prune =>
    \A e \in queue \ lock[i].read : now - e.createdAt >= MaxAge /\ e.ver \in surfaced

\* A replay that went well was applied by the server.
OkIsApplied ==
  drain.phase \in {"inflight", "locked"} /\ drain.outcome = "ok" => drain.cur.ver \in synced

AInv == PruneReported /\ OkIsApplied

-----------------------------------------------------------------------------
(* The two facts are kept.                                                 *)

\* Nobody has read anything, or whoever prunes still does and nothing else has changed.
LEMMA PruneKept ==
  ASSUME IInv, PruneReported, now' \in Times, now <= now', surfaced \subseteq surfaced',
         queue' = queue,
         \A k \in DOMAIN lock' : lock'[k].prune => k \in DOMAIN lock /\ lock'[k] = lock[k]
  PROVE  PruneReported'
<1> SUFFICES ASSUME NEW k \in DOMAIN lock', lock'[k].prune, NEW e \in queue \ lock[k].read
             PROVE  now' - e.createdAt >= MaxAge /\ e.ver \in surfaced'
  BY DEF PruneReported
<1>1. now - e.createdAt >= MaxAge /\ e.ver \in surfaced
  BY DEF PruneReported
<1>2. now \in Int /\ now' \in Int /\ e.createdAt \in Int /\ MaxAge \in Int
  BY ConstantsAssumption DEF IInv, TypeOK, Entry, Times
<1> QED
  BY <1>1, <1>2

\* No section is under way.
LEMMA NobodyPrunes ==
  ASSUME \A k \in DOMAIN lock' : ~lock'[k].prune
  PROVE  PruneReported'
BY DEF PruneReported

\* A section that leaves leaves nobody who prunes.
LEMMA PrunerLeaves ==
  ASSUME IInv, NEW i \in DOMAIN lock, NEW op, Holds(i, op), NEW next,
         lock' = Drop(i) \/ lock' = Append(Drop(i), Job(next, None))
  PROVE  PruneReported'
<1>1. \A k \in DOMAIN Drop(i) : ~Drop(i)[k].prune
  BY OthersWait
<1>2. Drop(i) \in Seq(JobType)
  BY DropSeq DEF IInv, TypeOK
<1>3. ~Job(next, None).prune
  BY DEF Job
<1>4. CASE lock' = Drop(i)
  BY <1>1, <1>4, NobodyPrunes
<1>5. CASE lock' = Append(Drop(i), Job(next, None))
  <2>1. \A k \in DOMAIN lock' : IF k \in DOMAIN Drop(i) THEN lock'[k] = Drop(i)[k]
                                 ELSE lock'[k] = Job(next, None)
    BY <1>2, <1>5
  <2> QED
    BY <1>1, <1>3, <2>1, NobodyPrunes
<1> QED
  BY <1>4, <1>5

\* A caller that joins the lock does not prune.
LEMMA PruneAppended ==
  ASSUME IInv, PruneReported, UNCHANGED <<queue, now, surfaced>>,
         NEW op, NEW e, lock' = Append(lock, Job(op, e))
  PROVE  PruneReported'
<1>1. lock \in Seq(JobType) /\ now \in Times
  BY DEF IInv, TypeOK
<1>2. \A k \in DOMAIN lock' : IF k \in DOMAIN lock THEN lock'[k] = lock[k]
                               ELSE lock'[k] = Job(op, e)
  BY <1>1
<1>3. ~Job(op, e).prune
  BY DEF Job
<1>4. now' \in Times /\ now <= now'
  BY <1>1 DEF Times
<1> QED
  BY <1>2, <1>3, <1>4, PruneKept

\* Nor does a step that leaves the lock alone.
LEMMA PruneUntouched ==
  ASSUME IInv, PruneReported, now' \in Times, now <= now', surfaced \subseteq surfaced',
         UNCHANGED <<queue, lock>>
  PROVE  PruneReported'
BY PruneKept

\* A section is read: what it left out has aged and is recorded.
LEMMA PruneStarts ==
  ASSUME IInv, PruneReported, NEW i \in DOMAIN lock, readQueue(i)
  PROVE  PruneReported'
<1> DEFINE stale == IF lock[i].op = "clear" THEN {} ELSE {e \in queue : ~IsFresh(e)}
           fresh == IF lock[i].op = "clear" THEN {} ELSE queue \ stale
           j == [lock[i] EXCEPT !.loaded = TRUE, !.read = fresh, !.prune = (stale # {})]
<1>1. lock \in Seq(JobType) /\ lock[i] \in JobType /\ now \in Times /\ queue \subseteq Entry
  BY DEF IInv, TypeOK
<1>2. lock' = [lock EXCEPT ![i] = j] /\ queue' = queue /\ now' = now
      /\ surfaced' = surfaced \cup VersionsOf({ItemOf(e) : e \in stale})
  BY DEF readQueue, recordFailed, device, outside
<1>3. j.prune = (stale # {}) /\ j.read = fresh
  BY <1>1 DEF JobType
<1>4. \A k \in DOMAIN lock' : k \in DOMAIN lock /\ lock'[k] = IF k = i THEN j ELSE lock[k]
  BY <1>1, <1>2
<1> SUFFICES ASSUME NEW k \in DOMAIN lock', lock'[k].prune, NEW e \in queue \ lock'[k].read
             PROVE  now - e.createdAt >= MaxAge /\ e.ver \in surfaced'
  BY <1>2 DEF PruneReported
<1>5. CASE k # i
  <2>1. lock[k].prune /\ e \in queue \ lock[k].read /\ k \in DOMAIN lock
    BY <1>4, <1>5
  <2> QED
    BY <1>2, <2>1 DEF PruneReported
<1>6. CASE k = i
  <2>1. stale # {} /\ e \in queue \ fresh
    BY <1>3, <1>4, <1>6
  <2>2. e \in stale /\ ~IsFresh(e)
    BY <2>1
  <2>3. now - e.createdAt >= MaxAge
    <3>1. now \in Int /\ e.createdAt \in Int /\ MaxAge \in Int
      BY <1>1, ConstantsAssumption DEF Entry, Times
    <3>2. ~(now - e.createdAt < MaxAge)
      BY <2>2 DEF IsFresh
    <3> HIDE DEF stale, fresh, j
    <3> QED
      BY <3>1, <3>2
  <2>4. e.ver \in VersionsOf({ItemOf(x) : x \in stale})
    <3>1. ItemOf(e) \in {ItemOf(x) : x \in stale} /\ ItemOf(e).ver = e.ver
      BY <2>2 DEF ItemOf
    <3> QED
      BY <3>1 DEF VersionsOf
  <2> QED
    BY <1>2, <2>3, <2>4
<1> QED
  BY <1>5, <1>6

\* What was pruned has been written back.
LEMMA PruneEnds ==
  ASSUME IInv, NEW i \in DOMAIN lock, pruneWrite(i)
  PROVE  PruneReported'
<1>1. i = 1 /\ lock[i] \in JobType /\ lock \in Seq(JobType)
  BY PruningRead DEF IInv, TypeOK
<1>2. lock' = [lock EXCEPT ![i] = [lock[i] EXCEPT !.prune = FALSE]]
  BY DEF pruneWrite
<1>3. ~[lock[i] EXCEPT !.prune = FALSE].prune
  BY <1>1 DEF JobType
<1>4. \A k \in DOMAIN lock : lock[k].prune => k = 1
  BY DEF IInv, LockInv, PruneHasRead, OnlyHolderReads
<1>5. \A k \in DOMAIN lock' : ~lock'[k].prune
  BY <1>1, <1>2, <1>3, <1>4
<1> QED
  BY <1>5, NobodyPrunes

\* What a section prunes stays reported.
LEMMA PruneStep == IInv /\ PruneReported /\ [Next]_vars => PruneReported'
<1> SUFFICES ASSUME IInv, PruneReported, [Next]_vars PROVE PruneReported'
  OBVIOUS
<1>a. now \in Times /\ now <= now
  BY DEF IInv, TypeOK, Times
<1>1. ASSUME NEW i \in DOMAIN lock, enqueueMutation(i) PROVE PruneReported'
  BY <1>1, PrunerLeaves DEF enqueueMutation
<1>2. ASSUME NEW i \in DOMAIN lock, retryFailed(i) PROVE PruneReported'
  BY <1>2, PrunerLeaves DEF retryFailed
<1>3. ASSUME NEW i \in DOMAIN lock, clearQueue(i) PROVE PruneReported'
  BY <1>3, PrunerLeaves DEF clearQueue
<1>4. ASSUME NEW i \in DOMAIN lock, refreshPendingCount(i) PROVE PruneReported'
  BY <1>4, PrunerLeaves DEF refreshPendingCount
<1>5. ASSUME NEW i \in DOMAIN lock, takeSnapshot(i) PROVE PruneReported'
  BY <1>5, PrunerLeaves DEF takeSnapshot
<1>6. ASSUME NEW i \in DOMAIN lock, removeReplayed(i) PROVE PruneReported'
  BY <1>6, PrunerLeaves DEF removeReplayed
<1>7. ASSUME NEW i \in DOMAIN lock, bumpRetries(i) PROVE PruneReported'
  BY <1>7, PrunerLeaves DEF bumpRetries
<1>8. ASSUME NEW i \in DOMAIN lock, rewriteUrls(i) PROVE PruneReported'
  BY <1>8, PrunerLeaves DEF rewriteUrls
<1>9. ASSUME NEW i \in DOMAIN lock, readQueue(i) \/ pruneWrite(i) PROVE PruneReported'
  BY <1>9, PruneStarts, PruneEnds
<1>10. CASE drainQueue
  BY <1>10, PruneAppended DEF drainQueue, device, outside, history
<1>11. CASE replayOk
  BY <1>11, PruneAppended DEF replayOk, device, outside, history
<1>12. ASSUME NEW o \in {"permanent", "transient"}, replayFails(o) PROVE PruneReported'
  <2>1. UNCHANGED <<queue, now, surfaced>>
    BY <1>12 DEF replayFails, device, history
  <2>2. CASE offlineMode
    <3>1. lock' = lock
      BY <1>12, <2>2 DEF replayFails
    <3> QED
      BY <1>a, <2>1, <3>1, PruneUntouched
  <2>3. CASE ~offlineMode
    <3>1. PICK op : lock' = Append(lock, Job(op, None))
      BY <1>12, <2>3 DEF replayFails
    <3> QED
      BY <2>1, <3>1, PruneAppended
  <2> QED
    BY <2>2, <2>3
<1>13. ASSUME NEW c \in ClientIds, maybeQueueOffline(c) PROVE PruneReported'
  BY <1>13, PruneAppended DEF maybeQueueOffline, enqueueOfflineMutation, device, outside
<1>14. ASSUME NEW r \in fetches, fetchFails(r) PROVE PruneReported'
  BY <1>14, PruneAppended DEF fetchFails, enqueueOfflineMutation, device, history
<1>15. ASSUME NEW x \in failedSync, retryTap(x) PROVE PruneReported'
  BY <1>15, PruneAppended DEF retryTap, device, outside, history
<1>16. CASE resetAllStores
  BY <1>16, PruneAppended DEF resetAllStores
<1>17. CASE crash
  <2>1. lock' = <<Job("refresh", None)>>
    BY <1>17 DEF crash
  <2>2. \A k \in DOMAIN lock' : ~lock'[k].prune
    BY <2>1 DEF Job
  <2> QED
    BY <2>2, NobodyPrunes
<1>18. ASSUME \/ \E p \in persisting : persistRead(p) \/ persistWrite(p)
              \/ hydrateFailedSync \/ drainDone \/ setOfflineMode
              \/ \E m \in drain.todo : replay(m)
              \/ \E o \in Outcomes : serverHandles(o)
              \/ \E v \in late : lateRequest(v)
              \/ \E c \in ClientIds : fetch(c)
              \/ \E r \in fetches : fetchAnswered(r)
              \/ \E x \in failedSync : dismissFailedSync(x)
              \/ \E u \in Users : login(u)
              \/ UNCHANGED vars
       PROVE  PruneReported'
  <2>1. UNCHANGED <<queue, lock, now, surfaced>>
    BY <1>18 DEF persistRead, persistWrite, hydrateFailedSync, drainDone, setOfflineMode,
       replay, serverHandles, lateRequest, fetch, fetchAnswered, dismissFailedSync, login,
       vars, device, memory, outside, history
  <2> QED
    BY <1>a, <2>1, PruneUntouched
<1>19. CASE tick
  <2>1. UNCHANGED <<queue, lock, surfaced>> /\ now' = now + 1 /\ now < MaxTime
    BY <1>19 DEF tick, device, memory, history
  <2>2. now' \in Times /\ now <= now'
    BY <1>a, <2>1, ConstantsAssumption DEF Times
  <2> QED
    BY <2>1, <2>2, PruneUntouched
<1>20. CASE reportFailed
  <2>1. UNCHANGED <<queue, lock, now>> /\ surfaced \subseteq surfaced'
    BY <1>20 DEF reportFailed, recordFailed, device, outside
  <2> QED
    BY <1>a, <2>1, PruneUntouched
<1> QED
  BY <1>1, <1>2, <1>3, <1>4, <1>5, <1>6, <1>7, <1>8, <1>9, <1>10, <1>11, <1>12, <1>13,
     <1>14, <1>15, <1>16, <1>17, <1>18, <1>19, <1>20
     DEF Next, LockStep, PersistStep, DrainStep, FetchStep, UserStep, Environment

\* A replay is applied before it has gone well.
LEMMA OkStep == IInv /\ OkIsApplied /\ [Next]_vars => OkIsApplied'
<1> SUFFICES ASSUME IInv, OkIsApplied, [Next]_vars PROVE OkIsApplied'
  OBVIOUS
<1>a. drain \in DrainType
  BY DEF IInv, TypeOK
<1>1. CASE drain' = drain /\ synced \subseteq synced'
  BY <1>1 DEF OkIsApplied
<1>2. CASE drain'.phase \notin {"inflight", "locked"} \/ drain'.outcome # "ok"
  BY <1>2 DEF OkIsApplied
<1>3. ASSUME NEW i \in DOMAIN lock, takeSnapshot(i) \/ bumpRetries(i) \/ rewriteUrls(i)
      PROVE  OkIsApplied'
  <2>1. drain'.phase = "loop"
    BY <1>3, <1>a DEF takeSnapshot, bumpRetries, rewriteUrls, DrainType
  <2> QED
    BY <1>2, <2>1
<1>4. ASSUME NEW i \in DOMAIN lock, removeReplayed(i) PROVE OkIsApplied'
  <2>1. synced' = synced /\ (drain' = drain \/ drain'.phase \in {"loop", "report"})
    BY <1>4, <1>a DEF removeReplayed, history, DrainType
  <2> QED
    BY <1>1, <1>2, <2>1
<1>5. ASSUME NEW i \in DOMAIN lock, retryFailed(i) PROVE OkIsApplied'
  <2>1. synced' = synced /\ (drain' = drain \/ drain'.phase = "snapshot")
    BY <1>5 DEF retryFailed, Idle
  <2> QED
    BY <1>1, <1>2, <2>1
<1>6. CASE drainQueue \/ drainDone \/ reportFailed \/ crash
  <2>1. drain'.phase \in {"snapshot", "idle", "loop"}
    BY <1>6, <1>a DEF drainQueue, drainDone, reportFailed, crash, Idle, DrainType
  <2> QED
    BY <1>2, <2>1
<1>7. ASSUME NEW m \in drain.todo, replay(m) PROVE OkIsApplied'
  <2>1. drain'.outcome # "ok"
    BY <1>7, ConstantsAssumption DEF replay, Outcomes
  <2> QED
    BY <1>2, <2>1
<1>8. ASSUME NEW o \in Outcomes, serverHandles(o) PROVE OkIsApplied'
  <2>1. drain'.outcome = o /\ drain'.cur = drain.cur
    BY <1>8, <1>a DEF serverHandles, DrainType
  <2>2. o = "ok" => drain.cur.ver \in synced'
    BY <1>8 DEF serverHandles
  <2> QED
    BY <2>1, <2>2 DEF OkIsApplied
<1>9. CASE replayOk
  <2>1. drain'.cur = drain.cur /\ synced' = synced /\ drain.phase = "inflight"
        /\ drain.outcome = "ok"
    BY <1>9, <1>a DEF replayOk, history, DrainType
  <2> QED
    BY <2>1 DEF OkIsApplied
<1>10. ASSUME NEW o \in {"permanent", "transient"}, replayFails(o) PROVE OkIsApplied'
  <2>1. drain' = Idle \/ drain' = [drain EXCEPT !.phase = "locked", !.outcome = o]
    BY <1>10 DEF replayFails
  <2>2. drain'.phase = "idle" \/ drain'.outcome = o
    <3>1. CASE drain' = Idle
      BY <3>1 DEF Idle
    <3>2. CASE drain' = [drain EXCEPT !.phase = "locked", !.outcome = o]
      BY <1>a, <3>2 DEF DrainType
    <3> QED
      BY <2>1, <3>1, <3>2
  <2> QED
    BY <1>2, <2>2
<1>11. ASSUME \/ \E i \in DOMAIN lock : \/ readQueue(i) \/ pruneWrite(i) \/ enqueueMutation(i)
                                        \/ clearQueue(i) \/ refreshPendingCount(i)
              \/ \E p \in persisting : persistRead(p) \/ persistWrite(p)
              \/ hydrateFailedSync \/ setOfflineMode \/ tick \/ resetAllStores
              \/ \E v \in late : lateRequest(v)
              \/ \E c \in ClientIds : fetch(c) \/ maybeQueueOffline(c)
              \/ \E r \in fetches : fetchAnswered(r) \/ fetchFails(r)
              \/ \E x \in failedSync : dismissFailedSync(x) \/ retryTap(x)
              \/ \E u \in Users : login(u)
              \/ UNCHANGED vars
       PROVE  OkIsApplied'
  <2>1. drain' = drain /\ synced \subseteq synced'
    BY <1>11 DEF readQueue, pruneWrite, enqueueMutation, clearQueue, refreshPendingCount,
       persistRead, persistWrite, hydrateFailedSync, setOfflineMode, tick, resetAllStores,
       lateRequest, fetch, maybeQueueOffline, fetchAnswered, fetchFails, dismissFailedSync,
       retryTap, login, vars, memory, history
  <2> QED
    BY <1>1, <2>1
<1> QED
  BY <1>3, <1>4, <1>5, <1>6, <1>7, <1>8, <1>9, <1>10, <1>11
     DEF Next, LockStep, PersistStep, DrainStep, FetchStep, UserStep, Environment

-----------------------------------------------------------------------------
(* Every step is a step of AtomicQueue.                                    *)

\* What the atomic queue has besides the entries, of a step that reports nothing.
Aside == <<VersionsOf(Reporting), now, synced, surfaced, crashes>>

\* A drain that reports nothing before and after a step owes nothing.
LEMMA NothingOwed ==
  ASSUME drain' = drain \/ (drain.phase # "report" /\ drain'.phase # "report")
  PROVE  UNCHANGED VersionsOf(Reporting)
BY DEF Reporting, VersionsOf

\* A step that leaves the stored queue alone only lets time and the histories grow, and
\* reports what is owed unless the app is killed.
LEMMA QuietStep ==
  ASSUME IInv, [Next]_vars, drain'.phase = "report" => drain' = drain,
         now <= now', synced \subseteq synced', surfaced \subseteq surfaced', queue' = queue
  PROVE  Atomic!Next
<1>1. crashes <= crashes' /\ (crash => crashes < crashes')
  BY CountersGrow DEF IInv, TypeOK, crash
<1>2. VersionsOf(Reporting)' \subseteq VersionsOf(Reporting)
  BY DEF Reporting, VersionsOf
<1>3. Atomic!Report
  BY <1>1, ReportingKept DEF Atomic!Report
<1> QED
  BY <1>1, <1>2, <1>3 DEF Atomic!Next

\* The two sections that write an entry.
LEMMA PutStep ==
  ASSUME IInv, NEW i \in DOMAIN lock, NEW op \in {"enqueue", "retry"}, Holds(i, op),
         NEW e, queue' = Upsert(lock[i].read, e), UNCHANGED Aside
  PROVE  Atomic!Next
<1>1. lock[i].read = queue
  BY HolderRead
<1>2. Atomic!Rest(e.clientId) = Without(queue, e.clientId)
  BY DEF Atomic!Rest, Without
<1>3. e \in queue' /\ queue' = Atomic!Rest(e.clientId) \cup {e}
  BY <1>1, <1>2 DEF Upsert
<1>4. Atomic!Put
  BY <1>3 DEF Atomic!Put
<1> QED
  BY <1>4 DEF Atomic!Next, Aside

\* The section of a drain knows what was replayed.
LEMMA DrainSection ==
  ASSUME IInv, NEW i \in DOMAIN lock, NEW op \in DrainOps, Holds(i, op)
  PROVE  /\ Replaying = {drain.cur} /\ lock[i].read = queue /\ drain.cur \in Entry
         /\ drain.phase = "locked"
<1>1. lock[i].read = queue
  BY HolderRead DEF DrainOps
<1>2. drain.phase = "locked" /\ drain.cur \in Entry
  BY DEF IInv, DrainJobs, JobOk, Holds
<1> QED
  BY <1>1, <1>2 DEF Replaying

\* Every step of the queue is a step of the atomic queue, or changes nothing that it has.
LEMMA Simulation == IInv /\ AInv /\ [Next]_vars => [Atomic!Next]_(Atomic!vars)
<1> SUFFICES ASSUME IInv, AInv, [Next]_vars PROVE Atomic!Next
  OBVIOUS
<1>a. now \in Times /\ now <= now /\ drain \in DrainType
  BY DEF IInv, TypeOK, Times
<1>1. ASSUME NEW i \in DOMAIN lock, pruneWrite(i) PROVE Atomic!Next
  <2> DEFINE gone == queue \ lock[i].read
  <2>1. lock[i].prune /\ queue' = lock[i].read /\ UNCHANGED Aside
    BY <1>1, NothingOwed DEF pruneWrite, writeQueue, outside, budget, history, Aside
  <2>2. lock[i].read \subseteq queue
    BY <1>1, PruningRead
  <2>3. \A e \in gone : now - e.createdAt >= MaxAge /\ e.ver \in surfaced
    BY <2>1 DEF AInv, PruneReported
  <2>4. gone \in SUBSET queue /\ queue' = queue \ gone
    BY <2>1, <2>2
  <2>5. Atomic!Expire
    BY <2>3, <2>4 DEF Atomic!Expire
  <2> QED
    BY <2>1, <2>5 DEF Atomic!Next, Aside
<1>2. ASSUME NEW i \in DOMAIN lock, enqueueMutation(i) PROVE Atomic!Next
  <2>1. UNCHANGED Aside
    BY <1>2, NothingOwed DEF enqueueMutation, outside, budget, Aside
  <2> QED
    BY <1>2, <2>1, PutStep DEF enqueueMutation, writeQueue
<1>3. ASSUME NEW i \in DOMAIN lock, retryFailed(i) PROVE Atomic!Next
  <2>1. drain' = drain \/ (drain.phase # "report" /\ drain'.phase # "report")
    BY <1>3 DEF retryFailed, Idle
  <2>2. UNCHANGED Aside
    BY <1>3, <2>1, NothingOwed DEF retryFailed, outside, budget, Aside
  <2> QED
    BY <1>3, <2>2, PutStep DEF retryFailed, writeQueue
<1>4. ASSUME NEW i \in DOMAIN lock, clearQueue(i) PROVE Atomic!Next
  <2>1. UNCHANGED Aside /\ queue' = {}
    BY <1>4, NothingOwed DEF clearQueue, writeQueue, outside, budget, Aside
  <2> QED
    BY <2>1 DEF Atomic!Next, Atomic!Clear, Aside
<1>5. ASSUME NEW i \in DOMAIN lock, removeReplayed(i) PROVE Atomic!Next
  <2>1. Holds(i, "remove") /\ queue' = Without(lock[i].read, drain.cur.clientId)
        /\ UNCHANGED <<now, synced, surfaced, crashes>>
    BY <1>5 DEF removeReplayed, writeQueue, outside, budget, history
  <2>2. Replaying = {drain.cur} /\ lock[i].read = queue /\ drain.phase = "locked"
    BY <2>1, DrainSection DEF DrainOps
  <2>3. queue' = Atomic!Rest(drain.cur.clientId)
    BY <2>1, <2>2 DEF Atomic!Rest, Without
  <2>4. \/ drain.cur.ver \in synced /\ UNCHANGED VersionsOf(Reporting)
        \/ VersionsOf(Reporting)' = VersionsOf(Reporting) \cup {drain.cur.ver}
    <3>1. CASE drain.outcome = "ok"
      <4>1. drain.cur.ver \in synced
        BY <2>2, <3>1 DEF AInv, OkIsApplied
      <4>2. drain' = drain \/ drain'.phase = "loop"
        BY <1>5, <1>a, <3>1 DEF removeReplayed, DrainType
      <4> QED
        BY <2>2, <4>1, <4>2, NothingOwed
    <3>2. CASE drain.outcome # "ok"
      <4>1. drain'.phase = "report" /\ drain'.cur = drain.cur
        BY <1>5, <1>a, <3>2 DEF removeReplayed, DrainType
      <4>2. Reporting = {} /\ Reporting' = {drain.cur}
        BY <2>2, <4>1 DEF Reporting
      <4>3. VersionsOf(Reporting) = {} /\ VersionsOf(Reporting)' = {drain.cur.ver}
        BY <4>2 DEF VersionsOf
      <4> QED
        BY <4>3
    <3> QED
      BY <3>1, <3>2
  <2>5. Atomic!Take
    BY <2>2, <2>3, <2>4 DEF Atomic!Take
  <2> QED
    BY <2>1, <2>5 DEF Atomic!Next
<1>6. ASSUME NEW i \in DOMAIN lock, bumpRetries(i) PROVE Atomic!Next
  <2>1. Holds(i, "bump") /\ UNCHANGED <<now, synced, surfaced, crashes>>
        /\ drain'.phase = "loop"
    BY <1>6, <1>a DEF bumpRetries, outside, budget, history, DrainType
  <2>2. Replaying = {drain.cur} /\ lock[i].read = queue /\ UNCHANGED Aside
    BY <2>1, DrainSection, NothingOwed DEF DrainOps, Aside
  <2>3. CASE \E e \in lock[i].read : e.clientId = drain.cur.clientId
    <3>1. queue' = {IF e.clientId = drain.cur.clientId
                    THEN [e EXCEPT !.retries = drain.cur.retries + 1] ELSE e : e \in queue}
      BY <1>6, <2>2, <2>3 DEF bumpRetries, writeQueue, nextRetries
    <3>2. Atomic!Count
      BY <2>2, <3>1 DEF Atomic!Count
    <3> QED
      BY <2>2, <3>2 DEF Atomic!Next, Aside
  <2>4. CASE ~\E e \in lock[i].read : e.clientId = drain.cur.clientId
    BY <1>6, <1>a, <2>1, <2>4, QuietStep DEF bumpRetries
  <2> QED
    BY <2>3, <2>4
<1>7. ASSUME NEW i \in DOMAIN lock, rewriteUrls(i) PROVE Atomic!Next
  <2>1. Holds(i, "rewrite") /\ UNCHANGED <<now, synced, surfaced, crashes>>
        /\ drain'.phase = "loop"
    BY <1>7, <1>a DEF rewriteUrls, outside, budget, history, DrainType
  <2>2. Replaying = {drain.cur} /\ lock[i].read = queue /\ UNCHANGED Aside
    BY <2>1, DrainSection, NothingOwed DEF DrainOps, Aside
  <2>3. CASE \E e \in lock[i].read : e.ref = drain.cur.clientId
    <3>1. queue' = {IF e.ref = drain.cur.clientId THEN [e EXCEPT !.ref = None] ELSE e
                      : e \in queue}
      BY <1>7, <2>2, <2>3 DEF rewriteUrls, writeQueue
    <3>2. Atomic!Rename
      BY <2>2, <3>1 DEF Atomic!Rename
    <3> QED
      BY <2>2, <3>2 DEF Atomic!Next, Aside
  <2>4. CASE ~\E e \in lock[i].read : e.ref = drain.cur.clientId
    BY <1>7, <1>a, <2>1, <2>4, QuietStep DEF rewriteUrls
  <2> QED
    BY <2>3, <2>4
<1>8. ASSUME NEW i \in DOMAIN lock,
             readQueue(i) \/ refreshPendingCount(i) \/ takeSnapshot(i)
      PROVE  Atomic!Next
  <2>1. UNCHANGED <<queue, now, synced>> /\ surfaced \subseteq surfaced'
        /\ (drain'.phase = "report" => drain' = drain)
    BY <1>8, <1>a DEF readQueue, recordFailed, refreshPendingCount, takeSnapshot, device,
       outside, history, DrainType
  <2> QED
    BY <1>a, <2>1, QuietStep
<1>9. ASSUME \/ \E p \in persisting : persistRead(p) \/ persistWrite(p)
             \/ hydrateFailedSync \/ drainDone \/ setOfflineMode
             \/ drainQueue \/ replayOk \/ resetAllStores \/ crash
             \/ \E m \in drain.todo : replay(m)
             \/ \E o \in {"permanent", "transient"} : replayFails(o)
             \/ \E o \in Outcomes : serverHandles(o)
             \/ \E v \in late : lateRequest(v)
             \/ \E c \in ClientIds : fetch(c) \/ maybeQueueOffline(c)
             \/ \E r \in fetches : fetchAnswered(r) \/ fetchFails(r)
             \/ \E x \in failedSync : dismissFailedSync(x) \/ retryTap(x)
             \/ \E u \in Users : login(u)
             \/ UNCHANGED vars
      PROVE  Atomic!Next
  <2>1. UNCHANGED <<queue, now, surfaced>> /\ synced \subseteq synced'
    BY <1>9 DEF persistRead, persistWrite, hydrateFailedSync, drainDone, setOfflineMode,
       drainQueue, replayOk, resetAllStores, crash, replay, replayFails, serverHandles,
       lateRequest, fetch, maybeQueueOffline, fetchAnswered, fetchFails, dismissFailedSync,
       retryTap, login, vars, device, memory, outside, history
  <2>2. ASSUME drain'.phase = "report" PROVE drain' = drain
    <3>1. ASSUME NEW m \in drain.todo, replay(m) PROVE FALSE
      BY <2>2, <3>1 DEF replay
    <3>2. ASSUME NEW o \in {"permanent", "transient"}, replayFails(o) PROVE FALSE
      <4>1. drain' = Idle \/ drain' = [drain EXCEPT !.phase = "locked", !.outcome = o]
        BY <3>2 DEF replayFails
      <4>2. CASE drain' = Idle
        BY <2>2, <4>2 DEF Idle
      <4>3. CASE drain' = [drain EXCEPT !.phase = "locked", !.outcome = o]
        BY <1>a, <2>2, <4>3 DEF DrainType
      <4> QED
        BY <4>1, <4>2, <4>3
    <3>3. ASSUME NEW o \in Outcomes, serverHandles(o) PROVE FALSE
      BY <1>a, <2>2, <3>3 DEF serverHandles, DrainType
    <3>4. ~drainDone /\ ~drainQueue /\ ~replayOk /\ ~crash
      BY <1>a, <2>2 DEF drainDone, drainQueue, replayOk, crash, Idle, DrainType
    <3> QED
      BY <1>9, <3>1, <3>2, <3>3, <3>4 DEF persistRead, persistWrite, hydrateFailedSync,
         setOfflineMode, resetAllStores, lateRequest, fetch, maybeQueueOffline,
         fetchAnswered, fetchFails, dismissFailedSync, retryTap, login, vars, memory
  <2> QED
    BY <1>a, <2>1, <2>2, QuietStep
<1>10. CASE tick
  <2>1. UNCHANGED <<queue, drain, synced, surfaced>> /\ now' = now + 1
    BY <1>10 DEF tick, device, memory, history
  <2>2. now <= now'
    BY <1>a, <2>1 DEF Times
  <2> QED
    BY <2>1, <2>2, QuietStep
<1>11. CASE reportFailed
  <2>1. UNCHANGED <<queue, now, synced>> /\ surfaced \subseteq surfaced'
        /\ drain'.phase = "loop"
    BY <1>11, <1>a DEF reportFailed, recordFailed, device, outside, DrainType
  <2> QED
    BY <1>a, <2>1, QuietStep
<1> QED
  BY <1>1, <1>2, <1>3, <1>4, <1>5, <1>6, <1>7, <1>8, <1>9, <1>10, <1>11
     DEF Next, LockStep, PersistStep, DrainStep, FetchStep, UserStep, Environment

\* Both facts hold in every reachable state.
LEMMA AInvHolds == Spec => []AInv
<1>1. Init => AInv
  BY DEF Init, AInv, PruneReported, OkIsApplied, Idle
<1>2. IInv /\ AInv /\ [Next]_vars => AInv'
  BY PruneStep, OkStep DEF AInv
<1> QED
  BY Inductive, <1>1, <1>2, PTL DEF Spec

\* withQueueLock, readQueue and drainQueue: for every number of callers, restarts and
\* sign-outs, the stored queue changes as an atomic queue would, and what leaves it has
\* aged and been reported, or a replay of the resource has succeeded, or has failed and is
\* reported next, unless the app restarts first.
THEOREM Refinement == Spec => ImplementsAtomicQueue
<1>1. Init => Atomic!Init
  BY DEF Init, Atomic!Init, Replaying, Reporting, VersionsOf, Idle
<1> QED
  BY Inductive, AInvHolds, Simulation, <1>1, PTL DEF Spec, ImplementsAtomicQueue, Atomic!Spec
=============================================================================
