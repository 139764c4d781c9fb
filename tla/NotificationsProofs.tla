------------------------- MODULE NotificationsProofs -------------------------
(***************************************************************************)
(* Proofs about Notifications, for every set of users and devices and      *)
(* every value of the limits and the bounds.                               *)
(***************************************************************************)
EXTENDS Notifications, FiniteSetTheorems, SequenceTheorems, TLAPS

-----------------------------------------------------------------------------
(* The retry queue is served.                                              *)

\* A state of the retry queue, whatever its entries are.
RetryShape(q) ==
  /\ q = [queue |-> q.queue, batch |-> q.batch, draining |-> q.draining, timer |-> q.timer]
  /\ q.draining \in BOOLEAN /\ q.timer \in BOOLEAN

\* It is served: QueueIsServed of any state of it.
Served(q) ==
  /\ q.queue # <<>> => q.timer \/ q.draining
  /\ q.draining <=> q.batch # <<>>

\* Changing a field of it leaves the others.
LEMMA FieldChanges ==
  ASSUME NEW q, RetryShape(q), NEW s, NEW v
  PROVE  /\ [q EXCEPT !.queue = s]
              = [queue |-> s, batch |-> q.batch, draining |-> q.draining, timer |-> q.timer]
         /\ [q EXCEPT !.batch = v]
              = [queue |-> q.queue, batch |-> v, draining |-> q.draining, timer |-> q.timer]
         /\ [q EXCEPT !.draining = v]
              = [queue |-> q.queue, batch |-> q.batch, draining |-> v, timer |-> q.timer]
         /\ [q EXCEPT !.timer = v]
              = [queue |-> q.queue, batch |-> q.batch, draining |-> q.draining, timer |-> v]
<1>1. PICK qu, ba, dr, ti : q = [queue |-> qu, batch |-> ba, draining |-> dr, timer |-> ti]
  BY DEF RetryShape
<1>2. q.queue = qu /\ q.batch = ba /\ q.draining = dr /\ q.timer = ti
  BY <1>1
<1>3. [q EXCEPT !.queue = s] = [queue |-> s, batch |-> ba, draining |-> dr, timer |-> ti]
  BY <1>1
<1>4. [q EXCEPT !.draining = v] = [queue |-> qu, batch |-> ba, draining |-> v, timer |-> ti]
  BY <1>1
<1>5. [q EXCEPT !.timer = v] = [queue |-> qu, batch |-> ba, draining |-> dr, timer |-> v]
  BY <1>1
<1>6. [q EXCEPT !.batch = v] = [queue |-> qu, batch |-> v, draining |-> dr, timer |-> ti]
  BY <1>1
<1> QED
  BY <1>2, <1>3, <1>4, <1>5, <1>6

\* Arming the timer serves whatever is queued.
LEMMA ScheduledServes ==
  ASSUME NEW q, RetryShape(q), q.draining <=> q.batch # <<>>
  PROVE  RetryShape(Scheduled(q)) /\ Served(Scheduled(q))
<1> DEFINE t == q.timer \/ ~q.draining
           p == [queue |-> q.queue, batch |-> q.batch, draining |-> q.draining, timer |-> t]
<1>1. t \in BOOLEAN
  BY DEF RetryShape
<1>2. Scheduled(q) = [q EXCEPT !.timer = t]
  BY DEF Scheduled
<1>3. [q EXCEPT !.timer = t] = p
  <2> HIDE DEF t
  <2> QED
    BY FieldChanges
<1>4. RetryShape(p)
  <2> HIDE DEF t
  <2> QED
    BY <1>1 DEF RetryShape
<1>5. p.queue = q.queue /\ p.batch = q.batch /\ p.draining = q.draining /\ p.timer = t
  OBVIOUS
<1>6. p.timer \/ p.draining
  <2> HIDE DEF p
  <2> QED
    BY <1>5, Zenon DEF RetryShape
<1>7. Served(p)
  <2> HIDE DEF p, t
  <2> QED
    BY <1>5, <1>6, Zenon DEF Served
<1> QED
  BY <1>2, <1>3, <1>4, <1>7

\* A push that is queued is served.
LEMMA EnqueuedServes ==
  ASSUME NEW q, NEW d, RetryShape(q), Served(q)
  PROVE  RetryShape(Enqueued(q, d)) /\ Served(Enqueued(q, d))
<1> DEFINE s == Append(IF Len(q.queue) >= QueueCap THEN Tail(q.queue) ELSE q.queue,
                       [device |-> d, retries |-> 0])
           p == [q EXCEPT !.queue = s]
<1>1. p = [queue |-> s, batch |-> q.batch, draining |-> q.draining, timer |-> q.timer]
  <2> HIDE DEF s
  <2> QED
    BY FieldChanges
<1>2. RetryShape(p) /\ (p.draining <=> p.batch # <<>>)
  BY <1>1 DEF RetryShape, Served
<1>3. Enqueued(q, d) = Scheduled(p)
  BY DEF Enqueued
<1> HIDE DEF p
<1> QED
  BY <1>2, <1>3, ScheduledServes

\* So is what a drain leaves behind.
LEMMA DrainedServes ==
  ASSUME NEW q, RetryShape(q), q.draining
  PROVE  RetryShape(Drained(q)) /\ Served(Drained(q))
<1>1. CASE q.batch # <<>>
  BY <1>1 DEF Drained, RetryShape, Served
<1>2. CASE q.batch = <<>>
  <2> DEFINE idle == [q EXCEPT !.draining = FALSE]
  <2>1. idle = [queue |-> q.queue, batch |-> q.batch, draining |-> FALSE, timer |-> q.timer]
    BY FieldChanges, Zenon
  <2>2. RetryShape(idle) /\ (idle.draining <=> idle.batch # <<>>)
    BY <2>1, <1>2 DEF RetryShape
  <2>3. Drained(q) = IF idle.queue = <<>> THEN idle ELSE Scheduled(idle)
    BY <1>2 DEF Drained
  <2>4. idle.queue = <<>> => Served(idle)
    BY <2>2 DEF Served
  <2> HIDE DEF idle
  <2> QED
    BY <2>2, <2>3, <2>4, ScheduledServes
<1> QED
  BY <1>1, <1>2

\* The inductive invariant.
RetryInv == RetryShape(retry) /\ Served(retry)

\* A drain, and a resend, keep it.
LEMMA RetryingServes ==
  ASSUME RetryInv, Retrying
  PROVE  RetryInv'
<1>1. ASSUME NEW n \in 0..Len(retry.queue), NEW old \in SUBSET (1..n), drain(n, old) PROVE RetryInv'
  <2>1. CASE retry.queue = <<>>
    <3>1. retry' = [retry EXCEPT !.timer = FALSE]
      BY <1>1, <2>1 DEF drain
    <3>2. retry' = [queue |-> retry.queue, batch |-> retry.batch,
                    draining |-> retry.draining, timer |-> FALSE]
      BY <3>1, FieldChanges, Zenon DEF RetryInv
    <3> QED
      BY <3>2, <2>1 DEF RetryInv, RetryShape, Served
  <2>2. CASE retry.queue # <<>>
    <3>1. PICK s, b : retry' = Drained([queue |-> s, batch |-> b, draining |-> TRUE, timer |-> FALSE])
      BY <1>1, <2>2 DEF drain
    <3>2. RetryShape([queue |-> s, batch |-> b, draining |-> TRUE, timer |-> FALSE])
      BY DEF RetryShape
    <3> QED
      BY <3>1, <3>2, DrainedServes DEF RetryInv
  <2> QED
    BY <2>1, <2>2
<1>2. ASSUME NEW answer, resend(answer) PROVE RetryInv'
  <2>1. retry.batch # <<>>
    BY <1>2 DEF resend
  <2> DEFINE rest == [retry EXCEPT !.batch = Tail(@)]
  <2>2. rest = [queue |-> retry.queue, batch |-> Tail(retry.batch),
                draining |-> retry.draining, timer |-> retry.timer]
    BY FieldChanges DEF RetryInv
  <2>3. RetryShape(rest) /\ rest.draining
    BY <2>1, <2>2 DEF RetryInv, RetryShape, Served
  <2>4. PICK s : retry' = Drained([rest EXCEPT !.queue = s])
    BY <1>2 DEF resend
  <2> HIDE DEF rest
  <2> DEFINE q == [rest EXCEPT !.queue = s]
  <2>5. q = [queue |-> s, batch |-> rest.batch, draining |-> rest.draining, timer |-> rest.timer]
    BY <2>3, FieldChanges
  <2>6. RetryShape(q) /\ q.draining
    BY <2>3, <2>5 DEF RetryShape
  <2> HIDE DEF q
  <2> QED
    BY <2>4, <2>6, DrainedServes DEF RetryInv, q
<1> QED
  BY <1>1, <1>2 DEF Retrying

\* So does every step: only a push that fails and a crash touch the queue besides.
LEMMA StepServes ==
  ASSUME RetryInv, [Next]_vars
  PROVE  RetryInv'
<1>1. CASE Retrying
  BY <1>1, RetryingServes
<1>2. CASE crash
  BY <1>2 DEF crash, NoRetry, RetryInv, RetryShape, Served
<1>3. ASSUME NEW x \in Runs, NEW u \in Users, NEW d \in Devices, NEW answer \in Answers,
             sendToDevice(x, u, d, answer)
      PROVE  RetryInv'
  <2>1. retry' = Enqueued(retry, d) \/ retry' = retry
    BY <1>3 DEF sendToDevice
  <2> QED
    BY <2>1, EnqueuedServes DEF RetryInv
<1>4. CASE UNCHANGED retry
  BY <1>4 DEF RetryInv
<1>5. ASSUME NEW x \in Runs, Executor(x)
      PROVE  \/ UNCHANGED retry
             \/ \E u \in Users, d \in Devices, answer \in Answers : sendToDevice(x, u, d, answer)
  BY <1>5 DEF Executor, lookup, lookupFails, filterFresh, filterThrows, pushFanout, mailFilter,
              loadUsersFails, logMail, logMailFails, finish, look, lookThrows, logNotification,
              logFails, unregister, mail, mailFails
<1>6. enqueue \/ enqueueFails \/ forget \/ work \/ UNCHANGED vars => UNCHANGED retry
  BY DEF enqueue, enqueueFails, forget, work, vars
<1> QED
  BY <1>1, <1>2, <1>3, <1>4, <1>5, <1>6 DEF Next

\* createRetryQueue: what waits to be resent is never forgotten, through every interleaving of
\* pushes that fail, drains, resends, entries that age out and crashes.
THEOREM QueueServed == Spec => []QueueIsServed
<1>1. Init => RetryInv
  BY DEF Init, NoRetry, RetryInv, RetryShape, Served
<1>2. RetryInv /\ [Next]_vars => RetryInv'
  BY StepServes
<1>3. RetryInv => QueueIsServed
  BY DEF RetryInv, Served, QueueIsServed
<1> QED
  BY <1>1, <1>2, <1>3, PTL DEF Spec

-----------------------------------------------------------------------------
(* Nobody the event is for is lost.                                        *)

Stages == {"idle", "lookup", "filter", "push", "mailFilter", "mail", "mailLog"}
Steps == {"none", "look", "send", "log", "clean"}

RunType == [pc : Stages, fresh : SUBSET Users, todo : SUBSET Users, mailing : Users \cup {None}]
SendType == [step : Steps, device : Devices \cup {None}, left : SUBSET Devices, stale : SUBSET Devices]

\* The history has its fields.
Fields == {"tried", "unsure", "mailUnsure", "mailFailed", "overlap", "misread", "done"}

PastShape(p) == p = [f \in Fields |-> p[f]]

\* The types of what the argument is about.
FanOutType ==
  /\ run \in [Runs -> RunType] /\ at \in [Runs -> [Users -> SendType]] /\ rows \subseteq Users
  /\ PastShape(past) /\ past.tried \subseteq Users

\* A run in state r whose sends are a covers everybody: who was not tried yet is still to come,
\* or is being pushed to.
Covers(r, a, tried) ==
  /\ r.pc = "push" => \A u \in Users : u \in tried \/ u \in r.todo \/ a[u].step \in {"look", "send"}
  /\ r.pc \in {"mailFilter", "mail", "mailLog"} => Users \subseteq tried

\* Only who was tried has a push to log or a dead token.
SendsTried(a, tried) ==
  \A u \in Users : /\ a[u].step \in {"log", "clean"} => u \in tried
                   /\ a[u].step = "look" => a[u].stale = {}

\* The inductive invariant, as long as no read has failed.
FanOutInv ==
  /\ rows \subseteq past.tried
  /\ past.done => Users \subseteq past.tried
  /\ \A x \in Runs : Covers(run[x], at[x], past.tried) /\ SendsTried(at[x], past.tried)

FanOutOk == FanOutType /\ (past.misread \/ FanOutInv)

\* What has happened is not undone: more users are tried, and a failed read stays one.
LEMMA CoversMore ==
  ASSUME NEW r, NEW a, NEW S, NEW T, S \subseteq T
  PROVE  /\ Covers(r, a, S) => Covers(r, a, T)
         /\ SendsTried(a, S) => SendsTried(a, T)
BY DEF Covers, SendsTried

\* A run that is not fanning out covers everybody trivially.
LEMMA NotStartedCovers ==
  ASSUME NEW r, r.pc \in {"idle", "lookup", "filter"}, NEW a, NEW T
  PROVE  Covers(r, a, T)
BY DEF Covers

\* No sends are in order.
LEMMA NoSendsTried == ASSUME NEW T PROVE SendsTried(NoSends, T)
BY DEF SendsTried, NoSends, NoSend

\* The next step of a send has its type; it is a look or a push only if devices are left.
LEMMA OnwardStep ==
  ASSUME NEW m \in SendType
  PROVE  /\ Onward(m) \in SendType
         /\ m.left # {} => Onward(m).step = "send"
         /\ m.left = {} => Onward(m).step \in {"none", "clean"}
         /\ m.left = {} /\ m.stale = {} => Onward(m).step = "none"
BY DEF Onward, SendType, Steps, NoSend

\* A step of one send leaves the other sends alone.
LEMMA SendChanges ==
  ASSUME FanOutType, NEW x \in Runs, NEW u \in Users, NEW m \in SendType,
         at' = [at EXCEPT ![x][u] = m]
  PROVE  /\ at' \in [Runs -> [Users -> SendType]]
         /\ \A y \in Runs, v \in Users : at'[y][v] = IF y = x /\ v = u THEN m ELSE at[y][v]
<1>1. at \in [Runs -> [Users -> SendType]]
  BY DEF FanOutType
<1>2. at' = [at EXCEPT ![x] = [at[x] EXCEPT ![u] = m]]
  OBVIOUS
<1>3. at[x] \in [Users -> SendType]
  BY <1>1
<1>4. [at[x] EXCEPT ![u] = m] \in [Users -> SendType]
  BY <1>3
<1>5. at'[x] = [at[x] EXCEPT ![u] = m] /\ \A y \in Runs \ {x} : at'[y] = at[y]
  BY <1>1, <1>2
<1>6. at' \in [Runs -> [Users -> SendType]]
  BY <1>1, <1>2, <1>4
<1>7. \A v \in Users : at'[x][v] = IF v = u THEN m ELSE at[x][v]
  BY <1>3, <1>5
<1> QED
  BY <1>5, <1>6, <1>7

\* A step of one run leaves the other runs alone.
LEMMA RunChanges ==
  ASSUME FanOutType, NEW x \in Runs, NEW r \in RunType, run' = [run EXCEPT ![x] = r]
  PROVE  /\ run' \in [Runs -> RunType]
         /\ run'[x] = r /\ \A y \in Runs \ {x} : run'[y] = run[y]
BY DEF FanOutType

\* A step of run x, to r, that leaves the sends, the log and who was tried alone.
LEMMA RunStep ==
  ASSUME FanOutOk, NEW x \in Runs, NEW r \in RunType, run' = [run EXCEPT ![x] = r],
         UNCHANGED <<at, rows>>, PastShape(past'), past'.tried = past.tried,
         past.misread => past'.misread,
         past'.done = past.done \/ (FanOutInv => Users \subseteq past.tried),
         FanOutInv => Covers(r, at[x], past.tried)
  PROVE  FanOutOk'
<1>1. FanOutType'
  BY RunChanges DEF FanOutOk, FanOutType
<1>2. ASSUME ~past'.misread PROVE FanOutInv'
  <2>1. FanOutInv
    BY <1>2 DEF FanOutOk
  <2>2. rows' \subseteq past'.tried /\ (past'.done => Users \subseteq past'.tried)
    BY <2>1 DEF FanOutInv
  <2>3. \A y \in Runs : Covers(run'[y], at'[y], past'.tried) /\ SendsTried(at'[y], past'.tried)
    BY <2>1, RunChanges DEF FanOutInv, FanOutOk
  <2> QED
    BY <2>2, <2>3 DEF FanOutInv
<1> QED
  BY <1>1, <1>2 DEF FanOutOk

\* The steps of a run that only move it on.
LEMMA QuietRuns ==
  ASSUME FanOutOk, NEW x \in Runs,
         \/ lookup(x) \/ filterFresh(x) \/ filterThrows(x) \/ mailFilter(x) \/ loadUsersFails(x)
         \/ logMail(x) \/ logMailFails(x) \/ finish(x)
         \/ \E u \in Users : mail(x, u) \/ \E taken \in BOOLEAN : mailFails(x, u, taken)
  PROVE  FanOutOk'
<1>0. run[x] \in RunType /\ NoRun \in RunType /\ PastShape(past)
  BY DEF FanOutOk, FanOutType, RunType, NoRun, Stages
<1>1. CASE lookup(x)
  <2> DEFINE r == [run[x] EXCEPT !.pc = "filter"]
  <2>1. r \in RunType /\ r.pc = "filter"
    BY <1>0 DEF RunType, Stages
  <2>2. run' = [run EXCEPT ![x] = r] /\ UNCHANGED <<at, rows, past>>
    BY <1>1 DEF lookup
  <2> HIDE DEF r
  <2>3. Covers(r, at[x], past.tried)
    BY <2>1, NotStartedCovers
  <2> QED
    BY <1>0, <2>1, <2>2, <2>3, RunStep
<1>2. CASE filterFresh(x)
  <2> DEFINE r == [run[x] EXCEPT !.pc = "push", !.fresh = Fresh, !.todo = Fresh]
  <2>1. r \in RunType /\ r.pc = "push" /\ r.todo = Fresh
    BY <1>0 DEF RunType, Stages, Fresh
  <2>2. run' = [run EXCEPT ![x] = r] /\ UNCHANGED <<at, rows, past>>
    BY <1>2 DEF filterFresh
  <2>3. FanOutInv => Covers(r, at[x], past.tried)
    <3> HIDE DEF r
    <3> QED
      BY <2>1 DEF FanOutInv, Covers, Fresh
  <2> HIDE DEF r
  <2> QED
    BY <1>0, <2>1, <2>2, <2>3, RunStep
<1>3. CASE filterThrows(x)
  <2>1. run' = [run EXCEPT ![x] = NoRun] /\ UNCHANGED <<at, rows, past>>
    BY <1>3 DEF filterThrows, Thrown
  <2>2. Covers(NoRun, at[x], past.tried)
    BY NotStartedCovers DEF NoRun
  <2> QED
    BY <1>0, <2>1, <2>2, RunStep
<1>4. CASE mailFilter(x)
  <2> DEFINE r == [run[x] EXCEPT !.pc = "mail", !.todo = Recipients(x)]
  <2>1. r \in RunType /\ r.pc = "mail"
    BY <1>0 DEF RunType, Stages, Recipients
  <2>2. run' = [run EXCEPT ![x] = r] /\ UNCHANGED <<at, rows, past>> /\ run[x].pc = "mailFilter"
    BY <1>4 DEF mailFilter
  <2>3. FanOutInv => Covers(r, at[x], past.tried)
    <3> HIDE DEF r
    <3> QED
      BY <2>1, <2>2 DEF FanOutInv, Covers
  <2> HIDE DEF r
  <2> QED
    BY <1>0, <2>1, <2>2, <2>3, RunStep
<1>5. CASE loadUsersFails(x)
  <2> DEFINE r == [run[x] EXCEPT !.pc = "mail"]
  <2>1. r \in RunType /\ r.pc = "mail"
    BY <1>0 DEF RunType, Stages
  <2>2. run' = [run EXCEPT ![x] = r] /\ UNCHANGED <<at, rows>> /\ run[x].pc = "mailFilter"
    BY <1>5 DEF loadUsersFails
  <2>3. FanOutInv => Covers(r, at[x], past.tried)
    <3> HIDE DEF r
    <3> QED
      BY <2>1, <2>2 DEF FanOutInv, Covers
  <2>4. past' = [past EXCEPT !.mailFailed = Users]
    BY <1>5 DEF loadUsersFails
  <2>5. PastShape(past') /\ past'.tried = past.tried /\ past'.done = past.done
        /\ past'.misread = past.misread
    BY <2>4, <1>0 DEF PastShape, Fields
  <2> HIDE DEF r
  <2> QED
    BY <2>1, <2>2, <2>3, <2>5, RunStep
<1>6. ASSUME NEW u \in Users, mail(x, u) PROVE FanOutOk'
  <2> DEFINE r == [run[x] EXCEPT !.pc = "mailLog", !.todo = run[x].todo \ {u}, !.mailing = u]
  <2>1. r \in RunType /\ r.pc = "mailLog"
    BY <1>0 DEF RunType, Stages
  <2>2. run' = [run EXCEPT ![x] = r] /\ UNCHANGED <<at, rows, past>>
    BY <1>6 DEF mail
  <2>3. FanOutInv => Covers(r, at[x], past.tried)
    <3>1. run[x].pc = "mail"
      BY <1>6 DEF mail
    <3> HIDE DEF r
    <3> QED
      BY <2>1, <3>1 DEF FanOutInv, Covers
  <2> HIDE DEF r
  <2> QED
    BY <1>0, <2>1, <2>2, <2>3, RunStep
<1>7. ASSUME NEW u \in Users, NEW taken \in BOOLEAN, mailFails(x, u, taken) PROVE FanOutOk'
  <2> DEFINE r == [run[x] EXCEPT !.todo = @ \ {u}]
  <2>1. r \in RunType /\ r.pc = "mail" /\ run[x].pc = "mail"
    BY <1>0, <1>7 DEF RunType, Stages, mailFails
  <2>2. run' = [run EXCEPT ![x] = r] /\ UNCHANGED <<at, rows>>
    BY <1>7 DEF mailFails
  <2>3. FanOutInv => Covers(r, at[x], past.tried)
    <3> HIDE DEF r
    <3> QED
      BY <2>1 DEF FanOutInv, Covers
  <2>4. PICK v : past' = [past EXCEPT !.mailFailed = @ \cup {u}, !.mailUnsure = v]
    BY <1>7 DEF mailFails
  <2>5. PastShape(past') /\ past'.tried = past.tried /\ past'.done = past.done
        /\ past'.misread = past.misread
    BY <2>4, <1>0 DEF PastShape, Fields
  <2> HIDE DEF r
  <2> QED
    BY <2>1, <2>2, <2>3, <2>5, RunStep
<1>8. CASE logMail(x) \/ logMailFails(x)
  <2> DEFINE r == [run[x] EXCEPT !.pc = "mail", !.mailing = None]
  <2>1. r \in RunType /\ r.pc = "mail" /\ run[x].pc = "mailLog"
    BY <1>0, <1>8 DEF RunType, Stages, logMail, logMailFails
  <2>2. run' = [run EXCEPT ![x] = r] /\ UNCHANGED <<at, rows>>
    BY <1>8 DEF logMail, logMailFails, Mailed
  <2>3. FanOutInv => Covers(r, at[x], past.tried)
    <3> HIDE DEF r
    <3> QED
      BY <2>1 DEF FanOutInv, Covers
  <2>4. past' = past \/ past' = [past EXCEPT !.mailUnsure = @ \cup {run[x].mailing}]
    BY <1>8 DEF logMail, logMailFails
  <2>5. PastShape(past') /\ past'.tried = past.tried /\ past'.done = past.done
        /\ past'.misread = past.misread
    BY <2>4, <1>0 DEF PastShape, Fields
  <2> HIDE DEF r
  <2> QED
    BY <2>1, <2>2, <2>3, <2>5, RunStep
<1>9. CASE finish(x)
  <2>1. run' = [run EXCEPT ![x] = NoRun] /\ UNCHANGED <<at, rows>> /\ run[x].pc = "mail"
    BY <1>9 DEF finish, Ended
  <2>2. past' = [past EXCEPT !.done = TRUE]
    BY <1>9 DEF finish
  <2>3. PastShape(past') /\ past'.tried = past.tried /\ past'.misread = past.misread
    BY <2>2, <1>0 DEF PastShape, Fields
  <2>4. FanOutInv => Users \subseteq past.tried
    BY <2>1 DEF FanOutInv, Covers
  <2>5. Covers(NoRun, at[x], past.tried)
    BY NotStartedCovers DEF NoRun
  <2> QED
    BY <1>0, <2>1, <2>3, <2>4, <2>5, RunStep
<1> QED
  BY <1>1, <1>2, <1>3, <1>4, <1>5, <1>6, <1>7, <1>8, <1>9

\* A step of one send, to m, after which u has been tried if it is over or logs.
LEMMA SendStep ==
  ASSUME FanOutOk, NEW x \in Runs, NEW u \in Users, NEW m \in SendType,
         at' = [at EXCEPT ![x][u] = m], UNCHANGED run, rows' \subseteq Users,
         PastShape(past'), past'.tried \subseteq Users, past.tried \subseteq past'.tried,
         rows' \subseteq rows \cup past'.tried,
         past.misread => past'.misread, past'.done = past.done,
         FanOutInv /\ ~past'.misread =>
           m.step = "send" \/ (m.step \in {"none", "log", "clean"} /\ u \in past'.tried)
  PROVE  FanOutOk'
<1>1. FanOutType'
  BY SendChanges DEF FanOutOk, FanOutType
<1>2. ASSUME ~past'.misread PROVE FanOutInv'
  <2>1. FanOutInv
    BY <1>2 DEF FanOutOk
  <2>2. rows' \subseteq past'.tried /\ (past'.done => Users \subseteq past'.tried)
    BY <2>1 DEF FanOutInv
  <2>3. m.step = "send" \/ (m.step \in {"none", "log", "clean"} /\ u \in past'.tried)
    BY <1>2, <2>1
  <2>4. \A y \in Runs, v \in Users : at'[y][v] = IF y = x /\ v = u THEN m ELSE at[y][v]
    BY SendChanges DEF FanOutOk
  <2>5. ASSUME NEW y \in Runs PROVE Covers(run'[y], at'[y], past'.tried) /\ SendsTried(at'[y], past'.tried)
    <3>1. Covers(run[y], at[y], past.tried) /\ SendsTried(at[y], past.tried)
      BY <2>1 DEF FanOutInv
    <3>2. Covers(run[y], at[y], past'.tried) /\ SendsTried(at[y], past'.tried)
      BY <3>1, CoversMore
    <3> QED
      BY <2>3, <2>4, <3>2 DEF Covers, SendsTried
  <2> QED
    BY <2>2, <2>5 DEF FanOutInv
<1> QED
  BY <1>1, <1>2 DEF FanOutOk

\* The steps of notify.send.
LEMMA Sends ==
  ASSUME FanOutOk, NEW x \in Runs, NEW u \in Users,
         \/ look(x, u) \/ lookThrows(x, u) \/ logNotification(x, u) \/ logFails(x, u)
         \/ unregister(x, u)
         \/ \E d \in Devices, answer \in Answers : sendToDevice(x, u, d, answer)
  PROVE  FanOutOk'
<1>0. /\ at[x][u] \in SendType /\ NoSend \in SendType /\ PastShape(past)
      /\ rows \subseteq Users /\ past.tried \subseteq Users
  BY DEF FanOutOk, FanOutType, SendType, NoSend, Steps
<1>1. FanOutInv => /\ at[x][u].step \in {"log", "clean"} => u \in past.tried
                   /\ at[x][u].step = "look" => at[x][u].stale = {}
  BY DEF FanOutInv, SendsTried
<1>2. CASE look(x, u)
  <2> DEFINE left == IF u \in OptedOut THEN {} ELSE TokensOf(u)
             n == [at[x][u] EXCEPT !.left = left]
  <2>1. at[x][u].step = "look" /\ UNCHANGED <<run, rows>>
    BY <1>2 DEF look
  <2>2. at' = [at EXCEPT ![x][u] = Onward(n)]
    BY <1>2 DEF look
  <2>3. left \subseteq Devices
    BY DEF TokensOf
  <2>4. n \in SendType /\ n.left = left /\ n.stale = at[x][u].stale
    <3> HIDE DEF left
    <3> QED
      BY <1>0, <2>3 DEF SendType
  <2>5. past' = IF left = {} THEN [past EXCEPT !.tried = @ \cup {u}] ELSE past
    BY <1>2 DEF look
  <2>6. PastShape(past') /\ past'.tried \subseteq Users /\ past.tried \subseteq past'.tried
        /\ past'.misread = past.misread /\ past'.done = past.done
        /\ (left = {} => u \in past'.tried)
    <3> HIDE DEF left
    <3> QED
      BY <1>0, <2>5 DEF PastShape, Fields
  <2> HIDE DEF n, left
  <2>7. Onward(n) \in SendType
    BY <2>4, OnwardStep
  <2>8. FanOutInv => Onward(n).step = "send" \/ (Onward(n).step = "none" /\ u \in past'.tried)
    BY <1>1, <2>1, <2>4, <2>6, OnwardStep
  <2> QED
    BY <1>0, <2>1, <2>2, <2>6, <2>7, <2>8, SendStep
<1>3. CASE lookThrows(x, u)
  <2>1. at' = [at EXCEPT ![x][u] = NoSend] /\ UNCHANGED <<run, rows>>
    BY <1>3 DEF lookThrows
  <2>2. past' = [past EXCEPT !.misread = TRUE]
    BY <1>3 DEF lookThrows
  <2>3. PastShape(past') /\ past'.tried = past.tried /\ past'.misread /\ past'.done = past.done
    BY <2>2, <1>0 DEF PastShape, Fields
  <2> QED
    BY <1>0, <2>1, <2>3, SendStep
<1>4. CASE logNotification(x, u) \/ logFails(x, u)
  <2>1. at[x][u].step = "log" /\ UNCHANGED run /\ at' = [at EXCEPT ![x][u] = Onward(at[x][u])]
    BY <1>4 DEF logNotification, logFails
  <2>2. rows' \subseteq rows \cup {u} /\ (logFails(x, u) => rows' = rows)
    BY <1>4 DEF logNotification, logFails, Logged
  <2>3. past' = past \/ past' = [past EXCEPT !.unsure = @ \cup {at[x][u].device}]
    BY <1>4 DEF logNotification, logFails
  <2>4. PastShape(past') /\ past'.tried = past.tried /\ past'.misread = past.misread
        /\ past'.done = past.done
    BY <2>3, <1>0 DEF PastShape, Fields
  <2>5. Onward(at[x][u]) \in SendType /\ Onward(at[x][u]).step \in {"none", "send", "clean"}
    BY <1>0, OnwardStep
  <2>6. CASE u \in past.tried
    BY <1>0, <2>1, <2>2, <2>4, <2>5, <2>6, SendStep
  <2>7. CASE u \notin past.tried
    <3>1. ~FanOutInv /\ past.misread
      BY <1>1, <2>1, <2>7 DEF FanOutOk
    <3>2. FanOutType'
      BY <1>0, <2>1, <2>2, <2>4, <2>5, SendChanges DEF FanOutOk, FanOutType
    <3> QED
      BY <2>4, <3>1, <3>2 DEF FanOutOk
  <2> QED
    BY <2>6, <2>7
<1>5. CASE unregister(x, u)
  <2>1. at[x][u].step = "clean" /\ at' = [at EXCEPT ![x][u] = NoSend] /\ UNCHANGED <<run, rows, past>>
    BY <1>5 DEF unregister
  <2>2. NoSend.step = "none"
    BY DEF NoSend
  <2> QED
    BY <1>0, <1>1, <2>1, <2>2, SendStep
<1>6. ASSUME NEW d \in Devices, NEW answer \in Answers, sendToDevice(x, u, d, answer)
      PROVE  FanOutOk'
  <2> DEFINE m == [step |-> "log", device |-> d, left |-> at[x][u].left \ {d},
                   stale |-> IF answer = "dead" THEN at[x][u].stale \cup {d} ELSE at[x][u].stale]
             unsure == IF answer = "late" THEN past.unsure \cup {d} ELSE past.unsure
  <2>1. at' = [at EXCEPT ![x][u] = m] /\ UNCHANGED <<run, rows>>
    BY <1>6 DEF sendToDevice
  <2>2. m \in SendType /\ m.step = "log"
    BY <1>0 DEF SendType, Steps
  <2>3. past' = [past EXCEPT !.tried = @ \cup {u}, !.unsure = unsure]
    BY <1>6 DEF sendToDevice
  <2> HIDE DEF m, unsure
  <2>4. PastShape(past') /\ past'.tried = past.tried \cup {u} /\ past'.misread = past.misread
        /\ past'.done = past.done
    BY <2>3, <1>0 DEF PastShape, Fields
  <2> QED
    BY <1>0, <2>1, <2>2, <2>4, SendStep
<1> QED
  BY <1>2, <1>3, <1>4, <1>5, <1>6

\* The next chunk of a fan-out is pushed to: who leaves the run's list is being looked up.
LEMMA FanOutStep ==
  ASSUME FanOutOk, NEW x \in Runs, pushFanout(x)
  PROVE  FanOutOk'
<1>0. /\ run[x] \in RunType /\ run \in [Runs -> RunType] /\ at \in [Runs -> [Users -> SendType]]
      /\ PastShape(past)
  BY DEF FanOutOk, FanOutType
<1>1. run[x].pc = "push" /\ at[x] = NoSends /\ UNCHANGED <<rows, past>>
  BY DEF pushFanout
<1>2. CASE run[x].todo = {}
  <2> DEFINE r == [run[x] EXCEPT !.pc = "mailFilter"]
  <2>1. r \in RunType /\ r.pc = "mailFilter"
    BY <1>0 DEF RunType, Stages
  <2>2. run' = [run EXCEPT ![x] = r] /\ UNCHANGED at
    BY <1>2 DEF pushFanout
  <2>3. FanOutInv => Users \subseteq past.tried
    BY <1>1, <1>2 DEF FanOutInv, Covers, NoSends, NoSend
  <2> HIDE DEF r
  <2>4. FanOutInv => Covers(r, at[x], past.tried)
    BY <2>1, <2>3 DEF Covers
  <2> QED
    BY <1>0, <1>1, <2>1, <2>2, <2>4, RunStep
<1>3. CASE run[x].todo # {}
  <2>1. PICK us : /\ run' = [run EXCEPT ![x].todo = Rest(@, us)]
                  /\ at' = [at EXCEPT ![x] = [u \in Users |->
                              IF u \in us THEN [NoSend EXCEPT !.step = "look"] ELSE NoSend]]
    BY <1>3 DEF pushFanout
  <2> DEFINE r == [run[x] EXCEPT !.todo = @ \ us]
             a == [u \in Users |-> IF u \in us THEN [NoSend EXCEPT !.step = "look"] ELSE NoSend]
  <2>2. r \in RunType /\ r.pc = "push" /\ r.todo = run[x].todo \ us
    BY <1>0, <1>1 DEF RunType
  <2>3. run' = [run EXCEPT ![x] = r]
    BY <2>1 DEF Rest
  <2>4. [NoSend EXCEPT !.step = "look"] \in SendType /\ NoSend \in SendType
    BY DEF NoSend, SendType, Steps
  <2>5. a \in [Users -> SendType]
    BY <2>4
  <2>6. at' = [at EXCEPT ![x] = a]
    BY <2>1
  <2>7. \A u \in Users : /\ a[u].step = IF u \in us THEN "look" ELSE "none"
                         /\ a[u].stale = {}
    BY DEF NoSend
  <2> HIDE DEF r, a
  <2>8. at' \in [Runs -> [Users -> SendType]] /\ at'[x] = a /\ \A y \in Runs \ {x} : at'[y] = at[y]
    BY <1>0, <2>5, <2>6
  <2>9. run' \in [Runs -> RunType] /\ run'[x] = r /\ \A y \in Runs \ {x} : run'[y] = run[y]
    BY <1>0, <2>2, <2>3
  <2>10. FanOutType'
    BY <1>1, <2>8, <2>9 DEF FanOutOk, FanOutType
  <2>11. ASSUME FanOutInv PROVE FanOutInv'
    <3>1. Covers(r, a, past.tried)
      <4>1. \A u \in Users : u \in past.tried \/ u \in run[x].todo
        BY <1>1, <2>11 DEF FanOutInv, Covers, NoSends, NoSend
      <4> QED
        BY <2>2, <2>7, <4>1 DEF Covers
    <3>2. SendsTried(a, past.tried)
      BY <2>7 DEF SendsTried
    <3>3. \A y \in Runs : Covers(run'[y], at'[y], past'.tried) /\ SendsTried(at'[y], past'.tried)
      BY <1>1, <2>8, <2>9, <2>11, <3>1, <3>2 DEF FanOutInv
    <3> QED
      BY <1>1, <2>11, <3>3 DEF FanOutInv
  <2> QED
    BY <1>1, <2>10, <2>11 DEF FanOutOk
<1> QED
  BY <1>2, <1>3

\* A run starts.
LEMMA StartStep ==
  ASSUME FanOutOk, NEW x \in Runs, Started(x), UNCHANGED <<at, rows>>
  PROVE  FanOutOk'
<1> DEFINE r == [NoRun EXCEPT !.pc = "lookup"]
<1>1. r \in RunType /\ r.pc = "lookup"
  BY DEF NoRun, RunType, Stages
<1>2. run' = [run EXCEPT ![x] = r]
  BY DEF Started
<1> DEFINE o == past.overlap \/ \E y \in Runs \ {x} : Running(y)
<1>3. past' = [past EXCEPT !.overlap = o]
  BY DEF Started
<1> HIDE DEF r, o
<1>4. PastShape(past') /\ past'.tried = past.tried /\ past'.misread = past.misread
      /\ past'.done = past.done
  BY <1>3 DEF FanOutOk, FanOutType, PastShape, Fields
<1>5. Covers(r, at[x], past.tried)
  BY <1>1, NotStartedCovers
<1> QED
  BY <1>1, <1>2, <1>4, <1>5, RunStep

\* The process dies, and every run and send with it.
LEMMA CrashStep ==
  ASSUME FanOutOk, crash
  PROVE  FanOutOk'
<1>1. run' = [x \in Runs |-> NoRun] /\ at' = [x \in Runs |-> NoSends] /\ rows' = rows
  BY DEF crash
<1>2. NoRun \in RunType /\ NoRun.pc = "idle"
  BY DEF NoRun, RunType, Stages
<1>3. NoSends \in [Users -> SendType]
  BY DEF NoSends, NoSend, SendType, Steps
<1>4. PICK v, w : past' = [past EXCEPT !.unsure = v, !.mailUnsure = w]
  BY DEF crash
<1>5. PastShape(past') /\ past'.tried = past.tried /\ past'.misread = past.misread
      /\ past'.done = past.done
  BY <1>4 DEF FanOutOk, FanOutType, PastShape, Fields
<1>6. FanOutType'
  BY <1>1, <1>2, <1>3, <1>5 DEF FanOutOk, FanOutType
<1>7. \A x \in Runs : Covers(run'[x], at'[x], past'.tried) /\ SendsTried(at'[x], past'.tried)
  BY <1>1, <1>2, NotStartedCovers, NoSendsTried
<1>8. FanOutInv => FanOutInv'
  BY <1>1, <1>5, <1>7 DEF FanOutInv
<1> QED
  BY <1>5, <1>6, <1>8 DEF FanOutOk

\* The targets cannot be read: the run ends, and this is remembered.
LEMMA MisreadStep ==
  ASSUME FanOutOk, NEW x \in Runs, lookupFails(x)
  PROVE  FanOutOk'
<1>1. run' = [run EXCEPT ![x] = NoRun] /\ UNCHANGED <<at, rows>>
  BY DEF lookupFails, Ended
<1>2. NoRun \in RunType
  BY DEF NoRun, RunType, Stages
<1>3. past' = [past EXCEPT !.misread = TRUE]
  BY DEF lookupFails
<1>4. PastShape(past') /\ past'.tried = past.tried /\ past'.misread
  BY <1>3 DEF FanOutOk, FanOutType, PastShape, Fields
<1>5. FanOutType'
  BY <1>1, <1>2, <1>4, RunChanges DEF FanOutOk, FanOutType
<1> QED
  BY <1>4, <1>5 DEF FanOutOk

\* The retry queue only adds to the history that a push may have arrived.
LEMMA RetryingPast ==
  ASSUME PastShape(past), Retrying
  PROVE  /\ PastShape(past') /\ past.unsure \subseteq past'.unsure
         /\ UNCHANGED <<past.tried, past.done, past.misread, past.overlap, past.mailUnsure>>
<1>1. \/ past' = past
      \/ \E answer \in Answers : past' =
           [past EXCEPT !.unsure = IF answer = "late" THEN @ \cup {Head(retry.batch).device} ELSE @]
  BY DEF Retrying, drain, resend
<1>2. past' = past \/ \E v : past.unsure \subseteq v /\ past' = [past EXCEPT !.unsure = v]
  BY <1>1
<1> QED
  BY <1>2 DEF PastShape, Fields

\* The invariant is inductive.
LEMMA FanOutInductive ==
  ASSUME FanOutOk, [Next]_vars
  PROVE  FanOutOk'
<1>1. CASE UNCHANGED <<run, at, rows, past>>
  BY <1>1 DEF FanOutOk, FanOutType, FanOutInv
<1>2. enqueue \/ forget \/ UNCHANGED vars => UNCHANGED <<run, at, rows, past>>
  BY DEF enqueue, forget, vars
<1>3. CASE Retrying
  <2>1. UNCHANGED <<run, at, rows>>
    BY <1>3 DEF Retrying, drain, resend
  <2>2. PastShape(past') /\ UNCHANGED <<past.tried, past.done, past.misread>>
    BY <1>3, RetryingPast DEF FanOutOk, FanOutType
  <2> QED
    BY <2>1, <2>2 DEF FanOutOk, FanOutType, FanOutInv
<1>4. CASE enqueueFails \/ work
  BY <1>4, StartStep DEF enqueueFails, work, Runs
<1>5. CASE crash
  BY <1>5, CrashStep
<1>6. ASSUME NEW x \in Runs, Executor(x) PROVE FanOutOk'
  BY <1>6, MisreadStep, FanOutStep, QuietRuns, Sends DEF Executor
<1> QED
  BY <1>1, <1>2, <1>3, <1>4, <1>5, <1>6 DEF Next

\* It holds at the start.
LEMMA FanOutStarts == Init => FanOutOk
<1> SUFFICES ASSUME Init PROVE FanOutOk
  OBVIOUS
<1>1. NoRun \in RunType /\ NoRun.pc = "idle"
  BY DEF NoRun, RunType, Stages
<1>2. NoSends \in [Users -> SendType]
  BY DEF NoSends, NoSend, SendType, Steps
<1>3. run = [x \in Runs |-> NoRun] /\ at = [x \in Runs |-> NoSends] /\ rows = {}
  BY DEF Init
<1>4. PastShape(past) /\ past.tried = {} /\ ~past.done
  BY DEF Init, PastShape, Fields
<1>5. \A x \in Runs : Covers(run[x], at[x], past.tried) /\ SendsTried(at[x], past.tried)
  BY <1>1, <1>3, NotStartedCovers, NoSendsTried
<1> QED
  BY <1>1, <1>2, <1>3, <1>4, <1>5 DEF FanOutOk, FanOutType, FanOutInv

\* pushFanout and the job queue: when a run has returned, everybody the event is for was tried,
\* through every interleaving of runs and every crash and retried job, for every number of users
\* and devices and every size of a chunk, unless a read of the targets or of a user failed.
THEOREM NobodyIsLost == Spec => []EveryoneTried
<1>1. Init => FanOutOk
  BY FanOutStarts
<1>2. FanOutOk /\ [Next]_vars => FanOutOk'
  BY FanOutInductive
<1>3. FanOutOk => EveryoneTried
  BY DEF FanOutOk, FanOutType, FanOutInv, EveryoneTried
<1> QED
  BY <1>1, <1>2, <1>3, PTL DEF Spec

-----------------------------------------------------------------------------
(* The types, and the sizes of the retry queue.                            *)

\* A push that waits to be resent.
Entry == [device : Devices \ Ios, retries : 0..MaxRetries]

\* Arming the timer leaves what waits alone.
LEMMA ScheduledFields ==
  ASSUME NEW q, RetryShape(q)
  PROVE  Scheduled(q).queue = q.queue /\ Scheduled(q).batch = q.batch
<1> DEFINE t == q.timer \/ ~q.draining
<1>1. Scheduled(q) = [q EXCEPT !.timer = t]
  BY DEF Scheduled
<1>2. [q EXCEPT !.timer = t]
        = [queue |-> q.queue, batch |-> q.batch, draining |-> q.draining, timer |-> t]
  <2> HIDE DEF t
  <2> QED
    BY FieldChanges
<1> HIDE DEF t
<1> QED
  BY <1>1, <1>2

\* What waits once a push has been queued.
LEMMA EnqueuedFields ==
  ASSUME NEW q, RetryShape(q), NEW d
  PROVE  /\ Enqueued(q, d).batch = q.batch
         /\ Enqueued(q, d).queue =
              Append(IF Len(q.queue) >= QueueCap THEN Tail(q.queue) ELSE q.queue,
                     [device |-> d, retries |-> 0])
<1> DEFINE s == Append(IF Len(q.queue) >= QueueCap THEN Tail(q.queue) ELSE q.queue,
                       [device |-> d, retries |-> 0])
           p == [q EXCEPT !.queue = s]
<1>1. p = [queue |-> s, batch |-> q.batch, draining |-> q.draining, timer |-> q.timer]
  <2> HIDE DEF s
  <2> QED
    BY FieldChanges
<1>2. RetryShape(p) /\ p.queue = s /\ p.batch = q.batch
  <2> HIDE DEF s
  <2> QED
    BY <1>1 DEF RetryShape
<1>3. Enqueued(q, d) = Scheduled(p)
  BY DEF Enqueued
<1> HIDE DEF p
<1>4. Scheduled(p).queue = p.queue /\ Scheduled(p).batch = p.batch
  BY <1>2, ScheduledFields
<1> HIDE DEF s
<1>5. Enqueued(q, d).batch = q.batch /\ Enqueued(q, d).queue = s
  BY <1>2, <1>3, <1>4
<1> QED
  BY <1>5 DEF s

\* The end of a drain leaves what waits alone.
LEMMA DrainedFields ==
  ASSUME NEW q, RetryShape(q)
  PROVE  Drained(q).queue = q.queue /\ Drained(q).batch = q.batch
<1>1. CASE q.batch # <<>>
  BY <1>1 DEF Drained
<1>2. CASE q.batch = <<>>
  <2> DEFINE idle == [q EXCEPT !.draining = FALSE]
  <2>1. idle = [queue |-> q.queue, batch |-> q.batch, draining |-> FALSE, timer |-> q.timer]
    BY FieldChanges, Zenon
  <2>2. RetryShape(idle) /\ idle.queue = q.queue /\ idle.batch = q.batch
    BY <2>1 DEF RetryShape
  <2>3. Drained(q) = IF idle.queue = <<>> THEN idle ELSE Scheduled(idle)
    BY <1>2 DEF Drained
  <2> HIDE DEF idle
  <2>4. Scheduled(idle).queue = idle.queue /\ Scheduled(idle).batch = idle.batch
    BY <2>2, ScheduledFields
  <2> QED
    BY <2>2, <2>3, <2>4
<1> QED
  BY <1>1, <1>2

\* The ways a step changes what waits.
Lost == retry'.queue = <<>> /\ retry'.batch = <<>>

Joins(d) ==
  /\ retry'.batch = retry.batch
  /\ retry'.queue = Append(IF Len(retry.queue) >= QueueCap THEN Tail(retry.queue) ELSE retry.queue,
                           [device |-> d, retries |-> 0])

Taken(n, old, take) ==
  /\ Cardinality((1..n) \ old) <= Batch /\ take \in InOrder((1..n) \ old)
  /\ retry'.queue = SubSeq(retry.queue, n + 1, Len(retry.queue))
  /\ retry'.batch = [i \in DOMAIN take |-> retry.queue[take[i]]]

Resent(answer) ==
  /\ retry.batch # <<>> /\ retry'.batch = Tail(retry.batch)
  /\ retry'.queue = IF answer \in {"fails", "late"} /\ MayRetry(Head(retry.batch))
                    THEN Append(retry.queue, [Head(retry.batch) EXCEPT !.retries = @ + 1])
                    ELSE retry.queue

Untouched == retry'.queue = retry.queue /\ retry'.batch = retry.batch

\* A drain, in these terms.
LEMMA DrainFields ==
  ASSUME RetryInv, NEW n \in 0..Len(retry.queue), NEW old \in SUBSET (1..n), drain(n, old)
  PROVE  Untouched \/ \E take : Taken(n, old, take)
<1> DEFINE kept == (1..n) \ old
<1>1. Cardinality(kept) = Batch \/ Cardinality(kept) < Batch
  BY DEF drain
<1>2. Cardinality(kept) <= Batch
  <2>1. Batch \in Nat
    BY NotificationsAssumption
  <2>2. IsFiniteSet(1..n)
    BY FS_Interval
  <2>3. IsFiniteSet(kept)
    BY <2>2, FS_Subset
  <2>4. Cardinality(kept) \in Nat
    BY <2>3, FS_CardinalityType
  <2> HIDE DEF kept
  <2> QED
    BY <1>1, <2>1, <2>4
<1>3. CASE retry.queue = <<>>
  <2>1. retry' = [retry EXCEPT !.timer = FALSE]
    BY <1>3 DEF drain
  <2>2. retry' = [queue |-> retry.queue, batch |-> retry.batch,
                  draining |-> retry.draining, timer |-> FALSE]
    BY <2>1, FieldChanges, Zenon DEF RetryInv
  <2> QED
    BY <2>2 DEF Untouched
<1>4. CASE retry.queue # <<>>
  <2>1. PICK take \in InOrder(kept) :
          retry' = Drained([queue |-> SubSeq(retry.queue, n + 1, Len(retry.queue)),
                            batch |-> [i \in DOMAIN take |-> retry.queue[take[i]]],
                            draining |-> TRUE, timer |-> FALSE])
    BY <1>4 DEF drain
  <2> DEFINE q == SubSeq(retry.queue, n + 1, Len(retry.queue))
             b == [i \in DOMAIN take |-> retry.queue[take[i]]]
             r == [queue |-> q, batch |-> b, draining |-> TRUE, timer |-> FALSE]
  <2>2. RetryShape(r) /\ r.queue = q /\ r.batch = b
    <3> HIDE DEF q, b
    <3> QED
      BY DEF RetryShape
  <2>3. Drained(r).queue = r.queue /\ Drained(r).batch = r.batch
    <3> HIDE DEF r
    <3> QED
      BY <2>2, DrainedFields
  <2>4. retry' = Drained(r)
    BY <2>1
  <2> HIDE DEF r
  <2>5. retry'.queue = q /\ retry'.batch = b
    BY <2>2, <2>3, <2>4
  <2> QED
    BY <1>2, <2>1, <2>5 DEF Taken
<1> QED
  BY <1>3, <1>4

\* A resend, in these terms.
LEMMA ResendFields ==
  ASSUME RetryInv, NEW answer, resend(answer)
  PROVE  Resent(answer)
<1> DEFINE rest == [retry EXCEPT !.batch = Tail(@)]
           s == IF answer \in {"fails", "late"} /\ MayRetry(Head(retry.batch))
                THEN Append(retry.queue, [Head(retry.batch) EXCEPT !.retries = @ + 1])
                ELSE retry.queue
           q == [rest EXCEPT !.queue = s]
<1>1. rest = [queue |-> retry.queue, batch |-> Tail(retry.batch),
              draining |-> retry.draining, timer |-> retry.timer]
  BY FieldChanges DEF RetryInv
<1>2. rest.queue = retry.queue
  BY <1>1
<1>3. retry' = Drained(q) /\ retry.batch # <<>>
  BY <1>2 DEF resend, Requeued
<1>4. RetryShape(rest) /\ rest.batch = Tail(retry.batch)
  BY <1>1 DEF RetryShape, RetryInv
<1>5. q = [queue |-> s, batch |-> rest.batch, draining |-> rest.draining, timer |-> rest.timer]
  <2> HIDE DEF rest, s
  <2> QED
    BY <1>4, FieldChanges
<1>6. RetryShape(q) /\ q.queue = s /\ q.batch = Tail(retry.batch)
  <2> HIDE DEF rest, s
  <2> QED
    BY <1>4, <1>5 DEF RetryShape
<1> HIDE DEF q
<1>7. Drained(q).queue = q.queue /\ Drained(q).batch = q.batch
  BY <1>6, DrainedFields
<1>8. retry'.queue = s /\ retry'.batch = Tail(retry.batch)
  BY <1>3, <1>6, <1>7
<1> QED
  BY <1>3, <1>8 DEF Resent

\* Every step changes what waits in one of these ways.
LEMMA WaitingSteps ==
  ASSUME RetryInv, [Next]_vars
  PROVE  \/ Untouched \/ Lost \/ \E d \in Devices \ Ios : Joins(d)
         \/ \E n \in 0..Len(retry.queue) : \E old \in SUBSET (1..n) : \E take : Taken(n, old, take)
         \/ \E answer : Resent(answer)
<1>1. CASE Retrying
  BY <1>1, DrainFields, ResendFields DEF Retrying
<1>2. CASE crash
  BY <1>2 DEF crash, NoRetry, Lost
<1>3. ASSUME NEW x \in Runs, NEW u \in Users, NEW d \in Devices, NEW answer \in Answers,
             sendToDevice(x, u, d, answer)
      PROVE  Untouched \/ (d \notin Ios /\ Joins(d))
  <2>1. retry' = retry \/ (d \notin Ios /\ retry' = Enqueued(retry, d))
    BY <1>3 DEF sendToDevice
  <2> QED
    BY <2>1, EnqueuedFields DEF RetryInv, Untouched, Joins
<1>4. UNCHANGED retry => Untouched
  BY DEF Untouched
<1>5. ASSUME NEW x \in Runs, Executor(x)
      PROVE  \/ UNCHANGED retry
             \/ \E u \in Users, d \in Devices, answer \in Answers : sendToDevice(x, u, d, answer)
  BY <1>5 DEF Executor, lookup, lookupFails, filterFresh, filterThrows, pushFanout, mailFilter,
              loadUsersFails, logMail, logMailFails, finish, look, lookThrows, logNotification,
              logFails, unregister, mail, mailFails
<1>6. enqueue \/ enqueueFails \/ forget \/ work \/ UNCHANGED vars => UNCHANGED retry
  BY DEF enqueue, enqueueFails, forget, work, vars
<1> QED
  BY <1>1, <1>2, <1>3, <1>4, <1>5, <1>6 DEF Next

\* The entries of the queue and of the batch, and how many there are at most.
Waiting ==
  /\ retry.queue \in Seq(Entry) /\ retry.batch \in Seq(Entry)
  /\ Len(retry.batch) <= Batch /\ Len(retry.queue) + Len(retry.batch) <= QueueCap + Batch

\* The arithmetic of the sizes.
LEMMA SizesKept ==
  ASSUME NEW q \in Nat, NEW b \in Nat, b <= Batch, q + b <= QueueCap + Batch
  PROVE  /\ b > 0 => b - 1 <= Batch /\ q + (b - 1) <= QueueCap + Batch
                     /\ (q + 1) + (b - 1) <= QueueCap + Batch
         /\ ~(q >= QueueCap) => (q + 1) + b <= QueueCap + Batch
         /\ \A n \in 0..q : \A k \in 0..n : (q - n) + k <= QueueCap + Batch
<1>1. Batch \in Nat /\ QueueCap \in Nat
  BY NotificationsAssumption
<1> QED
  BY <1>1

\* A push that is queued.
LEMMA JoinsWaiting ==
  ASSUME Waiting, NEW d \in Devices \ Ios, Joins(d)
  PROVE  Waiting'
<1> DEFINE e == [device |-> d, retries |-> 0]
           s == IF Len(retry.queue) >= QueueCap THEN Tail(retry.queue) ELSE retry.queue
<1>1. e \in Entry
  BY NotificationsAssumption DEF Entry
<1>2. QueueCap \in Nat \ {0} /\ Batch \in Nat
  BY NotificationsAssumption
<1>3. retry.queue \in Seq(Entry) /\ retry.batch \in Seq(Entry)
  BY DEF Waiting
<1> DEFINE q == Len(retry.queue)
           b == Len(retry.batch)
<1>4. q \in Nat /\ b \in Nat /\ b <= Batch /\ q + b <= QueueCap + Batch
  <2>1. q \in Nat /\ b \in Nat
    BY <1>3
  <2> QED
    BY <2>1, Zenon DEF Waiting
<1>5. s \in Seq(Entry) /\ (Len(s) + 1) + b <= QueueCap + Batch
  <2>1. CASE q >= QueueCap
    <3>1. retry.queue # <<>> /\ s = Tail(retry.queue)
      BY <1>2, <1>3, <2>1
    <3>2. Tail(retry.queue) \in Seq(Entry) /\ Len(Tail(retry.queue)) = Len(retry.queue) - 1
      BY <1>3, <3>1
    <3>3. s \in Seq(Entry) /\ Len(s) = q - 1
      BY <3>1, <3>2
    <3> HIDE DEF s, q, b
    <3> QED
      BY <1>4, <3>3, SizesKept
  <2>2. CASE ~ (q >= QueueCap)
    <3>1. s = retry.queue
      BY <2>2
    <3>2. s \in Seq(Entry) /\ Len(s) = q
      BY <1>3, <3>1
    <3>3. (q + 1) + b <= QueueCap + Batch
      <4> HIDE DEF q, b
      <4> QED
        BY <1>4, <2>2, SizesKept
    <3> HIDE DEF s, q, b
    <3> QED
      BY <3>2, <3>3
  <2> QED
    BY <2>1, <2>2
<1>6. retry'.queue = Append(s, e) /\ retry'.batch = retry.batch
  BY DEF Joins
<1> HIDE DEF s, e
<1>7. Append(s, e) \in Seq(Entry) /\ Len(Append(s, e)) = Len(s) + 1
  BY <1>1, <1>5
<1>8. Len(retry'.batch) = b
  BY <1>6
<1> HIDE DEF b
<1> QED
  BY <1>3, <1>4, <1>5, <1>6, <1>7, <1>8 DEF Waiting

\* What a drain takes.
LEMMA TakenWaiting ==
  ASSUME Waiting, NEW n \in 0..Len(retry.queue), NEW old \in SUBSET (1..n), NEW take,
         Taken(n, old, take)
  PROVE  /\ Waiting'
         /\ take \in [1..Len(retry'.batch) -> (1..n) \ old]
         /\ \A i, j \in 1..Len(retry'.batch) : i < j => take[i] < take[j]
         /\ \A i \in 1..Len(retry'.batch) : retry'.batch[i] = retry.queue[take[i]]
         /\ Len(retry'.queue) = Len(retry.queue) - n
         /\ \A i \in 1..(Len(retry.queue) - n) : retry'.queue[i] = retry.queue[n + i]
<1> DEFINE kept == (1..n) \ old
           k == Cardinality(kept)
           l == Len(retry.queue)
<1>1. l \in Nat /\ n \in Nat /\ n <= l /\ Batch \in Nat /\ QueueCap \in Nat
  BY NotificationsAssumption DEF Waiting
<1>2. k \in Nat /\ k <= n
  <2>1. IsFiniteSet(1..n) /\ Cardinality(1..n) = n
    BY <1>1, FS_Interval
  <2>2. kept \subseteq 1..n
    OBVIOUS
  <2> HIDE DEF kept
  <2>3. IsFiniteSet(kept) /\ Cardinality(kept) <= Cardinality(1..n)
    BY <2>1, <2>2, FS_Subset
  <2>4. Cardinality(kept) \in Nat
    BY <2>3, FS_CardinalityType
  <2> QED
    BY <2>1, <2>3, <2>4
<1>3. take \in [1..k -> kept] /\ (\A i, j \in 1..k : i < j => take[i] < take[j]) /\ k <= Batch
  BY DEF Taken, InOrder
<1>4. retry'.batch = [i \in 1..k |-> retry.queue[take[i]]]
  BY <1>3 DEF Taken
<1>5. \A i \in 1..k : take[i] \in 1..l /\ retry.queue[take[i]] \in Entry
  <2> TAKE i \in 1..k
  <2>1. take[i] \in 1..n
    BY <1>3
  <2> HIDE DEF k, kept
  <2>2. take[i] \in 1..l
    BY <1>1, <2>1
  <2> QED
    BY <2>2 DEF Waiting
<1> HIDE DEF k
<1>6. retry'.batch \in Seq(Entry) /\ Len(retry'.batch) = k
  BY <1>2, <1>4, <1>5
<1>7. retry'.queue = SubSeq(retry.queue, n + 1, l)
  BY DEF Taken
<1>8. /\ retry'.queue \in Seq(Entry) /\ Len(retry'.queue) = l - n
      /\ \A i \in 1..(l - n) : retry'.queue[i] = retry.queue[n + i]
  BY <1>1, <1>7 DEF Waiting
<1>9. Len(retry.batch) \in Nat /\ Len(retry.batch) <= Batch /\ l + Len(retry.batch) <= QueueCap + Batch
  <2>1. Len(retry.batch) \in Nat
    BY DEF Waiting
  <2> QED
    BY <2>1, Zenon DEF Waiting
<1>10. Len(retry'.queue) + Len(retry'.batch) <= QueueCap + Batch
  <2>1. Len(retry'.batch) = k /\ Len(retry'.queue) = l - n
    BY <1>6, <1>8
  <2> DEFINE b == Len(retry.batch)
  <2> HIDE DEF kept, l, b
  <2>2. (l - n) + k <= QueueCap + Batch
    BY <1>1, <1>2, <1>9, SizesKept DEF b
  <2> QED
    BY <2>1, <2>2
<1>11. Waiting'
  BY <1>3, <1>6, <1>8, <1>10 DEF Waiting
<1> QED
  BY <1>3, <1>4, <1>6, <1>8, <1>11

\* What is left after a resend.
LEMMA ResentWaiting ==
  ASSUME Waiting, NEW answer, Resent(answer)
  PROVE  Waiting'
<1> DEFINE e == [Head(retry.batch) EXCEPT !.retries = @ + 1]
           q == Len(retry.queue)
           b == Len(retry.batch)
<1>1. retry.batch # <<>> /\ retry.batch \in Seq(Entry) /\ retry.queue \in Seq(Entry)
  BY DEF Waiting, Resent
<1>2. q \in Nat /\ b \in Nat /\ b > 0 /\ b <= Batch /\ q + b <= QueueCap + Batch
  <2>1. q \in Nat /\ b \in Nat /\ b > 0
    BY <1>1
  <2> QED
    BY <2>1, Zenon DEF Waiting
<1>3. b - 1 <= Batch /\ q + (b - 1) <= QueueCap + Batch /\ (q + 1) + (b - 1) <= QueueCap + Batch
  <2> HIDE DEF q, b
  <2> QED
    BY <1>2, SizesKept
<1>4. Head(retry.batch) \in Entry
  BY <1>1
<1>5. MayRetry(Head(retry.batch)) => e \in Entry
  <2>1. PICK h \in Entry : h = Head(retry.batch)
    BY <1>4
  <2>2. MaxRetries \in Nat
    BY NotificationsAssumption
  <2>3. ASSUME h.retries < MaxRetries PROVE [h EXCEPT !.retries = @ + 1] \in Entry
    <3>1. h.retries + 1 \in 0..MaxRetries
      BY <2>2, <2>3 DEF Entry
    <3>2. [h EXCEPT !.retries = @ + 1] = [device |-> h.device, retries |-> h.retries + 1]
      BY DEF Entry
    <3> QED
      BY <3>1, <3>2 DEF Entry
  <2> QED
    BY <2>1, <2>3 DEF MayRetry
<1>6. retry'.batch \in Seq(Entry) /\ Len(retry'.batch) = b - 1
  BY <1>1 DEF Resent
<1>7. CASE retry'.queue = retry.queue
  <2>1. Len(retry'.queue) = q
    BY <1>7
  <2> HIDE DEF q, b
  <2> QED
    BY <1>1, <1>3, <1>6, <1>7, <2>1 DEF Waiting
<1>8. CASE MayRetry(Head(retry.batch)) /\ retry'.queue = Append(retry.queue, e)
  <2>1. e \in Entry
    BY <1>5, <1>8
  <2> HIDE DEF e
  <2>2. retry'.queue \in Seq(Entry) /\ Len(retry'.queue) = q + 1
    BY <1>1, <1>8, <2>1
  <2> HIDE DEF q, b
  <2> QED
    BY <1>3, <1>6, <2>2 DEF Waiting
<1> QED
  BY <1>7, <1>8 DEF Resent

\* Every step keeps the entries and their number.
LEMMA StepWaits ==
  ASSUME RetryInv, Waiting, [Next]_vars
  PROVE  Waiting'
<1>1. CASE Untouched
  BY <1>1 DEF Untouched, Waiting
<1>2. CASE Lost
  BY <1>2, NotificationsAssumption DEF Lost, Waiting
<1> QED
  BY <1>1, <1>2, JoinsWaiting, TakenWaiting, ResentWaiting, WaitingSteps

\* The job, and what is left of the bounds.
JobInv ==
  /\ job \in [state : {"none", "waiting", "active", "failed"},
              attempts : 0..MaxAttempts, stalls : 0..MaxCrashes]
  /\ bounds \in [triggers : Nat, crashes : 0..MaxCrashes, faults : Nat]
  /\ job.state = "active" <=> Running("worker")
  /\ job.state \in {"waiting", "active"} => job.attempts < MaxAttempts
  /\ job.stalls + bounds.crashes <= MaxCrashes

\* A step of run x that it survives, and its end.
Continues(x) == job' = job /\ \A y \in Runs : Running(y)' <=> Running(y)

Ends(x) ==
  /\ Running(x) /\ ~Running(x)' /\ \A y \in Runs \ {x} : Running(y)' <=> Running(y)
  /\ x # "worker" => job' = job
  /\ x = "worker" =>
       \/ job' = NoJob
       \/ job' = [job EXCEPT !.attempts = @ + 1,
                             !.state = IF job.attempts + 1 < MaxAttempts THEN "waiting" ELSE "failed"]

\* A call may have failed.
Counted == bounds' = bounds \/ (bounds.faults > 0 /\ bounds' = [bounds EXCEPT !.faults = @ - 1])

\* A step that changes the stage of a run, to one that is not its end.
LEMMA StageChanges ==
  ASSUME FanOutType, NEW x \in Runs, NEW r, r.pc # "idle", run' = [run EXCEPT ![x] = r],
         Running(x), job' = job
  PROVE  Continues(x)
<1>1. run'[x] = r /\ \A y \in Runs \ {x} : run'[y] = run[y]
  BY DEF FanOutType
<1> QED
  BY <1>1 DEF Continues, Running

\* Each step of the executor is one or the other.
LEMMA ExecutorSteps ==
  ASSUME FanOutType, NEW x \in Runs, Executor(x)
  PROVE  (Continues(x) \/ Ends(x)) /\ Counted
<1>1. run[x] \in RunType
  BY DEF FanOutType
<1>2. ASSUME UNCHANGED <<job, run>> PROVE Continues(x)
  BY <1>2 DEF Continues, Running
<1>3. CASE lookup(x)
  <2> DEFINE r == [run[x] EXCEPT !.pc = "filter"]
  <2>1. r.pc # "idle" /\ run' = [run EXCEPT ![x] = r] /\ job' = job /\ Running(x) /\ bounds' = bounds
    BY <1>1, <1>3 DEF lookup, RunType, Running
  <2> HIDE DEF r
  <2> QED
    BY <2>1, StageChanges DEF Counted
<1>4. ASSUME lookupFails(x) \/ filterThrows(x) \/ finish(x) PROVE Ends(x)
  <2>1. run' = [run EXCEPT ![x] = NoRun] /\ Running(x)
    BY <1>4 DEF lookupFails, filterThrows, finish, Ended, Thrown, Running
  <2>2. run'[x] = NoRun /\ (\A y \in Runs \ {x} : run'[y] = run[y]) /\ NoRun.pc = "idle"
    BY <2>1 DEF FanOutType, NoRun
  <2>3. Running(x) /\ ~Running(x)' /\ \A y \in Runs \ {x} : Running(y)' <=> Running(y)
    BY <2>1, <2>2 DEF Running
  <2>4. CASE x # "worker"
    BY <1>4, <2>3, <2>4 DEF Ends, lookupFails, filterThrows, finish, Ended, Thrown
  <2>5. CASE x = "worker"
    BY <1>4, <2>3, <2>5 DEF Ends, lookupFails, filterThrows, finish, Ended, Thrown
  <2> QED
    BY <2>4, <2>5
<1>5. lookupFails(x) \/ filterThrows(x) \/ finish(x) => Counted
  BY DEF Counted, Fault, lookupFails, filterThrows, finish
<1>6. CASE filterFresh(x)
  <2> DEFINE r == [run[x] EXCEPT !.pc = "push", !.fresh = Fresh, !.todo = Fresh]
  <2>1. r.pc # "idle"
    BY <1>1 DEF RunType
  <2>2. run' = [run EXCEPT ![x] = r] /\ job' = job /\ Running(x) /\ bounds' = bounds
    BY <1>6 DEF filterFresh, Running
  <2> HIDE DEF r
  <2> QED
    BY <2>1, <2>2, StageChanges DEF Counted
<1>7. CASE pushFanout(x)
  <2>1. CASE run[x].todo = {}
    <3> DEFINE r == [run[x] EXCEPT !.pc = "mailFilter"]
    <3>1. r.pc # "idle"
      BY <1>1 DEF RunType
    <3>2. run' = [run EXCEPT ![x] = r] /\ job' = job /\ Running(x) /\ bounds' = bounds
      BY <1>7, <2>1 DEF pushFanout, Running
    <3> HIDE DEF r
    <3> QED
      BY <3>1, <3>2, StageChanges DEF Counted
  <2>2. CASE run[x].todo # {}
    <3>1. PICK us : run' = [run EXCEPT ![x].todo = Rest(@, us)]
      BY <1>7, <2>2 DEF pushFanout
    <3> DEFINE r == [run[x] EXCEPT !.todo = Rest(@, us)]
    <3>2. r.pc # "idle" /\ run' = [run EXCEPT ![x] = r]
      BY <1>1, <1>7, <3>1 DEF RunType, pushFanout
    <3>3. job' = job /\ Running(x) /\ bounds' = bounds
      BY <1>7 DEF pushFanout, Running
    <3> HIDE DEF r
    <3> QED
      BY <3>2, <3>3, StageChanges DEF Counted
  <2> QED
    BY <2>1, <2>2
<1>8. CASE mailFilter(x)
  <2> DEFINE r == [run[x] EXCEPT !.pc = "mail", !.todo = Recipients(x)]
  <2>1. r.pc # "idle"
    BY <1>1 DEF RunType
  <2>2. run' = [run EXCEPT ![x] = r] /\ job' = job /\ Running(x) /\ bounds' = bounds
    BY <1>8 DEF mailFilter, Running
  <2> HIDE DEF r
  <2> QED
    BY <2>1, <2>2, StageChanges DEF Counted
<1>9. CASE loadUsersFails(x)
  <2> DEFINE r == [run[x] EXCEPT !.pc = "mail"]
  <2>1. r.pc # "idle"
    BY <1>1 DEF RunType
  <2>2. run' = [run EXCEPT ![x] = r] /\ job' = job /\ Running(x)
    BY <1>9 DEF loadUsersFails, Running
  <2>3. Counted
    BY <1>9 DEF loadUsersFails, Fault, Counted
  <2> HIDE DEF r
  <2> QED
    BY <2>1, <2>2, <2>3, StageChanges
<1>10. CASE logMail(x) \/ logMailFails(x)
  <2> DEFINE r == [run[x] EXCEPT !.pc = "mail", !.mailing = None]
  <2>1. r.pc # "idle"
    BY <1>1 DEF RunType
  <2>2. run' = [run EXCEPT ![x] = r] /\ job' = job /\ Running(x)
    BY <1>10 DEF logMail, logMailFails, Mailed, Running
  <2>3. Counted
    BY <1>10 DEF logMail, logMailFails, Fault, Counted
  <2> HIDE DEF r
  <2> QED
    BY <2>1, <2>2, <2>3, StageChanges
<1>11. ASSUME NEW u \in Users, mail(x, u) PROVE Continues(x) /\ Counted
  <2> DEFINE r == [run[x] EXCEPT !.pc = "mailLog", !.todo = run[x].todo \ {u}, !.mailing = u]
  <2>1. r.pc # "idle"
    BY <1>1 DEF RunType
  <2>2. run' = [run EXCEPT ![x] = r] /\ job' = job /\ Running(x) /\ bounds' = bounds
    BY <1>11 DEF mail, Running
  <2> HIDE DEF r
  <2> QED
    BY <2>1, <2>2, StageChanges DEF Counted
<1>12. ASSUME NEW u \in Users, NEW taken \in BOOLEAN, mailFails(x, u, taken) PROVE Continues(x) /\ Counted
  <2> DEFINE r == [run[x] EXCEPT !.todo = run[x].todo \ {u}]
  <2>1. r.pc # "idle"
    BY <1>1, <1>12 DEF RunType, mailFails
  <2>2. run' = [run EXCEPT ![x] = r] /\ job' = job /\ Running(x)
    BY <1>12 DEF mailFails, Running
  <2>3. Counted
    BY <1>12 DEF mailFails, Fault, Counted
  <2> HIDE DEF r
  <2> QED
    BY <2>1, <2>2, <2>3, StageChanges
<1>13. ASSUME NEW u \in Users,
              \/ look(x, u) \/ lookThrows(x, u) \/ logNotification(x, u) \/ logFails(x, u)
              \/ unregister(x, u)
              \/ \E d \in Devices, answer \in Answers : sendToDevice(x, u, d, answer)
       PROVE  Continues(x) /\ Counted
  BY <1>2, <1>13 DEF look, lookThrows, logNotification, logFails, unregister, sendToDevice, Fault,
                     Counted
<1> QED
  BY <1>3, <1>4, <1>5, <1>6, <1>7, <1>8, <1>9, <1>10, <1>11, <1>12, <1>13 DEF Executor

\* The attempts are used up one by one, and a crash stalls the job once.
LEMMA StepJobs ==
  ASSUME JobInv, FanOutType, [Next]_vars
  PROVE  JobInv'
<1>0. MaxAttempts \in Nat \ {0} /\ MaxCrashes \in Nat
  BY NotificationsAssumption
<1>1. "worker" \in Runs /\ "inline" \in Runs /\ run \in [Runs -> RunType]
  BY DEF Runs, FanOutType
<1>2. CASE UNCHANGED <<job, run, bounds>>
  BY <1>2 DEF JobInv, Running
<1>3. CASE enqueue
  <2>1. bounds' = [bounds EXCEPT !.triggers = @ - 1] /\ bounds.triggers > 0 /\ run' = run
    BY <1>3 DEF enqueue
  <2>2. job' = job \/ (job.state = "none" /\ job' = [NoJob EXCEPT !.state = "waiting"])
    BY <1>3 DEF enqueue
  <2> QED
    BY <1>0, <2>1, <2>2 DEF JobInv, NoJob, Running
<1>4. CASE enqueueFails
  <2>1. /\ bounds' = [bounds EXCEPT !.triggers = @ - 1, !.faults = @ - 1]
        /\ bounds.triggers > 0 /\ bounds.faults > 0 /\ job' = job
    BY <1>4 DEF enqueueFails
  <2>2. Running("worker")' <=> Running("worker")
    BY <1>1, <1>4 DEF enqueueFails, Started, Running
  <2>3. bounds' \in [triggers : Nat, crashes : 0..MaxCrashes, faults : Nat] /\ bounds'.crashes = bounds.crashes
    <3>1. /\ bounds.triggers \in Nat /\ bounds.faults \in Nat /\ bounds.crashes \in 0..MaxCrashes
          /\ bounds' = [triggers |-> bounds.triggers - 1, crashes |-> bounds.crashes,
                        faults |-> bounds.faults - 1]
      BY <2>1 DEF JobInv
    <3>2. bounds.triggers - 1 \in Nat /\ bounds.faults - 1 \in Nat
      BY <2>1, <3>1
    <3> QED
      BY <3>1, <3>2
  <2> QED
    BY <2>1, <2>2, <2>3 DEF JobInv
<1>5. CASE forget
  BY <1>0, <1>5 DEF forget, JobInv, NoJob, Running
<1>6. CASE crash
  <2>1. bounds' = [bounds EXCEPT !.crashes = @ - 1] /\ bounds.crashes > 0 /\ job' = Stalled
    BY <1>6 DEF crash
  <2>2. ~Running("worker")'
    BY <1>1, <1>6 DEF crash, Running, NoRun
  <2>3. /\ bounds' \in [triggers : Nat, crashes : 0..MaxCrashes, faults : Nat]
        /\ bounds'.crashes = bounds.crashes - 1
    BY <1>0, <2>1 DEF JobInv
  <2>4. CASE job.state # "active"
    <3>1. job' = job
      BY <2>1, <2>4 DEF Stalled
    <3>2. job.stalls + bounds'.crashes <= MaxCrashes
      BY <1>0, <2>3 DEF JobInv
    <3> QED
      BY <2>2, <2>3, <2>4, <3>1, <3>2 DEF JobInv
  <2>5. CASE job.state = "active"
    <3> DEFINE st == IF job.stalls = 0 THEN "waiting" ELSE "failed"
    <3>1. job' = [job EXCEPT !.stalls = @ + 1, !.state = st]
      BY <2>1, <2>5 DEF Stalled
    <3>2. st \in {"waiting", "failed"}
      OBVIOUS
    <3> HIDE DEF st
    <3>3. /\ job'.state = st /\ job'.stalls = job.stalls + 1 /\ job'.attempts = job.attempts
          /\ job' = [state |-> st, attempts |-> job.attempts, stalls |-> job.stalls + 1]
      BY <3>1 DEF JobInv
    <3>4. job.stalls + 1 \in 0..MaxCrashes /\ (job.stalls + 1) + bounds'.crashes <= MaxCrashes
      BY <1>0, <2>1, <2>3 DEF JobInv
    <3>5. job.attempts < MaxAttempts
      BY <2>5 DEF JobInv
    <3> QED
      BY <2>2, <2>3, <3>2, <3>3, <3>4, <3>5 DEF JobInv
  <2> QED
    BY <2>4, <2>5
<1>7. CASE work
  <2>1. job.state = "waiting" /\ job' = [job EXCEPT !.state = "active"] /\ bounds' = bounds
    BY <1>7 DEF work
  <2>2. Running("worker")'
    BY <1>1, <1>7 DEF work, Started, Running, NoRun
  <2> QED
    BY <1>0, <2>1, <2>2 DEF JobInv
<1>8. ASSUME NEW x \in Runs, Executor(x) PROVE JobInv'
  <2>1. bounds' \in [triggers : Nat, crashes : 0..MaxCrashes, faults : Nat] /\ bounds'.crashes = bounds.crashes
    BY <1>8, ExecutorSteps DEF Counted, JobInv
  <2>2. CASE Continues(x)
    BY <1>1, <2>1, <2>2 DEF JobInv, Continues
  <2>3. CASE Ends(x) /\ x # "worker"
    BY <1>1, <2>1, <2>3 DEF JobInv, Ends
  <2>4. CASE Ends(x) /\ x = "worker"
    <3>1. job.state = "active" /\ job.attempts < MaxAttempts /\ ~Running("worker")'
      BY <2>4 DEF JobInv, Ends
    <3>2. CASE job' = NoJob
      BY <1>0, <2>1, <3>1, <3>2 DEF JobInv, NoJob
    <3>3. CASE job' = [job EXCEPT !.attempts = @ + 1,
                         !.state = IF job.attempts + 1 < MaxAttempts THEN "waiting" ELSE "failed"]
      <4> DEFINE st == IF job.attempts + 1 < MaxAttempts THEN "waiting" ELSE "failed"
      <4>1. st \in {"waiting", "failed"} /\ (st = "waiting" => job.attempts + 1 < MaxAttempts)
        OBVIOUS
      <4>2. job' = [job EXCEPT !.attempts = @ + 1, !.state = st]
        BY <3>3
      <4> HIDE DEF st
      <4>3. /\ job'.state = st /\ job'.attempts = job.attempts + 1 /\ job'.stalls = job.stalls
            /\ job' = [state |-> st, attempts |-> job.attempts + 1, stalls |-> job.stalls]
        BY <4>2 DEF JobInv
      <4>4. job.attempts + 1 \in 0..MaxAttempts /\ job.stalls + bounds'.crashes <= MaxCrashes
        BY <1>0, <2>1, <3>1 DEF JobInv
      <4> QED
        BY <2>1, <3>1, <4>1, <4>3, <4>4 DEF JobInv
    <3> QED
      BY <2>4, <3>2, <3>3 DEF Ends
  <2> QED
    BY <1>8, <2>2, <2>3, <2>4, ExecutorSteps
<1> QED
  BY <1>2, <1>3, <1>4, <1>5, <1>6, <1>7, <1>8 DEF Next, Retrying, drain, resend, vars

\* The tables and the counts.
Tables ==
  /\ tokens \subseteq Devices /\ mailRows \subseteq Users
  /\ got \in [Devices -> Nat] /\ mails \in [Users -> Nat]
  /\ \A x \in Runs : run[x].pc = "mailLog" => run[x].mailing \in Users

\* A run that waits for the row of a mail is mailing somebody.
MailingKept(x) == \A y \in Runs : run'[y].pc = "mailLog" => run'[y] = run[y] \/ run'[y].mailing \in Users

LEMMA StageMoves ==
  ASSUME FanOutType, NEW x \in Runs, NEW r, run' = [run EXCEPT ![x] = r],
         r.pc # "mailLog" \/ r.mailing \in Users
  PROVE  MailingKept(x)
<1>1. run'[x] = r /\ \A y \in Runs \ {x} : run'[y] = run[y]
  BY DEF FanOutType
<1> QED
  BY <1>1 DEF MailingKept

LEMMA MailingSteps ==
  ASSUME FanOutType, NEW x \in Runs, Executor(x)
  PROVE  MailingKept(x)
<1>0. run[x] \in RunType
  BY DEF FanOutType
<1>1. CASE lookup(x)
  <2> DEFINE r == [run[x] EXCEPT !.pc = "filter"]
  <2>1. r.pc # "mailLog"
    BY <1>0, <1>1 DEF RunType, NoRun, lookup
  <2>2. run' = [run EXCEPT ![x] = r]
    BY <1>1 DEF lookup
  <2> HIDE DEF r
  <2> QED
    BY <2>1, <2>2, StageMoves
<1>2. CASE lookupFails(x) \/ filterThrows(x) \/ finish(x)
  <2> DEFINE r == NoRun
  <2>1. r.pc # "mailLog"
    BY <1>0, <1>2 DEF RunType, NoRun, lookupFails, filterThrows, finish, Ended, Thrown
  <2>2. run' = [run EXCEPT ![x] = r]
    BY <1>2 DEF lookupFails, filterThrows, finish, Ended, Thrown
  <2> HIDE DEF r
  <2> QED
    BY <2>1, <2>2, StageMoves
<1>3. CASE filterFresh(x)
  <2> DEFINE r == [run[x] EXCEPT !.pc = "push", !.fresh = Fresh, !.todo = Fresh]
  <2>1. r.pc # "mailLog"
    BY <1>0, <1>3 DEF RunType, NoRun, filterFresh
  <2>2. run' = [run EXCEPT ![x] = r]
    BY <1>3 DEF filterFresh
  <2> HIDE DEF r
  <2> QED
    BY <2>1, <2>2, StageMoves
<1>4. CASE mailFilter(x)
  <2> DEFINE r == [run[x] EXCEPT !.pc = "mail", !.todo = Recipients(x)]
  <2>1. r.pc # "mailLog"
    BY <1>0, <1>4 DEF RunType, NoRun, mailFilter
  <2>2. run' = [run EXCEPT ![x] = r]
    BY <1>4 DEF mailFilter
  <2> HIDE DEF r
  <2> QED
    BY <2>1, <2>2, StageMoves
<1>5. CASE loadUsersFails(x)
  <2> DEFINE r == [run[x] EXCEPT !.pc = "mail"]
  <2>1. r.pc # "mailLog"
    BY <1>0, <1>5 DEF RunType, NoRun, loadUsersFails
  <2>2. run' = [run EXCEPT ![x] = r]
    BY <1>5 DEF loadUsersFails
  <2> HIDE DEF r
  <2> QED
    BY <2>1, <2>2, StageMoves
<1>6. CASE logMail(x) \/ logMailFails(x)
  <2> DEFINE r == [run[x] EXCEPT !.pc = "mail", !.mailing = None]
  <2>1. r.pc # "mailLog"
    BY <1>0, <1>6 DEF RunType, NoRun, logMail, logMailFails, Mailed
  <2>2. run' = [run EXCEPT ![x] = r]
    BY <1>6 DEF logMail, logMailFails, Mailed
  <2> HIDE DEF r
  <2> QED
    BY <2>1, <2>2, StageMoves
<1>7. CASE pushFanout(x) /\ run[x].todo = {}
  <2> DEFINE r == [run[x] EXCEPT !.pc = "mailFilter"]
  <2>1. r.pc # "mailLog"
    BY <1>0, <1>7 DEF RunType, NoRun, pushFanout
  <2>2. run' = [run EXCEPT ![x] = r]
    BY <1>7 DEF pushFanout
  <2> HIDE DEF r
  <2> QED
    BY <2>1, <2>2, StageMoves
<1>8. CASE pushFanout(x) /\ run[x].todo # {}
  <2>1. PICK us : run' = [run EXCEPT ![x].todo = Rest(@, us)]
    BY <1>8 DEF pushFanout
  <2> DEFINE r == [run[x] EXCEPT !.todo = Rest(@, us)]
  <2>2. r.pc # "mailLog" /\ run' = [run EXCEPT ![x] = r]
    BY <1>0, <1>8, <2>1 DEF RunType, pushFanout
  <2> HIDE DEF r
  <2> QED
    BY <2>2, StageMoves
<1>9. ASSUME NEW u \in Users, mail(x, u) PROVE MailingKept(x)
  <2> DEFINE r == [run[x] EXCEPT !.pc = "mailLog", !.todo = run[x].todo \ {u}, !.mailing = u]
  <2>1. r.mailing = u
    BY <1>0 DEF RunType
  <2>2. run' = [run EXCEPT ![x] = r]
    BY <1>9 DEF mail
  <2> HIDE DEF r
  <2> QED
    BY <2>1, <2>2, StageMoves
<1>10. ASSUME NEW u \in Users, NEW taken \in BOOLEAN, mailFails(x, u, taken) PROVE MailingKept(x)
  <2> DEFINE r == [run[x] EXCEPT !.todo = run[x].todo \ {u}]
  <2>1. r.pc # "mailLog"
    BY <1>0, <1>10 DEF RunType, mailFails
  <2>2. run' = [run EXCEPT ![x] = r]
    BY <1>10 DEF mailFails
  <2> HIDE DEF r
  <2> QED
    BY <2>1, <2>2, StageMoves
<1>11. CASE \E u \in Users :
              \/ look(x, u) \/ lookThrows(x, u) \/ logNotification(x, u) \/ logFails(x, u)
              \/ unregister(x, u)
              \/ \E d \in Devices, answer \in Answers : sendToDevice(x, u, d, answer)
  <2>1. run' = run
    BY <1>11 DEF look, lookThrows, logNotification, logFails, unregister, sendToDevice
  <2> QED
    BY <2>1 DEF MailingKept
<1> QED
  BY <1>1, <1>2, <1>3, <1>4, <1>5, <1>6, <1>7, <1>8, <1>9, <1>10, <1>11 DEF Executor

\* Every step keeps their types.
LEMMA StepTables ==
  ASSUME FanOutType, Waiting, Tables, [Next]_vars
  PROVE  Tables'
<1>1. got' \in [Devices -> Nat]
  <2>1. CASE Retrying
    <3>1. ASSUME NEW answer, resend(answer) PROVE got' \in [Devices -> Nat]
      <4>1. Head(retry.batch) \in Entry
        BY <3>1 DEF resend, Waiting
      <4>2. got' = got \/ got' = [got EXCEPT ![Head(retry.batch).device] = @ + 1]
        BY <3>1 DEF resend
      <4>3. Head(retry.batch).device \in Devices
        BY <4>1 DEF Entry
      <4> QED
        BY <4>2, <4>3 DEF Tables
    <3> QED
      BY <2>1, <3>1 DEF Retrying, drain, Tables
  <2>2. ASSUME NEW x \in Runs, Executor(x) PROVE got' \in [Devices -> Nat]
    <3>1. ASSUME NEW u \in Users, NEW d \in Devices, NEW answer \in Answers,
                 sendToDevice(x, u, d, answer)
          PROVE  got' \in [Devices -> Nat]
      <4>1. got' = got \/ got' = [got EXCEPT ![d] = @ + 1]
        BY <3>1 DEF sendToDevice
      <4> QED
        BY <4>1 DEF Tables
    <3>2. CASE UNCHANGED got
      BY <3>2 DEF Tables
    <3> QED
      BY <2>2, <3>1, <3>2 DEF Executor, lookup, lookupFails, filterFresh, filterThrows, pushFanout,
         mailFilter, loadUsersFails, logMail, logMailFails, finish, look, lookThrows,
         logNotification, logFails, unregister, mail, mailFails
  <2>3. enqueue \/ enqueueFails \/ forget \/ crash \/ work \/ UNCHANGED vars => UNCHANGED got
    BY DEF enqueue, enqueueFails, forget, crash, work, vars
  <2> QED
    BY <2>1, <2>2, <2>3 DEF Next, Tables
<1>2. /\ tokens' \subseteq Devices /\ mailRows' \subseteq Users /\ mails' \in [Users -> Nat]
  <2>1. Retrying \/ enqueue \/ enqueueFails \/ forget \/ crash \/ work \/ UNCHANGED vars
          => UNCHANGED <<tokens, mailRows, mails>>
    BY DEF Retrying, drain, resend, enqueue, enqueueFails, forget, crash, work, vars
  <2>2. ASSUME NEW x \in Runs, Executor(x)
        PROVE  \/ UNCHANGED <<tokens, mailRows, mails>> \/ logMail(x)
               \/ \E u \in Users : \/ unregister(x, u) \/ mail(x, u)
                                   \/ \E taken \in BOOLEAN : mailFails(x, u, taken)
    BY ZenonT(60), <2>2 DEF Executor, lookup, lookupFails, filterFresh, filterThrows, pushFanout, mailFilter,
       loadUsersFails, logMailFails, finish, look, lookThrows, logNotification, logFails, sendToDevice
  <2>3. ASSUME NEW x \in Runs, logMail(x)
        PROVE  mailRows' \subseteq Users /\ UNCHANGED <<tokens, mails>>
    BY <2>3 DEF logMail, MailLogged, Tables
  <2>4. ASSUME NEW x \in Runs, NEW u \in Users, unregister(x, u)
        PROVE  tokens' \subseteq tokens /\ UNCHANGED <<mailRows, mails>>
    BY <2>4 DEF unregister
  <2>5. ASSUME NEW x \in Runs, NEW u \in Users, mail(x, u)
        PROVE  mails' \in [Users -> Nat] /\ UNCHANGED <<tokens, mailRows>>
    BY <2>5 DEF mail, Tables
  <2>6. ASSUME NEW x \in Runs, NEW u \in Users, NEW taken \in BOOLEAN, mailFails(x, u, taken)
        PROVE  mails' \in [Users -> Nat] /\ UNCHANGED <<tokens, mailRows>>
    <3>1. UNCHANGED <<tokens, mailRows>> /\ (mails' = mails \/ mails' = [mails EXCEPT ![u] = @ + 1])
      BY <2>6 DEF mailFails
    <3> QED
      BY <3>1 DEF Tables
  <2> QED
    BY <2>1, <2>2, <2>3, <2>4, <2>5, <2>6 DEF Next, Tables
<1>3. \A y \in Runs : run'[y].pc = "mailLog" => run'[y].mailing \in Users
  <2>1. CASE UNCHANGED run
    BY <2>1 DEF Tables
  <2>2. ASSUME NEW x \in Runs, Started(x) PROVE \A y \in Runs : run'[y].pc = "mailLog" => run'[y].mailing \in Users
    <3>1. run'[x] = [NoRun EXCEPT !.pc = "lookup"] /\ \A y \in Runs \ {x} : run'[y] = run[y]
      BY <2>2 DEF Started, FanOutType
    <3>2. run'[x].pc = "lookup"
      BY <3>1 DEF NoRun
    <3> QED
      BY <3>1, <3>2 DEF Tables
  <2>3. CASE crash
    BY <2>3 DEF crash, NoRun
  <2>4. ASSUME NEW x \in Runs, Executor(x) PROVE \A y \in Runs : run'[y].pc = "mailLog" => run'[y].mailing \in Users
    BY <2>4, MailingSteps DEF Tables, MailingKept
  <2>5. Retrying \/ enqueue \/ forget \/ UNCHANGED vars => UNCHANGED run
    BY DEF Retrying, drain, resend, enqueue, forget, vars
  <2>6. enqueueFails \/ work => \E x \in Runs : Started(x)
    BY DEF enqueueFails, work, Runs
  <2> QED
    BY <2>1, <2>2, <2>3, <2>4, <2>5, <2>6 DEF Next
<1> QED
  BY <1>1, <1>2, <1>3 DEF Tables

\* The inductive invariant.
TInv == RetryInv /\ Waiting /\ FanOutOk /\ JobInv /\ Tables

LEMMA TypesStart == Init => TInv
<1> SUFFICES ASSUME Init PROVE TInv
  OBVIOUS
<1>1. RetryInv
  BY DEF Init, NoRetry, RetryInv, RetryShape, Served
<1>2. Waiting
  BY NotificationsAssumption DEF Init, NoRetry, Waiting
<1>3. FanOutOk
  BY FanOutStarts
<1>4. JobInv
  <2>1. MaxAttempts \in Nat \ {0} /\ MaxCrashes \in Nat /\ MaxTriggers \in Nat /\ MaxFaults \in Nat
    BY NotificationsAssumption
  <2>2. ~Running("worker")
    BY DEF Init, Running, NoRun, Runs
  <2> QED
    BY <2>1, <2>2 DEF Init, NoJob, JobInv
<1>5. Tables
  BY DEF Init, NoRun, Tables
<1> QED
  BY <1>1, <1>2, <1>3, <1>4, <1>5 DEF TInv

LEMMA TypesStep == TInv /\ [Next]_vars => TInv'
BY StepServes, StepWaits, FanOutInductive, StepJobs, StepTables DEF TInv, FanOutOk

\* Every variable has its type, and the retry queue never holds more than its capacity and a
\* batch, although what fails again joins it without being counted against the capacity.
THEOREM TypeCorrect == Spec => []TypeOK
<1>1. TInv => TypeOK
  <2> SUFFICES ASSUME TInv PROVE TypeOK
    OBVIOUS
  <2>1. /\ job \in [state : {"none", "waiting", "active", "failed"},
                    attempts : 0..MaxAttempts, stalls : 0..MaxCrashes]
    BY DEF TInv, JobInv
  <2>2. run \in [Runs -> RunType] /\ at \in [Runs -> [Users -> SendType]] /\ rows \subseteq Users
    BY DEF TInv, FanOutOk, FanOutType
  <2>3. retry.queue \in Seq(Entry) /\ retry.batch \in Seq(Entry)
    BY DEF TInv, Waiting
  <2>4. Len(retry.batch) <= Batch /\ Len(retry.queue) <= QueueCap + Batch
    <3> DEFINE q == Len(retry.queue)
               b == Len(retry.batch)
    <3>1. q \in Nat /\ b \in Nat
      BY <2>3
    <3>2. b <= Batch /\ q + b <= QueueCap + Batch
      BY Zenon DEF TInv, Waiting
    <3>3. Batch \in Nat /\ QueueCap \in Nat
      BY NotificationsAssumption
    <3> HIDE DEF q, b
    <3>4. q <= QueueCap + Batch /\ b <= Batch
      BY <3>1, <3>2, <3>3
    <3> QED
      BY <3>4, Zenon DEF q, b
  <2>5. {retry.draining, retry.timer} \subseteq BOOLEAN
    BY DEF TInv, RetryInv, RetryShape
  <2>6. /\ tokens \subseteq Devices /\ mailRows \subseteq Users
        /\ got \in [Devices -> Nat] /\ mails \in [Users -> Nat]
    BY DEF TInv, Tables
  <2>7. \A q \in {retry.queue, retry.batch} :
          q \in Seq([device : Devices \ Ios, retries : 0..MaxRetries])
    BY <2>3 DEF Entry
  <2> QED
    BY <2>1, <2>2, <2>4, <2>5, <2>6, <2>7 DEF TypeOK, RunType, SendType, Stages, Steps
<1> QED
  BY <1>1, TypesStart, TypesStep, PTL DEF Spec

-----------------------------------------------------------------------------
(* A device hears of the event once.                                       *)

\* s has an entry for d, and at most one.
Has(s, d) == \E i \in 1..Len(s) : s[i].device = d
Single(s, d) == \A i, j \in 1..Len(s) : s[i].device = d /\ s[j].device = d => i = j

\* The event has not reached d, and no resend will bring it.
Silent(d) == got[d] = 0 /\ ~Has(retry.queue, d) /\ ~Has(retry.batch, d)

\* It has reached d or one resend may still bring it, and not both.
Fine(d) ==
  /\ got[d] = 0 \/ (got[d] = 1 /\ ~Has(retry.queue, d) /\ ~Has(retry.batch, d))
  /\ Single(retry.queue, d) /\ Single(retry.batch, d)
  /\ ~(Has(retry.queue, d) /\ Has(retry.batch, d))

\* What a sequence without its first entry has.
LEMMA TailHas ==
  ASSUME NEW s \in Seq(Entry), s # <<>>, NEW d
  PROVE  /\ Has(Tail(s), d) => Has(s, d)
         /\ Single(s, d) => Single(Tail(s), d)
         /\ Single(s, d) /\ Head(s).device = d => ~Has(Tail(s), d)
         /\ Head(s).device = d => Has(s, d)
<1> DEFINE t == Tail(s)
           n == Len(s)
<1>1. n \in Nat /\ n >= 1
  BY DEF Has
<1>2. Len(t) = n - 1 /\ (\A i \in 1..(n - 1) : t[i] = s[i + 1]) /\ Head(s) = s[1]
  OBVIOUS
<1> HIDE DEF t, n
<1>3. \A i \in 1..Len(t) : i + 1 \in 1..n /\ i + 1 # 1 /\ t[i] = s[i + 1]
  BY <1>1, <1>2
<1>4. 1 \in 1..n
  BY <1>1
<1>5. Has(t, d) => Has(s, d)
  BY <1>3 DEF Has, n
<1>6. ASSUME Single(s, d) PROVE Single(t, d)
  <2>1. SUFFICES ASSUME NEW i \in 1..Len(t), NEW j \in 1..Len(t), t[i].device = d, t[j].device = d
                 PROVE  i = j
    BY DEF Single
  <2>2. i + 1 = j + 1
    BY <1>3, <1>6, <2>1 DEF Single, n
  <2>3. i \in Int /\ j \in Int
    BY <1>1, <1>2
  <2> QED
    BY <2>2, <2>3
<1>7. Single(s, d) /\ s[1].device = d => ~Has(t, d)
  BY <1>3, <1>4 DEF Single, Has, n
<1>8. s[1].device = d => Has(s, d)
  BY <1>4 DEF Has, n
<1> QED
  BY <1>2, <1>5, <1>6, <1>7, <1>8 DEF t

\* What a sequence with another entry at its end has.
LEMMA AppendHas ==
  ASSUME NEW s \in Seq(Entry), NEW e \in Entry, NEW d
  PROVE  /\ Has(Append(s, e), d) => Has(s, d) \/ e.device = d
         /\ Single(s, d) /\ (e.device = d => ~Has(s, d)) => Single(Append(s, e), d)
<1> DEFINE t == Append(s, e)
           n == Len(s)
<1>1. n \in Nat /\ Len(t) = n + 1 /\ t[n + 1] = e /\ \A i \in 1..n : t[i] = s[i]
  OBVIOUS
<1> HIDE DEF t, n
<1>2. \A i \in 1..Len(t) : (i \in 1..n /\ t[i] = s[i]) \/ (i = n + 1 /\ t[i] = e)
  BY <1>1
<1>3. Has(t, d) => Has(s, d) \/ e.device = d
  BY <1>2 DEF Has, n
<1>4. ASSUME Single(s, d), e.device = d => ~Has(s, d) PROVE Single(t, d)
  BY <1>2, <1>4 DEF Single, Has, n
<1> QED
  BY <1>3, <1>4 DEF t

\* A push joins the queue: d is no worse off, unless it is the push's device.
LEMMA JoinsHeard ==
  ASSUME Waiting, NEW e \in Devices \ Ios, Joins(e), NEW d \in Devices, got'[d] = got[d]
  PROVE  /\ d # e => (Silent(d) => Silent(d)') /\ (Fine(d) => Fine(d)')
         /\ Silent(d) => Fine(d)'
<1> DEFINE x == [device |-> e, retries |-> 0]
           s == IF Len(retry.queue) >= QueueCap THEN Tail(retry.queue) ELSE retry.queue
<1>1. x \in Entry /\ x.device = e
  BY NotificationsAssumption DEF Entry
<1>2. retry.queue \in Seq(Entry) /\ QueueCap \in Nat \ {0}
  BY NotificationsAssumption DEF Waiting
<1>3. s \in Seq(Entry) /\ (Has(s, d) => Has(retry.queue, d)) /\ (Single(retry.queue, d) => Single(s, d))
  <2>1. CASE Len(retry.queue) >= QueueCap
    <3>1. retry.queue # <<>> /\ s = Tail(retry.queue) /\ s \in Seq(Entry)
      BY <1>2, <2>1
    <3> QED
      BY <1>2, <3>1, TailHas
  <2>2. CASE ~ (Len(retry.queue) >= QueueCap)
    BY <1>2, <2>2
  <2> QED
    BY <2>1, <2>2
<1>4. retry'.queue = Append(s, x) /\ retry'.batch = retry.batch
  BY DEF Joins
<1>5. ~Has(retry.queue, d) => Single(retry.queue, d)
  BY DEF Has, Single
<1>6. ~Has(retry.batch, d) => Single(retry.batch, d)
  BY DEF Has, Single
<1> HIDE DEF x, s
<1>7. /\ Has(retry'.queue, d) => Has(s, d) \/ e = d
      /\ Single(s, d) /\ (e = d => ~Has(s, d)) => Single(retry'.queue, d)
  BY <1>1, <1>3, <1>4, AppendHas
<1>8. /\ Has(retry'.batch, d) <=> Has(retry.batch, d)
      /\ Single(retry'.batch, d) <=> Single(retry.batch, d)
  BY <1>4
<1>9. d # e => (Silent(d) => Silent(d)') /\ (Fine(d) => Fine(d)')
  BY <1>3, <1>7, <1>8 DEF Silent, Fine
<1>10. Silent(d) => Fine(d)'
  BY <1>3, <1>5, <1>6, <1>7, <1>8 DEF Silent, Fine
<1> QED
  BY <1>9, <1>10

\* A drain takes each entry at most once.
LEMMA TakenHeard ==
  ASSUME Waiting, NEW n \in 0..Len(retry.queue), NEW old \in SUBSET (1..n), NEW take,
         Taken(n, old, take), NEW d \in Devices, got'[d] = got[d]
  PROVE  (Silent(d) => Silent(d)') /\ (Fine(d) => Fine(d)')
<1> DEFINE l == Len(retry.queue)
           b == Len(retry'.batch)
<1>1. /\ take \in [1..b -> (1..n) \ old]
      /\ \A i, j \in 1..b : i < j => take[i] < take[j]
      /\ \A i \in 1..b : retry'.batch[i] = retry.queue[take[i]]
      /\ Len(retry'.queue) = l - n
      /\ \A i \in 1..(l - n) : retry'.queue[i] = retry.queue[n + i]
      /\ Waiting'
  <2>1. take \in [1..Len(retry'.batch) -> (1..n) \ old]
    BY TakenWaiting, Zenon
  <2>4. \A i, j \in 1..Len(retry'.batch) : i < j => take[i] < take[j]
    BY TakenWaiting
  <2>5. \A i \in 1..Len(retry'.batch) : retry'.batch[i] = retry.queue[take[i]]
    <3>1. retry'.batch = [i \in DOMAIN take |-> retry.queue[take[i]]]
      BY DEF Taken
    <3>2. DOMAIN take = 1..Len(retry'.batch)
      BY <2>1
    <3> QED
      BY <3>1, <3>2
  <2>2. Waiting' /\ Len(retry'.queue) = Len(retry.queue) - n
    BY TakenWaiting
  <2>3. \A i \in 1..(Len(retry.queue) - n) : retry'.queue[i] = retry.queue[n + i]
    BY TakenWaiting
  <2> QED
    BY <2>1, <2>2, <2>3, <2>4, <2>5, Zenon
<1>2. l \in Nat /\ n \in Nat /\ n <= l /\ b \in Nat
  BY <1>1 DEF Waiting
<1> HIDE DEF l, b
<1>3. \A i \in 1..b : take[i] \in 1..n /\ take[i] \in 1..l /\ retry'.batch[i] = retry.queue[take[i]]
  <2> TAKE i \in 1..b
  <2>1. take[i] \in 1..n /\ retry'.batch[i] = retry.queue[take[i]]
    BY <1>1
  <2>2. take[i] \in 1..l
    BY <1>2, <2>1
  <2> QED
    BY <2>1, <2>2
<1>4. \A i \in 1..(l - n) : n + i \in 1..l /\ n + i \notin 1..n /\ retry'.queue[i] = retry.queue[n + i]
  BY <1>1, <1>2
<1>5. Has(retry'.batch, d) \/ Has(retry'.queue, d) => Has(retry.queue, d)
  <2>1. Has(retry'.batch, d) => Has(retry.queue, d)
    BY <1>3 DEF Has, l, b
  <2>2. Len(retry'.queue) = l - n
    BY <1>1
  <2>3. Has(retry'.queue, d) => Has(retry.queue, d)
    BY <1>4, <2>2 DEF Has, l
  <2> QED
    BY <2>1, <2>3
<1>6. ASSUME Single(retry.queue, d) PROVE Single(retry'.batch, d)
  <2>1. SUFFICES ASSUME NEW i \in 1..b, NEW j \in 1..b,
                        retry'.batch[i].device = d, retry'.batch[j].device = d
                 PROVE  i = j
    BY DEF Single, b
  <2>2. take[i] = take[j]
    BY <1>3, <1>6, <2>1 DEF Single, l
  <2>3. i \in Int /\ j \in Int /\ take[i] \in Int /\ take[j] \in Int
    BY <1>2, <1>3
  <2>4. ~(i < j) /\ ~(j < i)
    BY <1>1, <2>2, <2>3
  <2> QED
    BY <2>3, <2>4
<1>7. ASSUME Single(retry.queue, d) PROVE Single(retry'.queue, d)
  <2>1. SUFFICES ASSUME NEW i \in 1..(l - n), NEW j \in 1..(l - n),
                        retry'.queue[i].device = d, retry'.queue[j].device = d
                 PROVE  i = j
    BY <1>1 DEF Single
  <2>2. n + i = n + j
    BY <1>4, <1>7, <2>1 DEF Single, l
  <2> QED
    BY <1>2, <2>2
<1>8. ASSUME Single(retry.queue, d) PROVE ~(Has(retry'.queue, d) /\ Has(retry'.batch, d))
  <2>1. SUFFICES ASSUME NEW i \in 1..(l - n), NEW j \in 1..b,
                        retry'.queue[i].device = d, retry'.batch[j].device = d
                 PROVE  FALSE
    BY <1>1 DEF Has, b
  <2>2. n + i = take[j]
    <3> DEFINE k == take[j]
    <3>1. k \in 1..l /\ retry.queue[k].device = d
      BY <1>3, <2>1
    <3>2. n + i \in 1..l /\ retry.queue[n + i].device = d
      BY <1>4, <2>1
    <3> HIDE DEF k
    <3>3. n + i = k
      BY <1>8, <3>1, <3>2 DEF Single, l
    <3> QED
      BY <3>3 DEF k
  <2> QED
    BY <1>3, <1>4, <2>2
<1> QED
  BY <1>5, <1>6, <1>7, <1>8 DEF Silent, Fine

\* A resend leaves the batch, and arrives or waits again.
LEMMA ResentHeard ==
  ASSUME Waiting, Tables, NEW answer, Resent(answer), NEW d \in Devices,
         got' = IF answer \in {"arrives", "late"}
                THEN [got EXCEPT ![Head(retry.batch).device] = @ + 1] ELSE got,
         answer = "late" => d # Head(retry.batch).device
  PROVE  (Silent(d) => Silent(d)') /\ (Fine(d) => Fine(d)')
<1> DEFINE h == Head(retry.batch)
           e == [Head(retry.batch) EXCEPT !.retries = @ + 1]
<1>1. /\ retry.batch \in Seq(Entry) /\ retry.batch # <<>> /\ retry.queue \in Seq(Entry)
      /\ retry'.batch = Tail(retry.batch)
  BY DEF Resent, Waiting
<1>2. h \in Entry /\ h.device \in Devices
  <2>1. h \in Entry
    BY <1>1
  <2> HIDE DEF h
  <2> QED
    BY <2>1 DEF Entry
<1>3. /\ Has(retry'.batch, d) => Has(retry.batch, d)
      /\ Single(retry.batch, d) => Single(retry'.batch, d)
      /\ Single(retry.batch, d) /\ h.device = d => ~Has(retry'.batch, d)
      /\ h.device = d => Has(retry.batch, d)
  BY <1>1, TailHas
<1>4. CASE retry'.queue = retry.queue
  <2>1. got'[d] = got[d] \/ (h.device = d /\ got'[d] = got[d] + 1)
    BY <1>2 DEF Tables
  <2> HIDE DEF h, e
  <2> QED
    BY <1>3, <1>4, <2>1 DEF Silent, Fine
<1>5. CASE /\ answer \in {"fails", "late"} /\ MayRetry(h)
           /\ retry'.queue = Append(retry.queue, e)
  <2>1. got'[d] = got[d]
    BY <1>2, <1>5 DEF Tables
  <2>2. e.device = h.device
    BY <1>2 DEF Entry
  <2>3. e \in Entry
    <3>1. MaxRetries \in Nat
      BY NotificationsAssumption
    <3>2. PICK g \in Entry : g = h
      BY <1>2
    <3>3. g.retries + 1 \in 0..MaxRetries
      BY <1>5, <3>1, <3>2 DEF MayRetry, Entry
    <3>4. [g EXCEPT !.retries = @ + 1] = [device |-> g.device, retries |-> g.retries + 1]
      BY DEF Entry
    <3>5. [g EXCEPT !.retries = @ + 1] \in Entry
      BY <3>3, <3>4 DEF Entry
    <3> QED
      BY <3>2, <3>5
  <2> HIDE DEF h, e
  <2>4. /\ Has(retry'.queue, d) => Has(retry.queue, d) \/ h.device = d
        /\ Single(retry.queue, d) /\ (h.device = d => ~Has(retry.queue, d)) => Single(retry'.queue, d)
    BY <1>1, <1>5, <2>2, <2>3, AppendHas
  <2> QED
    BY <1>3, <2>1, <2>4 DEF Silent, Fine
<1> QED
  BY <1>4, <1>5 DEF Resent

\* So the retry queue alone never makes a device hear twice, unless an answer came too late.
LEMMA RetryingHeard ==
  ASSUME RetryInv, Waiting, Tables, PastShape(past), Retrying,
         NEW d \in Devices, d \notin past'.unsure
  PROVE  (Silent(d) => Silent(d)') /\ (Fine(d) => Fine(d)')
<1>1. ASSUME NEW n \in 0..Len(retry.queue), NEW old \in SUBSET (1..n), drain(n, old)
      PROVE  (Silent(d) => Silent(d)') /\ (Fine(d) => Fine(d)')
  <2>1. got' = got
    BY <1>1 DEF drain
  <2>2. CASE Untouched
    BY <2>1, <2>2 DEF Untouched, Silent, Fine
  <2> QED
    BY <1>1, <2>1, <2>2, DrainFields, TakenHeard
<1>2. ASSUME NEW answer, resend(answer)
      PROVE  (Silent(d) => Silent(d)') /\ (Fine(d) => Fine(d)')
  <2>1. got' = IF answer \in {"arrives", "late"}
               THEN [got EXCEPT ![Head(retry.batch).device] = @ + 1] ELSE got
    BY <1>2 DEF resend
  <2>2. ASSUME answer = "late" PROVE d # Head(retry.batch).device
    <3>1. past' = [past EXCEPT !.unsure = @ \cup {Head(retry.batch).device}]
      BY <1>2, <2>2 DEF resend
    <3> QED
      BY <3>1 DEF PastShape, Fields
  <2> QED
    BY <1>2, <2>1, <2>2, ResendFields, ResentHeard
<1> QED
  BY <1>1, <1>2 DEF Retrying

\* A step of run x, to r, that pushes to nobody.
Stage(x, r) ==
  /\ run' = [run EXCEPT ![x] = r] /\ UNCHANGED <<at, rows, got, retry>>
  /\ past'.unsure = past.unsure /\ past'.overlap = past.overlap
  /\ run[x].pc = "push" => at[x] = NoSends
  /\ r.pc = "push" => run[x].pc = "filter" /\ r.todo = Fresh
  /\ r.pc = "mailFilter" => r.todo = {}
  /\ Running(x)

\* The steps that are of this kind.
Staging(x) ==
  \/ lookup(x) \/ lookupFails(x) \/ filterFresh(x) \/ filterThrows(x)
  \/ (pushFanout(x) /\ run[x].todo = {})
  \/ mailFilter(x) \/ loadUsersFails(x) \/ logMail(x) \/ logMailFails(x) \/ finish(x)
  \/ \E u \in Users : mail(x, u) \/ \E taken \in BOOLEAN : mailFails(x, u, taken)

LEMMA StagingSteps ==
  ASSUME FanOutOk, NEW x \in Runs, Staging(x)
  PROVE  \E r \in RunType : Stage(x, r)
<1>0. run[x] \in RunType /\ NoRun \in RunType /\ NoRun.pc = "idle"
  BY DEF FanOutOk, FanOutType, RunType, NoRun, Stages
<1>1. /\ UNCHANGED <<at, rows, got, retry>> /\ Running(x)
      /\ run[x].pc = "push" => at[x] = NoSends
  <2>1. run[x].pc \in {"lookup", "filter", "mailFilter", "mail", "mailLog"}
          \/ (run[x].pc = "push" /\ at[x] = NoSends)
    BY DEF Staging, lookup, lookupFails, filterFresh, filterThrows, pushFanout, mailFilter,
           loadUsersFails, logMail, logMailFails, finish, mail, mailFails
  <2>2. UNCHANGED <<at, rows, got, retry>>
    BY DEF Staging, lookup, lookupFails, filterFresh, filterThrows, pushFanout, mailFilter,
           loadUsersFails, logMail, logMailFails, finish, mail, mailFails
  <2> QED
    BY <2>1, <2>2 DEF Running
<1>2. past'.unsure = past.unsure /\ past'.overlap = past.overlap
  <2>1. \/ past' = past
        \/ past' = [past EXCEPT !.misread = TRUE]
        \/ past' = [past EXCEPT !.mailFailed = Users]
        \/ past' = [past EXCEPT !.done = TRUE]
        \/ past' = [past EXCEPT !.mailUnsure = @ \cup {run[x].mailing}]
        \/ \E u \in Users, taken \in BOOLEAN :
             past' = [past EXCEPT !.mailFailed = @ \cup {u},
                                  !.mailUnsure = IF taken THEN @ \cup {u} ELSE @]
    BY DEF Staging, lookup, lookupFails, filterFresh, filterThrows, pushFanout, mailFilter,
           loadUsersFails, logMail, logMailFails, finish, mail, mailFails
  <2>2. PastShape(past)
    BY DEF FanOutOk, FanOutType
  <2> QED
    BY <2>1, <2>2 DEF PastShape, Fields
<1>3. SUFFICES \E r \in RunType : /\ run' = [run EXCEPT ![x] = r]
                                  /\ r.pc = "push" => run[x].pc = "filter" /\ r.todo = Fresh
                                  /\ r.pc = "mailFilter" => r.todo = {}
  BY <1>1, <1>2 DEF Stage
<1>4. CASE lookup(x)
  <2> DEFINE r == [run[x] EXCEPT !.pc = "filter"]
  <2>1. r \in RunType /\ r.pc = "filter"
    BY <1>0 DEF RunType, Stages
  <2>2. run' = [run EXCEPT ![x] = r]
    BY <1>4 DEF lookup
  <2> HIDE DEF r
  <2> QED
    BY <2>1, <2>2
<1>5. CASE lookupFails(x) \/ filterThrows(x) \/ finish(x)
  <2>1. run' = [run EXCEPT ![x] = NoRun]
    BY <1>5 DEF lookupFails, filterThrows, finish, Ended, Thrown
  <2> QED
    BY <1>0, <2>1
<1>6. CASE filterFresh(x)
  <2> DEFINE r == [run[x] EXCEPT !.pc = "push", !.fresh = Fresh, !.todo = Fresh]
  <2>1. r \in RunType /\ r.pc = "push" /\ r.todo = Fresh
    BY <1>0 DEF RunType, Stages, Fresh
  <2>2. run' = [run EXCEPT ![x] = r] /\ run[x].pc = "filter"
    BY <1>6 DEF filterFresh
  <2> HIDE DEF r
  <2> QED
    BY <2>1, <2>2
<1>7. CASE pushFanout(x) /\ run[x].todo = {}
  <2> DEFINE r == [run[x] EXCEPT !.pc = "mailFilter"]
  <2>1. r \in RunType /\ r.pc = "mailFilter" /\ r.todo = {}
    BY <1>0, <1>7 DEF RunType, Stages
  <2>2. run' = [run EXCEPT ![x] = r]
    BY <1>7 DEF pushFanout
  <2> HIDE DEF r
  <2> QED
    BY <2>1, <2>2
<1>8. CASE mailFilter(x)
  <2> DEFINE r == [run[x] EXCEPT !.pc = "mail", !.todo = Recipients(x)]
  <2>1. r \in RunType /\ r.pc = "mail"
    BY <1>0 DEF RunType, Stages, Recipients
  <2>2. run' = [run EXCEPT ![x] = r]
    BY <1>8 DEF mailFilter
  <2> HIDE DEF r
  <2> QED
    BY <2>1, <2>2
<1>9. CASE loadUsersFails(x)
  <2> DEFINE r == [run[x] EXCEPT !.pc = "mail"]
  <2>1. r \in RunType /\ r.pc = "mail"
    BY <1>0 DEF RunType, Stages
  <2>2. run' = [run EXCEPT ![x] = r]
    BY <1>9 DEF loadUsersFails
  <2> HIDE DEF r
  <2> QED
    BY <2>1, <2>2
<1>10. CASE logMail(x) \/ logMailFails(x)
  <2> DEFINE r == [run[x] EXCEPT !.pc = "mail", !.mailing = None]
  <2>1. r \in RunType /\ r.pc = "mail"
    BY <1>0 DEF RunType, Stages
  <2>2. run' = [run EXCEPT ![x] = r]
    BY <1>10 DEF logMail, logMailFails, Mailed
  <2> HIDE DEF r
  <2> QED
    BY <2>1, <2>2
<1>11. ASSUME NEW u \in Users, mail(x, u)
       PROVE  \E r \in RunType : /\ run' = [run EXCEPT ![x] = r]
                                 /\ r.pc = "push" => run[x].pc = "filter" /\ r.todo = Fresh
                                 /\ r.pc = "mailFilter" => r.todo = {}
  <2> DEFINE r == [run[x] EXCEPT !.pc = "mailLog", !.todo = run[x].todo \ {u}, !.mailing = u]
  <2>1. r \in RunType /\ r.pc = "mailLog"
    BY <1>0 DEF RunType, Stages
  <2>2. run' = [run EXCEPT ![x] = r]
    BY <1>11 DEF mail
  <2> HIDE DEF r
  <2> QED
    BY <2>1, <2>2
<1>12. ASSUME NEW u \in Users, NEW taken \in BOOLEAN, mailFails(x, u, taken)
       PROVE  \E r \in RunType : /\ run' = [run EXCEPT ![x] = r]
                                 /\ r.pc = "push" => run[x].pc = "filter" /\ r.todo = Fresh
                                 /\ r.pc = "mailFilter" => r.todo = {}
  <2> DEFINE r == [run[x] EXCEPT !.todo = run[x].todo \ {u}]
  <2>1. r \in RunType /\ r.pc = "mail"
    BY <1>0, <1>12 DEF RunType, Stages, mailFails
  <2>2. run' = [run EXCEPT ![x] = r]
    BY <1>12 DEF mailFails
  <2> HIDE DEF r
  <2> QED
    BY <2>1, <2>2
<1> QED
  BY <1>4, <1>5, <1>6, <1>7, <1>8, <1>9, <1>10, <1>11, <1>12 DEF Staging

\* A step of the send of run x to u, to m.
Pushing(x, u, m) == at' = [at EXCEPT ![x][u] = m] /\ UNCHANGED run /\ at[x][u].step # "none"

\* A send of a chunk: whom it is to, what it has left, and what it has just sent.
SendOk(u, m) ==
  /\ \A d \in m.left : Owner[d] = u
  /\ m.step = "log" => m.device \in Devices /\ Owner[m.device] = u
  /\ m.step = "look" => m.left = {}

\* Only a run that fans out sends.
Fans(x) ==
  /\ run[x].pc # "push" => \A u \in Users : at[x][u] = NoSend
  /\ run[x].pc = "mailFilter" => run[x].todo = {}

Sending == \A x \in Runs : Fans(x) /\ \A u \in Users : SendOk(u, at[x][u])

\* The next step of a send has no other devices left.
LEMMA OnwardOk ==
  ASSUME NEW u \in Users, NEW m \in SendType, \A d \in m.left : Owner[d] = u
  PROVE  /\ SendOk(u, Onward(m)) /\ Onward(m).left \subseteq m.left
         /\ Onward(m).step \in {"none", "send", "clean"}
BY DEF Onward, SendOk, SendType, NoSend

\* What a send goes on with, and what it leaves alone.
LEMMA PushingSteps ==
  ASSUME FanOutOk, Sending, NEW x \in Runs, NEW u \in Users,
         \/ look(x, u) \/ lookThrows(x, u) \/ logNotification(x, u) \/ logFails(x, u)
         \/ unregister(x, u)
         \/ \E d \in Devices, answer \in Answers : sendToDevice(x, u, d, answer)
  PROVE  \E m \in SendType : Pushing(x, u, m) /\ SendOk(u, m)
<1>0. at[x][u] \in SendType /\ SendOk(u, at[x][u]) /\ NoSend \in SendType
  BY DEF FanOutOk, FanOutType, SendType, NoSend, Steps, Sending
<1>1. SendOk(u, NoSend)
  BY DEF SendOk, NoSend
<1>2. CASE look(x, u)
  <2> DEFINE left == IF u \in OptedOut THEN {} ELSE TokensOf(u)
             n == [at[x][u] EXCEPT !.left = left]
  <2>1. left \subseteq Devices /\ \A d \in left : Owner[d] = u
    BY DEF TokensOf
  <2>2. at' = [at EXCEPT ![x][u] = Onward(n)] /\ at[x][u].step = "look" /\ run' = run
    BY <1>2 DEF look
  <2> HIDE DEF left
  <2>3. n \in SendType /\ n.left = left
    BY <1>0, <2>1 DEF SendType
  <2> HIDE DEF n
  <2>4. Onward(n) \in SendType /\ SendOk(u, Onward(n))
    BY <2>1, <2>3, OnwardStep, OnwardOk
  <2> QED
    BY <2>2, <2>4 DEF Pushing
<1>3. CASE lookThrows(x, u) \/ unregister(x, u)
  BY <1>0, <1>1, <1>3 DEF lookThrows, unregister, Pushing
<1>4. CASE logNotification(x, u) \/ logFails(x, u)
  <2>1. at' = [at EXCEPT ![x][u] = Onward(at[x][u])] /\ at[x][u].step = "log" /\ run' = run
    BY <1>4 DEF logNotification, logFails
  <2>2. Onward(at[x][u]) \in SendType /\ SendOk(u, Onward(at[x][u]))
    BY <1>0, OnwardStep, OnwardOk DEF SendOk
  <2> QED
    BY <2>1, <2>2 DEF Pushing
<1>5. ASSUME NEW d \in Devices, NEW answer \in Answers, sendToDevice(x, u, d, answer)
      PROVE  \E m \in SendType : Pushing(x, u, m) /\ SendOk(u, m)
  <2> DEFINE m == [step |-> "log", device |-> d, left |-> at[x][u].left \ {d},
                   stale |-> IF answer = "dead" THEN at[x][u].stale \cup {d} ELSE at[x][u].stale]
  <2>1. at' = [at EXCEPT ![x][u] = m] /\ run' = run /\ at[x][u].step = "send" /\ d \in at[x][u].left
    BY <1>5 DEF sendToDevice
  <2>2. m \in SendType
    BY <1>0 DEF SendType, Steps
  <2>3. SendOk(u, m)
    BY <1>0, <2>1 DEF SendOk
  <2> HIDE DEF m
  <2> QED
    BY <2>1, <2>2, <2>3 DEF Pushing
<1> QED
  BY <1>2, <1>3, <1>4, <1>5

\* The next chunk of a run.
Chunked(x, us, r, a) ==
  /\ us \subseteq run[x].todo /\ run[x].pc = "push" /\ at[x] = NoSends
  /\ run' = [run EXCEPT ![x] = r] /\ r.pc = "push" /\ r.todo = run[x].todo \ us
  /\ at' = [at EXCEPT ![x] = a] /\ a \in [Users -> SendType]
  /\ \A u \in Users : IF u \in us THEN a[u].step = "look" /\ a[u].left = {} ELSE a[u] = NoSend
  /\ UNCHANGED <<rows, got, retry, past>>

LEMMA ChunkSteps ==
  ASSUME FanOutOk, NEW x \in Runs, pushFanout(x), run[x].todo # {}
  PROVE  \E us, a : \E r \in RunType : Chunked(x, us, r, a)
<1>0. run[x] \in RunType
  BY DEF FanOutOk, FanOutType
<1>1. PICK us \in Chunks(run[x].todo) :
        /\ run' = [run EXCEPT ![x].todo = Rest(@, us)]
        /\ at' = [at EXCEPT ![x] = [u \in Users |->
                    IF u \in us THEN [NoSend EXCEPT !.step = "look"] ELSE NoSend]]
  BY DEF pushFanout
<1>2. us \subseteq run[x].todo
  BY <1>1 DEF Chunks, kSubset
<1> DEFINE r == [run[x] EXCEPT !.todo = @ \ us]
           a == [u \in Users |-> IF u \in us THEN [NoSend EXCEPT !.step = "look"] ELSE NoSend]
<1>3. run[x].pc = "push" /\ at[x] = NoSends /\ UNCHANGED <<rows, got, retry, past>>
  BY DEF pushFanout
<1>4. r \in RunType /\ r.pc = "push" /\ r.todo = run[x].todo \ us
  BY <1>0, <1>3 DEF RunType
<1>5. run' = [run EXCEPT ![x] = r] /\ at' = [at EXCEPT ![x] = a]
  BY <1>1 DEF Rest
<1>6. [NoSend EXCEPT !.step = "look"] \in SendType /\ NoSend \in SendType
  BY DEF NoSend, SendType, Steps
<1>7. a \in [Users -> SendType]
  BY <1>6
<1>8. \A u \in Users : IF u \in us THEN a[u].step = "look" /\ a[u].left = {} ELSE a[u] = NoSend
  BY DEF NoSend
<1> HIDE DEF r, a
<1>9. Chunked(x, us, r, a)
  BY <1>2, <1>3, <1>4, <1>5, <1>7, <1>8 DEF Chunked
<1> QED
  BY <1>4, <1>9

\* What a run does is one of these.
LEMMA ExecutorKinds ==
  ASSUME FanOutOk, NEW x \in Runs, Executor(x)
  PROVE  \/ \E r \in RunType : Stage(x, r)
         \/ \E us, a : \E r \in RunType : Chunked(x, us, r, a)
         \/ \E u \in Users :
              \/ look(x, u) \/ lookThrows(x, u) \/ logNotification(x, u) \/ logFails(x, u)
              \/ unregister(x, u)
              \/ \E d \in Devices, answer \in Answers : sendToDevice(x, u, d, answer)
<1>1. CASE Staging(x)
  BY <1>1, StagingSteps
<1>2. CASE pushFanout(x) /\ run[x].todo # {}
  BY <1>2, ChunkSteps
<1>3. CASE \E u \in Users :
              \/ look(x, u) \/ lookThrows(x, u) \/ logNotification(x, u) \/ logFails(x, u)
              \/ unregister(x, u)
              \/ \E d \in Devices, answer \in Answers : sendToDevice(x, u, d, answer)
  BY <1>3
<1> QED
  BY <1>1, <1>2, <1>3 DEF Executor, Staging

\* Only a run that fans out sends, and to the devices of the users of its chunk.
LEMMA StepSends ==
  ASSUME FanOutOk, Sending, [Next]_vars
  PROVE  Sending'
<1>0. at \in [Runs -> [Users -> SendType]] /\ run \in [Runs -> RunType]
  BY DEF FanOutOk, FanOutType
<1>1. CASE UNCHANGED <<run, at>>
  BY <1>1 DEF Sending, Fans
<1>2. ASSUME NEW x \in Runs, NEW r \in RunType, Stage(x, r) PROVE Sending'
  <2>1. run'[x] = r /\ (\A y \in Runs \ {x} : run'[y] = run[y]) /\ at' = at
    BY <1>0, <1>2 DEF Stage
  <2>2. \A u \in Users : r.pc # "push" => at[x][u] = NoSend
    BY <1>2 DEF Stage, Sending, Fans, NoSends
  <2> QED
    BY <1>2, <2>1, <2>2 DEF Sending, Fans, Stage
<1>3. ASSUME NEW x \in Runs, NEW us, NEW a, NEW r \in RunType, Chunked(x, us, r, a)
      PROVE  Sending'
  <2>1. /\ run'[x] = r /\ \A y \in Runs \ {x} : run'[y] = run[y]
        /\ at'[x] = a /\ \A y \in Runs \ {x} : at'[y] = at[y]
    BY <1>0, <1>3 DEF Chunked
  <2>2. \A u \in Users : SendOk(u, a[u])
    BY <1>3 DEF Chunked, SendOk, NoSend
  <2>3. r.pc = "push"
    BY <1>3 DEF Chunked
  <2> QED
    BY <2>1, <2>2, <2>3 DEF Sending, Fans
<1>4. ASSUME NEW x \in Runs, NEW u \in Users, NEW m \in SendType, Pushing(x, u, m), SendOk(u, m)
      PROVE  Sending'
  <2>1. \A y \in Runs, v \in Users : at'[y][v] = IF y = x /\ v = u THEN m ELSE at[y][v]
    BY <1>4, SendChanges DEF FanOutOk, Pushing
  <2>2. run[x].pc = "push"
    BY <1>4 DEF Pushing, Sending, Fans, NoSend
  <2>3. run' = run
    BY <1>4 DEF Pushing
  <2> QED
    BY <1>4, <2>1, <2>2, <2>3 DEF Sending, Fans
<1>5. ASSUME NEW x \in Runs, ~Running(x), Started(x), at' = at PROVE Sending'
  <2>1. run'[x] = [NoRun EXCEPT !.pc = "lookup"] /\ \A y \in Runs \ {x} : run'[y] = run[y]
    BY <1>0, <1>5 DEF Started
  <2>2. run'[x].pc = "lookup"
    BY <2>1 DEF NoRun
  <2>3. \A u \in Users : at[x][u] = NoSend
    BY <1>5 DEF Sending, Fans, Running
  <2> QED
    BY <1>5, <2>1, <2>2, <2>3 DEF Sending, Fans
<1>6. CASE crash
  <2>1. \A x \in Runs : run'[x].pc = "idle" /\ \A u \in Users : at'[x][u] = NoSend
    BY <1>6 DEF crash, NoRun, NoSends
  <2>2. \A u \in Users : SendOk(u, NoSend)
    BY DEF SendOk, NoSend
  <2> QED
    BY <2>1, <2>2 DEF Sending, Fans
<1>7. enqueueFails \/ work => \E x \in Runs : ~Running(x) /\ Started(x) /\ at' = at
  BY DEF enqueueFails, work, Runs
<1>8. Retrying \/ enqueue \/ forget \/ UNCHANGED vars => UNCHANGED <<run, at>>
  BY DEF Retrying, drain, resend, enqueue, forget, vars
<1>9. ASSUME NEW x \in Runs, Executor(x) PROVE Sending'
  BY <1>2, <1>3, <1>4, <1>9, ExecutorKinds, PushingSteps
<1> QED
  BY <1>1, <1>5, <1>6, <1>7, <1>8, <1>9 DEF Next

\* Two runs at once are an overlap.
Alone == \A x, y \in Runs : Running(x) /\ Running(y) => x = y

\* Whom a run looks up, or has still to push to, has no row.
Unsent ==
  \A x \in Runs, u \in Users :
    /\ at[x][u].step = "look" => u \notin rows
    /\ run[x].pc = "push" /\ u \in run[x].todo => u \notin rows /\ at[x][u] = NoSend

\* The answer for d is about to be logged.
Logging(d) == \E x \in Runs : at[x][Owner[d]].step = "log" /\ at[x][Owner[d]].device = d

\* What has reached d, or may, has a row or will have one; and d is not sent to again.
HeardOk(d) ==
  /\ Fine(d)
  /\ Silent(d) \/ Owner[d] \in rows \/ Logging(d)
  /\ \A x \in Runs : d \in at[x][Owner[d]].left => Silent(d)

Heard == past.overlap \/ (Alone /\ Unsent /\ \A d \in Devices : d \in past.unsure \/ HeardOk(d))

\* A run that sends is the only one.
LEMMA OthersQuiet ==
  ASSUME Sending, Alone, NEW x \in Runs, NEW y \in Runs, x # y, NEW u \in Users,
         at[x][u].step # "none", NEW v \in Users
  PROVE  at[y][v] = NoSend /\ run[y].pc = "idle"
<1>1. run[x].pc = "push"
  BY DEF Sending, Fans, NoSend
<1>2. ~Running(y)
  BY <1>1 DEF Alone, Running
<1> QED
  BY <1>2 DEF Running, Sending, Fans

\* A step of one send, to m, that leaves the counts of the other devices alone, or better.
LEMMA PushKeepsHeard ==
  ASSUME FanOutOk, Sending, Alone, Unsent, NEW x \in Runs, NEW u \in Users, NEW m \in SendType,
         Pushing(x, u, m), SendOk(u, m), m.step # "look", rows \subseteq rows', rows' \subseteq rows \cup {u},
         rows' = rows \/ at[x][u].step = "log",
         \A d \in Devices : d \in past.unsure \/ HeardOk(d),
         past.unsure \subseteq past'.unsure,
         \* what is left to send to has not heard, and other devices hear nothing more
         \A d \in m.left : d \in past'.unsure \/ Silent(d)',
         \A d \in Devices \ past'.unsure : Owner[d] = u => Fine(d)' /\ (Silent(d)' \/ u \in rows' \/ (m.step = "log" /\ m.device = d)),
         \A d \in Devices : Owner[d] # u => (Silent(d) => Silent(d)') /\ (Fine(d) => Fine(d)')
  PROVE  Unsent' /\ \A d \in Devices : d \in past'.unsure \/ HeardOk(d)'
<1>1. \A y \in Runs, v \in Users : at'[y][v] = IF y = x /\ v = u THEN m ELSE at[y][v]
  BY SendChanges DEF FanOutOk, Pushing
<1>2. run' = run /\ at[x][u].step # "none" /\ at[x][u] # NoSend
  BY DEF Pushing, NoSend
<1>3. \A y \in Runs \ {x}, v \in Users : at[y][v] = NoSend /\ run[y].pc = "idle"
  BY <1>2, OthersQuiet
<1>4. Unsent'
  <2>1. SUFFICES ASSUME NEW y \in Runs, NEW v \in Users
                 PROVE  /\ at'[y][v].step = "look" => v \notin rows'
                        /\ run'[y].pc = "push" /\ v \in run'[y].todo => v \notin rows' /\ at'[y][v] = NoSend
    BY DEF Unsent
  <2>2. CASE y # x
    BY <1>1, <1>2, <1>3, <2>2 DEF NoSend
  <2>3. CASE y = x /\ v = u
    <3>1. at'[y][v].step # "look"
      BY <1>1, <2>3
    <3>2. ~(run'[y].pc = "push" /\ v \in run'[y].todo)
      BY <1>2, <2>3 DEF Unsent
    <3> QED
      BY <3>1, <3>2
  <2>4. CASE y = x /\ v # u
    <3>1. at'[y][v] = at[y][v]
      BY <1>1, <2>4
    <3>2. v \in rows' => v \in rows
      BY <2>4
    <3> QED
      BY <1>2, <3>1, <3>2 DEF Unsent
  <2> QED
    BY <2>2, <2>3, <2>4
<1>5. ASSUME NEW d \in Devices, d \notin past'.unsure PROVE HeardOk(d)'
  <2>0. Owner[d] \in Users
    BY NotificationsAssumption
  <2>1. HeardOk(d)
    BY <1>5
  <2>2. CASE Owner[d] = u
    <3>1. Fine(d)' /\ (Silent(d)' \/ u \in rows' \/ (m.step = "log" /\ m.device = d))
      BY <1>5, <2>2
    <3>2. at'[x][Owner[d]] = m
      BY <1>1, <2>2
    <3>3. Silent(d)' \/ Owner[d] \in rows' \/ Logging(d)'
      BY <2>2, <3>1, <3>2 DEF Logging
    <3>4. ASSUME NEW y \in Runs, d \in at'[y][Owner[d]].left PROVE Silent(d)'
      <4>1. CASE y = x
        BY <1>5, <3>2, <3>4, <4>1
      <4>2. CASE y # x
        BY <1>1, <1>3, <2>0, <3>4, <4>2 DEF NoSend
      <4> QED
        BY <4>1, <4>2
    <3> QED
      BY <3>1, <3>3, <3>4 DEF HeardOk
  <2>3. CASE Owner[d] # u
    <3>1. (Silent(d) => Silent(d)') /\ (Fine(d) => Fine(d)')
      BY <2>3
    <3>2. \A y \in Runs : at'[y][Owner[d]] = at[y][Owner[d]]
      BY <1>1, <2>0, <2>3
    <3>3. Logging(d) => Logging(d)'
      BY <3>2 DEF Logging
    <3> QED
      BY <2>1, <3>1, <3>2, <3>3 DEF HeardOk
  <2> QED
    BY <2>2, <2>3
<1> QED
  BY <1>4, <1>5

\* Whoever is looked up has heard nothing.
LEMMA LookHeard ==
  ASSUME TInv, Sending, Heard, NEW x \in Runs, NEW u \in Users, look(x, u), ~past.overlap
  PROVE  Heard'
<1>0. /\ FanOutOk /\ Alone /\ Unsent /\ at[x][u] \in SendType /\ SendOk(u, at[x][u]) /\ PastShape(past)
      /\ \A d \in Devices : d \in past.unsure \/ HeardOk(d)
  BY DEF TInv, FanOutOk, FanOutType, Heard, Sending
<1> DEFINE left == IF u \in OptedOut THEN {} ELSE TokensOf(u)
           n == [at[x][u] EXCEPT !.left = left]
           m == Onward(n)
<1>1. /\ at' = [at EXCEPT ![x][u] = m] /\ at[x][u].step = "look"
      /\ UNCHANGED <<run, rows, got, retry>>
  BY DEF look
<1>2. left \subseteq Devices /\ \A d \in left : Owner[d] = u
  BY DEF TokensOf
<1>3. past' = past \/ past' = [past EXCEPT !.tried = @ \cup {u}]
  BY DEF look
<1>4. past'.unsure = past.unsure /\ past'.overlap = past.overlap
  BY <1>0, <1>3 DEF PastShape, Fields
<1> HIDE DEF left
<1>5. n \in SendType /\ n.left = left
  BY <1>0, <1>2 DEF SendType
<1> HIDE DEF n
<1>6. m \in SendType /\ SendOk(u, m) /\ m.left \subseteq left /\ m.step # "look"
  BY <1>2, <1>5, OnwardStep, OnwardOk
<1> HIDE DEF m
<1>7. Pushing(x, u, m)
  BY <1>1 DEF Pushing
<1>8. \A d \in Devices : Owner[d] = u => ~Logging(d)
  BY <1>0, <1>1, OthersQuiet DEF Logging, NoSend
<1>9. u \notin rows
  BY <1>0, <1>1 DEF Unsent
<1>10. \A d \in Devices : d \notin past.unsure /\ Owner[d] = u => Fine(d) /\ Silent(d)
  BY <1>0, <1>8, <1>9 DEF HeardOk
<1>11. \A d \in Devices : (Silent(d) <=> Silent(d)') /\ (Fine(d) <=> Fine(d)')
  BY <1>1 DEF Silent, Fine
<1>12. \A d \in m.left : d \in past'.unsure \/ Silent(d)'
  BY <1>2, <1>4, <1>6, <1>10, <1>11
<1>13. Unsent' /\ \A d \in Devices : d \in past'.unsure \/ HeardOk(d)'
  BY <1>0, <1>1, <1>4, <1>6, <1>7, <1>10, <1>11, <1>12, PushKeepsHeard
<1>14. Alone'
  BY <1>0, <1>1 DEF Alone, Running
<1> QED
  BY <1>13, <1>14 DEF Heard

\* A send that ends, or whose answer is logged, or not.
LEMMA LogHeard ==
  ASSUME TInv, Sending, Heard, NEW x \in Runs, NEW u \in Users, ~past.overlap,
         \/ lookThrows(x, u) \/ logNotification(x, u) \/ logFails(x, u) \/ unregister(x, u)
  PROVE  Heard'
<1>0. /\ FanOutOk /\ Alone /\ Unsent /\ at[x][u] \in SendType /\ SendOk(u, at[x][u]) /\ PastShape(past)
      /\ \A d \in Devices : d \in past.unsure \/ HeardOk(d)
  BY DEF TInv, FanOutOk, FanOutType, Heard, Sending
<1> DEFINE m == IF at[x][u].step = "log" THEN Onward(at[x][u]) ELSE NoSend
<1>1. /\ at' = [at EXCEPT ![x][u] = m] /\ at[x][u].step # "none" /\ at[x][u].step # "send"
      /\ UNCHANGED <<run, got, retry>>
  BY DEF lookThrows, logNotification, logFails, unregister
<1>2. NoSend \in SendType /\ SendOk(u, NoSend) /\ NoSend.left = {} /\ NoSend.step = "none"
  BY DEF NoSend, SendType, Steps, SendOk
<1>3. m \in SendType /\ SendOk(u, m) /\ m.left \subseteq at[x][u].left /\ m.step # "look"
  BY <1>0, <1>2, OnwardStep, OnwardOk DEF SendOk
<1> HIDE DEF m
<1>4. Pushing(x, u, m)
  BY <1>1 DEF Pushing
<1>5. \/ past' = past \/ past' = [past EXCEPT !.misread = TRUE]
      \/ logFails(x, u) /\ past' = [past EXCEPT !.unsure = @ \cup {at[x][u].device}]
  BY DEF lookThrows, logNotification, logFails, unregister
<1>6. /\ past.unsure \subseteq past'.unsure /\ past'.overlap = past.overlap
      /\ logFails(x, u) => at[x][u].device \in past'.unsure
  <2>1. CASE past' = past \/ past' = [past EXCEPT !.misread = TRUE]
    <3>1. ~logFails(x, u) \/ past' = [past EXCEPT !.unsure = @ \cup {at[x][u].device}]
      BY DEF logFails
    <3> QED
      BY <1>0, <2>1, <3>1 DEF PastShape, Fields
  <2>2. CASE past' = [past EXCEPT !.unsure = @ \cup {at[x][u].device}]
    BY <1>0, <2>2 DEF PastShape, Fields
  <2> QED
    BY <1>5, <2>1, <2>2
<1>7. /\ rows \subseteq rows' /\ rows' \subseteq rows \cup {u} /\ (rows' = rows \/ at[x][u].step = "log")
      /\ at[x][u].step = "log" => u \in rows' \/ logFails(x, u)
  BY DEF lookThrows, logNotification, logFails, unregister, Logged
<1>8. \A d \in Devices : (Silent(d) <=> Silent(d)') /\ (Fine(d) <=> Fine(d)')
  BY <1>1 DEF Silent, Fine
<1>9. \A d \in m.left : d \in past'.unsure \/ Silent(d)'
  <2> TAKE d \in m.left
  <2>1. d \in at[x][u].left /\ Owner[d] = u /\ d \in Devices
    BY <1>0, <1>3 DEF SendOk, SendType
  <2>2. d \in past.unsure \/ HeardOk(d)
    BY <1>0, <2>1
  <2>3. d \in past.unsure \/ Silent(d)
    BY <2>1, <2>2 DEF HeardOk
  <2> QED
    BY <1>6, <1>8, <2>1, <2>3
<1>10. ASSUME NEW d \in Devices \ past'.unsure, Owner[d] = u
       PROVE  Fine(d)' /\ (Silent(d)' \/ u \in rows' \/ (m.step = "log" /\ m.device = d))
  <2>1. HeardOk(d)
    BY <1>0, <1>6, <1>10
  <2>2. CASE Silent(d) \/ u \in rows
    BY <1>7, <1>8, <2>1, <2>2 DEF HeardOk
  <2>3. CASE Logging(d)
    <3>1. at[x][u].step = "log" /\ at[x][u].device = d
      BY <1>0, <1>1, <1>10, <2>3, OthersQuiet DEF Logging, NoSend
    <3>2. u \in rows'
      BY <1>6, <1>7, <1>10, <3>1
    <3> QED
      BY <1>8, <2>1, <3>2 DEF HeardOk
  <2> QED
    BY <1>10, <2>1, <2>2, <2>3 DEF HeardOk
<1>11. Unsent' /\ \A d \in Devices : d \in past'.unsure \/ HeardOk(d)'
  BY <1>0, <1>3, <1>4, <1>6, <1>7, <1>8, <1>9, <1>10, PushKeepsHeard
<1>12. Alone'
  BY <1>0, <1>1 DEF Alone, Running
<1> QED
  BY <1>11, <1>12 DEF Heard

\* A device that is sent to has heard nothing; what the retry queue drops reaches nobody.
LEMMA SendHeard ==
  ASSUME TInv, Sending, Heard, NEW x \in Runs, NEW u \in Users, NEW e \in Devices,
         NEW answer \in Answers, sendToDevice(x, u, e, answer), ~past.overlap
  PROVE  Heard'
<1>0. /\ FanOutOk /\ Alone /\ Unsent /\ at[x][u] \in SendType /\ SendOk(u, at[x][u]) /\ PastShape(past)
      /\ RetryInv /\ Waiting /\ Tables
      /\ \A d \in Devices : d \in past.unsure \/ HeardOk(d)
  BY DEF TInv, FanOutOk, FanOutType, Heard, Sending
<1> DEFINE m == [step |-> "log", device |-> e, left |-> at[x][u].left \ {e},
                 stale |-> IF answer = "dead" THEN at[x][u].stale \cup {e} ELSE at[x][u].stale]
           unsure == IF answer = "late" THEN past.unsure \cup {e} ELSE past.unsure
           reached == answer \in {"arrives", "late"}
           queued == answer \in {"fails", "late"} /\ e \notin Ios
<1>1. /\ at' = [at EXCEPT ![x][u] = m] /\ at[x][u].step = "send" /\ e \in at[x][u].left
      /\ UNCHANGED <<run, rows>>
      /\ got' = IF reached THEN [got EXCEPT ![e] = @ + 1] ELSE got
      /\ retry' = IF queued THEN Enqueued(retry, e) ELSE retry
  BY DEF sendToDevice
<1>2. past' = [past EXCEPT !.tried = @ \cup {u}, !.unsure = unsure]
  BY DEF sendToDevice
<1>3. past'.unsure = unsure /\ past'.overlap = past.overlap
  <2> HIDE DEF unsure
  <2> QED
    BY <1>0, <1>2 DEF PastShape, Fields
<1>4. past.unsure \subseteq past'.unsure /\ (answer = "late" => e \in past'.unsure)
  BY <1>3
<1>5. m \in SendType /\ SendOk(u, m) /\ m.step = "log" /\ m.device = e /\ m.left = at[x][u].left \ {e}
  BY <1>0, <1>1 DEF SendType, Steps, SendOk
<1> HIDE DEF m
<1>6. Pushing(x, u, m)
  BY <1>1 DEF Pushing
<1>7. Owner[e] = u
  BY <1>0, <1>1 DEF SendOk
<1>8. e \in past.unsure \/ Silent(e)
  BY <1>0, <1>1, <1>7 DEF HeardOk
<1>9. got'[e] = (IF reached THEN got[e] + 1 ELSE got[e]) /\ \A d \in Devices \ {e} : got'[d] = got[d]
  BY <1>0, <1>1 DEF Tables
<1>10. Untouched \/ (queued /\ Joins(e))
  BY <1>0, <1>1, EnqueuedFields DEF RetryInv, Untouched, Joins
<1>11. \A d \in Devices \ {e} : (Silent(d) => Silent(d)') /\ (Fine(d) => Fine(d)')
  <2>1. CASE Untouched
    BY <1>9, <2>1 DEF Untouched, Silent, Fine
  <2>2. CASE queued /\ Joins(e)
    BY <1>0, <1>9, <2>2, JoinsHeard
  <2> QED
    BY <1>10, <2>1, <2>2
<1>12. e \in past'.unsure \/ Fine(e)'
  <2>1. ASSUME e \notin past'.unsure PROVE Fine(e)'
    <3>1. Silent(e) /\ answer # "late"
      BY <1>4, <1>8, <2>1
    <3>2. Single(retry.queue, e) /\ Single(retry.batch, e)
      BY <3>1 DEF Silent, Single, Has
    <3>3. CASE Untouched
      <4>1. got'[e] = 0 \/ got'[e] = 1
        BY <1>9, <3>1 DEF Silent
      <4> QED
        BY <3>1, <3>2, <3>3, <4>1 DEF Untouched, Silent, Fine
    <3>4. CASE queued /\ Joins(e)
      <4>1. got'[e] = got[e]
        BY <1>9, <3>1, <3>4
      <4> QED
        BY <1>0, <3>1, <3>4, <4>1, JoinsHeard
    <3> QED
      BY <1>10, <3>3, <3>4
  <2> QED
    BY <2>1
<1>13. \A d \in m.left : d \in past'.unsure \/ Silent(d)'
  <2> TAKE d \in m.left
  <2>1. d \in at[x][u].left /\ Owner[d] = u /\ d \in Devices \ {e}
    BY <1>0, <1>5 DEF SendOk, SendType
  <2>2. d \in past.unsure \/ Silent(d)
    BY <1>0, <2>1 DEF HeardOk
  <2> QED
    BY <1>4, <1>11, <2>1, <2>2
<1>14. ASSUME NEW d \in Devices \ past'.unsure, Owner[d] = u
       PROVE  Fine(d)' /\ (Silent(d)' \/ u \in rows' \/ (m.step = "log" /\ m.device = d))
  <2>1. CASE d = e
    BY <1>5, <1>12, <1>14, <2>1
  <2>2. CASE d # e
    <3>1. HeardOk(d)
      BY <1>0, <1>4, <1>14
    <3>2. ~Logging(d)
      BY <1>0, <1>1, <1>14, OthersQuiet DEF Logging, NoSend
    <3> QED
      BY <1>1, <1>11, <1>14, <2>2, <3>1, <3>2 DEF HeardOk
  <2> QED
    BY <2>1, <2>2
<1>15. Unsent' /\ \A d \in Devices : d \in past'.unsure \/ HeardOk(d)'
  BY <1>0, <1>1, <1>4, <1>5, <1>6, <1>7, <1>11, <1>13, <1>14, PushKeepsHeard
<1>16. Alone'
  BY <1>0, <1>1 DEF Alone, Running
<1> QED
  BY <1>15, <1>16 DEF Heard

\* Two runs that overlapped remain two that did.
LEMMA OverlapStays ==
  ASSUME FanOutOk, past.overlap, [Next]_vars
  PROVE  past'.overlap
<1>0. PastShape(past) /\ FanOutOk
  BY DEF FanOutOk, FanOutType
<1>1. \/ past'.overlap = past.overlap
      \/ \E x \in Runs : past' = [past EXCEPT !.overlap = @ \/ \E y \in Runs \ {x} : Running(y)]
  <2>1. enqueue \/ forget \/ UNCHANGED vars => past' = past
    BY DEF enqueue, forget, vars
  <2>5. Retrying => past'.overlap = past.overlap
    BY <1>0, RetryingPast
  <2>2. crash => past'.overlap = past.overlap
    <3>1. crash => \E v, w : past' = [past EXCEPT !.unsure = v, !.mailUnsure = w]
      BY DEF crash
    <3> QED
      BY <1>0, <3>1 DEF PastShape, Fields
  <2>3. ASSUME NEW x \in Runs, Executor(x) PROVE past'.overlap = past.overlap
    <3>1. ASSUME NEW r \in RunType, Stage(x, r) PROVE past'.overlap = past.overlap
      BY <3>1 DEF Stage
    <3>2. ASSUME NEW us, NEW a, NEW r \in RunType, Chunked(x, us, r, a) PROVE past'.overlap = past.overlap
      BY <3>2 DEF Chunked
    <3>3. ASSUME NEW u \in Users,
                 \/ look(x, u) \/ lookThrows(x, u) \/ logNotification(x, u) \/ logFails(x, u)
                 \/ unregister(x, u)
                 \/ \E d \in Devices, answer \in Answers : sendToDevice(x, u, d, answer)
          PROVE  past'.overlap = past.overlap
      <4>1. \E t, v, w : past' = past \/ past' = [past EXCEPT !.tried = t]
                         \/ past' = [past EXCEPT !.misread = TRUE]
                         \/ past' = [past EXCEPT !.unsure = v]
                         \/ past' = [past EXCEPT !.tried = t, !.unsure = v]
        BY ZenonT(60), <3>3 DEF look, lookThrows, logNotification, logFails, unregister, sendToDevice
      <4> QED
        BY <1>0, <4>1 DEF PastShape, Fields
    <3> QED
      BY <1>0, <2>3, <3>1, <3>2, <3>3, ExecutorKinds
  <2>4. enqueueFails \/ work
          => \E x \in Runs : past' = [past EXCEPT !.overlap = @ \/ \E y \in Runs \ {x} : Running(y)]
    BY DEF enqueueFails, work, Started, Runs
  <2> QED
    BY <2>1, <2>2, <2>3, <2>4, <2>5 DEF Next
<1>2. ASSUME NEW x \in Runs, past' = [past EXCEPT !.overlap = @ \/ \E y \in Runs \ {x} : Running(y)]
      PROVE  past'.overlap
  <2> DEFINE o == past.overlap \/ \E y \in Runs \ {x} : Running(y)
  <2>1. past' = [past EXCEPT !.overlap = o] /\ o
    BY <1>2
  <2> HIDE DEF o
  <2> QED
    BY <1>0, <2>1 DEF PastShape, Fields
<1> QED
  BY <1>1, <1>2

\* Every step keeps it.
LEMMA StepHeard ==
  ASSUME TInv, Sending, Heard, [Next]_vars
  PROVE  Heard'
<1>0. /\ FanOutOk /\ FanOutType /\ PastShape(past) /\ RetryInv /\ Waiting /\ Tables
      /\ at \in [Runs -> [Users -> SendType]] /\ run \in [Runs -> RunType]
  BY DEF TInv, FanOutOk, FanOutType
<1>1. CASE past.overlap
  BY <1>0, <1>1, OverlapStays DEF Heard
<1>2. CASE ~past.overlap
  <2>0. Alone /\ Unsent /\ \A d \in Devices : d \in past.unsure \/ HeardOk(d)
    BY <1>2 DEF Heard
  <2>1. CASE Retrying
    <3>1. UNCHANGED <<run, at, rows>> /\ past.unsure \subseteq past'.unsure
      BY <1>0, <2>1, RetryingPast DEF Retrying, drain, resend
    <3>2. \A d \in Devices \ past'.unsure : (Silent(d) => Silent(d)') /\ (Fine(d) => Fine(d)')
      BY <1>0, <2>1, RetryingHeard
    <3>3. \A d \in Devices \ past'.unsure : HeardOk(d) => HeardOk(d)'
      BY <3>1, <3>2 DEF HeardOk, Logging
    <3>4. Alone' /\ Unsent'
      BY <2>0, <3>1 DEF Alone, Unsent, Running
    <3> QED
      BY <2>0, <3>1, <3>3, <3>4 DEF Heard
  <2>2. CASE UNCHANGED <<run, at, rows, past, got, retry>>
    <3>1. Alone' /\ Unsent'
      BY <2>0, <2>2 DEF Alone, Unsent, Running
    <3>2. \A d \in Devices : HeardOk(d) => HeardOk(d)'
      BY <2>2 DEF HeardOk, Logging, Fine, Silent
    <3> QED
      BY <2>0, <2>2, <3>1, <3>2 DEF Heard
  <2>3. ASSUME NEW x \in Runs, ~Running(x), Started(x), UNCHANGED <<at, rows, got, retry>> PROVE Heard'
    <3> DEFINE o == past.overlap \/ \E y \in Runs \ {x} : Running(y)
    <3>1. past' = [past EXCEPT !.overlap = o]
      BY <2>3 DEF Started
    <3>2. past'.unsure = past.unsure /\ past'.overlap = o
      <4> HIDE DEF o
      <4> QED
        BY <1>0, <3>1 DEF PastShape, Fields
    <3>3. CASE o
      BY <3>2, <3>3 DEF Heard
    <3>4. CASE ~o
      <4>1. run'[x] = [NoRun EXCEPT !.pc = "lookup"] /\ \A y \in Runs \ {x} : run'[y] = run[y]
        BY <1>0, <2>3 DEF Started
      <4>2. run'[x].pc = "lookup"
        BY <4>1 DEF NoRun
      <4>3. Alone'
        BY <3>4, <4>1 DEF Alone, Running
      <4>4. Unsent'
        <5>1. SUFFICES ASSUME NEW y \in Runs, NEW u \in Users
                       PROVE  /\ at'[y][u].step = "look" => u \notin rows'
                              /\ run'[y].pc = "push" /\ u \in run'[y].todo => u \notin rows' /\ at'[y][u] = NoSend
          BY DEF Unsent
        <5>2. /\ at[y][u].step = "look" => u \notin rows
              /\ run[y].pc = "push" /\ u \in run[y].todo => u \notin rows /\ at[y][u] = NoSend
          BY <2>0 DEF Unsent
        <5>3. UNCHANGED <<at, rows>>
          BY <2>3
        <5>4. run'[y].pc = "push" => run'[y] = run[y]
          BY <4>1, <4>2
        <5> QED
          BY <5>2, <5>3, <5>4
      <4>5. \A d \in Devices : HeardOk(d) => HeardOk(d)'
        BY <2>3 DEF HeardOk, Logging, Fine, Silent
      <4> QED
        BY <2>0, <3>2, <4>3, <4>4, <4>5 DEF Heard
    <3> QED
      BY <3>3, <3>4
  <2>4. CASE crash
    <3> DEFINE lost == {d \in Devices : Logging(d)}
    <3>1. /\ run' = [x \in Runs |-> NoRun] /\ at' = [x \in Runs |-> NoSends] /\ UNCHANGED <<rows, got>>
          /\ retry'.queue = <<>> /\ retry'.batch = <<>>
      BY <2>4 DEF crash, NoRetry
    <3>2. PICK w : past' = [past EXCEPT !.unsure = @ \cup lost, !.mailUnsure = w]
      BY <2>4 DEF crash, Logging
    <3>3. past'.unsure = past.unsure \cup lost
      <4> HIDE DEF lost
      <4> QED
        BY <1>0, <3>2 DEF PastShape, Fields
    <3>4. \A x \in Runs : ~Running(x)' /\ run'[x].pc = "idle" /\ \A u \in Users : at'[x][u] = NoSend
      BY <3>1 DEF Running, NoRun, NoSends
    <3>5. Alone' /\ Unsent'
      BY <3>4 DEF Alone, Unsent, NoSend
    <3>6. ASSUME NEW d \in Devices, d \notin past'.unsure PROVE HeardOk(d)'
      <4>1. HeardOk(d) /\ ~Logging(d) /\ Owner[d] \in Users
        BY <2>0, <3>3, <3>6, NotificationsAssumption
      <4>2. ~Has(retry'.queue, d) /\ ~Has(retry'.batch, d) /\ Single(retry'.queue, d) /\ Single(retry'.batch, d)
        BY <3>1 DEF Has, Single
      <4>3. Fine(d)' /\ (Silent(d) => Silent(d)')
        BY <3>1, <4>1, <4>2 DEF HeardOk, Fine, Silent
      <4>4. \A x \in Runs : d \notin at'[x][Owner[d]].left
        BY <3>4, <4>1 DEF NoSend
      <4> QED
        BY <3>1, <4>1, <4>3, <4>4 DEF HeardOk
    <3> QED
      BY <3>5, <3>6 DEF Heard
  <2>5. ASSUME NEW x \in Runs, NEW r \in RunType, Stage(x, r) PROVE Heard'
    <3>1. /\ run'[x] = r /\ (\A y \in Runs \ {x} : run'[y] = run[y]) /\ UNCHANGED <<at, rows, got, retry>>
          /\ past'.unsure = past.unsure /\ Running(x)
      BY <1>0, <2>5 DEF Stage
    <3>2. Alone'
      BY <2>0, <3>1 DEF Alone, Running
    <3>3. r.pc = "push" => \A u \in r.todo : u \notin rows /\ (u \in Users => at[x][u] = NoSend)
      BY <2>5 DEF Stage, Fresh, Sending, Fans
    <3>4. Unsent'
      BY <2>0, <3>1, <3>3 DEF Unsent
    <3>5. \A d \in Devices : HeardOk(d) => HeardOk(d)'
      BY <3>1 DEF HeardOk, Logging, Fine, Silent
    <3> QED
      BY <2>0, <3>1, <3>2, <3>4, <3>5 DEF Heard
  <2>6. ASSUME NEW x \in Runs, NEW us, NEW a, NEW r \in RunType, Chunked(x, us, r, a) PROVE Heard'
    <3>1. /\ run'[x] = r /\ (\A y \in Runs \ {x} : run'[y] = run[y])
          /\ at'[x] = a /\ (\A y \in Runs \ {x} : at'[y] = at[y])
          /\ UNCHANGED <<rows, got, retry, past>>
          /\ us \subseteq run[x].todo /\ run[x].pc = "push" /\ r.todo = run[x].todo \ us /\ at[x] = NoSends
          /\ \A u \in Users : IF u \in us THEN a[u].step = "look" /\ a[u].left = {} ELSE a[u] = NoSend
      BY <1>0, <2>6 DEF Chunked
    <3>2. Alone'
      BY <2>0, <3>1 DEF Alone, Running
    <3>3. Unsent'
      <4>1. SUFFICES ASSUME NEW y \in Runs, NEW u \in Users
                     PROVE  /\ at'[y][u].step = "look" => u \notin rows'
                            /\ run'[y].pc = "push" /\ u \in run'[y].todo => u \notin rows' /\ at'[y][u] = NoSend
        BY DEF Unsent
      <4>2. CASE y # x
        BY <2>0, <3>1, <4>2 DEF Unsent
      <4>3. CASE y = x
        <5>1. u \in run[x].todo => u \notin rows
          BY <2>0, <3>1 DEF Unsent
        <5>2. rows' = rows /\ run'[y].todo = run[x].todo \ us /\ at'[y][u] = a[u] /\ us \subseteq run[x].todo
          BY <3>1, <4>3
        <5>3. CASE u \in us
          BY <5>1, <5>2, <5>3
        <5>4. CASE u \notin us
          <6>1. a[u] = NoSend
            BY <3>1, <5>4
          <6>2. NoSend.step # "look"
            BY DEF NoSend
          <6> QED
            BY <5>1, <5>2, <5>4, <6>1, <6>2
        <5> QED
          BY <5>3, <5>4
      <4> QED
        BY <4>2, <4>3
    <3>4. ASSUME NEW d \in Devices, HeardOk(d) PROVE HeardOk(d)'
      <4>1. Owner[d] \in Users
        BY NotificationsAssumption
      <4>2. \A y \in Runs : /\ at[y][Owner[d]].step = "log" => at'[y][Owner[d]] = at[y][Owner[d]]
                            /\ at'[y][Owner[d]].left = {} \/ at'[y][Owner[d]] = at[y][Owner[d]]
        BY <3>1, <4>1 DEF NoSends, NoSend
      <4>3. Logging(d) => Logging(d)'
        BY <4>2 DEF Logging
      <4>4. (Silent(d) <=> Silent(d)') /\ (Fine(d) <=> Fine(d)')
        BY <3>1 DEF Silent, Fine
      <4> QED
        BY <3>1, <3>4, <4>2, <4>3, <4>4 DEF HeardOk
    <3> QED
      BY <2>0, <3>1, <3>2, <3>3, <3>4 DEF Heard
  <2>7. ASSUME NEW x \in Runs, Executor(x) PROVE Heard'
    BY <1>0, <1>2, <2>5, <2>6, <2>7, ExecutorKinds, LookHeard, LogHeard, SendHeard
  <2>8. enqueueFails \/ work => \E x \in Runs : ~Running(x) /\ Started(x) /\ UNCHANGED <<at, rows, got, retry>>
    BY DEF enqueueFails, work, Runs
  <2>9. enqueue \/ forget \/ UNCHANGED vars => UNCHANGED <<run, at, rows, past, got, retry>>
    BY DEF enqueue, forget, vars
  <2> QED
    BY <2>1, <2>2, <2>3, <2>4, <2>7, <2>8, <2>9 DEF Next
<1> QED
  BY <1>1, <1>2

-----------------------------------------------------------------------------
(* A mailbox has the e-mail of the event once.                             *)

\* Its row is about to be written.
LoggingMail(u) == \E x \in Runs : run[x].pc = "mailLog" /\ run[x].mailing = u

MailStages == {"mail", "mailLog"}

\* Who was mailed has a row or will have one, and is not mailed again.
MailOk(u) ==
  /\ mails[u] = 0 \/ (mails[u] = 1 /\ (u \in mailRows \/ LoggingMail(u)))
  /\ \A x \in Runs : run[x].pc \in MailStages /\ u \in run[x].todo => mails[u] = 0

MailHeard == past.overlap \/ \A u \in Users : u \in past.mailUnsure \/ MailOk(u)

\* A step of run x, to r: it mails one of those it has left, or nobody; those it finds to mail
\* have no row; and the row of a mail is written, or was not, as with a mail that failed.
MailMove(x, r) ==
  /\ run' = [run EXCEPT ![x] = r] /\ Running(x)
  /\ mailRows \subseteq mailRows'
  /\ run[x].pc = "mailLog" => run[x].mailing \in mailRows' \cup past'.mailUnsure
  /\ r.pc \in MailStages =>
       r.todo \subseteq (IF run[x].pc \in MailStages THEN run[x].todo ELSE Users \ mailRows)
  /\ \/ mails' = mails /\ r.pc # "mailLog"
     \/ \E u \in past'.mailUnsure : mails' = [mails EXCEPT ![u] = @ + 1] /\ run[x].pc = "mail" /\ r.pc = "mail"
     \/ \E u \in run[x].todo : /\ run[x].pc = "mail" /\ mails' = [mails EXCEPT ![u] = @ + 1]
                               /\ r.pc = "mailLog" /\ r.mailing = u /\ u \notin r.todo

\* What is unsure remains so.
LEMMA UnsureStays ==
  ASSUME FanOutOk, NEW x \in Runs, Executor(x)
  PROVE  /\ past.mailUnsure \subseteq past'.mailUnsure
         /\ logMailFails(x) => run[x].mailing \in past'.mailUnsure
<1>1. PastShape(past)
  BY DEF FanOutOk, FanOutType
<1>2. CASE logMailFails(x)
  <2>1. past' = [past EXCEPT !.mailUnsure = @ \cup {run[x].mailing}]
    BY <1>2 DEF logMailFails
  <2> QED
    BY <1>1, <2>1 DEF PastShape, Fields
<1>3. CASE Staging(x) /\ ~logMailFails(x)
  <2>1. \/ past' = past
        \/ past' = [past EXCEPT !.misread = TRUE]
        \/ past' = [past EXCEPT !.mailFailed = Users]
        \/ past' = [past EXCEPT !.done = TRUE]
        \/ \E u \in Users, taken \in BOOLEAN :
             past' = [past EXCEPT !.mailFailed = @ \cup {u},
                                  !.mailUnsure = IF taken THEN @ \cup {u} ELSE @]
    BY <1>3 DEF Staging, lookup, lookupFails, filterFresh, filterThrows, pushFanout, mailFilter,
           loadUsersFails, logMail, finish, mail, mailFails
  <2> QED
    BY <1>1, <1>3, <2>1 DEF PastShape, Fields
<1>4. CASE pushFanout(x)
  BY <1>4 DEF pushFanout, logMailFails
<1>5. ASSUME NEW u \in Users,
             \/ look(x, u) \/ lookThrows(x, u) \/ logNotification(x, u) \/ logFails(x, u)
             \/ unregister(x, u)
             \/ \E d \in Devices, answer \in Answers : sendToDevice(x, u, d, answer)
      PROVE  past.mailUnsure \subseteq past'.mailUnsure
  <2>1. \E t, v : past' = past \/ past' = [past EXCEPT !.tried = t]
                 \/ past' = [past EXCEPT !.misread = TRUE]
                 \/ past' = [past EXCEPT !.unsure = v]
                 \/ past' = [past EXCEPT !.tried = t, !.unsure = v]
    BY <1>5 DEF look, lookThrows, logNotification, logFails, unregister, sendToDevice
  <2> QED
    BY <1>1, <2>1 DEF PastShape, Fields
<1> QED
  BY <1>2, <1>3, <1>4, <1>5 DEF Executor, Staging

LEMMA MailSteps ==
  ASSUME FanOutOk, Sending, NEW x \in Runs, Executor(x)
  PROVE  \/ UNCHANGED <<run, mails, mailRows>>
         \/ \E r : MailMove(x, r)
<1>0. run[x] \in RunType
  BY DEF FanOutOk, FanOutType
<1>1. ASSUME NEW r, run' = [run EXCEPT ![x] = r], Running(x), run[x].pc # "mailLog",
             r.pc \notin MailStages, UNCHANGED <<mails, mailRows>>
      PROVE  MailMove(x, r)
  BY <1>1 DEF MailMove, MailStages
<1>2. CASE lookup(x)
  <2> DEFINE r == [run[x] EXCEPT !.pc = "filter"]
  <2>1. r.pc = "filter"
    BY <1>0 DEF RunType
  <2>2. /\ run' = [run EXCEPT ![x] = r] /\ Running(x) /\ run[x].pc # "mailLog"
        /\ UNCHANGED <<mails, mailRows>>
    BY <1>2 DEF lookup, Running
  <2> HIDE DEF r
  <2> QED
    BY <1>1, <2>1, <2>2 DEF MailStages
<1>3. CASE lookupFails(x) \/ filterThrows(x) \/ finish(x)
  <2>1. /\ run' = [run EXCEPT ![x] = NoRun] /\ Running(x) /\ run[x].pc # "mailLog"
        /\ UNCHANGED <<mails, mailRows>>
    BY <1>3 DEF lookupFails, filterThrows, finish, Ended, Thrown, Running
  <2>2. NoRun.pc \notin MailStages
    BY DEF NoRun, MailStages
  <2> QED
    BY <1>1, <2>1, <2>2
<1>4. CASE filterFresh(x)
  <2> DEFINE r == [run[x] EXCEPT !.pc = "push", !.fresh = Fresh, !.todo = Fresh]
  <2>1. r.pc = "push"
    BY <1>0 DEF RunType
  <2>2. /\ run' = [run EXCEPT ![x] = r] /\ Running(x) /\ run[x].pc # "mailLog"
        /\ UNCHANGED <<mails, mailRows>>
    BY <1>4 DEF filterFresh, Running
  <2> HIDE DEF r
  <2> QED
    BY <1>1, <2>1, <2>2 DEF MailStages
<1>5. CASE pushFanout(x)
  <2>0. run[x].pc = "push" /\ Running(x) /\ UNCHANGED <<mails, mailRows>>
    BY <1>5 DEF pushFanout, Running
  <2>1. CASE run[x].todo = {}
    <3> DEFINE r == [run[x] EXCEPT !.pc = "mailFilter"]
    <3>1. r.pc = "mailFilter" /\ run' = [run EXCEPT ![x] = r]
      BY <1>0, <1>5, <2>1 DEF RunType, pushFanout
    <3> HIDE DEF r
    <3> QED
      BY <1>1, <2>0, <3>1 DEF MailStages
  <2>2. CASE run[x].todo # {}
    <3>1. PICK us : run' = [run EXCEPT ![x].todo = Rest(@, us)]
      BY <1>5, <2>2 DEF pushFanout
    <3> DEFINE r == [run[x] EXCEPT !.todo = Rest(@, us)]
    <3>2. r.pc = "push" /\ run' = [run EXCEPT ![x] = r]
      BY <1>0, <2>0, <3>1 DEF RunType
    <3> HIDE DEF r
    <3> QED
      BY <1>1, <2>0, <3>2 DEF MailStages
  <2> QED
    BY <2>1, <2>2
<1>6. CASE mailFilter(x)
  <2> DEFINE r == [run[x] EXCEPT !.pc = "mail", !.todo = Recipients(x)]
  <2>1. r.pc = "mail" /\ r.todo = Recipients(x)
    BY <1>0 DEF RunType
  <2>2. Recipients(x) \subseteq Users \ mailRows
    BY <1>0 DEF Recipients, RunType
  <2>3. /\ run' = [run EXCEPT ![x] = r] /\ Running(x) /\ run[x].pc = "mailFilter"
        /\ UNCHANGED <<mails, mailRows>>
    BY <1>6 DEF mailFilter, Running
  <2> HIDE DEF r
  <2>4. MailMove(x, r)
    BY <2>1, <2>2, <2>3 DEF MailMove, MailStages
  <2> QED
    BY <2>4
<1>7. CASE loadUsersFails(x)
  <2> DEFINE r == [run[x] EXCEPT !.pc = "mail"]
  <2>1. r.pc = "mail" /\ r.todo = run[x].todo
    BY <1>0 DEF RunType
  <2>2. /\ run' = [run EXCEPT ![x] = r] /\ Running(x) /\ run[x].pc = "mailFilter"
        /\ UNCHANGED <<mails, mailRows>>
    BY <1>7 DEF loadUsersFails, Running
  <2>3. run[x].todo = {}
    BY <2>2 DEF Sending, Fans
  <2> HIDE DEF r
  <2>4. MailMove(x, r)
    BY <2>1, <2>2, <2>3 DEF MailMove, MailStages
  <2> QED
    BY <2>4
<1>8. CASE logMail(x) \/ logMailFails(x)
  <2> DEFINE r == [run[x] EXCEPT !.pc = "mail", !.mailing = None]
  <2>1. r.pc = "mail" /\ r.todo = run[x].todo
    BY <1>0 DEF RunType
  <2>2. /\ run' = [run EXCEPT ![x] = r] /\ Running(x) /\ run[x].pc = "mailLog" /\ mails' = mails
    BY <1>8 DEF logMail, logMailFails, Mailed, Running
  <2>3. mailRows \subseteq mailRows' /\ run[x].mailing \in mailRows' \cup past'.mailUnsure
    BY <1>8, UnsureStays DEF logMail, logMailFails, MailLogged
  <2> HIDE DEF r
  <2>4. MailMove(x, r)
    BY <2>1, <2>2, <2>3 DEF MailMove, MailStages
  <2> QED
    BY <2>4
<1>9. ASSUME NEW u \in Users, mail(x, u) PROVE \E r : MailMove(x, r)
  <2> DEFINE r == [run[x] EXCEPT !.pc = "mailLog", !.todo = run[x].todo \ {u}, !.mailing = u]
  <2>1. r.pc = "mailLog" /\ r.mailing = u /\ r.todo = run[x].todo \ {u}
    BY <1>0 DEF RunType
  <2>2. /\ run' = [run EXCEPT ![x] = r] /\ Running(x) /\ run[x].pc = "mail" /\ u \in run[x].todo
        /\ mails' = [mails EXCEPT ![u] = @ + 1] /\ mailRows' = mailRows
    BY <1>9 DEF mail, Running
  <2> HIDE DEF r
  <2>3. MailMove(x, r)
    BY <2>1, <2>2 DEF MailMove, MailStages
  <2> QED
    BY <2>3
<1>10. ASSUME NEW u \in Users, NEW taken \in BOOLEAN, mailFails(x, u, taken) PROVE \E r : MailMove(x, r)
  <2> DEFINE r == [run[x] EXCEPT !.todo = run[x].todo \ {u}]
  <2>1. /\ run' = [run EXCEPT ![x] = r] /\ Running(x) /\ run[x].pc = "mail" /\ mailRows' = mailRows
        /\ mails' = IF taken THEN [mails EXCEPT ![u] = @ + 1] ELSE mails
    BY <1>10 DEF mailFails, Running
  <2>2. r.pc = "mail" /\ r.todo = run[x].todo \ {u}
    BY <1>0, <2>1 DEF RunType
  <2>3. ASSUME taken PROVE u \in past'.mailUnsure
    <3>1. past' = [past EXCEPT !.mailFailed = @ \cup {u}, !.mailUnsure = @ \cup {u}]
      BY <1>10, <2>3 DEF mailFails
    <3>2. PastShape(past)
      BY DEF FanOutOk, FanOutType
    <3> QED
      BY <3>1, <3>2 DEF PastShape, Fields
  <2> HIDE DEF r
  <2>4. CASE taken
    <3>1. mails' = [mails EXCEPT ![u] = @ + 1] /\ u \in past'.mailUnsure
      BY <2>1, <2>3, <2>4
    <3> QED
      BY <2>1, <2>2, <3>1 DEF MailMove, MailStages
  <2>5. CASE ~taken
    BY <2>1, <2>2, <2>5 DEF MailMove, MailStages
  <2> QED
    BY <2>4, <2>5
<1>11. CASE \E u \in Users :
              \/ look(x, u) \/ lookThrows(x, u) \/ logNotification(x, u) \/ logFails(x, u)
              \/ unregister(x, u)
              \/ \E d \in Devices, answer \in Answers : sendToDevice(x, u, d, answer)
  BY ZenonT(60), <1>11 DEF look, lookThrows, logNotification, logFails, unregister, sendToDevice
<1> QED
  BY <1>2, <1>3, <1>4, <1>5, <1>6, <1>7, <1>8, <1>9, <1>10, <1>11 DEF Executor

\* Such a step mails nobody twice.
LEMMA MoveMails ==
  ASSUME FanOutOk, Tables, Alone, NEW x \in Runs, NEW r, MailMove(x, r),
         NEW u \in Users, MailOk(u), u \notin past'.mailUnsure
  PROVE  MailOk(u)'
<1>1. run'[x] = r /\ \A y \in Runs \ {x} : run'[y] = run[y] /\ run[y].pc = "idle"
  BY DEF FanOutOk, FanOutType, MailMove, Alone, Running
<1>2. \A y \in Runs \ {x} : run'[y].pc \notin MailStages
  BY <1>1 DEF MailStages
<1>3. mails \in [Users -> Nat]
  BY DEF Tables
<1>4. mails[u] = 0 \/ (mails[u] = 1 /\ (u \in mailRows \/ (run[x].pc = "mailLog" /\ run[x].mailing = u)))
  BY <1>1 DEF MailOk, LoggingMail
<1>5. run[x].pc \in MailStages /\ u \in run[x].todo => mails[u] = 0
  BY DEF MailOk
<1>6. mailRows \subseteq mailRows' /\ (run[x].pc = "mailLog" => run[x].mailing \in mailRows' \cup past'.mailUnsure)
  BY DEF MailMove
<1>7. CASE mails'[u] = mails[u] /\ r.pc # "mailLog"
  <2>1. mails'[u] = 0 \/ (mails'[u] = 1 /\ u \in mailRows')
    BY <1>4, <1>6, <1>7
  <2>2. ASSUME r.pc \in MailStages, u \in r.todo PROVE mails'[u] = 0
    <3>1. CASE run[x].pc \in MailStages
      BY <1>5, <1>7, <2>2, <3>1 DEF MailMove
    <3>2. CASE run[x].pc \notin MailStages
      <4>1. u \notin mailRows
        BY <2>2, <3>2 DEF MailMove
      <4> QED
        BY <1>4, <1>7, <3>2, <4>1 DEF MailStages
    <3> QED
      BY <3>1, <3>2
  <2> QED
    BY <1>1, <1>2, <2>1, <2>2 DEF MailOk
<1>8. ASSUME NEW v \in run[x].todo, run[x].pc = "mail", mails' = [mails EXCEPT ![v] = @ + 1],
             r.pc = "mailLog", r.mailing = v, v \notin r.todo
      PROVE  MailOk(u)'
  <2>1. r.todo \subseteq run[x].todo
    BY <1>8 DEF MailMove, MailStages
  <2>2. CASE u = v
    <3>1. mails[u] = 0
      BY <1>5, <1>8, <2>2 DEF MailStages
    <3>2. mails'[u] = 1
      BY <1>3, <1>8, <2>2, <3>1
    <3>3. LoggingMail(u)'
      BY <1>1, <1>8, <2>2 DEF LoggingMail
    <3>4. \A y \in Runs : ~(run'[y].pc \in MailStages /\ u \in run'[y].todo)
      BY <1>1, <1>2, <1>8, <2>2
    <3> QED
      BY <3>2, <3>3, <3>4 DEF MailOk
  <2>3. CASE u # v
    <3>1. mails'[u] = mails[u]
      BY <1>3, <1>8, <2>3
    <3>2. mails'[u] = 0 \/ (mails'[u] = 1 /\ u \in mailRows')
      BY <1>4, <1>6, <1>8, <3>1
    <3>3. \A y \in Runs : run'[y].pc \in MailStages /\ u \in run'[y].todo => mails'[u] = 0
      BY <1>1, <1>2, <1>5, <1>8, <2>1, <3>1 DEF MailStages
    <3> QED
      BY <3>2, <3>3 DEF MailOk
  <2> QED
    BY <2>2, <2>3
<1>9. ASSUME NEW v \in past'.mailUnsure, mails' = [mails EXCEPT ![v] = @ + 1], r.pc = "mail"
      PROVE  MailOk(u)'
  <2>1. mails'[u] = mails[u]
    BY <1>3, <1>9
  <2> QED
    BY <1>7, <1>9, <2>1
<1> QED
  BY <1>7, <1>8, <1>9 DEF MailMove

\* Every step keeps it.
LEMMA StepMails ==
  ASSUME TInv, Sending, Heard, MailHeard, [Next]_vars
  PROVE  MailHeard'
<1>0. /\ FanOutOk /\ FanOutType /\ PastShape(past) /\ Tables /\ run \in [Runs -> RunType]
  BY DEF TInv, FanOutOk, FanOutType
<1>1. CASE past.overlap
  BY <1>0, <1>1, OverlapStays DEF MailHeard
<1>2. CASE ~past.overlap
  <2>0. Alone /\ \A u \in Users : u \in past.mailUnsure \/ MailOk(u)
    BY <1>2 DEF Heard, MailHeard
  <2>1. CASE UNCHANGED <<run, mails, mailRows>> /\ past.mailUnsure \subseteq past'.mailUnsure
    <3>1. \A u \in Users : MailOk(u) => MailOk(u)'
      BY <2>1 DEF MailOk, LoggingMail
    <3> QED
      BY <2>0, <2>1, <3>1 DEF MailHeard
  <2>2. ASSUME NEW x \in Runs, ~Running(x), Started(x), UNCHANGED <<mails, mailRows>> PROVE MailHeard'
    <3> DEFINE o == past.overlap \/ \E y \in Runs \ {x} : Running(y)
    <3>1. past' = [past EXCEPT !.overlap = o]
      BY <2>2 DEF Started
    <3>2. past'.mailUnsure = past.mailUnsure
      <4> HIDE DEF o
      <4> QED
        BY <1>0, <3>1 DEF PastShape, Fields
    <3>3. run'[x] = [NoRun EXCEPT !.pc = "lookup"] /\ \A y \in Runs \ {x} : run'[y] = run[y]
      BY <1>0, <2>2 DEF Started
    <3>4. run'[x].pc = "lookup" /\ run[x].pc = "idle"
      BY <2>2, <3>3 DEF NoRun, Running
    <3>5. \A y \in Runs : run'[y] = run[y] \/ (run'[y].pc \notin MailStages /\ run[y].pc # "mailLog")
      BY <3>3, <3>4 DEF MailStages
    <3>6. ASSUME NEW u \in Users, MailOk(u) PROVE MailOk(u)'
      <4>1. LoggingMail(u) => LoggingMail(u)'
        BY <3>5 DEF LoggingMail
      <4>2. \A y \in Runs : run'[y].pc \in MailStages /\ u \in run'[y].todo => mails'[u] = 0
        BY <2>2, <3>5, <3>6 DEF MailOk
      <4> QED
        BY <2>2, <3>6, <4>1, <4>2 DEF MailOk
    <3> QED
      BY <2>0, <3>2, <3>6 DEF MailHeard
  <2>3. CASE crash
    <3> DEFINE lost == {run[x].mailing : x \in {y \in Runs : run[y].pc = "mailLog"}}
    <3>1. run' = [x \in Runs |-> NoRun] /\ UNCHANGED <<mails, mailRows>>
      BY <2>3 DEF crash
    <3>2. PICK w : past' = [past EXCEPT !.unsure = w, !.mailUnsure = @ \cup lost]
      BY <2>3 DEF crash
    <3>3. past'.mailUnsure = past.mailUnsure \cup lost
      <4> HIDE DEF lost
      <4> QED
        BY <1>0, <3>2 DEF PastShape, Fields
    <3>4. \A x \in Runs : run'[x].pc = "idle"
      BY <3>1 DEF NoRun
    <3>5. ASSUME NEW u \in Users, MailOk(u), u \notin lost PROVE MailOk(u)'
      <4>1. ~LoggingMail(u)
        BY <3>5 DEF LoggingMail
      <4>2. \A x \in Runs : run'[x].pc \notin MailStages
        BY <3>4 DEF MailStages
      <4>3. mails[u] = 0 \/ (mails[u] = 1 /\ u \in mailRows)
        BY <3>5, <4>1 DEF MailOk
      <4> QED
        BY <3>1, <4>2, <4>3 DEF MailOk
    <3> HIDE DEF lost
    <3> QED
      BY <2>0, <3>3, <3>5 DEF MailHeard
  <2>4. ASSUME NEW x \in Runs, Executor(x) PROVE MailHeard'
    <3>1. past.mailUnsure \subseteq past'.mailUnsure
      BY <1>0, <2>4, UnsureStays
    <3>2. CASE UNCHANGED <<run, mails, mailRows>>
      BY <2>1, <3>1, <3>2
    <3>3. ASSUME NEW r, MailMove(x, r) PROVE MailHeard'
      <4>1. \A u \in Users : u \in past'.mailUnsure \/ MailOk(u)'
        BY <1>0, <2>0, <3>1, <3>3, MoveMails
      <4> QED
        BY <4>1 DEF MailHeard
    <3> QED
      BY <1>0, <2>4, <3>2, <3>3, MailSteps
  <2>5. enqueueFails \/ work => \E x \in Runs : ~Running(x) /\ Started(x) /\ UNCHANGED <<mails, mailRows>>
    BY DEF enqueueFails, work, Runs
  <2>6. enqueue \/ forget \/ UNCHANGED vars => UNCHANGED <<run, mails, mailRows, past>>
    BY DEF enqueue, forget, vars
  <2>7. Retrying => UNCHANGED <<run, mails, mailRows>> /\ past'.mailUnsure = past.mailUnsure
    BY <1>0, RetryingPast DEF Retrying, drain, resend
  <2> QED
    BY <2>1, <2>2, <2>3, <2>4, <2>5, <2>6, <2>7 DEF Next
<1> QED
  BY <1>1, <1>2

\* The inductive invariant.
OnceInv == TInv /\ Sending /\ Heard /\ MailHeard

LEMMA OnceStarts == Init => OnceInv
<1> SUFFICES ASSUME Init PROVE OnceInv
  OBVIOUS
<1>1. /\ \A x \in Runs : run[x].pc = "idle" /\ \A u \in Users : at[x][u] = NoSend
      /\ retry.queue = <<>> /\ retry.batch = <<>>
  BY DEF Init, NoRun, NoSends, NoRetry
<1>2. NoSend.step = "none" /\ NoSend.left = {}
  BY DEF NoSend
<1>3. Sending
  BY <1>1, <1>2 DEF Sending, Fans, SendOk
<1>4. Alone /\ Unsent
  BY <1>1, <1>2 DEF Alone, Running, Unsent
<1>5. ASSUME NEW d \in Devices PROVE HeardOk(d)
  <2>1. got[d] = 0 /\ Owner[d] \in Users
    BY NotificationsAssumption DEF Init
  <2>2. Silent(d) /\ Fine(d)
    BY <1>1, <2>1 DEF Silent, Fine, Has, Single
  <2> QED
    BY <2>2 DEF HeardOk
<1>6. ASSUME NEW u \in Users PROVE MailOk(u)
  <2>1. mails[u] = 0
    BY DEF Init
  <2> QED
    BY <2>1 DEF MailOk
<1> QED
  BY <1>3, <1>4, <1>5, <1>6, TypesStart DEF OnceInv, Heard, MailHeard

\* Whatever is tried or triggered again, a device hears of the event once and a mailbox has its
\* e-mail once, unless two runs overlapped or a send may have been left without its row: a row
\* follows what was sent before the run goes on, and a run only sends to those without one.
THEOREM ToldOnce == Spec => []HeardOnce
<1>1. OnceInv /\ [Next]_vars => OnceInv'
  BY TypesStep, StepSends, StepHeard, StepMails DEF OnceInv, TInv
<1>2. OnceInv => HeardOnce
  <2> SUFFICES ASSUME OnceInv PROVE HeardOnce
    OBVIOUS
  <2>1. ASSUME NEW d \in Devices, ~past.overlap, d \notin past.unsure PROVE ~(got[d] > 1)
    BY <2>1 DEF OnceInv, Heard, HeardOk, Fine
  <2>2. ASSUME NEW u \in Users, ~past.overlap, u \notin past.mailUnsure PROVE ~(mails[u] > 1)
    BY <2>2 DEF OnceInv, MailHeard, MailOk
  <2> QED
    BY <2>1, <2>2 DEF HeardOnce
<1> QED
  BY <1>1, <1>2, OnceStarts, PTL DEF Spec
=============================================================================
