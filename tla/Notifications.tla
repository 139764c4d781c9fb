---------------------------- MODULE Notifications ----------------------------
(***************************************************************************)
(* One re-engagement event (a wrap, a line-up drop, a reformed crew): the  *)
(* durable job, the runs of its executor, the push to each device and the  *)
(* in-memory queue of pushes to resend.                                    *)
(*                                                                         *)
(* The job lives in Redis and the tables in PostgreSQL; a crash loses the  *)
(* runs and the retry queue.  An action is the code between two awaits.    *)
(***************************************************************************)
EXTENDS Integers, Sequences, SequencesExt, FiniteSetsExt

CONSTANTS
  Users,        \* the people the event is for
  Devices,
  Owner,        \* whose token a device registered
  Ios,          \* the devices that are reached through APNs
  OptedOut,     \* users who turned this type of push off, or are in their DND window
  Addressed,    \* users who have an e-mail address
  Chunk,        \* CHUNK, 25: the users pushed to at once
  MaxAttempts,  \* attempts of a job, 4
  MaxRetries,   \* maxRetries of the retry queue, 3
  QueueCap,     \* its capacity, 500
  Batch,        \* the entries one drain takes, 10
  MaxTriggers,  \* bound: triggers of the event
  MaxCrashes,   \* bound: crashes of the process
  MaxFaults,    \* bound: calls that fail
  None

ASSUME NotificationsAssumption ==
  /\ Owner \in [Devices -> Users] /\ Ios \subseteq Devices
  /\ OptedOut \subseteq Users /\ Addressed \subseteq Users
  /\ {Chunk, MaxAttempts, QueueCap, Batch} \subseteq Nat \ {0}
  /\ {MaxRetries, MaxTriggers, MaxCrashes, MaxFaults} \subseteq Nat
  /\ None \notin Users \cup Devices

\* A run of the executor: by BullMQ's worker, or in the request when Redis refuses the job.
Runs == {"worker", "inline"}

VARIABLES
  job,      \* the job of the event: its state, the attempts made and the stalls
  run,      \* the runs of the executor
  at,       \* the notify.send of each run to each user
  tokens,   \* device_tokens
  rows,     \* users with a row of this event in notification_log, sent or failed
  mailRows, \* users with a row of its e-mail
  retry,    \* the retry queue: what waits, the batch being resent, its timer
  got,      \* history: how often the event has reached a device
  mails,    \* history: how often it was mailed to a user
  past,     \* history: what else has happened
  bounds    \* what is left of the bounds

vars == <<job, run, at, tokens, rows, mailRows, retry, got, mails, past, bounds>>

NoJob == [state |-> "none", attempts |-> 0, stalls |-> 0]
NoRun == [pc |-> "idle", fresh |-> {}, todo |-> {}, mailing |-> None]
NoSend == [step |-> "none", device |-> None, left |-> {}, stale |-> {}]
NoSends == [u \in Users |-> NoSend]
NoRetry == [queue |-> <<>>, batch |-> <<>>, draining |-> FALSE, timer |-> FALSE]

Init ==
  /\ job = NoJob /\ run = [x \in Runs |-> NoRun] /\ at = [x \in Runs |-> NoSends]
  /\ tokens = Devices /\ rows = {} /\ mailRows = {} /\ retry = NoRetry
  /\ got = [d \in Devices |-> 0] /\ mails = [u \in Users |-> 0]
  /\ past = [tried |-> {}, unsure |-> {}, mailUnsure |-> {}, mailFailed |-> {},
             overlap |-> FALSE, misread |-> FALSE, done |-> FALSE]
  /\ bounds = [triggers |-> MaxTriggers, crashes |-> MaxCrashes, faults |-> MaxFaults]

Running(x) == run[x].pc # "idle"

\* A call that fails, of a bounded number.
Fault == bounds.faults > 0 /\ bounds' = [bounds EXCEPT !.faults = @ - 1]

-----------------------------------------------------------------------------
(* The job.                                                                *)

\* Run x is over.  The run of a job that succeeded frees its key (removeOnComplete).
Ended(x) == /\ run' = [run EXCEPT ![x] = NoRun]
            /\ job' = IF x = "worker" THEN NoJob ELSE job

\* It throws: the job is tried again until its attempts are used up.
Thrown(x) ==
  /\ run' = [run EXCEPT ![x] = NoRun]
  /\ job' = IF x # "worker" THEN job
            ELSE [job EXCEPT !.attempts = @ + 1,
                             !.state = IF job.attempts + 1 < MaxAttempts THEN "waiting" ELSE "failed"]

\* Run x starts; two runs of the event at once are an overlap.
Started(x) ==
  /\ run' = [run EXCEPT ![x] = [NoRun EXCEPT !.pc = "lookup"]]
  /\ past' = [past EXCEPT !.overlap = @ \/ \E y \in Runs \ {x} : Running(y)]

\* A sweep or a route reports the event.  BullMQ ignores a job whose id it holds.
enqueue ==
  /\ bounds.triggers > 0
  /\ bounds' = [bounds EXCEPT !.triggers = @ - 1]
  /\ job' = IF job.state = "none" THEN [NoJob EXCEPT !.state = "waiting"] ELSE job
  /\ UNCHANGED <<run, at, tokens, rows, mailRows, retry, got, mails, past>>

\* Redis refuses the job: the request runs the executor itself.
enqueueFails ==
  /\ bounds.triggers > 0 /\ bounds.faults > 0 /\ ~Running("inline")
  /\ bounds' = [bounds EXCEPT !.triggers = @ - 1, !.faults = @ - 1]
  /\ Started("inline")
  /\ UNCHANGED <<job, at, tokens, rows, mailRows, retry, got, mails>>

\* The worker takes the job.
work ==
  /\ job.state = "waiting" /\ ~Running("worker")
  /\ job' = [job EXCEPT !.state = "active"]
  /\ Started("worker")
  /\ UNCHANGED <<at, tokens, rows, mailRows, retry, got, mails, bounds>>

\* removeOnFail: the key of a failed job is freed after a while.
forget ==
  /\ job.state = "failed" /\ job' = NoJob
  /\ UNCHANGED <<run, at, tokens, rows, mailRows, retry, got, mails, past, bounds>>

\* BullMQ gives a stalled job to a worker once more, and fails it the second time (maxStalledCount).
Stalled ==
  IF job.state # "active" THEN job
  ELSE [job EXCEPT !.stalls = @ + 1, !.state = IF job.stalls = 0 THEN "waiting" ELSE "failed"]

\* The process dies.  A push or a mail that is sent and not yet logged may be sent again.
crash ==
  /\ bounds.crashes > 0
  /\ bounds' = [bounds EXCEPT !.crashes = @ - 1]
  /\ job' = Stalled
  /\ past' = [past EXCEPT
       !.unsure = @ \cup {d \in Devices : \E x \in Runs : at[x][Owner[d]].step = "log"
                                                       /\ at[x][Owner[d]].device = d},
       !.mailUnsure = @ \cup {run[x].mailing : x \in {y \in Runs : run[y].pc = "mailLog"}}]
  /\ run' = [x \in Runs |-> NoRun] /\ at' = [x \in Runs |-> NoSends] /\ retry' = NoRetry
  /\ UNCHANGED <<tokens, rows, mailRows, got, mails>>

-----------------------------------------------------------------------------
(* The retry queue.                                                        *)

\* scheduleDrain: arms the timer, unless it is armed or a drain runs.
Scheduled(q) == [q EXCEPT !.timer = @ \/ ~q.draining]

\* enqueue of a push to d; a full queue drops its oldest entry.
Enqueued(q, d) ==
  Scheduled([q EXCEPT !.queue =
    Append(IF Len(@) >= QueueCap THEN Tail(@) ELSE @, [device |-> d, retries |-> 0])])

\* Mutant: the timer is not armed for what is left.
Drained_Unarmed(q) == IF q.batch # <<>> THEN q ELSE [q EXCEPT !.draining = FALSE]

\* The end of a drain that has nothing left to resend.
Drained(q) ==
  IF q.batch # <<>> THEN q
  ELSE LET idle == [q EXCEPT !.draining = FALSE]
       IN  IF idle.queue = <<>> THEN idle ELSE Scheduled(idle)

\* The members of S, in their order.
InOrder(S) == {f \in [1..Cardinality(S) -> S] : \A i, j \in DOMAIN f : i < j => f[i] < f[j]}

\* The timer fires.  The first n entries leave the queue: those past their age, `old`, are
\* dropped, and the rest are the batch, which is full or has emptied the queue.
drain(n, old) ==
  LET kept == (1..n) \ old
  IN  /\ retry.timer
      /\ \/ Cardinality(kept) = Batch /\ n \in kept
         \/ Cardinality(kept) < Batch /\ n = Len(retry.queue)
      /\ \E take \in InOrder(kept) :
           retry' = IF retry.queue = <<>> THEN [retry EXCEPT !.timer = FALSE]
                    ELSE Drained([queue |-> SubSeq(retry.queue, n + 1, Len(retry.queue)),
                                  batch |-> [i \in DOMAIN take |-> retry.queue[take[i]]],
                                  draining |-> TRUE, timer |-> FALSE])
      /\ UNCHANGED <<job, run, at, tokens, rows, mailRows, got, mails, past, bounds>>

\* Mutant: one retry too many.
MayRetry_OnceMore(e) == e.retries <= MaxRetries

\* processQueue: what has been retried MaxRetries times is given up.
MayRetry(e) == e.retries < MaxRetries

\* Mutant: the retry is not counted.
Requeued_Uncounted(e) == e

\* What is queued again has been retried once more.
Requeued(e) == [e EXCEPT !.retries = @ + 1]

\* A resend is answered: it arrived, its token is dead, or it failed, though it may have arrived,
\* and is queued again.
resend(answer) ==
  LET e == Head(retry.batch)
      again == answer \in {"fails", "late"} /\ MayRetry(e)
      rest == [retry EXCEPT !.batch = Tail(@)]
  IN  /\ retry.batch # <<>>
      /\ got' = IF answer \in {"arrives", "late"} THEN [got EXCEPT ![e.device] = @ + 1] ELSE got
      /\ retry' = Drained([rest EXCEPT !.queue = IF again THEN Append(@, Requeued(e)) ELSE @])
      /\ past' = [past EXCEPT !.unsure = IF answer = "late" THEN @ \cup {e.device} ELSE @]
      /\ UNCHANGED <<job, run, at, tokens, rows, mailRows, mails, bounds>>

-----------------------------------------------------------------------------
(* The executor: whom the event is for, and who of them has not had it.    *)

\* The attendees are looked up; an error counts as nobody.
lookup(x) ==
  /\ run[x].pc = "lookup"
  /\ run' = [run EXCEPT ![x].pc = "filter"]
  /\ UNCHANGED <<job, at, tokens, rows, mailRows, retry, got, mails, past, bounds>>

lookupFails(x) ==
  /\ run[x].pc = "lookup" /\ Fault /\ Ended(x)
  /\ past' = [past EXCEPT !.misread = TRUE]
  /\ UNCHANGED <<at, tokens, rows, mailRows, retry, got, mails>>

\* Mutant: the rows are not read.
Fresh_All == Users

\* Who has no row of the event yet.
Fresh == Users \ rows

\* filterFresh reads the log of the pushes.
filterFresh(x) ==
  /\ run[x].pc = "filter"
  /\ run' = [run EXCEPT ![x] = [@ EXCEPT !.pc = "push", !.fresh = Fresh, !.todo = Fresh]]
  /\ UNCHANGED <<job, at, tokens, rows, mailRows, retry, got, mails, past, bounds>>

\* Reading the log of the pushes, or of the mails, throws.
filterThrows(x) ==
  /\ run[x].pc = "filter" \/ (run[x].pc = "mailFilter" /\ run[x].fresh # {})
  /\ Fault /\ Thrown(x)
  /\ UNCHANGED <<at, tokens, rows, mailRows, retry, got, mails, past>>

\* pushFanout: the next users, all at once.
Chunks(left) == kSubset(IF Cardinality(left) < Chunk THEN Cardinality(left) ELSE Chunk, left)

\* Mutant: the fan-out ends with its first chunk.
Rest_Dropped(left, us) == {}

Rest(left, us) == left \ us

pushFanout(x) ==
  /\ run[x].pc = "push" /\ at[x] = NoSends
  /\ IF run[x].todo = {}
     THEN run' = [run EXCEPT ![x].pc = "mailFilter"] /\ UNCHANGED at
     ELSE \E us \in Chunks(run[x].todo) :
            /\ run' = [run EXCEPT ![x].todo = Rest(@, us)]
            /\ at' = [at EXCEPT ![x] =
                        [u \in Users |-> IF u \in us THEN [NoSend EXCEPT !.step = "look"] ELSE NoSend]]
  /\ UNCHANGED <<job, tokens, rows, mailRows, retry, got, mails, past, bounds>>

-----------------------------------------------------------------------------
(* notify.send to one user: the devices one after another.                 *)

TokensOf(u) == {d \in Devices : d \in tokens /\ Owner[d] = u}

\* What follows a device: the next one, the cleanup of the dead tokens, or the end.
Onward(m) ==
  IF m.left # {} THEN [m EXCEPT !.step = "send", !.device = None]
  ELSE IF m.stale # {} THEN [m EXCEPT !.step = "clean", !.device = None]
  ELSE NoSend

\* The preferences and the tokens are read.
look(x, u) ==
  /\ at[x][u].step = "look"
  /\ at' = [at EXCEPT ![x][u] = Onward([@ EXCEPT !.left = IF u \in OptedOut THEN {} ELSE TokensOf(u)])]
  /\ past' = IF u \in OptedOut \/ TokensOf(u) = {} THEN [past EXCEPT !.tried = @ \cup {u}] ELSE past
  /\ UNCHANGED <<job, run, tokens, rows, mailRows, retry, got, mails, bounds>>

\* Reading them throws: the fan-out goes on without this user.
lookThrows(x, u) ==
  /\ at[x][u].step = "look" /\ Fault
  /\ at' = [at EXCEPT ![x][u] = NoSend]
  /\ past' = [past EXCEPT !.misread = TRUE]
  /\ UNCHANGED <<job, run, tokens, rows, mailRows, retry, got, mails>>

\* The provider answers for device d: it arrived; the token is dead; a transient error; or no
\* answer in time, and it arrives all the same.  What FCM did not take is left to the retry queue.
sendToDevice(x, u, d, answer) ==
  LET m == at[x][u]
      failed == answer \in {"fails", "late"}
  IN  /\ m.step = "send" /\ d \in m.left
      /\ IF answer = "arrives" THEN UNCHANGED bounds ELSE Fault
      /\ at' = [at EXCEPT ![x][u] =
           [step |-> "log", device |-> d, left |-> m.left \ {d},
            stale |-> IF answer = "dead" THEN m.stale \cup {d} ELSE m.stale]]
      /\ got' = IF answer \in {"arrives", "late"} THEN [got EXCEPT ![d] = @ + 1] ELSE got
      /\ retry' = IF failed /\ d \notin Ios THEN Enqueued(retry, d) ELSE retry
      /\ past' = [past EXCEPT !.tried = @ \cup {u},
                              !.unsure = IF answer = "late" THEN @ \cup {d} ELSE @]
      /\ UNCHANGED <<job, run, tokens, rows, mailRows, mails>>

\* logNotification: a row, whatever the answer was.
Logged(u) == rows \cup {u}

logNotification(x, u) ==
  /\ at[x][u].step = "log"
  /\ rows' = Logged(u)
  /\ at' = [at EXCEPT ![x][u] = Onward(@)]
  /\ UNCHANGED <<job, run, tokens, mailRows, retry, got, mails, past, bounds>>

\* The insert fails, which nobody is told of.
logFails(x, u) ==
  /\ at[x][u].step = "log" /\ Fault
  /\ at' = [at EXCEPT ![x][u] = Onward(@)]
  /\ past' = [past EXCEPT !.unsure = @ \cup {at[x][u].device}]
  /\ UNCHANGED <<job, run, tokens, rows, mailRows, retry, got, mails>>

\* The dead tokens are unregistered.
unregister(x, u) ==
  /\ at[x][u].step = "clean"
  /\ tokens' = tokens \ at[x][u].stale
  /\ at' = [at EXCEPT ![x][u] = NoSend]
  /\ UNCHANGED <<job, run, rows, mailRows, retry, got, mails, past, bounds>>

-----------------------------------------------------------------------------
(* emailFanout: to those the push was fresh for, one after another.        *)

\* Who is mailed: those of the run's users without a row of the mail, who have an address.
Recipients(x) == (run[x].fresh \ mailRows) \cap Addressed

\* The users are loaded and the log of the mails is read.
mailFilter(x) ==
  /\ run[x].pc = "mailFilter"
  /\ run' = [run EXCEPT ![x] = [@ EXCEPT !.pc = "mail", !.todo = Recipients(x)]]
  /\ UNCHANGED <<job, at, tokens, rows, mailRows, retry, got, mails, past, bounds>>

\* loadUsers fails, which counts as nobody having an address.
loadUsersFails(x) ==
  /\ run[x].pc = "mailFilter" /\ run[x].fresh # {} /\ Fault
  /\ run' = [run EXCEPT ![x].pc = "mail"]
  /\ past' = [past EXCEPT !.mailFailed = Users]
  /\ UNCHANGED <<job, at, tokens, rows, mailRows, retry, got, mails>>

mail(x, u) ==
  /\ run[x].pc = "mail" /\ u \in run[x].todo
  /\ mails' = [mails EXCEPT ![u] = @ + 1]
  /\ run' = [run EXCEPT ![x] =
                [run[x] EXCEPT !.pc = "mailLog", !.todo = run[x].todo \ {u}, !.mailing = u]]
  /\ UNCHANGED <<job, at, tokens, rows, mailRows, retry, got, past, bounds>>

\* sendEmail fails, though the mail may have been `taken`; no row is written.
mailFails(x, u, taken) ==
  /\ run[x].pc = "mail" /\ u \in run[x].todo /\ Fault
  /\ run' = [run EXCEPT ![x].todo = @ \ {u}]
  /\ mails' = IF taken THEN [mails EXCEPT ![u] = @ + 1] ELSE mails
  /\ past' = [past EXCEPT !.mailFailed = @ \cup {u},
                          !.mailUnsure = IF taken THEN @ \cup {u} ELSE @]
  /\ UNCHANGED <<job, at, tokens, rows, mailRows, retry, got>>

\* The row of the mail is inserted; a failure is only logged.
MailLogged(u) == mailRows \cup {u}

Mailed(x) == run' = [run EXCEPT ![x] = [@ EXCEPT !.pc = "mail", !.mailing = None]]

logMail(x) ==
  /\ run[x].pc = "mailLog" /\ mailRows' = MailLogged(run[x].mailing) /\ Mailed(x)
  /\ UNCHANGED <<job, at, tokens, rows, retry, got, mails, past, bounds>>

logMailFails(x) ==
  /\ run[x].pc = "mailLog" /\ Fault /\ Mailed(x)
  /\ past' = [past EXCEPT !.mailUnsure = @ \cup {run[x].mailing}]
  /\ UNCHANGED <<job, at, tokens, rows, mailRows, retry, got, mails>>

\* The executor returns.
finish(x) ==
  /\ run[x].pc = "mail" /\ run[x].todo = {} /\ Ended(x)
  /\ past' = [past EXCEPT !.done = TRUE]
  /\ UNCHANGED <<at, tokens, rows, mailRows, retry, got, mails, bounds>>

-----------------------------------------------------------------------------
Answers == {"arrives", "fails", "late", "dead"}

Executor(x) ==
  \/ lookup(x) \/ lookupFails(x) \/ filterFresh(x) \/ filterThrows(x) \/ pushFanout(x)
  \/ mailFilter(x) \/ loadUsersFails(x) \/ logMail(x) \/ logMailFails(x) \/ finish(x)
  \/ \E u \in Users : \/ look(x, u) \/ lookThrows(x, u) \/ logNotification(x, u) \/ logFails(x, u)
                       \/ unregister(x, u) \/ mail(x, u)
                       \/ \E taken \in BOOLEAN : mailFails(x, u, taken)
                       \/ \E d \in Devices, answer \in Answers : sendToDevice(x, u, d, answer)

Retrying ==
  \/ \E n \in 0..Len(retry.queue) : \E old \in SUBSET (1..n) : drain(n, old)
  \/ \E answer \in Answers : resend(answer)

Next == \/ enqueue \/ enqueueFails \/ forget \/ crash
        \/ work \/ Retrying \/ \E x \in Runs : Executor(x)

Spec == Init /\ [][Next]_vars

\* BullMQ hands out a waiting job; a run and the retry queue go on as long as the process lives.
FairSpec == Spec /\ WF_vars(work) /\ WF_vars(Retrying) /\ \A x \in Runs : WF_vars(Executor(x))

-----------------------------------------------------------------------------
\* Every variable has its type.
TypeOK ==
  /\ job \in [state : {"none", "waiting", "active", "failed"},
              attempts : 0..MaxAttempts, stalls : 0..MaxCrashes]
  /\ run \in [Runs -> [pc : {"idle", "lookup", "filter", "push", "mailFilter", "mail", "mailLog"},
                       fresh : SUBSET Users, todo : SUBSET Users, mailing : Users \cup {None}]]
  /\ at \in [Runs -> [Users -> [step : {"none", "look", "send", "log", "clean"},
                                device : Devices \cup {None},
                                left : SUBSET Devices, stale : SUBSET Devices]]]
  /\ tokens \subseteq Devices /\ rows \subseteq Users /\ mailRows \subseteq Users
  /\ \A q \in {retry.queue, retry.batch} :
       q \in Seq([device : Devices \ Ios, retries : 0..MaxRetries])
  /\ Len(retry.queue) <= QueueCap + Batch /\ Len(retry.batch) <= Batch
  /\ {retry.draining, retry.timer} \subseteq BOOLEAN
  /\ got \in [Devices -> Nat] /\ mails \in [Users -> Nat]

(* A device hears of an event once (sendWrapReady: "a re-run never re-pushes"), and so does the  *)
(* mailbox of a user, whose row is another one, whatever jobs are tried or triggered again,      *)
(* unless two runs overlapped, or the send may have arrived without its row being written: a     *)
(* crash or a failed insert, or an answer that came too late.                                    *)
HeardOnce ==
  /\ \A d \in Devices : got[d] > 1 => past.overlap \/ d \in past.unsure
  /\ \A u \in Users : mails[u] > 1 => past.overlap \/ u \in past.mailUnsure

(* When a run has returned, everybody the event is for was tried: crashes, retried jobs and the  *)
(* chunks of a fan-out lose nobody, unless a read of the targets or of a user's row failed.      *)
EveryoneTried ==
  past.done /\ ~past.misread => past.tried = Users

(* What waits in the retry queue is never forgotten: its timer is armed or a drain is under way. *)
QueueIsServed ==
  /\ retry.queue # <<>> => retry.timer \/ retry.draining
  /\ retry.draining <=> retry.batch # <<>>

(* Everything that was started comes to an end: the job succeeds or is failed after its attempts *)
(* and stalls, runs return, and a push that keeps failing leaves the retry queue.                *)
EverythingEnds ==
  <>[](/\ job.state \in {"none", "failed"} /\ retry = NoRetry /\ \A x \in Runs : ~Running(x))

(* emailFanout: "a push log row does not suppress the email (and vice-versa)" - everybody with   *)
(* an address has the e-mail when a run has returned, unless sending it failed.                  *)
PushKeepsMail ==
  past.done /\ ~past.misread => \A u \in Addressed : mails[u] > 0 \/ u \in past.mailFailed
=============================================================================
