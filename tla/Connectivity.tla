----------------------------- MODULE Connectivity -----------------------------
(***************************************************************************)
(* When the mobile client believes that it is offline, and when it starts  *)
(* a pass over the offline queue: the events of NetInfo behind their       *)
(* confirmation delay, the outcomes of requests, the retry timer, and the  *)
(* app coming to the foreground.                                           *)
(*                                                                         *)
(* The queue is its depth here; its content, entries that age and sign-out *)
(* are in OfflineQueue.  JavaScript runs a callback to its end, and a      *)
(* promise that is already settled is answered before the next event, so   *)
(* that drainQueue's early return and the .finally behind it are one step. *)
(***************************************************************************)
EXTENDS Integers

CONSTANTS
  OfflineDelay,  \* OFFLINE_CONFIRM_MS, in ticks
  OnlineDelay,   \* ONLINE_CONFIRM_MS, in ticks
  MaxPending,    \* bound: entries in the queue
  None

ASSUME ConnectivityAssumption ==
  /\ OfflineDelay \in Nat \ {0} /\ OnlineDelay \in Nat \ {0} /\ MaxPending \in Nat
  /\ None \notin BOOLEAN /\ None \notin Int

VARIABLES
  offline,    \* uiStore.offlineMode
  pending,    \* uiStore.pendingSync
  writes,     \* enqueueOfflineMutation: writes on their way into the queue
  reported,   \* lastReportedOnlineRef; None until the first event of NetInfo
  flip,       \* pendingOnlineRef and flipTimerRef: the target, and the ticks to go
  retry,      \* whether retryTimerRef is armed
  pass,       \* drainQueue: whether a pass runs, who started it, the entries it has left
  stranded,   \* history: a pass that is not the banner's has ended, or a write has come into the
              \* queue after the app was online again, and no timer was armed
  overruled,  \* history: a request has set offlineMode since the last event of NetInfo
  outage      \* history: ticks since NetInfo reported an outage that is not decided yet

vars == <<offline, pending, writes, reported, flip, retry, pass, stranded, overruled, outage>>

NoFlip == [to |-> None, left |-> 0]
NoPass == [on |-> FALSE, banner |-> FALSE, left |-> 0]

Init ==
  /\ offline = FALSE /\ pending \in 0..MaxPending /\ writes = 0
  /\ reported = None /\ flip = NoFlip /\ retry = FALSE /\ pass = NoPass
  /\ stranded = FALSE /\ overruled = FALSE /\ outage = None

-----------------------------------------------------------------------------
(* Passes over the queue.                                                  *)

\* drainQueue, with n entries and offlineMode off: refused during a pass and while offline.
drainQueue(off, n, banner) ==
  pass' = IF pass.on \/ off THEN pass ELSE [on |-> TRUE, banner |-> banner, left |-> n]

\* scheduleRetry or clearRetryTimer, when drainQueue has returned to the banner.
Rearmed(off, n) == ~off /\ n > 0

\* The banner's runDrain; the timer is `armed` before.
runDrain(off, armed) ==
  /\ drainQueue(off, pending, TRUE)
  /\ retry' = IF pass.on \/ off THEN Rearmed(off, pending) ELSE armed
  /\ stranded' = FALSE

\* Mutant: an entry that was tried is tried again.
Untried_Same(left) == left

Untried(left) == left - 1

\* An entry was sent: a request has reached the server, so that the app is online.  No path that
\* may be queued is one of /festivals, whose answers, cached ones, do not count.
replayOk ==
  /\ pass.on /\ pass.left > 0
  /\ pass' = [pass EXCEPT !.left = Untried(@)] /\ pending' = pending - 1
  /\ offline' = FALSE
  /\ overruled' = (overruled \/ offline)
  /\ UNCHANGED <<writes, reported, flip, retry, stranded, outage>>

\* It was not.  Offline, the pass ends; else the entry is given up, or stays for the next pass.
replayFails ==
  /\ pass.on /\ pass.left > 0
  /\ \/ offline /\ pass' = [pass EXCEPT !.left = 0] /\ UNCHANGED pending
     \/ ~offline /\ pass' = [pass EXCEPT !.left = Untried(@)] /\ pending' \in {pending - 1, pending}
  /\ UNCHANGED <<offline, writes, reported, flip, retry, stranded, overruled, outage>>

passEnds ==
  /\ pass.on /\ pass.left = 0
  /\ pass' = NoPass
  /\ IF pass.banner THEN retry' = Rearmed(offline, pending) /\ UNCHANGED stranded
                    ELSE stranded' = ~retry /\ UNCHANGED retry
  /\ UNCHANGED <<offline, pending, writes, reported, flip, overruled, outage>>

-----------------------------------------------------------------------------
(* Connectivity, as NetInfo reports it.                                    *)

Delay(online) == IF online THEN OnlineDelay ELSE OfflineDelay

\* Mutant: an online event drops the flip that is armed, whatever its target.
decideFlap_Restarts(online) ==
  CASE reported = None -> "commit"
    [] reported # None /\ offline # online -> "cancel"
    [] OTHER -> IF flip.to = online THEN "ignore" ELSE "schedule"

decideFlap(online) ==
  CASE reported = None -> "commit"
    [] reported # None /\ offline # online -> IF flip.to = FALSE THEN "ignore" ELSE "cancel"
    [] OTHER -> IF flip.to = online THEN "ignore" ELSE "schedule"

\* Mutant: the queue is drained on the event and not on its confirmation.
commit_NoDrain(online) ==
  offline' = ~online /\ UNCHANGED <<pass, retry, stranded>>

\* The transition is believed; a pass starts now, as the store says so.
commit(online) ==
  /\ offline' = ~online
  /\ IF online THEN runDrain(FALSE, retry) ELSE UNCHANGED <<pass, retry, stranded>>

\* An outage is timed from its first report to the next decision about it.
Timed(online) ==
  outage' = IF offline' THEN None ELSE IF ~online /\ outage = None THEN 0 ELSE outage

netinfo(online) ==
  LET action == decideFlap(online)
  IN  /\ reported' = online /\ overruled' = FALSE
      /\ flip' = CASE action = "ignore" -> flip
                   [] action = "schedule" -> [to |-> online, left |-> Delay(online)]
                   [] OTHER -> NoFlip
      /\ CASE action = "commit" -> commit(online)
           [] action \in {"ignore", "cancel"} /\ online ->
                runDrain(offline, retry) /\ UNCHANGED offline
           [] OTHER -> UNCHANGED <<offline, pass, retry, stranded>>
      /\ Timed(online)
      /\ UNCHANGED <<pending, writes>>

\* Mutant: the flip does not look at what was reported last.
flipFires_Unchecked ==
  /\ flip # NoFlip /\ flip.left = 0
  /\ flip' = NoFlip /\ outage' = None
  /\ commit(flip.to)
  /\ UNCHANGED <<pending, writes, reported, overruled>>

\* The delay is over.
flipFires ==
  /\ flip # NoFlip /\ flip.left = 0
  /\ flip' = NoFlip /\ outage' = None
  /\ IF reported = flip.to THEN commit(flip.to) ELSE UNCHANGED <<offline, pass, retry, stranded>>
  /\ UNCHANGED <<pending, writes, reported, overruled>>

\* Time passes, up to the next timer that is due.
tick ==
  /\ flip = NoFlip => outage # None
  /\ flip # NoFlip => flip.left > 0
  /\ flip' = IF flip = NoFlip THEN flip ELSE [flip EXCEPT !.left = @ - 1]
  /\ outage' = IF outage = None \/ outage > OfflineDelay THEN outage ELSE outage + 1
  /\ UNCHANGED <<offline, pending, writes, reported, retry, pass, stranded, overruled>>

-----------------------------------------------------------------------------
(* The other triggers.                                                     *)

retryFires ==
  /\ retry
  /\ runDrain(offline, FALSE)
  /\ UNCHANGED <<offline, pending, writes, reported, flip, overruled, outage>>

\* AppState becomes active.
foreground ==
  /\ ~offline /\ pending > 0
  /\ runDrain(FALSE, retry)
  /\ UNCHANGED <<offline, pending, writes, reported, flip, overruled, outage>>

\* markOnlineAndDrain, of a request that succeeds, of a path other than /festivals: the pass it
\* starts is not the banner's.
markOnlineAndDrain ==
  /\ offline
  /\ offline' = FALSE /\ overruled' = TRUE
  /\ drainQueue(FALSE, pending, FALSE)
  /\ UNCHANGED <<pending, writes, reported, flip, retry, stranded, outage>>

\* A write is on its way into the queue, as the app is offline or, by markOffline, is from now on.
markOffline ==
  /\ pending + writes < MaxPending /\ writes' = writes + 1
  /\ offline' = TRUE /\ overruled' = (overruled \/ ~offline) /\ outage' = None
  /\ UNCHANGED <<pending, reported, flip, retry, pass, stranded>>

\* It comes into the queue, and into a pass that has yet to read it; nobody looks at offlineMode.
enqueued ==
  /\ writes > 0 /\ writes' = writes - 1 /\ pending' = pending + 1
  /\ pass' \in {pass} \cup IF pass.on THEN {[pass EXCEPT !.left = @ + 1]} ELSE {}
  /\ stranded' = (stranded \/ ~(offline \/ pass.on \/ retry))
  /\ UNCHANGED <<offline, reported, flip, retry, overruled, outage>>

\* A tap on Retry: the write is queued again, and drainQueue called past the banner.
retryFailed ==
  /\ pending + writes < MaxPending /\ pending' = pending + 1
  /\ drainQueue(offline, pending', FALSE)
  /\ UNCHANGED <<offline, writes, reported, flip, retry, stranded, overruled, outage>>

\* The app is killed and started; the queue is in storage.
restart ==
  /\ offline' = FALSE /\ reported' = None /\ flip' = NoFlip /\ retry' = FALSE /\ pass' = NoPass
  /\ writes' = 0 /\ stranded' = FALSE /\ overruled' = FALSE /\ outage' = None
  /\ UNCHANGED pending

-----------------------------------------------------------------------------
Next ==
  \/ replayOk \/ replayFails \/ passEnds
  \/ \E online \in BOOLEAN : netinfo(online)
  \/ flipFires \/ tick \/ retryFires \/ foreground
  \/ markOnlineAndDrain \/ markOffline \/ enqueued \/ retryFailed \/ restart

Spec == Init /\ [][Next]_vars

\* Timers fire, time passes, and a request ends after 15 s at the latest.
FairSpec ==
  /\ Spec /\ WF_vars(flipFires) /\ WF_vars(tick) /\ WF_vars(retryFires)
  /\ WF_vars(replayFails) /\ WF_vars(passEnds)

-----------------------------------------------------------------------------
\* Every variable has its type; a pass has no more entries left than there are.
TypeOK ==
  /\ {offline, retry, stranded, overruled} \subseteq BOOLEAN
  /\ pending \in 0..MaxPending /\ writes \in 0..MaxPending - pending
  /\ reported \in BOOLEAN \cup {None}
  /\ flip \in {NoFlip} \cup [to : {TRUE}, left : 0..OnlineDelay] \cup [to : {FALSE}, left : 0..OfflineDelay]
  /\ pass \in [on : BOOLEAN, banner : BOOLEAN, left : 0..pending]
  /\ outage \in {None} \cup 0..OfflineDelay + 1

\* runDrain: while online a queue that is not empty has a pass under way or a timer that starts
\* one, whoever set offlineMode and whichever passes met, unless the last pass was one that a
\* request or a tap on Retry has started, or a write came too late for the passes there were.
LeftoversHaveATimer ==
  ~offline /\ pending > 0 /\ ~pass.on /\ reported # None => retry \/ stranded

\* decideFlap: "a FLOOR measured from the first offline event, not a countdown that any online
\* event may restart" - however the radio flaps, and whatever requests do to offlineMode, an
\* outage is decided in OfflineDelay.
OutageIsDecided == outage # None => outage <= OfflineDelay

\* What NetInfo reported last is what the bar comes to show, unless a request overrules it: no
\* sequence of events leaves the app offline after it has recovered, or online in an outage.
BarComesTrue ==
  /\ reported = TRUE /\ ~overruled ~> reported # TRUE \/ overruled \/ ~offline
  /\ reported = FALSE /\ ~overruled ~> reported # FALSE \/ overruled \/ offline
=============================================================================
