-------------------------- MODULE ConnectivityProofs --------------------------
(***************************************************************************)
(* Proofs about Connectivity, for every pair of delays and every bound on  *)
(* the queue.                                                              *)
(***************************************************************************)
EXTENDS Connectivity, TLAPS

USE ConnectivityAssumption

\* The values of the variable pass over a queue of n entries, and those of the variable flip.
Passes(n) == [on : BOOLEAN, banner : BOOLEAN, left : 0..n]

Flips ==
  {NoFlip} \cup [to : {TRUE}, left : 0..OnlineDelay] \cup [to : {FALSE}, left : 0..OfflineDelay]

\* The types of the variables, one by one.
Types ==
  /\ offline \in BOOLEAN /\ retry \in BOOLEAN /\ stranded \in BOOLEAN /\ overruled \in BOOLEAN
  /\ pending \in 0..MaxPending /\ writes \in 0..MaxPending - pending
  /\ reported \in BOOLEAN \cup {None}
  /\ flip \in Flips
  /\ pass \in Passes(pending)
  /\ outage \in {None} \cup 0..OfflineDelay + 1

\* While an outage is timed the app believes that it is online, the flip to offline is armed,
\* and it fires before the delay has passed since the outage was reported.
OutageIsArmed ==
  outage # None =>
    /\ offline = FALSE /\ reported # None
    /\ flip # NoFlip /\ flip.to = FALSE /\ flip.left + outage <= OfflineDelay

\* The types of TypeOK are those of Types.
LEMMA TypesAgree == TypeOK <=> Types
  BY DEF TypeOK, Types, Flips, Passes

\* The initial states have these types.
LEMMA InitTypes == Init => Types
  <1> SUFFICES ASSUME Init PROVE Types
    OBVIOUS
  <1>1. pending \in 0..MaxPending /\ pass = NoPass /\ 0 \in 0..pending
    BY DEF Init
  <1>2. pass \in Passes(pending)
    BY <1>1 DEF Passes, NoPass
  <1>3. flip \in Flips
    BY DEF Init, Flips
  <1>4. writes \in 0..MaxPending - pending
    BY <1>1 DEF Init
  <1> QED BY <1>1, <1>2, <1>3, <1>4 DEF Init, Types

\* A flip that is armed has a target and a time to go, within its delay.
LEMMA FlipParts ==
  ASSUME NEW f \in Flips
  PROVE  /\ f # NoFlip => f.to \in BOOLEAN /\ f.left \in Nat
         /\ f.to = FALSE => f # NoFlip /\ f.left \in 0..OfflineDelay
  <1>1. CASE f = NoFlip
    BY <1>1 DEF NoFlip
  <1>2. CASE f \in [to : {TRUE}, left : 0..OnlineDelay]
    <2>1. f.to = TRUE /\ f.left \in 0..OnlineDelay
      BY <1>2
    <2>2. f.left \in Nat
      BY <2>1
    <2> QED BY <2>1, <2>2
  <1>3. CASE f \in [to : {FALSE}, left : 0..OfflineDelay]
    <2>1. f.to = FALSE /\ f.left \in 0..OfflineDelay
      BY <1>3
    <2>2. f.left \in Nat
      BY <2>1
    <2>3. f # NoFlip
      <3>1. FALSE # None
        OBVIOUS
      <3>2. NoFlip.to = None
        BY DEF NoFlip
      <3> QED BY <2>1, <3>1, <3>2
    <2> QED BY <2>1, <2>2, <2>3
  <1> QED BY <1>1, <1>2, <1>3 DEF Flips

\* A tick takes one from the time to go.
LEMMA FlipTick ==
  ASSUME NEW f \in Flips, f # NoFlip, f.left > 0
  PROVE  /\ [f EXCEPT !.left = @ - 1] \in Flips
         /\ [f EXCEPT !.left = @ - 1].to = f.to
         /\ [f EXCEPT !.left = @ - 1].left = f.left - 1
  <1>1. CASE f \in [to : {TRUE}, left : 0..OnlineDelay]
    <2>1. f.left \in 0..OnlineDelay /\ f.left - 1 \in 0..OnlineDelay
      BY <1>1
    <2>2. [f EXCEPT !.left = @ - 1] \in [to : {TRUE}, left : 0..OnlineDelay]
      BY <1>1, <2>1, Zenon
    <2>3. /\ [f EXCEPT !.left = @ - 1].to = f.to
          /\ [f EXCEPT !.left = @ - 1].left = f.left - 1
      BY <1>1, Zenon
    <2> QED BY <2>2, <2>3, Zenon DEF Flips
  <1>2. CASE f \in [to : {FALSE}, left : 0..OfflineDelay]
    <2>1. f.left \in 0..OfflineDelay /\ f.left - 1 \in 0..OfflineDelay
      BY <1>2
    <2>2. [f EXCEPT !.left = @ - 1] \in [to : {FALSE}, left : 0..OfflineDelay]
      BY <1>2, <2>1, Zenon
    <2>3. /\ [f EXCEPT !.left = @ - 1].to = f.to
          /\ [f EXCEPT !.left = @ - 1].left = f.left - 1
      BY <1>2, Zenon
    <2> QED BY <2>2, <2>3, Zenon DEF Flips
  <1> QED BY <1>1, <1>2 DEF Flips

-----------------------------------------------------------------------------
\* A call of drainQueue keeps the type of the pass, and online a pass runs after it.
LEMMA DrainTypes ==
  ASSUME Types, NEW off \in BOOLEAN, NEW n \in 0..MaxPending, NEW banner \in BOOLEAN,
         pending <= n, drainQueue(off, n, banner)
  PROVE  /\ pass' \in Passes(n)
         /\ off = FALSE => pass'.on = TRUE
  BY DEF Types, drainQueue, Passes

\* The same of the banner's runDrain, which also sets the timer.
LEMMA RunDrainTypes ==
  ASSUME Types, NEW off \in BOOLEAN, NEW armed \in BOOLEAN, runDrain(off, armed)
  PROVE  /\ pass' \in Passes(pending)
         /\ off = FALSE => pass'.on = TRUE
         /\ retry' \in BOOLEAN /\ stranded' \in BOOLEAN
  <1>1. pending \in 0..MaxPending /\ pending <= pending
    BY DEF Types
  <1>2. drainQueue(off, pending, TRUE)
    BY DEF runDrain
  <1>3. /\ pass' \in Passes(pending)
        /\ off = FALSE => pass'.on = TRUE
    BY <1>1, <1>2, DrainTypes
  <1>4. retry' \in BOOLEAN /\ stranded' \in BOOLEAN
    BY DEF runDrain, Rearmed
  <1> QED BY <1>3, <1>4

\* A transition that is believed: online, a pass runs after commit.
LEMMA CommitTypes ==
  ASSUME Types, NEW online \in BOOLEAN, commit(online)
  PROVE  /\ offline' = ~online
         /\ pass' \in Passes(pending)
         /\ offline' = FALSE => pass'.on = TRUE
         /\ retry' \in BOOLEAN /\ stranded' \in BOOLEAN
  <1>1. CASE online = TRUE
    <2>1. runDrain(FALSE, retry) /\ offline' = FALSE
      BY <1>1 DEF commit
    <2> QED BY <1>1, <2>1, RunDrainTypes DEF Types
  <1>2. CASE online = FALSE
    BY <1>2 DEF commit, Types
  <1> QED BY <1>1, <1>2

\* The four answers of decideFlap, with the conditions that they stand for.
LEMMA Decision ==
  ASSUME Types, NEW online \in BOOLEAN
  PROVE  /\ decideFlap(online) \in {"commit", "cancel", "ignore", "schedule"}
         /\ decideFlap(online) = "commit" <=> reported = None
         /\ decideFlap(online) = "cancel" => offline # online /\ flip.to # FALSE
         /\ decideFlap(online) = "schedule" => offline = online /\ flip.to # online
  BY DEF decideFlap, Types

-----------------------------------------------------------------------------
\* An event of NetInfo keeps the types.
LEMMA NetinfoTypes ==
  ASSUME Types, NEW online \in BOOLEAN, netinfo(online)
  PROVE  Types'
  <1> DEFINE action == decideFlap(online)
  <1>1. pending' = pending /\ writes' = writes /\ reported' = online /\ overruled' = FALSE
    BY DEF netinfo
  <1>2. /\ offline' \in BOOLEAN /\ retry' \in BOOLEAN /\ stranded' \in BOOLEAN
        /\ pass' \in Passes(pending)
    <2>1. CASE action = "commit"
      <3>1. commit(online)
        BY <2>1 DEF netinfo
      <3> QED BY <3>1, CommitTypes
    <2>2. CASE action \in {"ignore", "cancel"} /\ online = TRUE
      <3>1. runDrain(offline, retry) /\ offline' = offline
        BY <2>2 DEF netinfo
      <3> QED BY <3>1, RunDrainTypes DEF Types
    <2>3. CASE action # "commit" /\ ~(action \in {"ignore", "cancel"} /\ online = TRUE)
      <3>1. UNCHANGED <<offline, pass, retry, stranded>>
        BY <2>3 DEF netinfo
      <3> QED BY <3>1 DEF Types
    <2> QED BY <2>1, <2>2, <2>3
  <1>3. flip' \in Flips
    <2>1. CASE action = "ignore"
      BY <2>1 DEF netinfo, Types
    <2>2. CASE action = "schedule"
      <3>1. flip' = [to |-> online, left |-> Delay(online)]
        BY <2>2 DEF netinfo
      <3>2. CASE online = TRUE
        <4>1. flip' = [to |-> TRUE, left |-> OnlineDelay]
          BY <3>1, <3>2 DEF Delay
        <4> QED BY <4>1 DEF Flips
      <3>3. CASE online = FALSE
        <4>1. flip' = [to |-> FALSE, left |-> OfflineDelay]
          BY <3>1, <3>3 DEF Delay
        <4> QED BY <4>1 DEF Flips
      <3> QED BY <3>2, <3>3
    <2>3. CASE action \notin {"ignore", "schedule"}
      BY <2>3 DEF netinfo, Flips
    <2> QED BY <2>1, <2>2, <2>3
  <1>4. outage' \in {None} \cup 0..OfflineDelay + 1
    <2>1. outage' \in {None, 0, outage}
      BY DEF netinfo, Timed
    <2> QED BY <2>1 DEF Types
  <1> QED BY <1>1, <1>2, <1>3, <1>4 DEF Types

\* Every step keeps the types.
LEMMA TypesStep == ASSUME Types, [Next]_vars PROVE Types'
  <1>1. CASE replayOk
    <2>1. pass' \in Passes(pending') /\ pending' \in 0..MaxPending
      BY <1>1 DEF Types, replayOk, Untried, Passes
    <2>2. writes' \in 0..MaxPending - pending'
      BY <1>1 DEF Types, replayOk, Passes
    <2> QED BY <1>1, <2>1, <2>2 DEF Types, replayOk
  <1>2. CASE replayFails
    <2>1. pass' \in Passes(pending') /\ pending' \in 0..MaxPending
      <3>1. CASE offline = TRUE
        BY <1>2, <3>1 DEF Types, replayFails, Passes
      <3>2. CASE offline = FALSE
        BY <1>2, <3>2 DEF Types, replayFails, Untried, Passes
      <3> QED BY <3>1, <3>2 DEF Types
    <2>2. writes' \in 0..MaxPending - pending'
      BY <1>2 DEF Types, replayFails, Passes
    <2> QED BY <1>2, <2>1, <2>2 DEF Types, replayFails
  <1>3. CASE passEnds
    <2>1. pass' \in Passes(pending') /\ retry' \in BOOLEAN /\ stranded' \in BOOLEAN
      BY <1>3 DEF Types, passEnds, Rearmed, Passes, NoPass
    <2> QED BY <1>3, <2>1 DEF Types, passEnds
  <1>4. CASE \E online \in BOOLEAN : netinfo(online)
    BY <1>4, NetinfoTypes
  <1>5. CASE flipFires
    <2>1. /\ offline' \in BOOLEAN /\ retry' \in BOOLEAN /\ stranded' \in BOOLEAN
          /\ pass' \in Passes(pending)
      <3>1. CASE reported = flip.to
        <4>1. flip.to \in BOOLEAN /\ commit(flip.to)
          BY <1>5, <3>1, FlipParts DEF flipFires, Types
        <4> QED BY <4>1, CommitTypes
      <3>2. CASE reported # flip.to
        BY <1>5, <3>2 DEF flipFires, Types
      <3> QED BY <3>1, <3>2
    <2>2. flip' = NoFlip /\ outage' = None /\ UNCHANGED <<pending, writes, reported, overruled>>
      BY <1>5 DEF flipFires
    <2>3. flip' \in Flips
      BY <2>2 DEF Flips
    <2> QED BY <2>1, <2>2, <2>3 DEF Types
  <1>6. CASE tick
    <2>1. flip' \in Flips
      <3>1. CASE flip = NoFlip
        BY <1>6, <3>1 DEF tick, Types
      <3>2. CASE flip # NoFlip
        <4>1. flip \in Flips /\ flip.left > 0 /\ flip' = [flip EXCEPT !.left = @ - 1]
          BY <1>6, <3>2 DEF tick, Types
        <4> QED BY <3>2, <4>1, FlipTick
      <3> QED BY <3>1, <3>2
    <2>2. outage' \in {None} \cup 0..OfflineDelay + 1
      BY <1>6 DEF tick, Types
    <2> QED BY <1>6, <2>1, <2>2 DEF Types, tick
  <1>7. CASE retryFires
    <2>1. runDrain(offline, FALSE) /\ UNCHANGED <<offline, pending, writes, reported, flip, overruled, outage>>
      BY <1>7 DEF retryFires
    <2> QED BY <2>1, RunDrainTypes DEF Types
  <1>8. CASE foreground
    <2>1. runDrain(FALSE, retry) /\ UNCHANGED <<offline, pending, writes, reported, flip, overruled, outage>>
      BY <1>8 DEF foreground
    <2> QED BY <2>1, RunDrainTypes DEF Types
  <1>9. CASE markOnlineAndDrain
    <2>0. pending \in 0..MaxPending /\ pending <= pending
      BY DEF Types
    <2>1. drainQueue(FALSE, pending, FALSE)
      BY <1>9 DEF markOnlineAndDrain
    <2>2. pass' \in Passes(pending)
      BY <2>0, <2>1, DrainTypes
    <2> QED BY <1>9, <2>2 DEF markOnlineAndDrain, Types
  <1>10. CASE markOffline
    <2>1. pass' \in Passes(pending') /\ pending' \in 0..MaxPending
      BY <1>10 DEF Types, markOffline, Passes
    <2>2. writes' \in 0..MaxPending - pending'
      BY <1>10 DEF Types, markOffline
    <2> QED BY <1>10, <2>1, <2>2 DEF Types, markOffline
  <1>11. CASE retryFailed
    <2>1. pending' \in 0..MaxPending /\ pending <= pending' /\ writes' \in 0..MaxPending - pending'
      <3>1. /\ pending \in 0..MaxPending /\ writes \in 0..MaxPending - pending
            /\ pending + writes < MaxPending /\ pending' = pending + 1 /\ writes' = writes
        BY <1>11 DEF retryFailed, Types
      <3> QED BY <3>1
    <2>2. pass' \in Passes(pending')
      <3>1. drainQueue(offline, pending', FALSE) /\ offline \in BOOLEAN
        BY <1>11 DEF retryFailed, Types
      <3> QED BY <2>1, <3>1, DrainTypes
    <2> QED BY <1>11, <2>1, <2>2 DEF retryFailed, Types
  <1>12. CASE restart
    <2>1. pass' \in Passes(pending') /\ flip' \in Flips /\ writes' \in 0..MaxPending - pending'
      <3>1. pending \in 0..MaxPending /\ pending' = pending /\ writes' = 0
        BY <1>12 DEF Types, restart
      <3>2. pass' = NoPass /\ flip' = NoFlip
        BY <1>12 DEF restart
      <3>3. writes' \in 0..MaxPending - pending' /\ 0 \in 0..pending'
        BY <3>1
      <3>4. pass' \in Passes(pending')
        BY <3>2, <3>3 DEF Passes, NoPass
      <3> QED BY <3>2, <3>3, <3>4 DEF Flips
    <2> QED BY <1>12, <2>1 DEF Types, restart
  <1>13. CASE enqueued
    <2>1. pending' \in 0..MaxPending /\ pending' = pending + 1 /\ writes' \in 0..MaxPending - pending'
      <3>1. /\ pending \in 0..MaxPending /\ writes \in 0..MaxPending - pending /\ writes > 0
            /\ pending' = pending + 1 /\ writes' = writes - 1
        BY <1>13 DEF enqueued, Types
      <3> QED BY <3>1
    <2>2. pass' \in Passes(pending')
      <3>1. pass \in Passes(pending) /\ pending \in 0..MaxPending
        BY DEF Types
      <3>2. pass \in Passes(pending') /\ [pass EXCEPT !.left = @ + 1] \in Passes(pending')
        BY <2>1, <3>1 DEF Passes
      <3>3. pass' \in {pass, [pass EXCEPT !.left = @ + 1]}
        BY <1>13 DEF enqueued
      <3> QED BY <3>2, <3>3
    <2>3. stranded' \in BOOLEAN
      BY <1>13 DEF enqueued
    <2> QED BY <1>13, <2>1, <2>2, <2>3 DEF enqueued, Types
  <1>14. CASE UNCHANGED vars
    BY <1>14 DEF Types, vars
  <1> QED BY <1>1, <1>2, <1>3, <1>4, <1>5, <1>6, <1>7, <1>8, <1>9, <1>10, <1>11, <1>12, <1>13, <1>14 DEF Next

\* Every variable of Connectivity keeps its type; a pass never has more left than is queued.
THEOREM TypeCorrect == Spec => []TypeOK
  <1>1. Init => Types
    BY InitTypes
  <1>2. Types /\ [Next]_vars => Types'
    BY TypesStep
  <1> QED BY <1>1, <1>2, TypesAgree, PTL DEF Spec

-----------------------------------------------------------------------------
\* Every step keeps the flip of an outage that is timed armed, and in time.
LEMMA OutageStep ==
  ASSUME Types, OutageIsArmed, [Next]_vars
  PROVE  OutageIsArmed'
  <1> USE DEF OutageIsArmed
  <1>1. CASE replayOk
    BY <1>1 DEF replayOk, Types
  <1>2. CASE replayFails
    BY <1>2 DEF replayFails, Types
  <1>3. CASE passEnds
    BY <1>3 DEF passEnds, Types
  <1>4. CASE \E online \in BOOLEAN : netinfo(online)
    <2> PICK online \in BOOLEAN : netinfo(online)
      BY <1>4
    <2> DEFINE action == decideFlap(online)
    <2> HAVE outage' # None
    <2>1. offline' = FALSE /\ reported' # None
      BY DEF netinfo, Timed, Types
    <2>2. reported # None
      <3> SUFFICES ASSUME reported = None PROVE FALSE
        OBVIOUS
      <3>1. offline' = ~online
        BY Decision, CommitTypes DEF netinfo
      <3>2. outage = None
        OBVIOUS
      <3> QED BY <2>1, <3>1, <3>2 DEF netinfo, Timed
    <2>3. action # "commit"
      BY <2>2, Decision
    <2>4. offline = FALSE
      BY <2>1, <2>3 DEF netinfo, Types
    <2>5. CASE outage # None
      <3>1. action = "ignore"
        BY <2>2, <2>4, <2>5 DEF decideFlap
      <3>2. flip' = flip /\ outage' = outage
        BY <2>1, <2>5, <3>1 DEF netinfo, Timed
      <3> QED BY <2>1, <2>5, <3>2
    <2>6. CASE outage = None
      <3>1. online = FALSE /\ outage' = 0
        BY <2>1, <2>6 DEF netinfo, Timed
      <3>2. action \in {"ignore", "schedule"} /\ (action = "ignore" => flip.to = FALSE)
        BY <2>2, <2>4, <3>1 DEF decideFlap
      <3>3. CASE action = "ignore"
        <4>1. flip' = flip /\ flip.to = FALSE
          BY <3>2, <3>3 DEF netinfo
        <4>2. flip # NoFlip /\ flip.left \in 0..OfflineDelay
          BY <4>1, FlipParts DEF Types
        <4> QED BY <2>1, <3>1, <4>1, <4>2
      <3>4. CASE action = "schedule"
        <4>1. flip' = [to |-> FALSE, left |-> OfflineDelay]
          BY <3>1, <3>4 DEF netinfo, Delay
        <4> QED BY <2>1, <3>1, <4>1 DEF NoFlip
      <3> QED BY <3>2, <3>3, <3>4
    <2> QED BY <2>5, <2>6
  <1>5. CASE flipFires
    BY <1>5 DEF flipFires
  <1>6. CASE tick
    <2> HAVE outage' # None
    <2>1. outage # None
      BY <1>6 DEF tick
    <2>2. flip # NoFlip /\ flip.to = FALSE /\ flip \in Flips /\ flip.left + outage <= OfflineDelay
      BY <2>1 DEF Types
    <2>3. flip.left > 0 /\ flip' = [flip EXCEPT !.left = @ - 1] /\ offline' = FALSE /\ reported' # None
      BY <1>6, <2>1, <2>2 DEF tick
    <2>4. flip.left \in Nat /\ outage \in Nat
      <3>1. outage \in Nat
        BY <2>1 DEF Types
      <3> QED BY <2>2, <3>1, FlipParts
    <2>5. flip' \in Flips /\ flip'.to = FALSE /\ flip'.left = flip.left - 1
      BY <2>2, <2>3, FlipTick
    <2>6. flip' # NoFlip
      BY <2>5, FlipParts
    <2>7. outage' = outage + 1
      BY <1>6, <2>1, <2>2, <2>3, <2>4 DEF tick
    <2> QED BY <2>2, <2>3, <2>4, <2>5, <2>6, <2>7
  <1>7. CASE retryFires
    BY <1>7 DEF retryFires
  <1>8. CASE foreground
    BY <1>8 DEF foreground
  <1>9. CASE markOnlineAndDrain
    BY <1>9 DEF markOnlineAndDrain, Types
  <1>10. CASE markOffline
    BY <1>10 DEF markOffline
  <1>11. CASE retryFailed
    BY <1>11 DEF retryFailed
  <1>12. CASE restart
    BY <1>12 DEF restart
  <1>13. CASE enqueued
    BY <1>13 DEF enqueued
  <1>14. CASE UNCHANGED vars
    BY <1>14 DEF vars
  <1> QED BY <1>1, <1>2, <1>3, <1>4, <1>5, <1>6, <1>7, <1>8, <1>9, <1>10, <1>11, <1>12, <1>13, <1>14 DEF Next

\* However NetInfo flaps and whatever requests do to offlineMode, an outage that is reported is
\* decided OfflineDelay after the report.
THEOREM OutageDecided == Spec => []OutageIsDecided
  <1>1. Init => Types /\ OutageIsArmed
    BY InitTypes DEF Init, OutageIsArmed
  <1>2. Types /\ OutageIsArmed /\ [Next]_vars => (Types /\ OutageIsArmed)'
    BY TypesStep, OutageStep
  <1>3. Types /\ OutageIsArmed => OutageIsDecided
    <2> SUFFICES ASSUME Types, OutageIsArmed, outage # None PROVE outage <= OfflineDelay
      BY DEF OutageIsDecided
    <2>1. flip.to = FALSE /\ flip \in Flips /\ outage \in Nat /\ flip.left + outage <= OfflineDelay
      BY DEF Types, OutageIsArmed
    <2>2. flip.left \in Nat
      BY <2>1, FlipParts
    <2> QED BY <2>1, <2>2
  <1> QED BY <1>1, <1>2, <1>3, PTL DEF Spec

-----------------------------------------------------------------------------
\* Every step leaves a pass, a timer or one of the excuses behind while entries are waiting.
LEMMA LeftoversStep ==
  ASSUME Types, LeftoversHaveATimer, [Next]_vars
  PROVE  LeftoversHaveATimer'
  <1> USE DEF LeftoversHaveATimer
  <1>1. CASE replayOk
    BY <1>1 DEF replayOk, Types
  <1>2. CASE replayFails
    <2>1. pass'.on = TRUE
      BY <1>2 DEF replayFails, Types, Passes
    <2> QED BY <2>1
  <1>3. CASE passEnds
    <2>1. CASE pass.banner = TRUE
      BY <1>3, <2>1 DEF passEnds, Rearmed
    <2>2. CASE pass.banner = FALSE
      <3>1. retry' = retry /\ stranded' = ~retry
        BY <1>3, <2>2 DEF passEnds
      <3> QED BY <3>1
    <2> QED BY <2>1, <2>2 DEF Types, Passes
  <1>4. CASE \E online \in BOOLEAN : netinfo(online)
    <2> PICK online \in BOOLEAN : netinfo(online)
      BY <1>4
    <2> DEFINE action == decideFlap(online)
    <2>1. CASE action = "commit"
      <3>1. commit(online)
        BY <2>1 DEF netinfo
      <3> QED BY <3>1, CommitTypes
    <2>2. CASE action \in {"ignore", "cancel"} /\ online = TRUE
      <3>1. runDrain(offline, retry) /\ offline' = offline
        BY <2>2 DEF netinfo
      <3> QED BY <3>1, RunDrainTypes DEF Types
    <2>3. CASE action # "commit" /\ ~(action \in {"ignore", "cancel"} /\ online = TRUE)
      <3>1. UNCHANGED <<offline, pass, retry, stranded, pending>>
        BY <2>3 DEF netinfo
      <3>2. reported # None
        BY <2>3, Decision
      <3> QED BY <3>1, <3>2
    <2> QED BY <2>1, <2>2, <2>3
  <1>5. CASE flipFires
    <2>1. CASE reported = flip.to
      <3>1. flip.to \in BOOLEAN /\ commit(flip.to)
        BY <1>5, <2>1, FlipParts DEF flipFires, Types
      <3> QED BY <3>1, CommitTypes
    <2>2. CASE reported # flip.to
      BY <1>5, <2>2 DEF flipFires
    <2> QED BY <2>1, <2>2
  <1>6. CASE tick
    BY <1>6 DEF tick
  <1>7. CASE retryFires
    <2>1. runDrain(offline, FALSE) /\ offline' = offline
      BY <1>7 DEF retryFires
    <2> QED BY <2>1, RunDrainTypes DEF Types
  <1>8. CASE foreground
    <2>1. runDrain(FALSE, retry)
      BY <1>8 DEF foreground
    <2>2. pass'.on = TRUE
      BY <2>1, RunDrainTypes DEF Types
    <2> QED BY <2>2
  <1>9. CASE markOnlineAndDrain
    <2>0. pending \in 0..MaxPending /\ pending <= pending
      BY DEF Types
    <2>1. drainQueue(FALSE, pending, FALSE)
      BY <1>9 DEF markOnlineAndDrain
    <2>2. pass'.on = TRUE
      BY <2>0, <2>1, DrainTypes
    <2> QED BY <2>2
  <1>10. CASE markOffline
    BY <1>10 DEF markOffline
  <1>11. CASE retryFailed
    <2>1. pending' \in 0..MaxPending /\ pending <= pending' /\ writes' \in 0..MaxPending - pending'
      <3>1. /\ pending \in 0..MaxPending /\ writes \in 0..MaxPending - pending
            /\ pending + writes < MaxPending /\ pending' = pending + 1 /\ writes' = writes
        BY <1>11 DEF retryFailed, Types
      <3> QED BY <3>1
    <2>2. drainQueue(offline, pending', FALSE) /\ offline \in BOOLEAN /\ offline' = offline
      BY <1>11 DEF retryFailed, Types
    <2>3. offline = FALSE => pass'.on = TRUE
      BY <2>1, <2>2, DrainTypes
    <2> QED BY <2>2, <2>3
  <1>12. CASE restart
    BY <1>12 DEF restart
  <1>13. CASE enqueued
    <2>1. offline' = offline /\ reported' = reported /\ retry' = retry
      BY <1>13 DEF enqueued
    <2>2. CASE pass.on = TRUE
      <3>1. pass' \in {pass, [pass EXCEPT !.left = @ + 1]}
        BY <1>13 DEF enqueued
      <3>2. pass'.on = TRUE
        BY <2>2, <3>1 DEF Types, Passes
      <3> QED BY <3>2
    <2>3. CASE pass.on = FALSE
      <3>1. stranded' = (stranded \/ ~(offline \/ pass.on \/ retry))
        BY <1>13 DEF enqueued
      <3> QED BY <2>1, <2>3, <3>1
    <2> QED BY <2>2, <2>3 DEF Types, Passes
  <1>14. CASE UNCHANGED vars
    BY <1>14 DEF vars
  <1> QED BY <1>1, <1>2, <1>3, <1>4, <1>5, <1>6, <1>7, <1>8, <1>9, <1>10, <1>11, <1>12, <1>13, <1>14 DEF Next

\* While the app is online a queue that is not empty has a pass under way or a timer that starts
\* one, unless a pass that did not come from the banner has just ended.
THEOREM LeftoversServed == Spec => []LeftoversHaveATimer
  <1>1. Init => Types /\ LeftoversHaveATimer
    BY InitTypes DEF Init, LeftoversHaveATimer
  <1>2. Types /\ LeftoversHaveATimer /\ [Next]_vars => (Types /\ LeftoversHaveATimer)'
    BY TypesStep, LeftoversStep
  <1> QED BY <1>1, <1>2, PTL DEF Spec

=============================================================================
