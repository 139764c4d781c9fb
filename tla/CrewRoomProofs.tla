--------------------------- MODULE CrewRoomProofs ---------------------------
(***************************************************************************)
(* Proofs about CrewRoom, for any users, crews, festivals, sockets, any    *)
(* situations that are looked at and any finite number of handlers in      *)
(* flight.                                                                 *)
(***************************************************************************)
EXTENDS CrewRoom, FiniteSetTheorems, TLAPS

-----------------------------------------------------------------------------
(* Types.                                                                  *)

Data ==
  [state : {"new", "up", "gone"}, known : BOOLEAN, festival : Festivals \cup {None},
   crew : Crews \cup {None}, sharing : Crews \cup {None}, checked : BOOLEAN,
   count : 0..scenario.recheckEvery - 1]

Task ==
  [op : TaskOps \cup {None}, sock : Sockets \cup {None}, user : Users \cup {None},
   arg : Crews \cup Festivals \cup {None}, at : Steps \cup {None},
   got : SUBSET ((Crews \X Users) \cup Sockets)]

\* The awaits a handler reaches.
Reaches(op, step) ==
  \/ op = "join:festival" /\ step \in {"session", "profile", "presence"}
  \/ op = "join:crew" /\ step \in {"session", "member", "enter"}
  \/ op = "leave:crew" /\ step \in {"session", "leave"}
  \/ op = "share" /\ step \in {"session", "member", "register", "share"}
  \/ op = "sync" /\ step \in {"session", "snapshot"}
  \/ op = "update" /\ step \in {"limiter", "member", "settle"}
  \/ op = "remove" /\ step \in {"removeMember", "fetchSockets", "evict"}
  \/ op = "deleteCrew" /\ step \in {"fetchSockets", "evict", "deleteRows"}
  \/ op = "signOut" /\ step \in {"deleteSessions", "disconnect"}

HttpOps == {"remove", "deleteCrew", "signOut"}

\* What it is about.
ArgsOk(q) ==
  /\ IF q.op \in HttpOps THEN q.sock = None ELSE q.sock \in Sockets
  /\ q.op = "join:festival" => q.arg \in Festivals
  /\ q.op \notin {"join:festival", "signOut"} => q.arg \in Crews
  /\ q.op \in {"remove", "signOut"} => q.user \in Users

TaskOk(q) == q = Idle \/ (Reaches(q.op, q.at) /\ ArgsOk(q))

TasksOk == tasks \in [Slots -> Task] /\ \A t \in Slots : TaskOk(tasks[t])

SocketsOk == sock \in [Sockets -> Data] /\ rooms \in [Sockets -> SUBSET (Crews \cup Festivals)]

Types ==
  /\ scenario \in Scenarios
  /\ member \subseteq Crews \X Users /\ sessions \subseteq Users
  /\ SocketsOk /\ TasksOk
  /\ online \subseteq Festivals \X Sockets /\ cache \subseteq Crews \X Users /\ reg \subseteq Sockets
  /\ relayed \in [Crews \X Sockets -> 0..RelayLimit + 1]

-----------------------------------------------------------------------------
(* Helpers.                                                                *)

LEMMA Numbers ==
  ASSUME scenario \in Scenarios
  PROVE  /\ Cardinality(Slots) \in Nat /\ scenario.recheckEvery \in Nat \ {0}
         /\ RelayLimit \in Nat
<1>1. PICK n : n = Cardinality(Slots)
  OBVIOUS
<1>2. n \in Nat
  BY <1>1, FS_CardinalityType, RoomAssumption
<1>3. PICK r : r = scenario.recheckEvery - 1
  OBVIOUS
<1>4. scenario.recheckEvery \in Nat \ {0} /\ r \in Nat
  BY <1>3, RoomAssumption DEF Situation
<1>5. RelayLimit = n * (1 + 2 * n * r)
  BY <1>1, <1>3 DEF RelayLimit
<1>6. n * r \in Nat
  BY <1>2, <1>4
<1>7. 2 * n * r = 2 * (n * r)
  BY <1>2, <1>4
<1>8. 1 + 2 * n * r \in Nat
  BY <1>6, <1>7
<1>9. n * (1 + 2 * n * r) \in Nat
  BY <1>2, <1>8
<1> QED
  BY <1>1, <1>2, <1>4, <1>5, <1>9

\* A handler starts, goes on or ends.
LEMMA OneTask ==
  ASSUME Types, NEW t \in Slots, NEW q \in Task, TaskOk(q), tasks' = [tasks EXCEPT ![t] = q]
  PROVE  TasksOk'
BY DEF Types, TasksOk

LEMMA IdleIs == Idle \in Task /\ TaskOk(Idle)
BY DEF Idle, Task, TaskOk

LEMMA DoneTask ==
  ASSUME Types, NEW t \in Slots, Done(t)
  PROVE  TasksOk'
BY OneTask, IdleIs DEF Done

\* A handler at an await is none that idles.
LEMMA AtStep ==
  ASSUME Types, NEW t \in Slots, NEW step \in Steps, At(t, step)
  PROVE  tasks[t] \in Task /\ Reaches(tasks[t].op, step) /\ ArgsOk(tasks[t]) /\ tasks[t].at = step
BY RoomAssumption DEF Types, TasksOk, TaskOk, At, Idle

\* A handler that goes on.
GoneOn(q, step, got) == [q EXCEPT !.at = step, !.got = got]

LEMMA GoneOnIs ==
  ASSUME NEW q \in Task, NEW step, NEW got, NEW p, p = GoneOn(q, step, got)
  PROVE  /\ p.op = q.op /\ p.sock = q.sock /\ p.user = q.user /\ p.arg = q.arg
         /\ p.at = step /\ p.got = got
         /\ step \in Steps /\ got \in SUBSET ((Crews \X Users) \cup Sockets) => p \in Task
BY DEF GoneOn, Task

LEMMA AwaitIs ==
  ASSUME Types, NEW t \in Slots, NEW step, NEW got, Await(t, step, got)
  PROVE  /\ tasks' = [tasks EXCEPT ![t] = GoneOn(tasks[t], step, got)]
         /\ tasks'[t].op = tasks[t].op /\ tasks'[t].sock = tasks[t].sock
         /\ tasks'[t].user = tasks[t].user /\ tasks'[t].arg = tasks[t].arg
         /\ tasks'[t].at = step /\ tasks'[t].got = got
         /\ \A x \in Slots \ {t} : tasks'[x] = tasks[x]
<1>1. tasks[t] \in Task /\ tasks \in [Slots -> Task]
  BY DEF Types, TasksOk
<1>2. tasks' = [tasks EXCEPT ![t] = GoneOn(tasks[t], step, got)]
  BY DEF Await, GoneOn
<1>3. tasks'[t] = GoneOn(tasks[t], step, got) /\ \A x \in Slots \ {t} : tasks'[x] = tasks[x]
  BY <1>1, <1>2
<1> QED
  BY <1>1, <1>2, <1>3, GoneOnIs

LEMMA AwaitTask ==
  ASSUME Types, NEW t \in Slots, NEW step \in Steps,
         NEW got \in SUBSET ((Crews \X Users) \cup Sockets), Await(t, step, got),
         Reaches(tasks[t].op, step), ArgsOk(tasks[t])
  PROVE  TasksOk'
<1>1. PICK p : p = GoneOn(tasks[t], step, got)
  OBVIOUS
<1>2. tasks[t] \in Task
  BY DEF Types, TasksOk
<1>3. p \in Task /\ p.op = tasks[t].op /\ p.sock = tasks[t].sock
      /\ p.user = tasks[t].user /\ p.arg = tasks[t].arg /\ p.at = step
  BY <1>1, <1>2, GoneOnIs
<1>4. TaskOk(p)
  BY <1>3 DEF TaskOk, ArgsOk
<1> QED
  BY <1>1, <1>3, <1>4, AwaitIs, OneTask

\* A handler that starts.
Begun(op, s, u, arg, step) == [Idle EXCEPT !.op = op, !.sock = s, !.user = u, !.arg = arg, !.at = step]

LEMMA BegunIs ==
  ASSUME NEW op, NEW s, NEW u, NEW arg, NEW step
  PROVE  LET q == Begun(op, s, u, arg, step)
         IN  q.op = op /\ q.sock = s /\ q.user = u /\ q.arg = arg /\ q.at = step /\ q.got = {}
BY DEF Begun, Idle

LEMMA StartTask ==
  ASSUME Types, NEW op \in TaskOps, NEW s \in Sockets \cup {None}, NEW u \in Users \cup {None},
         NEW arg \in Crews \cup Festivals \cup {None}, NEW step \in Steps,
         Reaches(op, step), ArgsOk(Begun(op, s, u, arg, step)), Start(op, s, u, arg, step)
  PROVE  TasksOk'
<1>1. Begun(op, s, u, arg, step) \in Task
  BY DEF Begun, Idle, Task
<1>2. TaskOk(Begun(op, s, u, arg, step))
  BY BegunIs DEF TaskOk
<1> QED
  BY <1>1, <1>2, OneTask DEF Start, Begun

-----------------------------------------------------------------------------
(* Every action keeps the types.                                           *)

LEMMA SameSituation ==
  ASSUME scenario' = scenario
  PROVE  Data' = Data /\ RelayLimit' = RelayLimit
BY DEF Data, RelayLimit

LEMMA RoomsOk ==
  ASSUME Types, NEW s \in Sockets, NEW left, NEW entered \in SUBSET (Crews \cup Festivals),
         Rooms(s, left, entered)
  PROVE  rooms' \in [Sockets -> SUBSET (Crews \cup Festivals)]
BY DEF Types, SocketsOk, Rooms

LEMMA ClosedOk ==
  ASSUME Types, scenario' = scenario, NEW S, Closed(S)
  PROVE  SocketsOk' /\ online' \subseteq online
<1>1. \A d \in Data : [ClearedSession(d) EXCEPT !.state = "gone"] \in Data
  BY DEF Data, ClearedSession
<1>2. sock' \in [Sockets -> Data]
  BY <1>1 DEF Closed, Types, SocketsOk
<1>3. rooms' \in [Sockets -> SUBSET (Crews \cup Festivals)]
  BY DEF Closed, Types, SocketsOk
<1>4. online' \subseteq online
  BY DEF Closed, WithoutPresence
<1> QED
  BY <1>2, <1>3, <1>4, SameSituation DEF SocketsOk

LEMMA StopSharingOk ==
  ASSUME Types, NEW s, NEW c, StopSharing(s, c)
  PROVE  cache' \subseteq cache /\ reg' \subseteq reg
BY DEF StopSharing

LEMMA RelayOk ==
  ASSUME Types, NEW s \in Sockets, NEW c \in Crews, Relay(s, c)
  PROVE  cache' \subseteq Crews \X Users /\ relayed' \in [Crews \X Sockets -> 0..RelayLimit + 1]
<1>1. cache' \subseteq Crews \X Users
  BY RoomAssumption DEF Types, Relay
<1>2. RelayLimit \in Nat
  BY Numbers DEF Types
<1>3. PICK k : k = RelayLimit
  OBVIOUS
<1>4. relayed' = relayed
      \/ (relayed[<<c, s>>] <= k /\ relayed' = [relayed EXCEPT ![<<c, s>>] = @ + 1])
  BY <1>2, <1>3 DEF Types, Relay
<1>5. relayed \in [Crews \X Sockets -> 0..k + 1]
  BY <1>3 DEF Types
<1>6. <<c, s>> \in Crews \X Sockets /\ relayed[<<c, s>>] \in 0..k + 1
  BY <1>5
<1>7. relayed' \in [Crews \X Sockets -> 0..k + 1]
  <2>1. CASE relayed' = relayed
    BY <1>5, <2>1
  <2>2. CASE relayed[<<c, s>>] <= k /\ relayed' = [relayed EXCEPT ![<<c, s>>] = @ + 1]
    <3>1. relayed[<<c, s>>] + 1 \in 0..k + 1
      BY <1>2, <1>3, <1>6, <2>2
    <3> QED
      BY <1>5, <2>2, <3>1
  <2> QED
    BY <1>4, <2>1, <2>2
<1> QED
  BY <1>1, <1>3, <1>7

LEMMA InitTypes == Init => Types
<1> SUFFICES ASSUME Init
             PROVE  Types
  OBVIOUS
<1>1. scenario \in Scenarios /\ scenario.recheckEvery \in Nat \ {0} /\ RelayLimit \in Nat
  BY Numbers DEF Init
<1>2. Fresh \in Data
  BY <1>1 DEF Fresh, Data
<1>3. TasksOk
  BY IdleIs DEF Init, TasksOk
<1>4. relayed \in [Crews \X Sockets -> 0..RelayLimit + 1]
  <2>1. 0 \in 0..RelayLimit + 1
    BY <1>1
  <2> QED
    BY <2>1 DEF Init
<1> QED
  BY <1>1, <1>2, <1>3, <1>4, RoomAssumption DEF Init, Types, SocketsOk

\* The parts of the types.
LEMMA TypesAgain ==
  ASSUME Types, scenario' = scenario, TasksOk', sock' \in [Sockets -> Data],
         rooms' \in [Sockets -> SUBSET (Crews \cup Festivals)],
         member' \subseteq Crews \X Users, sessions' \subseteq Users,
         online' \subseteq Festivals \X Sockets, cache' \subseteq Crews \X Users, reg' \subseteq Sockets,
         relayed' \in [Crews \X Sockets -> 0..RelayLimit + 1]
  PROVE  Types'
BY SameSituation DEF Types, SocketsOk

LEMMA SameTasks ==
  ASSUME Types, tasks' = tasks
  PROVE  TasksOk'
BY DEF Types, TasksOk

LEMMA SocketTypes ==
  ASSUME Types, scenario' = scenario, NEW s \in Sockets,
         connect(s) \/ disconnect(s) \/ leaveFestival(s) \/ \E c \in Crews : locationStop(s, c)
  PROVE  Types'
<1>1. TasksOk'
  BY SameTasks DEF connect, disconnect, leaveFestival, locationStop
<1>2. sock[s] \in Data /\ 0 \in 0..scenario.recheckEvery - 1
  BY Numbers DEF Types, SocketsOk
<1>3. CASE connect(s)
  <2>1. [sock[s] EXCEPT !.state = "up"] \in Data
    BY <1>2 DEF Data
  <2>2. sock' = [sock EXCEPT ![s] = [sock[s] EXCEPT !.state = "up"]]
    BY <1>3 DEF connect, Types, SocketsOk, Data
  <2>3. sock' \in [Sockets -> Data]
    BY <2>1, <2>2 DEF Types, SocketsOk
  <2> QED
    BY <1>1, <1>3, <2>3, TypesAgain DEF connect, Types, SocketsOk
<1>4. CASE disconnect(s)
  <2>1. SocketsOk' /\ online' \subseteq online
    BY <1>4, ClosedOk DEF disconnect
  <2>2. cache' \subseteq cache /\ reg' \subseteq reg
    BY <1>4, StopSharingOk DEF disconnect, redis
  <2> QED
    BY <1>1, <1>4, <2>1, <2>2, TypesAgain, SameSituation DEF disconnect, Types, SocketsOk
<1>5. CASE leaveFestival(s)
  <2>1. [sock[s] EXCEPT !.festival = None] \in Data
    BY <1>2 DEF Data
  <2>2. sock' = [sock EXCEPT ![s] = [sock[s] EXCEPT !.festival = None]]
    BY <1>5 DEF leaveFestival, Types, SocketsOk, Data
  <2>3. sock' \in [Sockets -> Data]
    BY <2>1, <2>2 DEF Types, SocketsOk
  <2>4. online' \subseteq online /\ rooms' \in [Sockets -> SUBSET (Crews \cup Festivals)]
    BY <1>5 DEF leaveFestival, WithoutPresence, Types, SocketsOk
  <2> QED
    BY <1>1, <1>5, <2>3, <2>4, TypesAgain DEF leaveFestival, Types
<1>6. CASE \E c \in Crews : locationStop(s, c)
  <2>1. PICK c \in Crews : locationStop(s, c)
    BY <1>6
  <2>2. PICK v : v = IF sock[s].sharing = c THEN None ELSE sock[s].sharing
    OBVIOUS
  <2>3. v \in Crews \cup {None} /\ [sock[s] EXCEPT !.sharing = v] \in Data
    BY <1>2, <2>2 DEF Data
  <2>4. sock' = [sock EXCEPT ![s] = [sock[s] EXCEPT !.sharing = v]]
    BY <2>1, <2>2 DEF locationStop, Types, SocketsOk, Data
  <2>5. sock' \in [Sockets -> Data]
    BY <2>3, <2>4 DEF Types, SocketsOk
  <2>6. cache' \subseteq cache /\ reg' \subseteq reg
    BY <2>1 DEF locationStop
  <2> QED
    BY <1>1, <2>1, <2>5, <2>6, TypesAgain DEF locationStop, Types, SocketsOk
<1> QED
  BY <1>3, <1>4, <1>5, <1>6

LEMMA StartTypes ==
  ASSUME Types, scenario' = scenario, request \/ \E s \in Sockets : event(s)
  PROVE  Types'
<1>1. UNCHANGED unchangedByStart
  BY DEF request, event
<1>2. TasksOk'
  <2>1. CASE request
    <3>1. \A c \in Crews, u \in Users : ArgsOk(Begun("remove", None, u, c, "removeMember"))
      BY BegunIs DEF ArgsOk, HttpOps
    <3>2. \/ \E c \in Crews, u \in Users : Start("remove", None, u, c, "removeMember")
          \/ \E c \in Crews : Start("deleteCrew", None, None, c, "fetchSockets")
          \/ \E u \in Users : Start("signOut", None, u, None, "deleteSessions")
      <4>1. \A p \in member : p[1] \in Crews /\ p[2] \in Users
        BY DEF Types
      <4>2. scenario.crews \subseteq Crews /\ sessions \subseteq Users
        BY RoomAssumption DEF Types, Situation
      <4> QED
        BY <2>1, <4>1, <4>2 DEF request
    <3>3. \A c \in Crews, u \in Users : Start("remove", None, u, c, "removeMember") => TasksOk'
      BY <3>1, StartTask DEF Reaches, TaskOps, Steps
    <3>4. \A c \in Crews : Start("deleteCrew", None, None, c, "fetchSockets") => TasksOk'
      <4>1. \A c \in Crews : ArgsOk(Begun("deleteCrew", None, None, c, "fetchSockets"))
        BY BegunIs DEF ArgsOk, HttpOps
      <4> QED
        BY <4>1, StartTask DEF Reaches, TaskOps, Steps
    <3>5. \A u \in Users : Start("signOut", None, u, None, "deleteSessions") => TasksOk'
      <4>1. \A u \in Users : ArgsOk(Begun("signOut", None, u, None, "deleteSessions"))
        BY BegunIs DEF ArgsOk, HttpOps
      <4> QED
        BY <4>1, StartTask DEF Reaches, TaskOps, Steps
    <3> QED
      BY <3>2, <3>3, <3>4, <3>5
  <2>2. CASE \E s \in Sockets : event(s)
    <3>1. PICK s \in Sockets : event(s)
      BY <2>2
    <3>2. /\ \A f \in Festivals : ArgsOk(Begun("join:festival", s, None, f, "session"))
          /\ \A c \in Crews :
               /\ \A op \in {"join:crew", "leave:crew", "share", "sync"} :
                    ArgsOk(Begun(op, s, None, c, "session"))
               /\ ArgsOk(Begun("update", s, None, c, "limiter"))
      BY BegunIs DEF ArgsOk, HttpOps
    <3>3. \/ \E f \in Festivals : Start("join:festival", s, None, f, "session")
          \/ \E c \in Crews : Start("join:crew", s, None, c, "session")
          \/ \E c \in Crews : Start("leave:crew", s, None, c, "session")
          \/ \E c \in Crews : Start("share", s, None, c, "session")
          \/ \E c \in Crews : Start("sync", s, None, c, "session")
          \/ \E c \in Crews : Start("update", s, None, c, "limiter")
      <4>1. scenario.crews \subseteq Crews
        BY RoomAssumption DEF Types, Situation
      <4>2. sock[s].crew \in Crews \cup {None} /\ sock[s].sharing \in Crews \cup {None}
        BY DEF Types, SocketsOk, Data
      <4> QED
        BY <3>1, <4>1, <4>2 DEF event
    <3> QED
      BY <3>2, <3>3, StartTask DEF Reaches, TaskOps, Steps
  <2> QED
    BY <2>1, <2>2
<1> QED
  BY <1>1, <1>2, TypesAgain DEF unchangedByStart, Types, SocketsOk

\* The handlers of join:festival, and what all have in common.
LEMMA JoinTypes ==
  ASSUME Types, scenario' = scenario, NEW t \in Slots,
         session(t) \/ refuse(t) \/ joinRoom(t) \/ setSocketPresence(t) \/ getMember(t)
  PROVE  Types'
<1>1. CASE session(t)
  <2>1. "session" \in Steps /\ At(t, "session")
    BY <1>1 DEF session, Steps
  <2>2. ArgsOk(tasks[t]) /\ Reaches(tasks[t].op, "session")
    BY <2>1, AtStep
  <2>3. Reaches(tasks[t].op, FirstStep(tasks[t].op)) /\ FirstStep(tasks[t].op) \in Steps
    BY <2>2 DEF Reaches, FirstStep, Steps
  <2>4. CASE Await(t, FirstStep(tasks[t].op), {}) /\ UNCHANGED <<sock, rooms, online, cache, reg>>
    <3>1. TasksOk'
      BY <2>2, <2>3, <2>4, AwaitTask
    <3> QED
      BY <1>1, <2>4, <3>1, TypesAgain DEF session, Types, SocketsOk
  <2>5. CASE Done(t) /\ \E S : Closed(S) /\ UNCHANGED redis
    <3>1. TasksOk'
      BY <2>5, DoneTask
    <3>2. SocketsOk' /\ online' \subseteq online
      BY <2>5, ClosedOk
    <3> QED
      BY <1>1, <2>5, <3>1, <3>2, TypesAgain, SameSituation DEF session, redis, Types, SocketsOk
  <2> QED
    BY <1>1, <2>4, <2>5 DEF session, disconnectSocket
<1>2. CASE refuse(t)
  <2>1. TasksOk'
    BY <1>2, DoneTask DEF refuse
  <2> QED
    BY <1>2, <2>1, TypesAgain DEF refuse, unchangedByStart, Types, SocketsOk
<1>3. CASE joinRoom(t)
  <2>1. "profile" \in Steps /\ At(t, "profile")
    BY <1>3 DEF joinRoom, Steps
  <2>2. ArgsOk(tasks[t]) /\ tasks[t].op = "join:festival"
    BY <2>1, AtStep DEF Reaches
  <2>3. tasks[t].sock \in Sockets /\ tasks[t].arg \in Festivals
    BY <2>2 DEF ArgsOk, HttpOps
  <2>4. TasksOk'
    BY <1>3, <2>2, AwaitTask DEF joinRoom, Reaches, Steps
  <2>5. PICK s \in Sockets : s = tasks[t].sock
    BY <2>3
  <2>6. PICK f \in Festivals : f = tasks[t].arg
    BY <2>3
  <2>7. rooms' \in [Sockets -> SUBSET (Crews \cup Festivals)]
    BY <1>3, <2>5, <2>6, RoomsOk DEF joinRoom
  <2>8. sock' \in [Sockets -> Data]
    <3>1. sock' = [sock EXCEPT ![s] = [sock[s] EXCEPT !.known = TRUE, !.festival = f]]
      BY <1>3, <2>5, <2>6 DEF joinRoom, Types, SocketsOk, Data
    <3>2. [sock[s] EXCEPT !.known = TRUE, !.festival = f] \in Data
      BY DEF Types, SocketsOk, Data
    <3> QED
      BY <3>1, <3>2 DEF Types, SocketsOk
  <2>9. online' \subseteq online
    BY <1>3 DEF joinRoom, WithoutPresence
  <2> QED
    BY <1>3, <2>4, <2>7, <2>8, <2>9, TypesAgain DEF joinRoom, Types
<1>4. CASE setSocketPresence(t)
  <2>1. "presence" \in Steps /\ At(t, "presence")
    BY <1>4 DEF setSocketPresence, Steps
  <2>2. tasks[t].sock \in Sockets /\ tasks[t].arg \in Festivals
    BY <2>1, AtStep DEF Reaches, ArgsOk, HttpOps
  <2>3. TasksOk'
    BY <1>4, DoneTask DEF setSocketPresence
  <2> QED
    BY <1>4, <2>2, <2>3, TypesAgain DEF setSocketPresence, Types, SocketsOk
<1>5. CASE getMember(t)
  <2>1. "member" \in Steps /\ At(t, "member")
    BY <1>5 DEF getMember, Steps
  <2>2. ArgsOk(tasks[t]) /\ tasks[t].op \in {"join:crew", "share", "update"}
    BY <2>1, AtStep DEF Reaches
  <2>3. PICK step : step = CASE tasks[t].op = "join:crew" -> "enter" [] tasks[t].op = "share" -> "register"
                             [] tasks[t].op = "update" -> "settle"
    OBVIOUS
  <2>4. step \in Steps /\ Reaches(tasks[t].op, step)
    BY <2>2, <2>3 DEF Reaches, Steps
  <2>5. PICK got : got = member \cap {<<tasks[t].arg, Owner[tasks[t].sock]>>}
    OBVIOUS
  <2>6. got \in SUBSET ((Crews \X Users) \cup Sockets)
    BY <2>5 DEF Types
  <2>7. Await(t, step, got)
    BY <1>5, <2>3, <2>5 DEF getMember
  <2>8. TasksOk'
    BY <2>2, <2>4, <2>6, <2>7, AwaitTask
  <2> QED
    BY <1>5, <2>8, TypesAgain DEF getMember, unchangedByStart, Types, SocketsOk
<1> QED
  BY <1>1, <1>2, <1>3, <1>4, <1>5

\* The handlers of a crew's events.
LEMMA CrewTypes ==
  ASSUME Types, scenario' = scenario, NEW t \in Slots,
         enterCrew(t) \/ leaveCrew(t) \/ registerSharingSocket(t)
  PROVE  Types'
<1>1. /\ tasks[t].sock \in Sockets /\ tasks[t].arg \in Crews
      /\ registerSharingSocket(t) => tasks[t].op = "share"
  BY AtStep DEF Steps, Reaches, ArgsOk, HttpOps, enterCrew, leaveCrew, registerSharingSocket
<1>2. PICK s \in Sockets : s = tasks[t].sock
  BY <1>1
<1>3. PICK c \in Crews : c = tasks[t].arg
  BY <1>1
<1>4. sock[s] \in Data /\ 0 \in 0..scenario.recheckEvery - 1 /\ sock \in [Sockets -> Data]
  BY Numbers DEF Types, SocketsOk
<1>5. CASE enterCrew(t)
  <2>1. TasksOk'
    BY <1>5, DoneTask DEF enterCrew
  <2>2. rooms' \in [Sockets -> SUBSET (Crews \cup Festivals)]
    <3>1. CASE UNCHANGED rooms
      BY <3>1 DEF Types, SocketsOk
    <3>2. CASE Rooms(s, {sock[s].crew}, {c})
      BY <3>2, RoomsOk
    <3> QED
      BY <1>2, <1>3, <1>5, <3>1, <3>2 DEF enterCrew
  <2>3. sock' \in [Sockets -> Data]
    <3>1. [sock[s] EXCEPT !.crew = c] \in Data
      BY <1>4 DEF Data
    <3>2. sock' = sock \/ sock' = [sock EXCEPT ![s] = [sock[s] EXCEPT !.crew = c]]
      BY <1>2, <1>3, <1>4, <1>5 DEF enterCrew, Data
    <3> QED
      BY <1>4, <3>1, <3>2
  <2> QED
    BY <1>5, <2>1, <2>2, <2>3, TypesAgain DEF enterCrew, Types
<1>6. CASE leaveCrew(t)
  <2>1. TasksOk'
    BY <1>6, DoneTask DEF leaveCrew
  <2>2. rooms' \in [Sockets -> SUBSET (Crews \cup Festivals)]
    <3>1. Rooms(s, {c}, {})
      BY <1>2, <1>3, <1>6, Zenon DEF leaveCrew
    <3> QED
      BY <3>1, RoomsOk
  <2>3. cache' \subseteq cache /\ reg' \subseteq reg
    BY <1>6, StopSharingOk DEF leaveCrew, redis
  <2>4. sock' \in [Sockets -> Data]
    <3>1. PICK v : v = IF sock[s].sharing = c THEN None ELSE sock[s].sharing
      OBVIOUS
    <3>2. PICK w : w = IF sock[s].crew = c THEN None ELSE sock[s].crew
      OBVIOUS
    <3>3. v \in Crews \cup {None} /\ w \in Crews \cup {None}
      BY <1>4, <3>1, <3>2 DEF Data
    <3>4. PICK e : e = [sock[s] EXCEPT !.sharing = v, !.crew = w, !.checked = FALSE, !.count = 0]
      OBVIOUS
    <3>5. e \in Data
      BY <1>4, <3>3, <3>4 DEF Data
    <3>6. sock' = [sock EXCEPT ![s] = e]
      BY <1>2, <1>3, <1>4, <1>6, <3>1, <3>2, <3>4 DEF leaveCrew, Data
    <3> QED
      BY <1>4, <3>5, <3>6
  <2> QED
    BY <1>6, <2>1, <2>2, <2>3, <2>4, TypesAgain DEF leaveCrew, Types
<1>7. CASE registerSharingSocket(t)
  <2>1. Registered(s) \in SUBSET ((Crews \X Users) \cup Sockets)
    BY DEF Registered
  <2>2. ArgsOk(tasks[t]) /\ Reaches(tasks[t].op, "share")
    BY <1>1, <1>7, AtStep DEF registerSharingSocket, Steps, Reaches
  <2>3. TasksOk'
    BY <1>2, <1>7, <2>1, <2>2, DoneTask, AwaitTask DEF registerSharingSocket, Steps
  <2> QED
    BY <1>2, <1>7, <2>3, TypesAgain DEF registerSharingSocket, Types, SocketsOk
<1> QED
  BY <1>5, <1>6, <1>7

\* The handlers of a share.
LEMMA ShareTypes ==
  ASSUME Types, scenario' = scenario, NEW t \in Slots,
         locationShare(t) \/ locationUpdate(t) \/ settleUpdate(t)
  PROVE  Types'
<1>1. /\ tasks[t].sock \in Sockets /\ tasks[t].arg \in Crews
      /\ locationUpdate(t) => tasks[t].op = "update"
  BY AtStep DEF Steps, Reaches, ArgsOk, HttpOps, locationShare, locationUpdate, settleUpdate
<1>2. PICK s \in Sockets : s = tasks[t].sock
  BY <1>1
<1>3. PICK c \in Crews : c = tasks[t].arg
  BY <1>1
<1>4. /\ sock[s] \in Data /\ sock \in [Sockets -> Data]
      /\ scenario.recheckEvery \in Nat \ {0} /\ 0 \in 0..scenario.recheckEvery - 1
  BY Numbers DEF Types, SocketsOk
<1>5. CASE locationShare(t)
  <2>1. TasksOk'
    BY <1>5, DoneTask DEF locationShare
  <2>2. cache' \subseteq Crews \X Users /\ relayed' \in [Crews \X Sockets -> 0..RelayLimit + 1]
    <3>1. CASE UNCHANGED <<cache, relayed>>
      BY <3>1 DEF Types
    <3>2. CASE Relay(s, c)
      BY <3>2, RelayOk
    <3> QED
      BY <1>2, <1>3, <1>5, <3>1, <3>2 DEF locationShare
  <2>3. sock' \in [Sockets -> Data]
    <3>1. PICK e : e = [sock[s] EXCEPT !.known = TRUE, !.sharing = c, !.checked = TRUE, !.count = 0]
      OBVIOUS
    <3>2. e \in Data
      BY <1>4, <3>1 DEF Data
    <3>3. sock' = sock \/ sock' = [sock EXCEPT ![s] = e]
      BY <1>2, <1>3, <1>4, <1>5, <3>1 DEF locationShare, Data
    <3> QED
      BY <1>4, <3>2, <3>3
  <2> QED
    BY <1>5, <2>1, <2>2, <2>3, TypesAgain DEF locationShare, Types, SocketsOk
<1>6. CASE locationUpdate(t)
  <2>1. PICK late \in BOOLEAN :
          IF Recheck(sock[s], late)
          THEN /\ sock' = [sock EXCEPT ![s].count = 0, ![s].checked = TRUE]
               /\ Await(t, "member", {})
               /\ UNCHANGED <<cache, relayed>>
          ELSE /\ sock' = [sock EXCEPT ![s].count = @ + 1]
               /\ Relay(s, c) /\ Done(t)
    BY <1>2, <1>3, <1>6 DEF locationUpdate
  <2>2. TasksOk'
    <3>1. Reaches(tasks[t].op, "member") /\ ArgsOk(tasks[t])
      BY <1>1, <1>6, AtStep DEF locationUpdate, Steps, Reaches
    <3>2. Await(t, "member", {}) \/ Done(t)
      BY <2>1
    <3> QED
      BY <3>1, <3>2, DoneTask, AwaitTask DEF Steps
  <2>3. cache' \subseteq Crews \X Users /\ relayed' \in [Crews \X Sockets -> 0..RelayLimit + 1]
    <3>1. CASE UNCHANGED <<cache, relayed>>
      BY <3>1 DEF Types
    <3>2. CASE Relay(s, c)
      BY <3>2, RelayOk
    <3> QED
      BY <2>1, <3>1, <3>2
  <2>4. sock' \in [Sockets -> Data]
    <3>1. CASE Recheck(sock[s], late)
      <4>1. [sock[s] EXCEPT !.count = 0, !.checked = TRUE] \in Data
        BY <1>4 DEF Data
      <4>2. sock' = [sock EXCEPT ![s] = [sock[s] EXCEPT !.count = 0, !.checked = TRUE]]
        BY <1>4, <2>1, <3>1 DEF Data
      <4> QED
        BY <1>4, <4>1, <4>2
    <3>2. CASE ~Recheck(sock[s], late)
      <4>1. PICK n : n = sock[s].count
        OBVIOUS
      <4>2. n \in 0..scenario.recheckEvery - 1
        BY <1>4, <4>1 DEF Data
      <4>3. ~(n + 1 >= scenario.recheckEvery)
        BY <3>2, <4>1 DEF Recheck
      <4>4. n + 1 \in 0..scenario.recheckEvery - 1
        BY <1>4, <4>2, <4>3
      <4>5. [sock[s] EXCEPT !.count = n + 1] \in Data
        BY <1>4, <4>4 DEF Data
      <4>6. sock' = [sock EXCEPT ![s] = [sock[s] EXCEPT !.count = n + 1]]
        BY <1>4, <2>1, <3>2, <4>1 DEF Data
      <4> QED
        BY <1>4, <4>5, <4>6
    <3> QED
      BY <3>1, <3>2
  <2> QED
    BY <1>6, <2>2, <2>3, <2>4, TypesAgain DEF locationUpdate, Types, SocketsOk
<1>7. CASE settleUpdate(t)
  <2>1. TasksOk'
    BY <1>7, DoneTask DEF settleUpdate
  <2>2. CASE tasks[t].got # {}
    <3>1. Relay(s, c) /\ UNCHANGED <<sock, rooms, reg>>
      BY <1>2, <1>3, <1>7, <2>2 DEF settleUpdate
    <3> QED
      BY <1>4, <1>7, <2>1, <3>1, RelayOk, TypesAgain DEF settleUpdate, Types, SocketsOk
  <2>3. CASE tasks[t].got = {}
    <3>1. /\ sock' = [sock EXCEPT ![s].sharing = None, ![s].crew = IF @ = c THEN None ELSE @]
          /\ Rooms(s, {c}, {}) /\ StopSharing(s, c) /\ UNCHANGED relayed
      BY <1>2, <1>3, <1>7, <2>3 DEF settleUpdate
    <3>2. rooms' \in [Sockets -> SUBSET (Crews \cup Festivals)] /\ cache' \subseteq cache /\ reg' \subseteq reg
      BY <3>1, RoomsOk, StopSharingOk
    <3>3. sock' \in [Sockets -> Data]
      <4>1. PICK w : w = IF sock[s].crew = c THEN None ELSE sock[s].crew
        OBVIOUS
      <4>2. w \in Crews \cup {None}
        BY <1>4, <4>1 DEF Data
      <4>3. [sock[s] EXCEPT !.sharing = None, !.crew = w] \in Data
        BY <1>4, <4>2 DEF Data
      <4>4. sock' = [sock EXCEPT ![s] = [sock[s] EXCEPT !.sharing = None, !.crew = w]]
        BY <1>4, <3>1, <4>1 DEF Data
      <4> QED
        BY <1>4, <4>3, <4>4
    <3> QED
      BY <1>7, <2>1, <3>1, <3>2, <3>3, TypesAgain DEF settleUpdate, Types
  <2> QED
    BY <2>2, <2>3
<1> QED
  BY <1>5, <1>6, <1>7

\* The requests.
LEMMA RequestTypes ==
  ASSUME Types, scenario' = scenario, NEW t \in Slots,
         \/ removeMember(t) \/ fetchSockets(t) \/ fetchSocketsTimesOut(t) \/ evict(t)
         \/ deleteRows(t) \/ deleteSessions(t) \/ disconnectUserSockets(t)
  PROVE  Types'
<1>1. CASE removeMember(t)
  <2>1. ArgsOk(tasks[t]) /\ Reaches(tasks[t].op, "fetchSockets")
    BY <1>1, AtStep DEF removeMember, Steps, Reaches
  <2>2. TasksOk'
    BY <1>1, <2>1, AwaitTask DEF removeMember, Steps
  <2> QED
    BY <1>1, <2>2, TypesAgain DEF removeMember, Types, SocketsOk
<1>2. CASE fetchSockets(t)
  <2>1. ArgsOk(tasks[t]) /\ Reaches(tasks[t].op, "evict")
    BY <1>2, AtStep DEF fetchSockets, Steps, Reaches
  <2>2. TasksOk'
    BY <1>2, <2>1, AwaitTask DEF fetchSockets, Steps
  <2> QED
    BY <1>2, <2>2, TypesAgain DEF fetchSockets, unchangedByStart, Types, SocketsOk
<1>3. ASSUME At(t, "evict"), AfterEviction(t)
      PROVE  TasksOk'
  <2>1. ArgsOk(tasks[t]) /\ (tasks[t].op = "deleteCrew" => Reaches(tasks[t].op, "deleteRows"))
    BY <1>3, AtStep DEF Steps, Reaches
  <2> QED
    BY <1>3, <2>1, AwaitTask, DoneTask DEF AfterEviction, Steps
<1>4. CASE fetchSocketsTimesOut(t)
  <2>1. TasksOk'
    BY <1>3, <1>4 DEF fetchSocketsTimesOut
  <2> QED
    BY <1>4, <2>1, TypesAgain DEF fetchSocketsTimesOut, unchangedByStart, Types, SocketsOk
<1>5. CASE evict(t)
  <2>1. TasksOk'
    BY <1>3, <1>5 DEF evict
  <2>2. rooms' \in [Sockets -> SUBSET (Crews \cup Festivals)]
    BY <1>5 DEF evict, EvictedRooms, Types, SocketsOk
  <2>3. \A s \in Sockets : sock'[s] \in Data
    <3> SUFFICES ASSUME NEW s \in Sockets
                 PROVE  sock'[s] \in Data
      OBVIOUS
    <3>1. sock[s] \in Data /\ 0 \in 0..scenario.recheckEvery - 1
      BY Numbers DEF Types, SocketsOk
    <3>2. sock'[s] = sock[s]
          \/ \E v \in {sock[s].sharing, None} :
               sock'[s] = [sock[s] EXCEPT !.sharing = v, !.checked = FALSE, !.count = 0]
      BY <1>5, <3>1 DEF evict, Data
    <3>3. \A v \in {sock[s].sharing, None} :
            [sock[s] EXCEPT !.sharing = v, !.checked = FALSE, !.count = 0] \in Data
      BY <3>1 DEF Data
    <3> QED
      BY <3>1, <3>2, <3>3
  <2>4. sock' = [s \in Sockets |-> sock'[s]]
    BY <1>5 DEF evict
  <2>5. sock' \in [Sockets -> Data]
    BY <2>3, <2>4
  <2> QED
    BY <1>5, <2>1, <2>2, <2>5, TypesAgain DEF evict, Types
<1>6. CASE deleteRows(t)
  <2>1. TasksOk'
    BY <1>6, DoneTask DEF deleteRows
  <2> QED
    BY <1>6, <2>1, TypesAgain DEF deleteRows, Types, SocketsOk
<1>7. CASE deleteSessions(t)
  <2>1. ArgsOk(tasks[t]) /\ Reaches(tasks[t].op, "disconnect")
    BY <1>7, AtStep DEF deleteSessions, Steps, Reaches
  <2>2. TasksOk'
    BY <1>7, <2>1, AwaitTask DEF deleteSessions, Steps
  <2> QED
    BY <1>7, <2>2, TypesAgain DEF deleteSessions, Types, SocketsOk
<1>8. CASE disconnectUserSockets(t)
  <2>1. TasksOk'
    BY <1>8, DoneTask DEF disconnectUserSockets
  <2>2. SocketsOk' /\ online' \subseteq online
    BY <1>8, ClosedOk DEF disconnectUserSockets, disconnectSocket
  <2> QED
    BY <1>8, <2>1, <2>2, TypesAgain, SameSituation
    DEF disconnectUserSockets, disconnectSocket, redis, Types, SocketsOk
<1> QED
  BY <1>1, <1>2, <1>4, <1>5, <1>6, <1>7, <1>8

LEMMA PeopleTypes ==
  ASSUME Types, scenario' = scenario, NEW u \in Users, signIn(u) \/ \E c \in Crews : addMember(c, u)
  PROVE  Types'
<1>1. CASE signIn(u)
  BY <1>1, SameTasks, TypesAgain DEF signIn, Types, SocketsOk
<1>2. CASE \E c \in Crews : addMember(c, u)
  <2>1. PICK c \in Crews : addMember(c, u)
    BY <1>2
  <2>2. PICK k : k = RelayLimit
    OBVIOUS
  <2>3. k \in Nat
    BY <2>2, Numbers DEF Types
  <2>4. relayed' \in [Crews \X Sockets -> 0..k + 1]
    BY <2>1, <2>2, <2>3 DEF addMember, Types
  <2> QED
    BY <2>1, <2>2, <2>4, SameTasks, TypesAgain DEF addMember, Types, SocketsOk
<1> QED
  BY <1>1, <1>2

LEMMA NextTypes == Types /\ [Next]_vars => Types'
<1> SUFFICES ASSUME Types, [Next]_vars
             PROVE  Types'
  OBVIOUS
<1>1. CASE UNCHANGED vars
  <2>1. scenario' = scenario /\ TasksOk'
    BY <1>1, SameTasks DEF vars
  <2> QED
    BY <1>1, <2>1, TypesAgain DEF vars, Types, SocketsOk
<1>2. CASE Next
  <2>1. scenario' = scenario
    BY <1>2 DEF Next
  <2>2. ASSUME NEW t \in Slots, Step(t)
        PROVE  Types'
    BY <2>1, <2>2, JoinTypes, CrewTypes, ShareTypes, RequestTypes DEF Step
  <2> QED
    BY <1>2, <2>1, <2>2, SocketTypes, StartTypes, PeopleTypes DEF Next
<1> QED
  BY <1>1, <1>2

LEMMA Typed == Spec => []Types
<1>1. Types /\ [Next]_vars => Types'
  BY NextTypes
<1> QED
  BY InitTypes, <1>1, PTL DEF Spec

\* The types of TypeOK: whatever events meet, socket.data, the rooms and the Redis keys keep their
\* form, and the recheck's count stays below its bound.
THEOREM TypeCorrect == Spec => []TypeOK
<1>1. Types => TypeOK
  BY DEF Types, SocketsOk, TasksOk, Data, Task, TypeOK
<1> QED
  BY <1>1, Typed, PTL

-----------------------------------------------------------------------------
(* What a step does to the handlers in flight and to the sockets.          *)

LEMMA DoneIs ==
  ASSUME Types, NEW t \in Slots, Done(t)
  PROVE  tasks'[t] = Idle /\ \A x \in Slots \ {t} : tasks'[x] = tasks[x]
BY DEF Done, Types, TasksOk

LEMMA StartIs ==
  ASSUME Types, NEW op, NEW s, NEW u, NEW arg, NEW step, Start(op, s, u, arg, step)
  PROVE  \E t \in Slots : /\ tasks[t] = Idle /\ tasks'[t] = Begun(op, s, u, arg, step)
                          /\ \A x \in Slots \ {t} : tasks'[x] = tasks[x]
<1>1. PICK t \in Slots : ~Active(t) /\ tasks' = [tasks EXCEPT ![t] = Begun(op, s, u, arg, step)]
  BY DEF Start, Begun
<1>2. tasks[t] = Idle
  <2>1. TaskOk(tasks[t]) /\ tasks[t].op = None /\ None \notin TaskOps
    BY <1>1, RoomAssumption DEF Types, TasksOk, Active
  <2> QED
    BY <2>1 DEF TaskOk, Reaches, TaskOps
<1> QED
  BY <1>1, <1>2 DEF Types, TasksOk

\* What an event or a request that starts is.
LEMMA BeginsIs ==
  ASSUME Types, request \/ \E s \in Sockets : event(s)
  PROVE  \E t \in Slots : \E op, s, u, arg, step :
           /\ tasks[t] = Idle /\ tasks'[t] = Begun(op, s, u, arg, step)
           /\ \A x \in Slots \ {t} : tasks'[x] = tasks[x]
           /\ step \in {"session", "limiter", "removeMember", "fetchSockets", "deleteSessions"}
<1>1. \E op, s, u, arg :
        \E step \in {"session", "limiter", "removeMember", "fetchSockets", "deleteSessions"} :
          Start(op, s, u, arg, step)
  <2>1. CASE request
    BY <2>1 DEF request
  <2>2. CASE \E s \in Sockets : event(s)
    <3>1. PICK s \in Sockets : event(s)
      BY <2>2
    <3>2. (\E f \in Festivals : Start("join:festival", s, None, f, "session"))
          \/ (\E op, c : Start(op, s, None, c, "session"))
          \/ Start("update", s, None, sock[s].sharing, "limiter")
      BY <3>1 DEF event
    <3> QED
      BY <3>2
  <2> QED
    BY <2>1, <2>2
<1> QED
  BY <1>1, StartIs

\* The sockets that are closed lose their rooms; of others nothing changes.
LEMMA ClosedIs ==
  ASSUME Types, NEW S, Closed(S), NEW s \in Sockets
  PROVE  /\ s \in S => rooms'[s] = {} /\ sock'[s].state = "gone"
         /\ s \notin S => /\ sock'[s] = sock[s] /\ rooms'[s] = rooms[s]
                          /\ \A f : <<f, s>> \in online => <<f, s>> \in online'
<1>1. sock[s] \in Data
  BY DEF Types, SocketsOk
<1> QED
  BY <1>1 DEF Closed, WithoutPresence, ClearedSession, Data

LEMMA RoomsIs ==
  ASSUME Types, NEW s \in Sockets, NEW left, NEW entered, Rooms(s, left, entered)
  PROVE  /\ rooms'[s] = IF Up(s) THEN (rooms[s] \ left) \cup entered ELSE rooms[s]
         /\ \A x \in Sockets \ {s} : rooms'[x] = rooms[x]
BY DEF Rooms, Types, SocketsOk

-----------------------------------------------------------------------------
(* Festivals and presence.                                                 *)

\* The handler of a join that will write the presence entry.
Pending(s, f) ==
  \E t \in Slots : tasks[t].op = "join:festival" /\ At(t, "presence")
                   /\ tasks[t].sock = s /\ tasks[t].arg = f

\* A socket is in the room of at most the festival it names, and listed there or about to be.
Placed(s) ==
  /\ ~Up(s) => rooms[s] = {}
  /\ \A f \in rooms[s] \cap Festivals :
       f = sock[s].festival /\ (<<f, s>> \in online \/ Pending(s, f))

LEMMA PlacedEmpty ==
  ASSUME NEW s \in Sockets, rooms'[s] = {}
  PROVE  Placed(s)'
BY DEF Placed

LEMMA PlacedKept ==
  ASSUME NEW s \in Sockets, Placed(s), sock'[s].festival = sock[s].festival,
         sock'[s].state = sock[s].state \/ sock'[s].state = "up",
         rooms'[s] \subseteq rooms[s] \cup Crews, Up(s) \/ rooms'[s] = rooms[s],
         \A f : <<f, s>> \in online => <<f, s>> \in online',
         \A x \in Slots : At(x, "presence") => tasks'[x] = tasks[x]
  PROVE  Placed(s)'
<1>1. ~Up(s)' => rooms'[s] = {}
  BY DEF Placed, Up
<1>2. \A f \in rooms'[s] \cap Festivals : f \in rooms[s] \cap Festivals
  BY RoomAssumption
<1>3. \A f : Pending(s, f) => Pending(s, f)'
  BY DEF Pending, At
<1> QED
  BY <1>1, <1>2, <1>3 DEF Placed

\* Steps that leave presence and festivals alone.
LEMMA ElsewherePlaced ==
  ASSUME Types, \A s \in Sockets : Placed(s), scenario' = scenario,
         \/ \E s \in Sockets : connect(s) \/ event(s) \/ \E c \in Crews : locationStop(s, c)
         \/ request \/ (\E u \in Users : signIn(u) \/ \E c \in Crews : addMember(c, u))
         \/ UNCHANGED vars
  PROVE  \A s \in Sockets : Placed(s)'
<1>1. \A x \in Slots : At(x, "presence") => tasks'[x] = tasks[x]
  <2>1. CASE tasks' = tasks
    BY <2>1
  <2>2. CASE request \/ \E s \in Sockets : event(s)
    <3>1. Idle.at # "presence"
      BY RoomAssumption DEF Idle, Steps
    <3> QED
      BY <2>2, <3>1, BeginsIs DEF At
  <2> QED
    BY <2>1, <2>2 DEF connect, locationStop, signIn, addMember, vars
<1>2. UNCHANGED <<rooms, online>>
  BY DEF connect, event, locationStop, request, unchangedByStart, signIn, addMember, vars
<1>3. \A s \in Sockets : /\ sock'[s].festival = sock[s].festival
                         /\ sock'[s].state = sock[s].state \/ sock'[s].state = "up"
  <2>1. \A s \in Sockets : sock[s] \in Data
    BY DEF Types, SocketsOk
  <2>2. CASE sock' = sock
    BY <2>2
  <2>3. CASE \E s \in Sockets : connect(s) \/ \E c \in Crews : locationStop(s, c)
    <3>1. sock \in [Sockets -> Data]
      BY DEF Types, SocketsOk
    <3>2. CASE \E s \in Sockets : connect(s)
      BY <3>1, <3>2 DEF connect, Data
    <3>3. CASE \E s \in Sockets, c \in Crews : locationStop(s, c)
      BY <3>1, <3>3 DEF locationStop, Data
    <3> QED
      BY <2>3, <3>2, <3>3
  <2> QED
    BY <2>2, <2>3 DEF event, request, unchangedByStart, signIn, addMember, vars
<1> QED
  BY <1>1, <1>2, <1>3, PlacedKept

LEMMA ClosedPlaced ==
  ASSUME Types, \A s \in Sockets : Placed(s), NEW S, Closed(S),
         \A x \in Slots : At(x, "presence") => tasks'[x] = tasks[x]
  PROVE  \A s \in Sockets : Placed(s)'
<1> SUFFICES ASSUME NEW s \in Sockets
             PROVE  Placed(s)'
  OBVIOUS
<1>1. CASE s \in S
  BY <1>1, ClosedIs, PlacedEmpty
<1>2. CASE s \notin S
  BY <1>2, ClosedIs, PlacedKept DEF Placed
<1> QED
  BY <1>1, <1>2

\* Another handler goes on.
LEMMA OtherHandler ==
  ASSUME Types, NEW t \in Slots, ~At(t, "presence"), Done(t) \/ \E step, got : Await(t, step, got)
  PROVE  \A x \in Slots : At(x, "presence") => tasks'[x] = tasks[x]
BY DoneIs, AwaitIs

LEMMA LeavesPlaced ==
  ASSUME Types, \A s \in Sockets : Placed(s), NEW z \in Sockets, disconnect(z) \/ leaveFestival(z)
  PROVE  \A s \in Sockets : Placed(s)'
<1>1. tasks' = tasks
  BY DEF disconnect, leaveFestival
<1>2. CASE disconnect(z)
  BY <1>1, <1>2, ClosedPlaced DEF disconnect
<1>3. CASE leaveFestival(z)
  <2> SUFFICES ASSUME NEW s \in Sockets
               PROVE  Placed(s)'
    OBVIOUS
  <2>1. CASE s = z
    <3>1. rooms'[s] = {}
      BY <1>3, <2>1 DEF leaveFestival, Types, SocketsOk
    <3> QED
      BY <3>1, PlacedEmpty
  <2>2. CASE s # z
    <3>1. sock'[s] = sock[s] /\ rooms'[s] = rooms[s] /\ \A f : <<f, s>> \in online => <<f, s>> \in online'
      BY <1>3, <2>2 DEF leaveFestival, WithoutPresence, Types, SocketsOk
    <3> QED
      BY <1>1, <3>1, PlacedKept
  <2> QED
    BY <2>1, <2>2
<1> QED
  BY <1>2, <1>3

\* The handlers that change presence.
LEMMA JoinPlaced ==
  ASSUME Types, \A s \in Sockets : Placed(s), NEW t \in Slots,
         session(t) \/ joinRoom(t) \/ setSocketPresence(t) \/ disconnectUserSockets(t)
  PROVE  \A s \in Sockets : Placed(s)'
<1>1. CASE disconnectUserSockets(t)
  <2>1. \A x \in Slots : At(x, "presence") => tasks'[x] = tasks[x]
    BY <1>1, OtherHandler DEF disconnectUserSockets, At
  <2> QED
    BY <1>1, <2>1, ClosedPlaced DEF disconnectUserSockets, disconnectSocket
<1>2. CASE session(t)
  <2>1. \A x \in Slots : At(x, "presence") => tasks'[x] = tasks[x]
    BY <1>2, OtherHandler DEF session, At
  <2>2. CASE UNCHANGED <<sock, rooms, online>>
    BY <2>1, <2>2, PlacedKept
  <2>3. CASE \E S : Closed(S)
    BY <2>1, <2>3, ClosedPlaced
  <2> QED
    BY <1>2, <2>2, <2>3 DEF session, disconnectSocket
<1>3. CASE joinRoom(t)
  <2>1. "profile" \in Steps /\ At(t, "profile")
    BY <1>3 DEF joinRoom, Steps
  <2>2. tasks[t].op = "join:festival" /\ tasks[t].sock \in Sockets /\ tasks[t].arg \in Festivals
    BY <2>1, AtStep DEF Reaches, ArgsOk, HttpOps
  <2>3. PICK z \in Sockets : z = tasks[t].sock
    BY <2>2
  <2>4. PICK g \in Festivals : g = tasks[t].arg
    BY <2>2
  <2>5. \A x \in Slots : At(x, "presence") => tasks'[x] = tasks[x]
    BY <1>3, <2>1, OtherHandler DEF joinRoom, At
  <2>6. rooms'[z] = IF Up(z) THEN (rooms[z] \ {sock[z].festival}) \cup {g} ELSE rooms[z]
    BY <1>3, <2>3, <2>4, RoomsIs DEF joinRoom
  <2>7. sock'[z].festival = g /\ sock'[z].state = sock[z].state
    BY <1>3, <2>3, <2>4 DEF joinRoom, Types, SocketsOk, Data
  <2>8. Pending(z, g)'
    <3>1. tasks'[t].op = "join:festival" /\ tasks'[t].at = "presence" /\ tasks'[t].sock = z /\ tasks'[t].arg = g
      BY <1>3, <2>2, <2>3, <2>4, AwaitIs DEF joinRoom
    <3> QED
      BY <3>1 DEF Pending, At
  <2>9. Placed(z)'
    <3>1. ~Up(z)' => rooms'[z] = {}
      BY <2>6, <2>7 DEF Placed, Up
    <3>2. \A f \in rooms'[z] \cap Festivals : f = g
      BY <2>6 DEF Placed
    <3> QED
      BY <2>7, <2>8, <3>1, <3>2 DEF Placed
  <2>10. ASSUME NEW s \in Sockets, s # z
         PROVE  Placed(s)'
    <3>1. sock'[s] = sock[s] /\ rooms'[s] = rooms[s] /\ \A f : <<f, s>> \in online => <<f, s>> \in online'
      BY <1>3, <2>3, <2>10, RoomsIs DEF joinRoom, WithoutPresence, Types, SocketsOk
    <3> QED
      BY <2>5, <3>1, PlacedKept
  <2> QED
    BY <2>9, <2>10
<1>4. CASE setSocketPresence(t)
  <2>1. UNCHANGED <<sock, rooms>> /\ online' = online \cup {<<tasks[t].arg, tasks[t].sock>>} /\ Done(t)
    BY <1>4 DEF setSocketPresence
  <2>2. \A x \in Slots \ {t} : tasks'[x] = tasks[x]
    BY <2>1, DoneIs
  <2>3. \A s, f : Pending(s, f) => Pending(s, f)' \/ <<f, s>> \in online'
    BY <2>1, <2>2 DEF Pending, At
  <2> QED
    BY <2>1, <2>3 DEF Placed, Up
<1> QED
  BY <1>1, <1>2, <1>3, <1>4

\* Every other handler leaves presence alone, and at most leaves or enters the rooms of crews.
LEMMA HandlerPlaced ==
  ASSUME Types, \A s \in Sockets : Placed(s), NEW t \in Slots,
         \/ refuse(t) \/ getMember(t) \/ enterCrew(t) \/ leaveCrew(t) \/ registerSharingSocket(t)
         \/ locationShare(t) \/ locationUpdate(t) \/ settleUpdate(t)
         \/ removeMember(t) \/ fetchSockets(t) \/ fetchSocketsTimesOut(t) \/ evict(t)
         \/ deleteRows(t) \/ deleteSessions(t)
  PROVE  \A s \in Sockets : Placed(s)'
<1>1. \A x \in Slots : At(x, "presence") => tasks'[x] = tasks[x]
  BY OtherHandler
  DEF refuse, getMember, enterCrew, leaveCrew, registerSharingSocket, locationShare, locationUpdate,
      settleUpdate, removeMember, fetchSockets, fetchSocketsTimesOut, evict, AfterEviction, deleteRows,
      deleteSessions, At
<1>2. online' = online
  BY DEF refuse, unchangedByStart, getMember, enterCrew, leaveCrew, registerSharingSocket, locationShare,
         locationUpdate, settleUpdate, removeMember, fetchSockets, fetchSocketsTimesOut, evict, deleteRows,
         deleteSessions
<1>3. \A s \in Sockets : sock'[s].festival = sock[s].festival /\ sock'[s].state = sock[s].state
  <2>1. sock \in [Sockets -> Data]
    BY DEF Types, SocketsOk
  <2>2. CASE sock' = sock
    BY <2>2
  <2>3. CASE enterCrew(t) \/ leaveCrew(t) \/ locationShare(t)
    <3>1. CASE enterCrew(t)
      BY <2>1, <3>1 DEF enterCrew, Data
    <3>2. CASE leaveCrew(t)
      <4>1. tasks[t].sock \in Sockets
        BY <3>2, AtStep DEF leaveCrew, Steps, Reaches, ArgsOk, HttpOps
      <4>2. PICK z \in Sockets : z = tasks[t].sock
        BY <4>1
      <4>3. PICK v : v = IF sock[z].sharing = tasks[t].arg THEN None ELSE sock[z].sharing
        OBVIOUS
      <4>4. PICK w : w = IF sock[z].crew = tasks[t].arg THEN None ELSE sock[z].crew
        OBVIOUS
      <4>5. PICK e : e = [sock[z] EXCEPT !.sharing = v, !.crew = w, !.checked = FALSE, !.count = 0]
        OBVIOUS
      <4>6. sock' = [sock EXCEPT ![z] = e]
        BY <2>1, <3>2, <4>2, <4>3, <4>4, <4>5 DEF leaveCrew, Data
      <4>7. e.festival = sock[z].festival /\ e.state = sock[z].state
        BY <2>1, <4>5 DEF Data
      <4> QED
        BY <2>1, <4>6, <4>7
    <3>3. CASE locationShare(t)
      BY <2>1, <3>3 DEF locationShare, Data
    <3> QED
      BY <2>3, <3>1, <3>2, <3>3
  <2>4. CASE locationUpdate(t) \/ settleUpdate(t)
    <3>1. CASE locationUpdate(t)
      BY <2>1, <3>1 DEF locationUpdate, Data
    <3>2. CASE settleUpdate(t)
      BY <2>1, <3>2 DEF settleUpdate, Data
    <3> QED
      BY <2>4, <3>1, <3>2
  <2>5. CASE evict(t)
    BY <2>1, <2>5 DEF evict, Data
  <2> QED
    BY <2>2, <2>3, <2>4, <2>5 DEF refuse, unchangedByStart, getMember, registerSharingSocket, removeMember,
         fetchSockets, fetchSocketsTimesOut, deleteRows, deleteSessions
<1>4. \A s \in Sockets : rooms'[s] \subseteq rooms[s] \cup Crews /\ (Up(s) \/ rooms'[s] \subseteq rooms[s])
  <2>1. CASE rooms' = rooms
    BY <2>1
  <2>2. CASE enterCrew(t) \/ leaveCrew(t) \/ settleUpdate(t)
    <3>1. tasks[t].sock \in Sockets /\ tasks[t].arg \in Crews
      BY <2>2, AtStep DEF Steps, Reaches, ArgsOk, HttpOps, enterCrew, leaveCrew, settleUpdate
    <3>2. PICK z \in Sockets, c \in Crews : z = tasks[t].sock /\ c = tasks[t].arg
      BY <3>1
    <3>3. rooms' = rooms \/ Rooms(z, {sock[z].crew}, {c}) \/ Rooms(z, {c}, {})
      BY <2>2, <3>2 DEF enterCrew, leaveCrew, settleUpdate
    <3>4. ASSUME NEW left, NEW entered \in SUBSET Crews, Rooms(z, left, entered), NEW s \in Sockets
          PROVE  rooms'[s] \subseteq rooms[s] \cup Crews /\ (Up(s) \/ rooms'[s] \subseteq rooms[s])
      <4>1. CASE s # z
        BY <3>4, <4>1, RoomsIs
      <4>2. CASE s = z /\ Up(z)
        <5>1. rooms'[s] = (rooms[s] \ left) \cup entered
          BY <3>4, <4>2, RoomsIs
        <5>2. entered \subseteq Crews
          OBVIOUS
        <5> QED
          BY <4>2, <5>1, <5>2
      <4>3. CASE s = z /\ ~Up(z)
        BY <3>4, <4>3, RoomsIs
      <4> QED
        BY <4>1, <4>2, <4>3
    <3>5. CASE Rooms(z, {sock[z].crew}, {c})
      <4>1. {c} \in SUBSET Crews
        BY <3>2
      <4> QED
        BY <3>4, <3>5, <4>1
    <3>6. CASE Rooms(z, {c}, {})
      <4>1. {} \in SUBSET Crews
        OBVIOUS
      <4> QED
        BY <3>4, <3>6, <4>1
    <3> QED
      BY <2>1, <3>3, <3>5, <3>6
  <2>3. CASE evict(t)
    BY <2>3 DEF evict, EvictedRooms
  <2> QED
    BY <2>1, <2>2, <2>3 DEF refuse, unchangedByStart, getMember, registerSharingSocket, locationShare,
         locationUpdate, removeMember, fetchSockets, fetchSocketsTimesOut, deleteRows, deleteSessions
<1>5. \A s \in Sockets : Up(s) \/ rooms'[s] = rooms[s]
  BY <1>4 DEF Placed
<1> QED
  BY <1>1, <1>2, <1>3, <1>4, <1>5, PlacedKept

EveryPlaced == \A s \in Sockets : Placed(s)

LEMMA AllPlaced == Spec => [](Types /\ EveryPlaced)
<1>1. Init => Types /\ EveryPlaced
  BY InitTypes DEF Init, Placed, EveryPlaced
<1>2. Types /\ EveryPlaced /\ [Next]_vars => Types' /\ EveryPlaced'
  <2> SUFFICES ASSUME Types, \A s \in Sockets : Placed(s), [Next]_vars
               PROVE  \A s \in Sockets : Placed(s)'
    BY NextTypes DEF EveryPlaced
  <2>1. CASE UNCHANGED vars
    BY <2>1, ElsewherePlaced DEF vars
  <2>2. CASE Next
    <3>1. scenario' = scenario
      BY <2>2 DEF Next
    <3>2. ASSUME NEW t \in Slots, Step(t)
          PROVE  \A s \in Sockets : Placed(s)'
      BY <3>2, JoinPlaced, HandlerPlaced DEF Step
    <3> QED
      BY <2>2, <3>1, <3>2, ElsewherePlaced, LeavesPlaced DEF Next
  <2> QED
    BY <2>1, <2>2
<1> QED
  BY <1>1, <1>2, PTL DEF Spec

\* RoomIsListed: the entry that authenticateAndJoinRoom writes after an await is there for every
\* socket in the festival's room whose joins are answered, however leave:festival, other joins,
\* disconnects and the ends of sessions come between.
THEOREM PresenceListed == Spec => []RoomIsListed
<1>1. EveryPlaced => RoomIsListed
  BY DEF EveryPlaced, Placed, Pending, RoomIsListed
<1> QED
  BY <1>1, AllPlaced, PTL

-----------------------------------------------------------------------------
(* The crew that socket.data names, and the rooms.                         *)

\* The members of c have been evicted and are about to be deleted.
Dissolving(c) == \E t \in Slots : At(t, "deleteRows") /\ tasks[t].arg = c

Gated(s) ==
  /\ sock[s].state = "new" => sock[s].crew = None
  /\ rooms[s] \cap Crews \subseteq {sock[s].crew}
  /\ \A c \in Crews : Up(s) /\ sock[s].crew = c /\ <<c, Owner[s]>> \in member /\ ~Dissolving(c) => c \in rooms[s]

\* A kick that is about to evict has removed the member.
KickedFirst ==
  \A t \in Slots : tasks[t].op = "remove" /\ tasks[t].at \in {"fetchSockets", "evict"} =>
    <<tasks[t].arg, tasks[t].user>> \notin member

EveryGated == Steady => KickedFirst /\ \A s \in Sockets : Gated(s)

\* Members only go, and a crew that is being dissolved has none afterwards.
Fewer ==
  /\ member' \subseteq member
  /\ \A c : Dissolving(c) => Dissolving(c)' \/ \A u : <<c, u>> \notin member'

LEMMA GatedKept ==
  ASSUME Types, NEW s \in Sockets, Gated(s), Fewer, sock'[s].crew = sock[s].crew,
         \/ sock'[s].state = sock[s].state
         \/ (sock[s].state = "new" /\ sock'[s].state = "up")
         \/ sock'[s].state = "gone",
         rooms'[s] \cap Crews = rooms[s] \cap Crews
  PROVE  Gated(s)'
<1>1. rooms'[s] \cap Crews \subseteq {sock'[s].crew}
  BY DEF Gated
<1>2. ASSUME NEW c \in Crews, Up(s)', sock'[s].crew = c, <<c, Owner[s]>> \in member', ~Dissolving(c)'
      PROVE  c \in rooms'[s]
  <2>1. Up(s) /\ <<c, Owner[s]>> \in member /\ ~Dissolving(c)
    BY <1>2, RoomAssumption DEF Fewer, Up, Gated
  <2>2. c \in rooms[s]
    BY <1>2, <2>1 DEF Gated
  <2> QED
    BY <2>2
<1>3. sock'[s].state = "new" => sock'[s].crew = None
  BY DEF Gated
<1> QED
  BY <1>1, <1>2, <1>3 DEF Gated

\* The handlers that change none of what is stated, and keep the members.
LEMMA SameMembersFewer ==
  ASSUME member' = member, \A x \in Slots : At(x, "deleteRows") => tasks'[x] = tasks[x]
  PROVE  Fewer
BY DEF Fewer, Dissolving, At

LEMMA KickedKept ==
  ASSUME KickedFirst, member' \subseteq member,
         \A x \in Slots : tasks'[x] = tasks[x] \/ tasks'[x].op # "remove"
                          \/ tasks'[x].at \notin {"fetchSockets", "evict"}
  PROVE  KickedFirst'
BY DEF KickedFirst

\* What happens to a socket outside the handlers of crews and requests.
LEMMA ElsewhereGated ==
  ASSUME Types, KickedFirst, \A s \in Sockets : Gated(s), \A s \in Sockets : Placed(s),
         scenario' = scenario, Steady,
         \/ \E s \in Sockets : connect(s) \/ disconnect(s) \/ event(s) \/ leaveFestival(s)
         \/ \E s \in Sockets, c \in Crews : locationStop(s, c)
         \/ request \/ (\E u \in Users : signIn(u) \/ \E c \in Crews : addMember(c, u))
         \/ UNCHANGED vars
  PROVE  KickedFirst' /\ \A s \in Sockets : Gated(s)'
<1>1. member' = member
  BY DEF connect, disconnect, event, leaveFestival, locationStop, request, unchangedByStart, signIn,
         addMember, vars, Steady
<1>2. /\ \A x \in Slots : At(x, "deleteRows") => tasks'[x] = tasks[x]
      /\ \A x \in Slots : tasks'[x] = tasks[x] \/ tasks'[x].op # "remove"
                          \/ tasks'[x].at \notin {"fetchSockets", "evict"}
  <2>1. CASE tasks' = tasks
    BY <2>1
  <2>2. CASE request
    <3>1. Idle.at # "deleteRows"
      BY RoomAssumption DEF Idle, Steps
    <3>2. \E op, s, u, arg : \E step \in {"removeMember", "fetchSockets", "deleteSessions"} :
            /\ step = "fetchSockets" => op = "deleteCrew"
            /\ Start(op, s, u, arg, step)
      BY <2>2 DEF request
    <3> QED
      BY <3>1, <3>2, StartIs, BegunIs DEF At
  <2>3. CASE \E s \in Sockets : event(s)
    <3>1. PICK s \in Sockets : event(s)
      BY <2>3
    <3>2. Idle.at # "deleteRows"
      BY RoomAssumption DEF Idle, Steps
    <3>3. \E op, u, arg : \E step \in {"session", "limiter"} : Start(op, s, u, arg, step)
      BY <3>1 DEF event
    <3> QED
      BY <3>2, <3>3, StartIs, BegunIs DEF At
  <2> QED
    BY <2>1, <2>2, <2>3 DEF connect, disconnect, leaveFestival, locationStop, signIn, addMember, vars
<1>3. KickedFirst' /\ Fewer
  BY <1>1, <1>2, KickedKept, SameMembersFewer
<1>4. \A s \in Sockets :
        \/ /\ sock'[s].crew = sock[s].crew
           /\ sock'[s].state = sock[s].state \/ (sock[s].state = "new" /\ sock'[s].state = "up")
           /\ rooms'[s] = rooms[s]
        \/ rooms'[s] = {} /\ sock'[s].state = "gone"
  <2>1. sock \in [Sockets -> Data]
    BY DEF Types, SocketsOk
  <2>2. CASE UNCHANGED <<sock, rooms>>
    BY <2>2
  <2>3. CASE \E z \in Sockets : connect(z)
    BY <2>1, <2>3 DEF connect, Data
  <2>4. CASE \E z \in Sockets : disconnect(z)
    BY <2>4, ClosedIs DEF disconnect
  <2>5. CASE \E z \in Sockets, c \in Crews : locationStop(z, c)
    BY <2>1, <2>5 DEF locationStop, Data
  <2> QED
    BY <2>2, <2>3, <2>4, <2>5 DEF event, leaveFestival, request, unchangedByStart, signIn, addMember, vars,
                                  Steady
<1>5. ASSUME NEW s \in Sockets, rooms'[s] = {}, sock'[s].state = "gone"
      PROVE  Gated(s)'
  BY <1>5 DEF Gated, Up
<1> QED
  BY <1>3, <1>4, <1>5, GatedKept

\* A handler's socket has connected.
Connected == \A t \in Slots, s \in Sockets : tasks[t].sock = s => sock[s].state # "new"

\* What a step makes of a socket: it is closed, or its state and whether it names a user stay.
LEMMA SocketMoves ==
  ASSUME Types, [Next]_vars
  PROVE  \A s \in Sockets :
           \/ rooms'[s] = {} /\ sock'[s].state = "gone"
           \/ /\ sock'[s].state = sock[s].state \/ (sock[s].state = "new" /\ sock'[s].state = "up")
              /\ sock[s].known => sock'[s].known
<1> DEFINE Kept == \A s \in Sockets : /\ sock'[s].state = sock[s].state
                                      /\ sock[s].known => sock'[s].known
<1>1. sock \in [Sockets -> Data]
  BY DEF Types, SocketsOk
<1>2. CASE sock' = sock
  BY <1>2
<1>3. CASE \E S : Closed(S)
  BY <1>3, ClosedIs
<1>4. CASE \E s \in Sockets : connect(s) \/ leaveFestival(s) \/ \E c \in Crews : locationStop(s, c)
  BY <1>1, <1>4 DEF connect, leaveFestival, locationStop, Data
<1>5. ASSUME NEW t \in Slots, joinRoom(t) \/ enterCrew(t) \/ locationShare(t) \/ locationUpdate(t)
      PROVE  Kept
  <2>1. CASE joinRoom(t)
    BY <1>1, <2>1 DEF joinRoom, Data
  <2>2. CASE enterCrew(t)
    BY <1>1, <2>2 DEF enterCrew, Data
  <2>3. CASE locationShare(t)
    BY <1>1, <2>3 DEF locationShare, Data
  <2>4. CASE locationUpdate(t)
    BY <1>1, <2>4 DEF locationUpdate, Data
  <2> QED
    BY <1>5, <2>1, <2>2, <2>3, <2>4
<1>6. ASSUME NEW t \in Slots, leaveCrew(t) \/ settleUpdate(t) \/ evict(t)
      PROVE  Kept
  <2>1. CASE leaveCrew(t)
    <3> SUFFICES ASSUME NEW s \in Sockets
                 PROVE  sock'[s].state = sock[s].state /\ sock'[s].known = sock[s].known
      OBVIOUS
    <3>1. CASE s = tasks[t].sock
      <4> HIDE DEF Kept
      <4>1. sock[s] \in Data
        BY <1>1
      <4> QED
        BY <1>1, <2>1, <3>1, <4>1 DEF leaveCrew, Data
    <3>2. CASE s # tasks[t].sock
      <4> HIDE DEF Kept
      <4> QED
        BY <1>1, <2>1, <3>2 DEF leaveCrew
    <3> QED
      BY <3>1, <3>2
  <2>2. CASE settleUpdate(t)
    BY <1>1, <2>2 DEF settleUpdate, Data
  <2>3. CASE evict(t)
    BY <1>1, <2>3 DEF evict, Data
  <2> QED
    BY <1>6, <2>1, <2>2, <2>3
<1>7. ASSUME NEW t \in Slots, Step(t)
      PROVE  sock' = sock \/ (\E S : Closed(S)) \/ Kept
  <2> HIDE DEF Kept
  <2> QED
    BY <1>5, <1>6, <1>7 DEF Step, session, refuse, setSocketPresence, getMember, registerSharingSocket,
     removeMember, fetchSockets, fetchSocketsTimesOut, deleteRows, deleteSessions,
     disconnectUserSockets, disconnectSocket, unchangedByStart
<1>8. CASE Kept
  BY <1>8
<1> QED
  BY <1>2, <1>3, <1>4, <1>7, <1>8
  DEF Next, vars, disconnect, event, request, unchangedByStart, addMember, signIn

\* A handler in flight takes one step: it goes on, or it ends.
LEMMA StepGoesOn ==
  ASSUME Types, NEW t \in Slots, Step(t)
  PROVE  /\ Done(t) \/ \E step, got : Await(t, step, got)
         /\ \A x \in Slots \ {t} : tasks'[x] = tasks[x]
         /\ \/ tasks'[t] = Idle
            \/ /\ tasks'[t].op = tasks[t].op /\ tasks'[t].sock = tasks[t].sock
               /\ tasks'[t].user = tasks[t].user /\ tasks'[t].arg = tasks[t].arg
<1>1. Done(t) \/ \E step, got : Await(t, step, got)
  BY DEF Step, session, refuse, joinRoom, setSocketPresence, getMember, enterCrew, leaveCrew,
     registerSharingSocket, locationShare, locationUpdate, settleUpdate, removeMember, fetchSockets,
     fetchSocketsTimesOut, AfterEviction, evict, deleteRows, deleteSessions, disconnectUserSockets
<1> QED
  BY <1>1, DoneIs, AwaitIs

\* The steps of no handler in flight, and those that start one.
LEMMA TasksMove ==
  ASSUME Types, [Next]_vars
  PROVE  \/ tasks' = tasks
         \/ \E t \in Slots : Step(t)
         \/ \E t \in Slots : \E op, s, u, arg, step :
              /\ op \in scenario.ops /\ MayStart(op, s)
              /\ tasks[t] = Idle /\ tasks'[t] = Begun(op, s, u, arg, step)
              /\ \A x \in Slots \ {t} : tasks'[x] = tasks[x]
              /\ \/ /\ op \in HttpOps /\ s = None
                    /\ step \in {"removeMember", "fetchSockets", "deleteSessions"}
                 \/ /\ op \notin HttpOps /\ s \in Sockets /\ Up(s)
                    /\ op = "join:crew" /\ scenario.festivalFirst => sock[s].known
                    /\ op = "update" => arg = sock[s].sharing
                    /\ step = IF op = "update" THEN "limiter" ELSE "session"
<1>1. CASE request
  <2>1. PICK op, u, arg, step :
          /\ Start(op, None, u, arg, step) /\ op \in HttpOps
          /\ step \in {"removeMember", "fetchSockets", "deleteSessions"}
    <3>1. CASE \E p \in member \ Leaders : Start("remove", None, p[2], p[1], "removeMember")
      BY <3>1 DEF HttpOps
    <3>2. CASE \E c \in scenario.crews : Start("deleteCrew", None, None, c, "fetchSockets")
      BY <3>2 DEF HttpOps
    <3>3. CASE \E u \in sessions : Start("signOut", None, u, None, "deleteSessions")
      BY <3>3 DEF HttpOps
    <3> QED
      BY <1>1, <3>1, <3>2, <3>3 DEF request
  <2>2. op \in scenario.ops /\ MayStart(op, None)
    BY <2>1 DEF Start
  <2> QED
    BY <2>1, <2>2, StartIs
<1>2. ASSUME NEW s \in Sockets, event(s)
      PROVE  \E op, arg, step :
               /\ Start(op, s, None, arg, step) /\ op \notin HttpOps
               /\ op = "join:crew" /\ scenario.festivalFirst => sock[s].known
               /\ op = "update" => arg = sock[s].sharing
               /\ step = IF op = "update" THEN "limiter" ELSE "session"
  <2>1. CASE \E f \in Festivals : Start("join:festival", s, None, f, "session")
    BY <2>1 DEF HttpOps
  <2>2. CASE \E c \in scenario.crews :
               (scenario.festivalFirst => sock[s].known) /\ Start("join:crew", s, None, c, "session")
    BY <2>2 DEF HttpOps
  <2>3. CASE \E c \in scenario.crews : Start("leave:crew", s, None, c, "session")
    BY <2>3 DEF HttpOps
  <2>4. CASE Start("share", s, None, sock[s].crew, "session")
    BY <2>4 DEF HttpOps
  <2>5. CASE Start("sync", s, None, sock[s].crew, "session")
    BY <2>5 DEF HttpOps
  <2>6. CASE Start("update", s, None, sock[s].sharing, "limiter")
    BY <2>6 DEF HttpOps
  <2> QED
    BY <1>2, <2>1, <2>2, <2>3, <2>4, <2>5, <2>6 DEF event
<1>3. CASE \E s \in Sockets : event(s)
  <2>1. PICK s \in Sockets : event(s)
    BY <1>3
  <2>2. PICK op, arg, step :
               /\ Start(op, s, None, arg, step) /\ op \notin HttpOps
               /\ op = "join:crew" /\ scenario.festivalFirst => sock[s].known
               /\ op = "update" => arg = sock[s].sharing
               /\ step = IF op = "update" THEN "limiter" ELSE "session"
    BY <1>2, <2>1
  <2>3. op \in scenario.ops /\ MayStart(op, s) /\ Up(s)
    BY <2>1, <2>2 DEF Start, event
  <2> QED
    BY <2>2, <2>3, StartIs
<1> QED
  BY <1>1, <1>3 DEF Next, vars, connect, disconnect, leaveFestival, locationStop, addMember, signIn

\* A handler goes on, ends, or starts for a socket that is connected.
LEMMA TaskSockets ==
  ASSUME Types, [Next]_vars
  PROVE  \A t \in Slots, s \in Sockets :
           tasks'[t].sock = s => tasks[t].sock = s \/ sock[s].state # "new"
<1>1. CASE tasks' = tasks
  BY <1>1
<1>2. CASE \E t \in Slots : Step(t)
  <2>1. Idle.sock = None
    BY DEF Idle
  <2> QED
    BY <1>2, <2>1, StepGoesOn, RoomAssumption
<1>3. CASE tasks' # tasks /\ ~ \E t \in Slots : Step(t)
  <2>1. PICK t, op, s, u, arg, step :
          /\ t \in Slots
          /\ tasks'[t] = Begun(op, s, u, arg, step)
          /\ \A x \in Slots \ {t} : tasks'[x] = tasks[x]
          /\ s = None \/ Up(s)
    BY <1>3, TasksMove
  <2> QED
    BY <2>1, BegunIs, RoomAssumption DEF Up
<1> QED
  BY <1>1, <1>2, <1>3

LEMMA NextConnected == Types /\ Connected /\ [Next]_vars => Connected'
<1> SUFFICES ASSUME Types, Connected, [Next]_vars
             PROVE  Connected'
  OBVIOUS
<1>1. \A s \in Sockets : sock'[s].state = "new" => sock[s].state = "new"
  BY SocketMoves
<1>2. \A t \in Slots, s \in Sockets : tasks'[t].sock = s => tasks[t].sock = s \/ sock[s].state # "new"
  BY TaskSockets
<1> QED
  BY <1>1, <1>2 DEF Connected

\* One handler goes on or ends, and it is none that deletes or kicks.
LEMMA HandlerFewer ==
  ASSUME Types, KickedFirst, NEW t \in Slots, member' = member, tasks[t].op # "remove", ~At(t, "deleteRows"),
         Done(t) \/ \E step, got : Await(t, step, got)
  PROVE  KickedFirst' /\ Fewer
<1>1. tasks'[t] = Idle \/ tasks'[t].op = tasks[t].op
  BY DoneIs, AwaitIs
<1>2. \A x \in Slots \ {t} : tasks'[x] = tasks[x]
  BY DoneIs, AwaitIs
<1>3. Idle.op # "remove"
  BY RoomAssumption DEF Idle, TaskOps
<1> QED
  BY <1>1, <1>2, <1>3, KickedKept, SameMembersFewer DEF At

\* The handlers that close sockets, or leave the rooms of crews and data.crewId alone.
LEMMA PlainGated ==
  ASSUME Types, KickedFirst, \A s \in Sockets : Gated(s), NEW t \in Slots,
         \/ session(t) \/ refuse(t) \/ joinRoom(t) \/ setSocketPresence(t) \/ getMember(t)
         \/ registerSharingSocket(t) \/ locationShare(t) \/ locationUpdate(t)
         \/ deleteSessions(t) \/ disconnectUserSockets(t)
  PROVE  KickedFirst' /\ \A s \in Sockets : Gated(s)'
<1>1. KickedFirst' /\ Fewer
  <2>1. /\ tasks[t].at \in Steps /\ tasks[t].op # "remove" /\ ~At(t, "deleteRows")
    BY AtStep DEF session, refuse, joinRoom, setSocketPresence, getMember, registerSharingSocket,
          locationShare, locationUpdate, deleteSessions, disconnectUserSockets, At, Reaches, Steps
  <2>2. member' = member
    BY DEF session, refuse, unchangedByStart, joinRoom, setSocketPresence, getMember,
           registerSharingSocket, locationShare, locationUpdate, deleteSessions, disconnectUserSockets
  <2>3. Done(t) \/ \E step, got : Await(t, step, got)
    BY DEF session, refuse, joinRoom, setSocketPresence, getMember, registerSharingSocket,
           locationShare, locationUpdate, deleteSessions, disconnectUserSockets
  <2> QED
    BY <2>1, <2>2, <2>3, HandlerFewer
<1>2. \A s \in Sockets :
        \/ /\ sock'[s].crew = sock[s].crew /\ sock'[s].state = sock[s].state
           /\ rooms'[s] \cap Crews = rooms[s] \cap Crews
        \/ rooms'[s] = {} /\ sock'[s].state = "gone"
  <2>1. sock \in [Sockets -> Data]
    BY DEF Types, SocketsOk
  <2>2. CASE UNCHANGED <<sock, rooms>>
    BY <2>2
  <2>3. CASE \E S : Closed(S)
    BY <2>3, ClosedIs
  <2>4. CASE joinRoom(t)
    <3>1. tasks[t].sock \in Sockets /\ tasks[t].arg \in Festivals
      BY <2>4, AtStep DEF joinRoom, Steps, Reaches, ArgsOk, HttpOps
    <3>2. PICK z \in Sockets, f \in Festivals : z = tasks[t].sock /\ f = tasks[t].arg
      BY <3>1
    <3>3. \A s \in Sockets : sock'[s].crew = sock[s].crew /\ sock'[s].state = sock[s].state
      BY <2>1, <2>4 DEF joinRoom, Data
    <3>4. Rooms(z, {sock[z].festival}, {f})
      BY <2>4, <3>2 DEF joinRoom
    <3>5. f \notin Crews /\ sock[z].festival \notin Crews
      BY <2>1, RoomAssumption DEF Data
    <3>6. rooms'[z] = rooms[z] \/ rooms'[z] = (rooms[z] \ {sock[z].festival}) \cup {f}
      BY <3>4, RoomsIs
    <3>7. rooms'[z] \cap Crews = rooms[z] \cap Crews
      BY <3>5, <3>6
    <3>8. \A s \in Sockets \ {z} : rooms'[s] = rooms[s]
      BY <3>4, RoomsIs
    <3> QED
      BY <3>3, <3>7, <3>8
  <2>5. CASE locationShare(t) \/ locationUpdate(t)
    <3>1. \A s \in Sockets : sock'[s].crew = sock[s].crew /\ sock'[s].state = sock[s].state
      <4>1. CASE locationShare(t)
        BY <2>1, <4>1 DEF locationShare, Data
      <4>2. CASE locationUpdate(t)
        BY <2>1, <4>2 DEF locationUpdate, Data
      <4> QED
        BY <2>5, <4>1, <4>2
    <3> QED
      BY <2>5, <3>1 DEF locationShare, locationUpdate
  <2> QED
    BY <2>2, <2>3, <2>4, <2>5 DEF session, disconnectSocket, refuse, unchangedByStart, setSocketPresence,
         getMember, registerSharingSocket, deleteSessions, disconnectUserSockets
<1>3. ASSUME NEW s \in Sockets, rooms'[s] = {}, sock'[s].state = "gone"
      PROVE  Gated(s)'
  BY <1>3 DEF Gated, Up
<1> QED
  BY <1>1, <1>2, <1>3, GatedKept

\* join:crew, leave:crew and a recheck that tears the share down.
LEMMA CrewGated ==
  ASSUME Types, KickedFirst, \A s \in Sockets : Gated(s), \A s \in Sockets : Placed(s), Connected,
         NEW t \in Slots, enterCrew(t) \/ leaveCrew(t) \/ settleUpdate(t)
  PROVE  KickedFirst' /\ \A s \in Sockets : Gated(s)'
<1>1. /\ tasks[t].sock \in Sockets /\ tasks[t].arg \in Crews
      /\ tasks[t].op # "remove" /\ ~At(t, "deleteRows")
  BY AtStep DEF Steps, Reaches, ArgsOk, HttpOps, enterCrew, leaveCrew, settleUpdate, At
<1>2. PICK z \in Sockets, c \in Crews : z = tasks[t].sock /\ c = tasks[t].arg
  BY <1>1
<1>3. KickedFirst' /\ Fewer
  BY <1>1, HandlerFewer DEF enterCrew, leaveCrew, settleUpdate
<1>4. sock \in [Sockets -> Data] /\ None \notin Crews
  BY RoomAssumption DEF Types, SocketsOk
<1>5. sock[z].state # "new"
  BY <1>2 DEF Connected
<1>6. CASE UNCHANGED <<sock, rooms>>
  BY <1>3, <1>6, GatedKept
<1>7. ASSUME NEW left, NEW entered, Rooms(z, left, entered), \A s \in Sockets \ {z} : sock'[s] = sock[s],
             Gated(z)'
      PROVE  \A s \in Sockets : Gated(s)'
  <2> SUFFICES ASSUME NEW s \in Sockets, s # z
               PROVE  Gated(s)'
    BY <1>7
  <2>1. sock'[s] = sock[s] /\ rooms'[s] = rooms[s]
    BY <1>7, RoomsIs
  <2> QED
    BY <1>3, <2>1, GatedKept
<1>8. CASE Rooms(z, {sock[z].crew}, {c}) /\ sock' = [sock EXCEPT ![z].crew = c]
  <2>1. sock'[z].crew = c /\ sock'[z].state = sock[z].state
    BY <1>4, <1>8 DEF Data
  <2>2. ASSUME Up(z)  PROVE  Gated(z)'
    <3>1. rooms'[z] = (rooms[z] \ {sock[z].crew}) \cup {c}
      BY <1>8, <2>2, RoomsIs
    <3>2. rooms'[z] \cap Crews \subseteq {c} /\ c \in rooms'[z]
      BY <3>1 DEF Gated
    <3>3. sock'[z].state # "new"
      BY <1>5, <2>1
    <3> QED
      BY <2>1, <3>2, <3>3 DEF Gated
  <2>3. ASSUME ~Up(z)  PROVE  Gated(z)'
    <3>1. rooms'[z] = {}
      BY <1>8, <2>3, RoomsIs DEF Placed
    <3>2. ~Up(z)' /\ sock'[z].state # "new"
      BY <1>5, <2>1, <2>3 DEF Up
    <3>3. rooms'[z] \cap Crews = {}
      BY <3>1
    <3> QED
      BY <3>2, <3>3 DEF Gated
  <2>4. Gated(z)'
    BY <2>2, <2>3
  <2> QED
    BY <1>3, <1>4, <1>7, <1>8, <2>4
<1>9. CASE /\ Rooms(z, {c}, {})
           /\ \A s \in Sockets \ {z} : sock'[s] = sock[s]
           /\ sock'[z].crew = (IF sock[z].crew = c THEN None ELSE sock[z].crew)
           /\ sock'[z].state = sock[z].state
  <2>1. rooms'[z] = rooms[z] \ {c}
    <3>1. CASE Up(z)
      <4>1. rooms'[z] = (rooms[z] \ {c}) \cup {}
        BY <1>9, <3>1, RoomsIs
      <4> QED
        BY <4>1
    <3>2. CASE ~Up(z)
      <4>1. rooms'[z] = rooms[z] /\ rooms[z] = {}
        BY <1>9, <3>2, RoomsIs DEF Placed
      <4> QED
        BY <4>1
    <3> QED
      BY <3>1, <3>2
  <2>2. ASSUME sock[z].crew = c  PROVE  Gated(z)'
    <3>1. rooms[z] \cap Crews \subseteq {c}
      BY <2>2 DEF Gated
    <3>2. rooms'[z] \cap Crews = {}
      BY <2>1, <3>1
    <3>3. sock'[z].crew = None /\ sock'[z].state # "new"
      BY <1>5, <1>9, <2>2
    <3>4. \A x \in Crews : sock'[z].crew # x
      BY <1>4, <3>3
    <3> QED
      BY <3>2, <3>3, <3>4 DEF Gated
  <2>3. ASSUME sock[z].crew # c  PROVE  Gated(z)'
    <3>1. c \notin rooms[z]
      BY <2>3 DEF Gated
    <3>2. rooms'[z] \cap Crews = rooms[z] \cap Crews
      BY <2>1, <3>1
    <3> QED
      BY <1>3, <1>9, <2>3, <3>2, GatedKept
  <2>4. Gated(z)'
    BY <2>2, <2>3
  <2> QED
    BY <1>3, <1>7, <1>9, <2>4
<1>10. CASE enterCrew(t)
  BY <1>2, <1>6, <1>8, <1>10 DEF enterCrew
<1>11. CASE leaveCrew(t)
  <2>1. PICK v : v = IF sock[z].sharing = c THEN None ELSE sock[z].sharing
    OBVIOUS
  <2>2. PICK w : w = IF sock[z].crew = c THEN None ELSE sock[z].crew
    OBVIOUS
  <2>3. PICK e : e = [sock[z] EXCEPT !.sharing = v, !.crew = w, !.checked = FALSE, !.count = 0]
    OBVIOUS
  <2>4. sock' = [sock EXCEPT ![z] = e]
    BY <1>2, <1>4, <1>11, <2>1, <2>2, <2>3 DEF leaveCrew, Data
  <2>5. e.crew = w /\ e.state = sock[z].state
    BY <1>4, <2>3 DEF Data
  <2> QED
    BY <1>2, <1>4, <1>9, <1>11, <2>2, <2>4, <2>5 DEF leaveCrew
<1>12. CASE settleUpdate(t)
  <2>1. CASE tasks[t].got # {}
    BY <1>6, <1>12, <2>1 DEF settleUpdate
  <2>2. CASE tasks[t].got = {}
    <3>1. /\ sock' = [sock EXCEPT ![z].sharing = None, ![z].crew = IF @ = c THEN None ELSE @]
          /\ Rooms(z, {c}, {})
      BY <1>2, <1>12, <2>2 DEF settleUpdate
    <3>2. PICK w : w = IF sock[z].crew = c THEN None ELSE sock[z].crew
      OBVIOUS
    <3>3. sock' = [sock EXCEPT ![z] = [sock[z] EXCEPT !.sharing = None, !.crew = w]]
      BY <1>4, <3>1, <3>2 DEF Data
    <3>4. sock'[z].crew = w /\ sock'[z].state = sock[z].state /\ \A s \in Sockets \ {z} : sock'[s] = sock[s]
      BY <1>4, <3>3 DEF Data
    <3> QED
      BY <1>9, <3>1, <3>2, <3>4
  <2> QED
    BY <2>1, <2>2
<1> QED
  BY <1>10, <1>11, <1>12

\* Kicks, deletions of crews, and evictions.
LEMMA RequestGated ==
  ASSUME Types, KickedFirst, \A s \in Sockets : Gated(s), NEW t \in Slots,
         \/ removeMember(t) \/ fetchSockets(t) \/ fetchSocketsTimesOut(t) \/ evict(t)
         \/ deleteRows(t)
  PROVE  KickedFirst' /\ \A s \in Sockets : Gated(s)'
<1>1. Idle.op # "remove" /\ None \notin Steps
  BY RoomAssumption DEF Idle, TaskOps
<1>2. ASSUME rooms' = rooms, sock' = sock, Fewer, NEW s \in Sockets
      PROVE  Gated(s)'
  BY <1>2, GatedKept
<1>3. CASE removeMember(t)
  <2>1. /\ tasks'[t].op = tasks[t].op /\ tasks'[t].arg = tasks[t].arg /\ tasks'[t].user = tasks[t].user
        /\ \A x \in Slots \ {t} : tasks'[x] = tasks[x]
    BY <1>3, AwaitIs DEF removeMember
  <2>2. member' = member \ {<<tasks[t].arg, tasks[t].user>>}
    BY <1>3 DEF removeMember
  <2>3. KickedFirst'
    BY <2>1, <2>2 DEF KickedFirst
  <2>4. ~At(t, "deleteRows")
    BY <1>3 DEF removeMember, At
  <2>5. Fewer
    BY <2>1, <2>2, <2>4 DEF Fewer, Dissolving, At
  <2> QED
    BY <1>2, <1>3, <2>3, <2>5 DEF removeMember
<1>4. CASE fetchSockets(t)
  <2>1. /\ tasks'[t].op = tasks[t].op /\ tasks'[t].arg = tasks[t].arg /\ tasks'[t].user = tasks[t].user
        /\ \A x \in Slots \ {t} : tasks'[x] = tasks[x]
    BY <1>4, AwaitIs DEF fetchSockets
  <2>2. member' = member /\ At(t, "fetchSockets")
    BY <1>4 DEF fetchSockets, unchangedByStart
  <2>3. KickedFirst'
    BY <2>1, <2>2 DEF KickedFirst, At
  <2>4. Fewer
    BY <2>1, <2>2, SameMembersFewer DEF At
  <2> QED
    BY <1>2, <1>4, <2>3, <2>4 DEF fetchSockets, unchangedByStart
<1>5. ASSUME At(t, "evict"), AfterEviction(t), member' = member
      PROVE  /\ KickedFirst' /\ Fewer
             /\ \A c : tasks[t].op = "deleteCrew" /\ c = tasks[t].arg => Dissolving(c)'
  <2>1. CASE tasks[t].op = "deleteCrew"
    <3>1. /\ tasks'[t].op = "deleteCrew" /\ tasks'[t].arg = tasks[t].arg /\ At(t, "deleteRows")'
          /\ \A x \in Slots \ {t} : tasks'[x] = tasks[x]
      BY <1>5, <2>1, AwaitIs DEF AfterEviction, At
    <3>2. KickedFirst'
      BY <1>5, <3>1 DEF KickedFirst
    <3>3. Fewer
      BY <1>5, <3>1, SameMembersFewer DEF At
    <3>4. \A c : c = tasks[t].arg => Dissolving(c)'
      BY <3>1 DEF Dissolving
    <3> QED
      BY <3>2, <3>3, <3>4
  <2>2. CASE tasks[t].op # "deleteCrew"
    <3>1. tasks'[t] = Idle /\ \A x \in Slots \ {t} : tasks'[x] = tasks[x]
      BY <1>5, <2>2, DoneIs DEF AfterEviction
    <3>2. KickedFirst'
      BY <1>1, <1>5, <3>1 DEF KickedFirst
    <3>3. Fewer
      BY <1>5, <3>1, SameMembersFewer DEF At
    <3> QED
      BY <2>2, <3>2, <3>3
  <2> QED
    BY <2>1, <2>2
<1>6. CASE fetchSocketsTimesOut(t)
  BY <1>2, <1>5, <1>6 DEF fetchSocketsTimesOut, unchangedByStart
<1>7. CASE evict(t)
  <2>1. /\ KickedFirst' /\ Fewer
        /\ \A c : tasks[t].op = "deleteCrew" /\ c = tasks[t].arg => Dissolving(c)'
    BY <1>5, <1>7 DEF evict
  <2>2. PICK c : c = tasks[t].arg
    OBVIOUS
  <2>3. sock \in [Sockets -> Data] /\ member' = member
    BY <1>7 DEF Types, SocketsOk, evict
  <2>4. tasks[t].op \in {"remove", "deleteCrew"} /\ At(t, "evict")
    BY <1>7, AtStep DEF evict, Reaches, Steps
  <2>5. \A s \in Sockets : sock'[s].crew = sock[s].crew /\ sock'[s].state = sock[s].state
    BY <1>7, <2>3 DEF evict, Data
  <2> SUFFICES ASSUME NEW s \in Sockets
               PROVE  Gated(s)'
    BY <2>1
  <2>6. CASE rooms'[s] = rooms[s]
    BY <2>1, <2>5, <2>6, GatedKept
  <2>7. CASE rooms'[s] # rooms[s]
    <3>1. rooms'[s] = rooms[s] \ {c} /\ (tasks[t].op = "deleteCrew" \/ Owner[s] = tasks[t].user)
      BY <1>7, <2>2, <2>7 DEF evict, EvictedRooms
    <3>2. Dissolving(c)' \/ <<c, Owner[s]>> \notin member
      BY <2>1, <2>2, <2>4, <3>1 DEF KickedFirst, At
    <3>3. rooms'[s] \cap Crews \subseteq {sock'[s].crew}
      BY <2>5, <3>1 DEF Gated
    <3>4. ASSUME NEW x \in Crews, Up(s)', sock'[s].crew = x, <<x, Owner[s]>> \in member', ~Dissolving(x)'
          PROVE  x \in rooms'[s]
      <4>1. x # c
        BY <2>3, <3>2, <3>4
      <4>2. x \in rooms[s]
        BY <2>1, <2>3, <2>5, <3>4, RoomAssumption DEF Gated, Up, Fewer
      <4> QED
        BY <3>1, <4>1, <4>2
    <3>5. sock'[s].state = "new" => sock'[s].crew = None
      BY <2>5 DEF Gated
    <3> QED
      BY <3>3, <3>4, <3>5 DEF Gated
  <2> QED
    BY <2>6, <2>7
<1>8. CASE deleteRows(t)
  <2>1. tasks'[t] = Idle /\ \A x \in Slots \ {t} : tasks'[x] = tasks[x]
    BY <1>8, DoneIs DEF deleteRows
  <2>2. /\ member' = {p \in member : p[1] # tasks[t].arg}
        /\ member' \subseteq member
    BY <1>8 DEF deleteRows
  <2>3. KickedFirst'
    BY <1>1, <2>1, <2>2, KickedKept
  <2>4. ASSUME NEW c, Dissolving(c), ~Dissolving(c)'
        PROVE  \A u : <<c, u>> \notin member'
    <3>1. PICK x \in Slots : At(x, "deleteRows") /\ tasks[x].arg = c
      BY <2>4 DEF Dissolving
    <3>2. x = t
      BY <2>1, <2>4, <3>1 DEF Dissolving, At
    <3> QED
      BY <2>2, <3>1, <3>2
  <2>5. Fewer
    BY <2>2, <2>4 DEF Fewer
  <2> QED
    BY <1>2, <1>8, <2>3, <2>5 DEF deleteRows
<1> QED
  BY <1>3, <1>4, <1>6, <1>7, <1>8

LEMMA AllGated == Spec => [](Types /\ EveryPlaced /\ Connected /\ EveryGated)
<1>1. Init => Connected /\ EveryGated
  <2> SUFFICES ASSUME Init
               PROVE  Connected /\ EveryGated
    OBVIOUS
  <2>1. Idle.sock = None /\ Idle.op # "remove" /\ Fresh.crew = None /\ Fresh.state = "new"
    BY RoomAssumption DEF Idle, Fresh, TaskOps
  <2>2. Connected /\ KickedFirst
    BY <2>1, RoomAssumption DEF Init, Connected, KickedFirst
  <2>3. ASSUME NEW s \in Sockets
        PROVE  Gated(s)
    BY <2>1 DEF Init, Gated, Up
  <2> QED
    BY <2>2, <2>3 DEF EveryGated
<1>2. Types /\ EveryPlaced /\ Connected /\ EveryGated /\ [Next]_vars => Connected' /\ EveryGated'
  <2> SUFFICES ASSUME Types, EveryPlaced, Connected, EveryGated, [Next]_vars
               PROVE  EveryGated'
    BY NextConnected
  <2>1. scenario' = scenario
    BY DEF Next, vars
  <2> SUFFICES ASSUME Steady
               PROVE  KickedFirst' /\ \A s \in Sockets : Gated(s)'
    BY <2>1 DEF EveryGated, Steady
  <2>2. KickedFirst /\ (\A s \in Sockets : Gated(s)) /\ \A s \in Sockets : Placed(s)
    BY DEF EveryGated, EveryPlaced
  <2>3. CASE UNCHANGED vars
    BY <2>1, <2>2, <2>3, ElsewhereGated
  <2>4. ASSUME NEW t \in Slots, Step(t)
        PROVE  KickedFirst' /\ \A s \in Sockets : Gated(s)'
    BY <2>2, <2>4, PlainGated, CrewGated, RequestGated DEF Step
  <2>5. CASE Next
    BY <2>1, <2>2, <2>4, <2>5, ElsewhereGated DEF Next
  <2> QED
    BY <2>3, <2>5
<1>3. Spec => [](Types /\ EveryPlaced)
  BY AllPlaced
<1> QED
  BY <1>1, <1>2, <1>3, PTL DEF Spec

\* GateMatchesRoom: share and sync trust socket.data.crewId, and for a member it names the one
\* crew room the socket is in, whatever joins, leaves, rechecks and evictions of the same socket
\* are in flight.
THEOREM GateNamesRoom == Spec => []GateMatchesRoom
<1>1. Types /\ EveryGated => GateMatchesRoom
  <2> SUFFICES ASSUME Types, EveryGated, Steady, \A t \in Slots : tasks[t].op # "deleteCrew",
                      NEW s \in Sockets, NEW c, c = sock[s].crew,
                      Up(s), c # None, <<c, Owner[s]>> \in member
               PROVE  rooms[s] \cap Crews = {c}
    BY DEF GateMatchesRoom
  <2>1. c \in Crews
    BY DEF Types
  <2>2. Gated(s)
    BY DEF EveryGated
  <2>3. ~Dissolving(c)
    BY AtStep DEF Dissolving, Reaches, Steps
  <2>4. c \in rooms[s] /\ rooms[s] \cap Crews \subseteq {c}
    BY <2>1, <2>2, <2>3 DEF Gated
  <2> QED
    BY <2>1, <2>4
<1> QED
  BY <1>1, AllGated, PTL

-----------------------------------------------------------------------------
(* Removals that meet no handler in flight.                                *)

\* A kick, or the deletion of a crew.
Removal(t) == tasks[t].op \in {"remove", "deleteCrew"}

\* A kick that has removed user u of crew c and has yet to evict its sockets.
Evicting(t, c, u) ==
  /\ tasks[t].op = "remove" /\ tasks[t].at \in {"fetchSockets", "evict"}
  /\ tasks[t].arg = c /\ tasks[t].user = u

\* Only what happens is in flight, and a removal is in flight alone.
OpsKnown == \A t \in Slots : tasks[t].op \in scenario.ops \cup {None}

Alone == \A t, x \in Slots : Removal(t) /\ Active(x) => x = t

\* The socket of a join:crew names its user, unless it is gone; so does one in a crew's room.
JoinsKnown ==
  \A t \in Slots, s \in Sockets :
    tasks[t].op = "join:crew" /\ tasks[t].sock = s => sock[s].known \/ sock[s].state = "gone"

RoomsKnown == \A s \in Sockets : rooms[s] \cap Crews # {} => sock[s].known

\* A join:crew that is let in is let in for a member.
EntersMember ==
  \A t \in Slots : At(t, "enter") /\ tasks[t].got # {} =>
    <<tasks[t].arg, Owner[tasks[t].sock]>> \in member

\* Who is in a crew's room is a member, or about to be evicted.
RoomsMember ==
  \A s \in Sockets, c \in Crews : c \in rooms[s] =>
    <<c, Owner[s]>> \in member \/ \E t \in Slots : Evicting(t, c, Owner[s])

\* An eviction has seen every socket of the room, and that of a crew leaves none there.
Fetched ==
  \A t \in Slots : At(t, "evict") => \A s \in Sockets : tasks[t].arg \in rooms[s] => s \in tasks[t].got

Emptied == \A t \in Slots : At(t, "deleteRows") => \A s \in Sockets : tasks[t].arg \notin rooms[s]

Tidy ==
  /\ OpsKnown /\ Alone /\ JoinsKnown /\ RoomsKnown /\ EntersMember /\ RoomsMember
  /\ Fetched /\ Emptied

LEMMA NextAlone ==
  ASSUME Types, Orderly, OpsKnown, Alone, scenario' = scenario, [Next]_vars
  PROVE  OpsKnown' /\ Alone'
<1>1. Idle.op = None /\ None \notin {"remove", "deleteCrew"}
  BY RoomAssumption DEF Idle, TaskOps
<1>2. CASE tasks' = tasks
  BY <1>2 DEF OpsKnown, Alone, Removal, Active
<1>3. CASE \E t \in Slots : Step(t)
  <2>1. \A x \in Slots : tasks'[x].op = tasks[x].op \/ tasks'[x].op = None
    BY <1>1, <1>3, StepGoesOn
  <2> QED
    BY <1>1, <2>1 DEF OpsKnown, Alone, Removal, Active
<1>4. CASE tasks' # tasks /\ ~ \E t \in Slots : Step(t)
  <2>1. PICK t, op, s :
          /\ t \in Slots
          /\ op \in scenario.ops /\ MayStart(op, s)
          /\ tasks[t] = Idle /\ tasks'[t].op = op
          /\ \A x \in Slots \ {t} : tasks'[x] = tasks[x]
    BY <1>4, TasksMove, BegunIs
  <2>2. OpsKnown'
    BY <2>1 DEF OpsKnown
  <2>3. \A x \in Slots : Removal(x) => tasks[x].op \in scenario.exclusive /\ Active(x)
    BY <1>1 DEF OpsKnown, Orderly, Removal, Active
  <2>4. \A x \in Slots : ~Removal(x)
    BY <2>1, <2>3 DEF MayStart
  <2>5. op \in {"remove", "deleteCrew"} => \A x \in Slots : ~Active(x)
    BY <2>1 DEF MayStart, Orderly
  <2> QED
    BY <1>1, <2>1, <2>2, <2>4, <2>5 DEF Alone, Removal, Active
<1> QED
  BY <1>2, <1>3, <1>4

\* While one is in flight only sockets connect, and it goes on.
LEMMA RemovalStep ==
  ASSUME Types, Orderly, OpsKnown, Alone, NEW t \in Slots, Removal(t), [Next]_vars
  PROVE  \/ UNCHANGED <<member, rooms, tasks>>
         \/ removeMember(t) \/ fetchSockets(t) \/ evict(t) \/ deleteRows(t)
<1>1. tasks[t].op \in scenario.exclusive /\ Active(t)
  BY RoomAssumption DEF OpsKnown, Orderly, Removal, Active, TaskOps
<1>2. \A op, s : ~MayStart(op, s)
  BY <1>1 DEF MayStart
<1>3. ASSUME NEW x \in Slots, Step(x)
      PROVE  x = t
  <2>1. tasks[x].at \in Steps
    BY <1>3 DEF Step, session, refuse, joinRoom, setSocketPresence, getMember, enterCrew, leaveCrew,
     registerSharingSocket, locationShare, locationUpdate, settleUpdate, removeMember, fetchSockets,
     fetchSocketsTimesOut, evict, deleteRows, deleteSessions, disconnectUserSockets, At, Steps
  <2>2. Reaches(tasks[x].op, tasks[x].at)
    BY <2>1, AtStep DEF At
  <2>3. Active(x)
    BY <2>2, RoomAssumption DEF Reaches, Active, TaskOps
  <2> QED
    BY <2>3 DEF Alone
<1>4. ASSUME Step(t)
      PROVE  removeMember(t) \/ fetchSockets(t) \/ evict(t) \/ deleteRows(t)
  <2>1. tasks[t].at \in {"removeMember", "fetchSockets", "evict", "deleteRows"}
    <3>1. TaskOk(tasks[t]) /\ tasks[t] # Idle
      BY <1>1 DEF Types, TasksOk, Active, Idle
    <3> QED
      BY <3>1 DEF TaskOk, Reaches, Removal
  <2>2. ~scenario.timeouts
    BY DEF Orderly
  <2> QED
    BY <1>4, <2>1, <2>2 DEF Step, session, refuse, joinRoom, setSocketPresence, getMember, enterCrew,
     leaveCrew, registerSharingSocket, locationShare, locationUpdate, settleUpdate,
     fetchSocketsTimesOut, deleteSessions, disconnectUserSockets, At
<1> QED
  BY <1>2, <1>3, <1>4 DEF Next, vars, connect, disconnect, event, leaveFestival, locationStop, request,
     addMember, signIn, Start

\* While none is, members only come.
LEMMA MembersCome ==
  ASSUME Types, \A t \in Slots : ~Removal(t), [Next]_vars
  PROVE  member \subseteq member'
<1>1. ASSUME NEW t \in Slots
      PROVE  ~removeMember(t) /\ ~deleteRows(t)
  BY AtStep DEF removeMember, deleteRows, Steps, Reaches, Removal
<1>2. ASSUME NEW t \in Slots, Step(t)
      PROVE  member' = member
  BY <1>1, <1>2 DEF Step, session, refuse, unchangedByStart, joinRoom, setSocketPresence, getMember,
     enterCrew, leaveCrew, registerSharingSocket, locationShare, locationUpdate, settleUpdate,
     fetchSockets, fetchSocketsTimesOut, evict, deleteSessions, disconnectUserSockets
<1> QED
  BY <1>2 DEF Next, vars, connect, disconnect, event, leaveFestival, locationStop, request,
     unchangedByStart, addMember, signIn

LEMMA EnteredBy ==
  ASSUME Types, NEW z \in Sockets, NEW left, NEW entered, Rooms(z, left, entered),
         NEW s \in Sockets, NEW c, c \in rooms'[s], c \notin rooms[s]
  PROVE  s = z /\ Up(s) /\ c \in entered
<1>1. s = z
  BY RoomsIs
<1>2. rooms'[s] = IF Up(s) THEN (rooms[s] \ left) \cup entered ELSE rooms[s]
  BY <1>1, RoomsIs
<1>3. Up(s)
  BY <1>2
<1>4. rooms'[s] = (rooms[s] \ left) \cup entered
  BY <1>2, <1>3
<1> QED
  BY <1>1, <1>3, <1>4

\* Only a join:crew whose member was found brings a socket into a crew's room.
LEMMA RoomsGrow ==
  ASSUME Types, [Next]_vars, NEW s \in Sockets, NEW c \in Crews, c \in rooms'[s], c \notin rooms[s]
  PROVE  \E t \in Slots : /\ enterCrew(t) /\ tasks[t].got # {}
                          /\ tasks[t].sock = s /\ tasks[t].arg = c /\ Up(s)
<1>1. rooms' # rooms
  OBVIOUS
<1>2. ~ \E S : Closed(S)
  BY ClosedIs
<1>3. ~ \E z \in Sockets : leaveFestival(z)
  BY DEF leaveFestival, Types, SocketsOk
<1>4. ~ \E t \in Slots : joinRoom(t)
  <2> SUFFICES ASSUME NEW t \in Slots, joinRoom(t)
               PROVE  FALSE
    OBVIOUS
  <2>1. tasks[t].sock \in Sockets /\ tasks[t].arg \in Festivals
    BY AtStep DEF joinRoom, Steps, Reaches, ArgsOk, HttpOps
  <2>2. Rooms(tasks[t].sock, {sock[tasks[t].sock].festival}, {tasks[t].arg})
    BY DEF joinRoom
  <2> QED
    BY <2>1, <2>2, EnteredBy, RoomAssumption
<1>5. ~ \E t \in Slots : evict(t)
  BY DEF evict, EvictedRooms
<1>6. ~ \E t \in Slots : leaveCrew(t)
  <2> SUFFICES ASSUME NEW t \in Slots, leaveCrew(t)
               PROVE  FALSE
    OBVIOUS
  <2>1. tasks[t].sock \in Sockets /\ Rooms(tasks[t].sock, {tasks[t].arg}, {})
    BY AtStep DEF leaveCrew, Steps, Reaches, ArgsOk, HttpOps
  <2> QED
    BY <2>1, EnteredBy
<1>7. ~ \E t \in Slots : settleUpdate(t)
  <2> SUFFICES ASSUME NEW t \in Slots, settleUpdate(t)
               PROVE  FALSE
    OBVIOUS
  <2>1. tasks[t].sock \in Sockets /\ Rooms(tasks[t].sock, {tasks[t].arg}, {})
    BY <1>1, AtStep DEF settleUpdate, Steps, Reaches, ArgsOk, HttpOps
  <2> QED
    BY <2>1, EnteredBy
<1>8. \E t \in Slots : enterCrew(t)
  <2>1. ASSUME NEW t \in Slots, Step(t)
        PROVE  enterCrew(t)
    BY <1>1, <1>2, <1>4, <1>5, <1>6, <1>7, <2>1 DEF Step, session, refuse, unchangedByStart,
     setSocketPresence, getMember, registerSharingSocket, locationShare, locationUpdate, removeMember,
     fetchSockets, fetchSocketsTimesOut, deleteRows, deleteSessions, disconnectUserSockets,
     disconnectSocket
  <2> QED
    BY <1>1, <1>2, <1>3, <2>1 DEF Next, vars, connect, disconnect, event, locationStop, request,
     unchangedByStart, addMember, signIn
<1>9. PICK t \in Slots : enterCrew(t)
  BY <1>8
<1>10. tasks[t].sock \in Sockets /\ tasks[t].arg \in Crews
  BY <1>9, AtStep DEF enterCrew, Steps, Reaches, ArgsOk, HttpOps
<1>11. PICK z \in Sockets, d \in Crews : z = tasks[t].sock /\ d = tasks[t].arg
  BY <1>10
<1>12. tasks[t].got # {} /\ Rooms(z, {sock[z].crew}, {d})
  BY <1>1, <1>9, <1>11 DEF enterCrew
<1>13. z = s /\ Up(s) /\ c = d
  BY <1>12, EnteredBy
<1> QED
  BY <1>9, <1>11, <1>12, <1>13

\* The parts that no removal touches.
LEMMA NextKnown ==
  ASSUME Types, Orderly, Connected, JoinsKnown, RoomsKnown, scenario' = scenario, [Next]_vars
  PROVE  JoinsKnown' /\ RoomsKnown'
<1>1. /\ \A s \in Sockets : sock[s].known => sock'[s].known \/ sock'[s].state = "gone"
      /\ \A s \in Sockets : sock[s].state = "gone" => sock'[s].state = "gone"
  BY SocketMoves
<1>2. JoinsKnown'
  <2> SUFFICES ASSUME NEW t \in Slots, NEW s \in Sockets,
                      tasks'[t].op = "join:crew", tasks'[t].sock = s
               PROVE  sock'[s].known \/ sock'[s].state = "gone"
    BY DEF JoinsKnown
  <2>1. CASE tasks[t].op = "join:crew" /\ tasks[t].sock = s
    BY <1>1, <2>1 DEF JoinsKnown
  <2>2. CASE ~(tasks[t].op = "join:crew" /\ tasks[t].sock = s)
    <3>1. Idle.op # "join:crew"
      BY RoomAssumption DEF Idle, TaskOps
    <3>2. tasks' # tasks /\ ~ \E x \in Slots : Step(x)
      BY <2>2, <3>1, StepGoesOn
    <3>3. PICK x, op, z, u, arg, step :
            /\ x \in Slots
            /\ tasks'[x] = Begun(op, z, u, arg, step)
            /\ \A y \in Slots \ {x} : tasks'[y] = tasks[y]
            /\ op = "join:crew" => z \in Sockets /\ sock[z].known
      BY <3>2, TasksMove DEF Orderly, HttpOps
    <3>4. x = t
      BY <2>2, <3>3
    <3>5. sock[s].known
      BY <3>3, <3>4, BegunIs
    <3> QED
      BY <1>1, <3>5
  <2> QED
    BY <2>1, <2>2
<1>3. RoomsKnown'
  <2> SUFFICES ASSUME NEW s \in Sockets, NEW c \in Crews, c \in rooms'[s]
               PROVE  sock'[s].known
    BY DEF RoomsKnown
  <2>1. sock[s].known => sock'[s].known
    BY SocketMoves
  <2>2. CASE c \in rooms[s]
    BY <2>1, <2>2 DEF RoomsKnown
  <2>3. CASE c \notin rooms[s]
    <3>1. PICK t \in Slots : enterCrew(t) /\ tasks[t].sock = s /\ Up(s)
      BY <2>3, RoomsGrow
    <3>2. tasks[t].op = "join:crew"
      BY <3>1, AtStep DEF enterCrew, Reaches, Steps
    <3>3. sock[s].known
      BY <3>1, <3>2 DEF JoinsKnown, Up
    <3> QED
      BY <2>1, <3>3
  <2> QED
    BY <2>2, <2>3
<1> QED
  BY <1>2, <1>3

\* Without a removal in flight.
LEMMA CalmTidy ==
  ASSUME Types, Orderly, Connected, Tidy, scenario' = scenario, [Next]_vars,
         \A t \in Slots : ~Removal(t)
  PROVE  Tidy'
<1>1. OpsKnown' /\ Alone' /\ JoinsKnown' /\ RoomsKnown'
  BY NextAlone, NextKnown DEF Tidy
<1>2. member \subseteq member'
  BY MembersCome
<1>3. EntersMember'
  <2> SUFFICES ASSUME NEW t \in Slots, tasks'[t].at = "enter", tasks'[t].got # {}
               PROVE  <<tasks'[t].arg, Owner[tasks'[t].sock]>> \in member'
    BY DEF EntersMember, At
  <2>1. CASE tasks'[t] = tasks[t]
    BY <1>2, <2>1 DEF Tidy, EntersMember, At
  <2>2. CASE tasks'[t] # tasks[t]
    <3>1. CASE \E x \in Slots : Step(x)
      <4>1. Step(t) /\ tasks'[t] # Idle
        BY <2>2, <3>1, StepGoesOn, RoomAssumption DEF Idle, Steps
      <4>2. /\ ~Done(t) /\ tasks'[t].op = tasks[t].op /\ tasks'[t].sock = tasks[t].sock
            /\ tasks'[t].arg = tasks[t].arg
        BY <4>1, StepGoesOn, DoneIs
      <4>3. getMember(t)
        <5>1. CASE session(t)
          <6>1. Await(t, FirstStep(tasks[t].op), {})
            BY <4>2, <5>1 DEF session
          <6> QED
            BY <6>1, AwaitIs
        <5>2. CASE joinRoom(t) \/ locationUpdate(t) \/ removeMember(t) \/ fetchSocketsTimesOut(t)
                   \/ evict(t) \/ deleteSessions(t)
          <6>1. \E step : Await(t, step, {})
            BY <4>2, <5>2 DEF joinRoom, locationUpdate, removeMember, fetchSocketsTimesOut, evict,
                              AfterEviction, deleteSessions
          <6> QED
            BY <6>1, AwaitIs
        <5>3. CASE registerSharingSocket(t)
          <6>1. Await(t, "share", Registered(tasks[t].sock))
            BY <4>2, <5>3 DEF registerSharingSocket
          <6> QED
            BY <6>1, AwaitIs
        <5>4. CASE fetchSockets(t)
          <6>1. \E got : Await(t, "evict", got)
            BY <5>4 DEF fetchSockets
          <6> QED
            BY <6>1, AwaitIs
        <5> QED
          BY <4>1, <4>2, <5>1, <5>2, <5>3, <5>4 DEF Step, refuse, setSocketPresence, enterCrew,
             leaveCrew, locationShare, settleUpdate, deleteRows, disconnectUserSockets
      <4>4. \E step : Await(t, step, member \cap {<<tasks[t].arg, Owner[tasks[t].sock]>>})
        BY <4>3 DEF getMember
      <4>5. tasks'[t].got = member \cap {<<tasks[t].arg, Owner[tasks[t].sock]>>}
        BY <4>4, AwaitIs
      <4> QED
        BY <1>2, <4>2, <4>5
    <3>2. CASE ~ \E x \in Slots : Step(x)
      BY <2>2, <3>2, TasksMove, BegunIs
    <3> QED
      BY <3>1, <3>2
  <2> QED
    BY <2>1, <2>2
<1>4. RoomsMember'
  <2> SUFFICES ASSUME NEW s \in Sockets, NEW c \in Crews, c \in rooms'[s]
               PROVE  <<c, Owner[s]>> \in member
    BY <1>2 DEF RoomsMember
  <2>1. CASE c \in rooms[s]
    BY <2>1 DEF Tidy, RoomsMember, Evicting, Removal
  <2>2. CASE c \notin rooms[s]
    <3>1. PICK t \in Slots : enterCrew(t) /\ tasks[t].got # {} /\ tasks[t].sock = s /\ tasks[t].arg = c
      BY <2>2, RoomsGrow
    <3>2. At(t, "enter")
      BY <3>1 DEF enterCrew
    <3> QED
      BY <3>1, <3>2 DEF Tidy, EntersMember
  <2> QED
    BY <2>1, <2>2
<1>5. ASSUME NEW t \in Slots, At(t, "evict")' \/ At(t, "deleteRows")'
      PROVE  FALSE
  <2>1. tasks'[t].at \in Steps /\ Types'
    BY <1>5, NextTypes DEF At, Steps
  <2>2. Removal(t)'
    <3>1. tasks'[t] # Idle /\ TaskOk(tasks'[t])
      BY <2>1, RoomAssumption DEF Idle, Types, TasksOk
    <3> QED
      BY <1>5, <3>1 DEF TaskOk, Reaches, Removal, At
  <2>3. tasks'[t] # tasks[t] /\ tasks'[t].op # tasks[t].op /\ tasks'[t] # Idle
    BY <2>1, <2>2, RoomAssumption DEF Removal, Idle
  <2>4. PICK x, op, s, u, arg, step :
          /\ x \in Slots
          /\ tasks'[x] = Begun(op, s, u, arg, step)
          /\ \A y \in Slots \ {x} : tasks'[y] = tasks[y]
          /\ step \in {"removeMember", "fetchSockets", "deleteSessions", "limiter", "session"}
    BY <2>3, StepGoesOn, TasksMove
  <2> QED
    BY <1>5, <2>3, <2>4, BegunIs DEF At
<1>6. Fetched' /\ Emptied'
  BY <1>5 DEF Fetched, Emptied
<1> QED
  BY <1>1, <1>3, <1>4, <1>6 DEF Tidy

\* While one is in flight.
LEMMA RemovalTidy ==
  ASSUME Types, EveryPlaced, Orderly, Connected, Tidy, scenario' = scenario, [Next]_vars,
         NEW t \in Slots, Removal(t)
  PROVE  Tidy'
<1>1. OpsKnown' /\ Alone' /\ JoinsKnown' /\ RoomsKnown'
  BY NextAlone, NextKnown DEF Tidy
<1>2. OpsKnown /\ Alone /\ RoomsKnown /\ RoomsMember /\ Fetched /\ Emptied
  BY DEF Tidy
<1>3. \A x \in Slots \ {t} : tasks[x] = Idle
  BY <1>2, RoomAssumption DEF Types, TasksOk, TaskOk, Reaches, Alone, Active, TaskOps
<1>4. Idle.at = None /\ Idle.op = None /\ None \notin Steps \cup TaskOps
  BY RoomAssumption DEF Idle
<1>5. \A x \in Slots : \A c, u : Evicting(x, c, u) => x = t
  BY <1>3, <1>4 DEF Evicting, TaskOps
\* It suffices to look at the handler itself.
<1>6. ASSUME \A x \in Slots \ {t} : tasks'[x] = tasks[x], tasks'[t].at # "enter",
             tasks'[t].at = "evict" => \A s \in Sockets : tasks'[t].arg \in rooms'[s] => s \in tasks'[t].got,
             tasks'[t].at = "deleteRows" => \A s \in Sockets : tasks'[t].arg \notin rooms'[s],
             RoomsMember'
      PROVE  Tidy'
  <2>1. \A x \in Slots \ {t} : tasks'[x].at \notin {"enter", "evict", "deleteRows"}
    BY <1>3, <1>4, <1>6 DEF Steps
  <2>2. EntersMember' /\ Fetched' /\ Emptied'
    BY <1>6, <2>1 DEF EntersMember, Fetched, Emptied, At
  <2> QED
    BY <1>1, <1>6, <2>2 DEF Tidy
<1>7. CASE UNCHANGED <<member, rooms, tasks>>
  <2>1. EntersMember' /\ RoomsMember' /\ Fetched' /\ Emptied'
    BY <1>7 DEF Tidy, EntersMember, RoomsMember, Evicting, Fetched, Emptied, At
  <2> QED
    BY <1>1, <2>1 DEF Tidy
<1>8. CASE removeMember(t)
  <2>1. /\ tasks'[t].op = tasks[t].op /\ tasks'[t].arg = tasks[t].arg /\ tasks'[t].user = tasks[t].user
        /\ tasks'[t].at = "fetchSockets"
        /\ \A x \in Slots \ {t} : tasks'[x] = tasks[x]
    BY <1>8, AwaitIs DEF removeMember
  <2>2. member' = member \ {<<tasks[t].arg, tasks[t].user>>} /\ rooms' = rooms
    BY <1>8 DEF removeMember
  <2>3. tasks[t].op = "remove" /\ tasks[t].at = "removeMember"
    BY <1>8, AtStep DEF removeMember, Reaches, Steps, At
  <2>4. RoomsMember'
    <3> SUFFICES ASSUME NEW s \in Sockets, NEW c \in Crews, c \in rooms'[s], <<c, Owner[s]>> \notin member'
                 PROVE  Evicting(t, c, Owner[s])'
      BY DEF RoomsMember
    <3>1. <<c, Owner[s]>> \in member
      BY <1>2, <1>5, <2>2, <2>3 DEF RoomsMember, Evicting
    <3>2. tasks[t].arg = c /\ tasks[t].user = Owner[s]
      BY <2>2, <3>1
    <3> QED
      BY <2>1, <2>3, <3>2 DEF Evicting
  <2> QED
    BY <1>6, <2>1, <2>4
<1>9. CASE fetchSockets(t)
  <2>1. Await(t, "evict", {s \in Sockets : tasks[t].arg \in rooms[s]})
    BY <1>9 DEF fetchSockets
  <2>2. /\ tasks'[t].op = tasks[t].op /\ tasks'[t].arg = tasks[t].arg /\ tasks'[t].user = tasks[t].user
        /\ tasks'[t].at = "evict" /\ tasks'[t].got = {s \in Sockets : tasks[t].arg \in rooms[s]}
        /\ \A x \in Slots \ {t} : tasks'[x] = tasks[x]
    BY <2>1, AwaitIs
  <2>3. member' = member /\ rooms' = rooms
    BY <1>9 DEF fetchSockets, unchangedByStart
  <2>4. \A c, u : Evicting(t, c, u) => Evicting(t, c, u)'
    BY <2>2 DEF Evicting
  <2>5. RoomsMember'
    BY <1>2, <1>5, <2>3, <2>4 DEF RoomsMember
  <2> QED
    BY <1>6, <2>2, <2>3, <2>5
<1>10. CASE evict(t)
  <2>1. member' = member /\ AfterEviction(t) /\ tasks[t].at = "evict"
    BY <1>10 DEF evict, At
  <2>2. PICK c : c = tasks[t].arg
    OBVIOUS
  <2>3. c \in Crews /\ tasks[t].op \in {"remove", "deleteCrew"}
    BY <2>1, <2>2, AtStep DEF At, Steps, Reaches, ArgsOk
  <2>4. /\ \A x \in Slots \ {t} : tasks'[x] = tasks[x]
        /\ tasks'[t].at \in {None, "deleteRows"} /\ (tasks'[t].at = "deleteRows" => tasks[t].op = "deleteCrew")
        /\ tasks'[t].at = "deleteRows" => tasks'[t].arg = c
    BY <1>4, <2>1, <2>2, DoneIs, AwaitIs DEF AfterEviction, Steps
  <2>5. \A s \in Sockets : rooms'[s] \subseteq rooms[s]
    BY <1>10 DEF evict, EvictedRooms
  <2>6. ASSUME NEW s \in Sockets, c \in rooms[s], tasks[t].op = "deleteCrew" \/ Owner[s] = tasks[t].user
        PROVE  c \notin rooms'[s]
    <3>1. s \in tasks[t].got
      BY <1>2, <2>1, <2>2, <2>6 DEF Fetched, At
    <3>2. Up(s)
      BY <2>6 DEF EveryPlaced, Placed
    <3>3. sock[s].known
      BY <1>2, <2>3, <2>6 DEF RoomsKnown
    <3> QED
      BY <1>10, <2>2, <2>6, <3>1, <3>2, <3>3 DEF evict, EvictedRooms
  <2>7. RoomsMember'
    <3> SUFFICES ASSUME NEW s \in Sockets, NEW d \in Crews, d \in rooms'[s]
                 PROVE  <<d, Owner[s]>> \in member
      BY <2>1 DEF RoomsMember
    <3>1. d \in rooms[s]
      BY <2>5
    <3>2. ~Evicting(t, d, Owner[s])
      BY <2>2, <2>6, <3>1 DEF Evicting
    <3> QED
      BY <1>2, <1>5, <3>1, <3>2 DEF RoomsMember
  <2>8. tasks[t].op = "deleteCrew" => \A s \in Sockets : c \notin rooms'[s]
    BY <2>5, <2>6
  <2> QED
    BY <1>4, <1>6, <2>4, <2>7, <2>8 DEF Steps
<1>11. CASE deleteRows(t)
  <2>1. tasks'[t] = Idle /\ \A x \in Slots \ {t} : tasks'[x] = tasks[x]
    BY <1>11, DoneIs DEF deleteRows
  <2>2. /\ member' = {p \in member : p[1] # tasks[t].arg} /\ rooms' = rooms
        /\ At(t, "deleteRows")
    BY <1>11 DEF deleteRows
  <2>3. RoomsMember'
    <3> SUFFICES ASSUME NEW s \in Sockets, NEW d \in Crews, d \in rooms'[s]
                 PROVE  <<d, Owner[s]>> \in member'
      BY DEF RoomsMember
    <3>1. <<d, Owner[s]>> \in member
      BY <1>2, <1>5, <2>2 DEF RoomsMember, Evicting, At
    <3>2. d # tasks[t].arg
      BY <1>2, <2>2 DEF Emptied
    <3> QED
      BY <2>2, <3>1, <3>2
  <2> QED
    BY <1>4, <1>6, <2>1, <2>3 DEF Steps
<1> QED
  BY <1>2, <1>7, <1>8, <1>9, <1>10, <1>11, RemovalStep

OrderlyTidy == Orderly => Tidy

LEMMA AllTidy == Spec => [](Types /\ EveryPlaced /\ Connected /\ OrderlyTidy)
<1>1. Init => OrderlyTidy
  <2> SUFFICES ASSUME Init
               PROVE  Tidy
    BY DEF OrderlyTidy
  <2>1. Idle.op = None /\ Idle.at = None /\ None \notin Steps \cup TaskOps
    BY RoomAssumption DEF Idle
  <2> QED
    BY <2>1 DEF Init, Tidy, OpsKnown, Alone, JoinsKnown, RoomsKnown, EntersMember, RoomsMember, Fetched,
                Emptied, Removal, At, TaskOps, Steps
<1>2. Types /\ EveryPlaced /\ Connected /\ OrderlyTidy /\ [Next]_vars => OrderlyTidy'
  <2> SUFFICES ASSUME Types, EveryPlaced, Connected, OrderlyTidy, [Next]_vars, Orderly
               PROVE  Tidy'
    <3>1. [Next]_vars /\ Orderly' => Orderly
      BY DEF Next, vars, Orderly
    <3> QED
      BY <3>1 DEF OrderlyTidy
  <2>1. scenario' = scenario /\ Tidy
    BY DEF Next, vars, OrderlyTidy
  <2> QED
    BY <2>1, CalmTidy, RemovalTidy
<1>3. Spec => [](Types /\ EveryPlaced /\ Connected /\ EveryGated)
  BY AllGated
<1> QED
  BY <1>1, <1>2, <1>3, PTL DEF Spec

\* RemovedLeaveRoom: evictUserFromCrewRoom and evictAllFromCrewRoom find, after the member or the
\* crew's rows go, every socket that joins and answers of getMember brought into the room; as
\* long as no join is in flight when a removal starts.
THEOREM RemovedAreEvicted == Spec => []RemovedLeaveRoom
<1>1. OrderlyTidy => RemovedLeaveRoom
  <2>1. ASSUME Quiet
        PROVE  \A t \in Slots : \A c, u : ~Evicting(t, c, u)
    BY <2>1, RoomAssumption DEF Quiet, Active, Evicting, TaskOps
  <2> QED
    BY <2>1 DEF OrderlyTidy, Tidy, RoomsMember, RemovedLeaveRoom
<1> QED
  BY <1>1, AllTidy, PTL

-----------------------------------------------------------------------------
(* The stream of a member who was removed.                                 *)

\* The updates that pass between two rechecks, and what a share in flight may let through.
Pass == scenario.recheckEvery - 1

Weight == 1 + 2 * Cardinality(Slots) * Pass

\* The handlers in flight, for socket s and crew c: shares that found the member, rechecks that
\* did, rechecks that will not, updates of the crew and of another one.
ShareOf(q, c, s) ==
  q.op = "share" /\ q.at \in {"register", "share"} /\ q.sock = s /\ q.arg = c /\ q.got # {}

SettleOf(q, c, s) ==
  q.op = "update" /\ q.at = "settle" /\ q.sock = s /\ q.arg = c /\ q.got # {}

LockedOf(q, c, s) ==
  /\ q.op = "update" /\ q.sock = s /\ q.arg = c
  /\ q.at = "member" \/ (q.at = "settle" /\ q.got = {})

UpdateOf(q, c, s) == q.op = "update" /\ q.at = "limiter" /\ q.sock = s /\ q.arg = c

OtherOf(q, c, s) == q.op = "update" /\ q.at = "limiter" /\ q.sock = s /\ q.arg # c

Sharing(c, s) == {t \in Slots : ShareOf(tasks[t], c, s)}
Settling(c, s) == {t \in Slots : SettleOf(tasks[t], c, s)}
Updating(c, s) == {t \in Slots : UpdateOf(tasks[t], c, s)}
Others(c, s) == {t \in Slots : OtherOf(tasks[t], c, s)}

\* The handlers that may yet become a recheck of the crew.
Free(c, s) == {t \in Slots : ~LockedOf(tasks[t], c, s)}

\* The updates that pass before the next recheck.
Left(s) == IF sock[s].checked THEN Pass - sock[s].count ELSE 0

\* The positions that a socket of no member may have relayed to the crew in the end.
Potential(c, s) ==
  relayed[<<c, s>>] + Cardinality(Settling(c, s)) + Weight * Cardinality(Sharing(c, s))
  + IF sock[s].sharing = c
    THEN Left(s) + Pass * Cardinality(Free(c, s)) + Pass * Cardinality(Others(c, s))
    ELSE Pass * Cardinality(Updating(c, s))

Cut ==
  \A c \in Crews, s \in Sockets :
    IF <<c, Owner[s]>> \in member THEN relayed[<<c, s>>] = 0 ELSE Potential(c, s) <= RelayLimit

LEMMA Product ==
  ASSUME NEW r \in Nat
  PROVE  /\ \A a \in Nat : r * a \in Nat /\ r * (a + 1) = r * a + r
         /\ \A a, b \in Nat : a <= b => r * a <= r * b
<1>1. \A a \in Nat : r * a \in Nat /\ r * (a + 1) = r * a + r
  OBVIOUS
<1>2. ASSUME NEW a \in Nat, NEW b \in Nat, a <= b
      PROVE  r * a <= r * b
  <2>1. PICK d \in Nat : b = a + d
    <3>1. b - a \in Nat /\ b = a + (b - a)
      BY <1>2
    <3> QED
      BY <3>1
  <2>2. r * b = r * a + r * d /\ r * d \in Nat /\ r * a \in Nat
    BY <2>1
  <2> QED
    BY <2>2
<1> QED
  BY <1>1, <1>2

\* A set of handlers, when one of them moves.
LEMMA OneMoves ==
  ASSUME NEW t \in Slots, NEW A \in SUBSET Slots, NEW B \in SUBSET Slots,
         \A x \in Slots \ {t} : x \in A <=> x \in B
  PROVE  /\ Cardinality(A) \in Nat /\ Cardinality(B) \in Nat
         /\ (t \in A <=> t \in B) => Cardinality(B) = Cardinality(A)
         /\ t \in A /\ t \notin B => Cardinality(B) = Cardinality(A) - 1
         /\ t \notin A /\ t \in B => Cardinality(B) = Cardinality(A) + 1
<1>1. IsFiniteSet(A) /\ IsFiniteSet(B)
  BY FS_Subset, RoomAssumption
<1>2. Cardinality(A) \in Nat /\ Cardinality(B) \in Nat
  BY <1>1, FS_CardinalityType
<1>3. CASE t \in A <=> t \in B
  <2>1. A = B
    BY <1>3
  <2> QED
    BY <1>2, <1>3, <2>1
<1>4. CASE t \in A /\ t \notin B
  <2>1. B = A \ {t}
    BY <1>4
  <2> QED
    BY <1>1, <1>2, <1>4, <2>1, FS_RemoveElement
<1>5. CASE t \notin A /\ t \in B
  <2>1. B = A \cup {t}
    BY <1>5
  <2> QED
    BY <1>1, <1>2, <1>5, <2>1, FS_AddElement
<1> QED
  BY <1>3, <1>4, <1>5

LEMMA Sizes ==
  ASSUME Types, NEW c, NEW s \in Sockets
  PROVE  /\ Cardinality(Slots) \in Nat /\ Pass \in Nat
         /\ Cardinality(Sharing(c, s)) \in 0..Cardinality(Slots)
         /\ Cardinality(Settling(c, s)) \in 0..Cardinality(Slots)
         /\ Cardinality(Free(c, s)) \in 0..Cardinality(Slots)
         /\ Cardinality(Others(c, s)) \in 0..Cardinality(Slots)
         /\ Cardinality(Updating(c, s)) \in 0..Cardinality(Free(c, s))
         /\ Left(s) \in 0..Pass
<1>1. Cardinality(Slots) \in Nat /\ scenario.recheckEvery \in Nat \ {0}
  BY Numbers DEF Types
<1>2. ASSUME NEW A \in SUBSET Slots, NEW B \in SUBSET A
      PROVE  Cardinality(B) \in 0..Cardinality(A)
  <2>1. IsFiniteSet(A) /\ IsFiniteSet(B)
    BY FS_Subset, RoomAssumption
  <2>2. Cardinality(A) \in Nat /\ Cardinality(B) \in Nat /\ Cardinality(B) <= Cardinality(A)
    BY <2>1, FS_CardinalityType, FS_Subset
  <2> QED
    BY <2>2
<1>3. /\ Sharing(c, s) \subseteq Slots /\ Settling(c, s) \subseteq Slots /\ Free(c, s) \subseteq Slots
      /\ Others(c, s) \subseteq Slots
  BY DEF Sharing, Settling, Free, Others
<1>4. Updating(c, s) \subseteq Free(c, s)
  BY DEF Updating, UpdateOf, Free, LockedOf
<1>5. PICK r : r = scenario.recheckEvery - 1
  OBVIOUS
<1>6. r \in Nat /\ sock[s] \in Data /\ sock[s].count \in 0..r
  BY <1>1, <1>5 DEF Types, SocketsOk, Data
<1>7. Left(s) \in 0..r
  BY <1>5, <1>6 DEF Left, Pass
<1> QED
  BY <1>1, <1>2, <1>3, <1>4, <1>5, <1>6, <1>7 DEF Pass

Sized ==
  \A c \in Crews, s \in Sockets :
    /\ Cardinality(Sharing(c, s)) \in 0..Cardinality(Slots)
    /\ Cardinality(Settling(c, s)) \in 0..Cardinality(Slots)
    /\ Cardinality(Free(c, s)) \in 0..Cardinality(Slots)
    /\ Cardinality(Others(c, s)) \in 0..Cardinality(Slots)
    /\ Cardinality(Updating(c, s)) \in 0..Cardinality(Free(c, s))
    /\ Left(s) \in 0..Pass

LEMMA AlwaysSized == Types => Sized
BY Sizes DEF Sized

\* What a step is to a socket and a crew: a relay is paid for by a recheck that settles, and
\* nothing else comes;
Still(c, s) ==
  /\ relayed'[<<c, s>>] + Cardinality(Settling(c, s))' <= relayed[<<c, s>>] + Cardinality(Settling(c, s))
  /\ Cardinality(Sharing(c, s))' <= Cardinality(Sharing(c, s))
  /\ sock'[s].sharing = c =>
       /\ sock[s].sharing = c /\ Left(s)' <= Left(s)
       /\ Cardinality(Free(c, s))' <= Cardinality(Free(c, s))
       /\ Cardinality(Others(c, s))' <= Cardinality(Others(c, s))
  /\ sock'[s].sharing # c => Cardinality(Updating(c, s))' <= IF sock[s].sharing = c
                                                            THEN Cardinality(Free(c, s))
                                                            ELSE Cardinality(Updating(c, s))

\* a share goes through, with a first fix;
SharesAgain(c, s) ==
  /\ relayed'[<<c, s>>] <= relayed[<<c, s>>] + 1
  /\ Cardinality(Settling(c, s))' = Cardinality(Settling(c, s))
  /\ Cardinality(Sharing(c, s))' = Cardinality(Sharing(c, s)) - 1
  /\ sock'[s].sharing = c /\ Cardinality(Others(c, s))' < Cardinality(Slots)

\* an update passes;
LetsPass(c, s) ==
  /\ relayed'[<<c, s>>] <= relayed[<<c, s>>] + 1
  /\ Cardinality(Settling(c, s))' = Cardinality(Settling(c, s))
  /\ Cardinality(Sharing(c, s))' = Cardinality(Sharing(c, s))
  /\ sock'[s].sharing = sock[s].sharing /\ Pass > 0
  /\ IF sock[s].sharing = c
     THEN /\ Left(s)' = Left(s) - 1
          /\ Cardinality(Free(c, s))' = Cardinality(Free(c, s))
          /\ Cardinality(Others(c, s))' = Cardinality(Others(c, s))
     ELSE Cardinality(Updating(c, s))' = Cardinality(Updating(c, s)) - 1

\* the count starts again.
Rechecks(c, s) ==
  /\ relayed'[<<c, s>>] = relayed[<<c, s>>]
  /\ Cardinality(Settling(c, s))' = Cardinality(Settling(c, s))
  /\ Cardinality(Sharing(c, s))' = Cardinality(Sharing(c, s))
  /\ sock[s].sharing = c /\ sock'[s].sharing = c
  /\ \/ /\ Cardinality(Free(c, s))' = Cardinality(Free(c, s)) - 1
        /\ Cardinality(Others(c, s))' = Cardinality(Others(c, s))
     \/ /\ Cardinality(Free(c, s))' = Cardinality(Free(c, s))
        /\ Cardinality(Others(c, s))' = Cardinality(Others(c, s)) - 1

LEMMA PotentialFalls ==
  ASSUME Types, Types', scenario' = scenario, NEW c \in Crews, NEW s \in Sockets,
         Still(c, s) \/ SharesAgain(c, s) \/ LetsPass(c, s) \/ Rechecks(c, s)
  PROVE  Potential(c, s)' <= Potential(c, s)
<1>1. PICK n : n = Cardinality(Slots)
  OBVIOUS
<1>2. PICK r : r = Pass /\ r = Pass'
  BY DEF Pass
<1>3. PICK R, R2, x, x2, k, k2 :
        /\ R = relayed[<<c, s>>] /\ R2 = relayed'[<<c, s>>]
        /\ x = Cardinality(Settling(c, s)) /\ x2 = Cardinality(Settling(c, s))'
        /\ k = Cardinality(Sharing(c, s)) /\ k2 = Cardinality(Sharing(c, s))'
  OBVIOUS
<1>4. PICK l, l2, o, o2, u, u2, d, d2 :
        /\ l = Cardinality(Free(c, s)) /\ l2 = Cardinality(Free(c, s))'
        /\ o = Cardinality(Others(c, s)) /\ o2 = Cardinality(Others(c, s))'
        /\ u = Cardinality(Updating(c, s)) /\ u2 = Cardinality(Updating(c, s))'
        /\ d = Left(s) /\ d2 = Left(s)'
  OBVIOUS
<1>5. /\ n \in Nat /\ r \in Nat
      /\ k \in 0..n /\ x \in 0..n /\ l \in 0..n /\ o \in 0..n /\ u \in 0..l /\ d \in 0..r
  BY <1>1, <1>2, <1>3, <1>4, Sizes
<1>6. k2 \in 0..n /\ x2 \in 0..n /\ l2 \in 0..n /\ o2 \in 0..n /\ u2 \in 0..l2 /\ d2 \in 0..r
  <2>1. /\ Cardinality(Sharing(c, s))' \in 0..Cardinality(Slots)
        /\ Cardinality(Settling(c, s))' \in 0..Cardinality(Slots)
        /\ Cardinality(Free(c, s))' \in 0..Cardinality(Slots)
        /\ Cardinality(Others(c, s))' \in 0..Cardinality(Slots)
        /\ Cardinality(Updating(c, s))' \in 0..Cardinality(Free(c, s))'
        /\ Left(s)' \in 0..Pass'
    <3>1. Sized'
      BY AlwaysSized, PTL
    <3> QED
      BY <3>1 DEF Sized
  <2> QED
    BY <1>1, <1>2, <1>3, <1>4, <2>1
<1>7. R \in Nat /\ R2 \in Nat
  <2>1. <<c, s>> \in Crews \X Sockets /\ RelayLimit \in Nat /\ RelayLimit' \in Nat
    BY Numbers, SameSituation DEF Types
  <2> QED
    BY <1>3, <2>1 DEF Types
<1>8. PICK w : w = 1 + 2 * n * r
  OBVIOUS
<1>9. w \in Nat /\ w = 1 + r * n + r * n
  <2>1. n * r = r * n /\ r * n \in Nat /\ 2 * n * r = 2 * (r * n)
    BY <1>5
  <2> QED
    BY <1>8, <2>1
<1>10. /\ r * l \in Nat /\ r * l2 \in Nat /\ r * o \in Nat /\ r * o2 \in Nat /\ r * u \in Nat
       /\ r * u2 \in Nat /\ w * k \in Nat /\ w * k2 \in Nat /\ r * n \in Nat
  BY <1>5, <1>6, <1>9, Product
<1>11. /\ Potential(c, s) = R + x + w * k + (IF sock[s].sharing = c THEN d + r * l + r * o ELSE r * u)
       /\ Potential(c, s)' = R2 + x2 + w * k2 + (IF sock'[s].sharing = c THEN d2 + r * l2 + r * o2 ELSE r * u2)
  BY <1>1, <1>2, <1>3, <1>4, <1>8 DEF Potential, Weight
<1>12. CASE Still(c, s)
  <2>1. R2 + x2 <= R + x /\ w * k2 <= w * k
    BY <1>3, <1>5, <1>6, <1>9, <1>12, Product DEF Still
  <2>2. CASE sock'[s].sharing = c
    <3>1. sock[s].sharing = c /\ d2 <= d /\ r * l2 <= r * l /\ r * o2 <= r * o
      BY <1>4, <1>5, <1>6, <1>12, <2>2, Product DEF Still
    <3> QED
      BY <1>5, <1>6, <1>7, <1>10, <1>11, <2>1, <2>2, <3>1
  <2>3. CASE sock'[s].sharing # c /\ sock[s].sharing = c
    <3>1. r * u2 <= r * l
      BY <1>4, <1>5, <1>6, <1>12, <2>3, Product DEF Still
    <3> QED
      BY <1>5, <1>6, <1>7, <1>10, <1>11, <2>1, <2>3, <3>1
  <2>4. CASE sock'[s].sharing # c /\ sock[s].sharing # c
    <3>1. r * u2 <= r * u
      BY <1>4, <1>5, <1>6, <1>12, <2>4, Product DEF Still
    <3> QED
      BY <1>5, <1>6, <1>7, <1>10, <1>11, <2>1, <2>4, <3>1
  <2> QED
    BY <2>2, <2>3, <2>4
<1>13. CASE SharesAgain(c, s)
  <2>1. R2 <= R + 1 /\ x2 = x /\ k = k2 + 1 /\ sock'[s].sharing = c /\ o2 + 1 <= n
    BY <1>1, <1>3, <1>4, <1>5, <1>6, <1>7, <1>13 DEF SharesAgain
  <2>2. w * k = w * k2 + w
    BY <1>6, <1>9, <2>1, Product
  <2>3. r * l2 <= r * n /\ r * (o2 + 1) <= r * n /\ r * (o2 + 1) = r * o2 + r
    BY <1>5, <1>6, <2>1, Product
  <2>4. Potential(c, s)' = R2 + x2 + w * k2 + (d2 + r * l2 + r * o2)
    BY <1>11, <2>1
  <2>5. Potential(c, s) >= R + x + w * k
    BY <1>5, <1>7, <1>10, <1>11
  <2>6. d2 + r * l2 + r * o2 + 1 <= w
    BY <1>5, <1>6, <1>9, <1>10, <2>3
  <2>7. Potential(c, s) \in Int
    BY <1>5, <1>7, <1>10, <1>11
  <2> QED
    BY <1>5, <1>6, <1>7, <1>9, <1>10, <2>1, <2>2, <2>4, <2>5, <2>6, <2>7
<1>14. CASE LetsPass(c, s)
  <2>1. R2 <= R + 1 /\ x2 = x /\ k2 = k /\ (sock'[s].sharing = c <=> sock[s].sharing = c) /\ r > 0
    BY <1>2, <1>3, <1>14 DEF LetsPass
  <2>2. CASE sock[s].sharing = c
    <3>1. d2 = d - 1 /\ l2 = l /\ o2 = o
      BY <1>4, <1>14, <2>2 DEF LetsPass
    <3> QED
      BY <1>5, <1>7, <1>10, <1>11, <2>1, <2>2, <3>1
  <2>3. CASE sock[s].sharing # c
    <3>1. u2 = u - 1
      BY <1>4, <1>14, <2>3 DEF LetsPass
    <3>2. u = u2 + 1 /\ u2 \in Nat /\ r * u = r * u2 + r
      BY <1>5, <1>6, <3>1, Product
    <3> QED
      BY <1>5, <1>7, <1>10, <1>11, <2>1, <2>3, <3>2
  <2> QED
    BY <2>2, <2>3
<1>15. CASE Rechecks(c, s)
  <2>1. R2 = R /\ x2 = x /\ k2 = k /\ sock'[s].sharing = c /\ sock[s].sharing = c
    BY <1>3, <1>15 DEF Rechecks
  <2>2. (l2 = l - 1 /\ o2 = o) \/ (l2 = l /\ o2 = o - 1)
    BY <1>4, <1>15 DEF Rechecks
  <2>3. d2 + r * l2 + r * o2 <= d + r * l + r * o
    <3>1. CASE l2 = l - 1 /\ o2 = o
      <4>1. l = l2 + 1 /\ r * l = r * l2 + r
        BY <1>5, <1>6, <3>1, Product
      <4> QED
        BY <1>5, <1>6, <1>10, <3>1, <4>1
    <3>2. CASE l2 = l /\ o2 = o - 1
      <4>1. o = o2 + 1 /\ r * o = r * o2 + r
        BY <1>5, <1>6, <3>2, Product
      <4> QED
        BY <1>5, <1>6, <1>10, <3>2, <4>1
    <3> QED
      BY <2>2, <3>1, <3>2
  <2> QED
    BY <1>5, <1>6, <1>7, <1>10, <1>11, <2>1, <2>3
<1> QED
  BY <1>12, <1>13, <1>14, <1>15

LEMMA DisjointSizes ==
  ASSUME NEW A \in SUBSET Slots, NEW B \in SUBSET Slots, A \cap B = {}
  PROVE  Cardinality(A \cup B) = Cardinality(A) + Cardinality(B)
<1>1. IsFiniteSet(A) /\ IsFiniteSet(B)
  BY FS_Subset, RoomAssumption
<1>2. Cardinality(A) \in Nat /\ Cardinality(B) \in Nat /\ Cardinality(A \cap B) = 0
  BY <1>1, FS_CardinalityType, FS_EmptySet
<1>3. Cardinality(A \cup B) = Cardinality(A) + Cardinality(B) - Cardinality(A \cap B)
  BY <1>1, FS_Union
<1> QED
  BY <1>2, <1>3

\* Where nothing is relayed and a handler is none of the stream's, there is room for all others.
Startable ==
  \A c \in Crews, s \in Sockets :
    /\ relayed[<<c, s>>] = 0
    /\ \E t \in Slots : t \notin Sharing(c, s) \cup Settling(c, s) \cup Others(c, s) \cup Updating(c, s)
    => Potential(c, s) <= RelayLimit

LEMMA AlwaysStartable == Types => Startable
<1> SUFFICES ASSUME Types, NEW c \in Crews, NEW s \in Sockets, relayed[<<c, s>>] = 0, NEW t \in Slots,
                    t \notin Sharing(c, s) \cup Settling(c, s) \cup Others(c, s) \cup Updating(c, s)
             PROVE  Potential(c, s) <= RelayLimit
  BY DEF Startable
<1>1. PICK n, r, w : n = Cardinality(Slots) /\ r = Pass /\ w = 1 + 2 * n * r
  OBVIOUS
<1>2. PICK x, k, l, o, u, d :
        /\ x = Cardinality(Settling(c, s)) /\ k = Cardinality(Sharing(c, s))
        /\ l = Cardinality(Free(c, s)) /\ o = Cardinality(Others(c, s))
        /\ u = Cardinality(Updating(c, s)) /\ d = Left(s)
  OBVIOUS
<1>3. /\ n \in Nat /\ r \in Nat
      /\ k \in 0..n /\ x \in 0..n /\ l \in 0..n /\ o \in 0..n /\ u \in 0..l /\ d \in 0..r
  BY <1>1, <1>2, Sizes
<1>4. x + k + o + u + 1 <= n
  <2> DEFINE A == Sharing(c, s) \cup Settling(c, s)
             B == Others(c, s) \cup Updating(c, s)
  <2>1. A \in SUBSET Slots /\ B \in SUBSET Slots /\ A \cap B = {}
    BY DEF Sharing, Settling, Others, Updating, ShareOf, SettleOf, OtherOf, UpdateOf
  <2>2. Cardinality(A) = k + x
    BY <1>2, DisjointSizes DEF Sharing, Settling, ShareOf, SettleOf
  <2>3. Cardinality(B) = o + u
    BY <1>2, DisjointSizes DEF Others, Updating, OtherOf, UpdateOf
  <2>4. Cardinality(A \cup B) = k + x + (o + u)
    BY <1>3, <2>1, <2>2, <2>3, DisjointSizes
  <2>5. A \cup B \subseteq Slots \ {t}
    BY <2>1
  <2>6. IsFiniteSet(Slots \ {t}) /\ Cardinality(Slots \ {t}) = n - 1
    BY <1>1, RoomAssumption, FS_RemoveElement
  <2>7. Cardinality(A \cup B) <= n - 1
    BY <2>5, <2>6, FS_Subset
  <2> QED
    BY <1>3, <2>4, <2>7
<1>5. w \in Nat /\ w = 1 + r * n + r * n /\ r * n \in Nat
  <2>1. n * r = r * n /\ r * n \in Nat /\ 2 * n * r = 2 * (r * n)
    BY <1>3
  <2> QED
    BY <1>1, <2>1
<1>6. RelayLimit = w * n
  <2>1. RelayLimit = n * w
    BY <1>1 DEF RelayLimit, Pass
  <2> QED
    BY <1>3, <1>5, <2>1
<1>7. r <= r * n
  <2>1. 1 <= n /\ r * 1 <= r * n
    BY <1>3, <1>4, Product
  <2> QED
    BY <1>3, <2>1
<1>8. /\ x <= w * x /\ r * o <= w * o /\ r * u <= w * u /\ w * (x + k + o + u) = w * x + w * k + w * o + w * u
      /\ w * x \in Nat /\ w * k \in Nat /\ w * o \in Nat /\ w * u \in Nat /\ r * o \in Nat /\ r * u \in Nat
  <2>1. r <= w /\ 1 <= w
    BY <1>3, <1>5, <1>7
  <2>2. \A a \in Nat : r * a <= w * a /\ a <= w * a
    <3> SUFFICES ASSUME NEW a \in Nat
                 PROVE  r * a <= w * a /\ a <= w * a
      OBVIOUS
    <3>1. a * r <= a * w /\ a * 1 <= a * w
      BY <1>3, <1>5, <2>1, Product
    <3> QED
      BY <1>3, <1>5, <3>1
  <2>3. w * (x + k + o + u) = w * x + w * k + w * o + w * u
    BY <1>3, <1>5
  <2> QED
    BY <1>3, <1>5, <2>2, <2>3, Product
<1>9. w * (x + k + o + u) + w <= w * n
  <2>1. w * (x + k + o + u + 1) <= w * n /\ w * (x + k + o + u + 1) = w * (x + k + o + u) + w
    BY <1>3, <1>4, <1>5, Product
  <2> QED
    BY <2>1
<1>10. r * l <= r * n /\ r * l \in Nat /\ w * n \in Nat
  BY <1>3, <1>5, Product
<1>11. Potential(c, s) = x + w * k + (IF sock[s].sharing = c THEN d + r * l + r * o ELSE r * u)
  BY <1>1, <1>2, <1>3 DEF Potential, Weight
<1>12. CASE sock[s].sharing = c
  <2>1. Potential(c, s) = x + w * k + (d + r * l + r * o)
    BY <1>11, <1>12
  <2>2. d + r * l <= w
    BY <1>3, <1>5, <1>7, <1>10
  <2>3. x + w * k + r * o <= w * (x + k + o + u)
    BY <1>3, <1>8
  <2> QED
    BY <1>3, <1>5, <1>6, <1>8, <1>9, <1>10, <2>1, <2>2, <2>3
<1>13. CASE sock[s].sharing # c
  <2>1. Potential(c, s) = x + w * k + r * u
    BY <1>11, <1>13
  <2> QED
    BY <1>3, <1>5, <1>6, <1>8, <1>9, <1>10, <2>1
<1> QED
  BY <1>12, <1>13

\* socket.data of s: no share of c starts and no count starts again.
SockStill(c, s) == sock'[s].sharing = c => sock[s].sharing = c /\ Left(s)' <= Left(s)

LEMMA StillIf ==
  ASSUME Types, NEW c \in Crews, NEW s \in Sockets, relayed'[<<c, s>>] = relayed[<<c, s>>],
         SockStill(c, s),
         \A x \in Slots :
           /\ ShareOf(tasks'[x], c, s) => ShareOf(tasks[x], c, s)
           /\ SettleOf(tasks'[x], c, s) => SettleOf(tasks[x], c, s)
           /\ sock'[s].sharing = c => /\ OtherOf(tasks'[x], c, s) => OtherOf(tasks[x], c, s)
                                      /\ LockedOf(tasks[x], c, s) => LockedOf(tasks'[x], c, s)
           /\ sock'[s].sharing # c => (UpdateOf(tasks'[x], c, s) => UpdateOf(tasks[x], c, s))
  PROVE  Still(c, s)
<1>1. ASSUME NEW A \in SUBSET Slots, NEW B \in SUBSET A
      PROVE  Cardinality(A) \in Nat /\ Cardinality(B) \in Nat /\ Cardinality(B) <= Cardinality(A)
  <2>1. IsFiniteSet(A) /\ IsFiniteSet(B)
    BY FS_Subset, RoomAssumption
  <2> QED
    BY <2>1, FS_CardinalityType, FS_Subset
<1>2. Cardinality(Sharing(c, s))' <= Cardinality(Sharing(c, s))
  <2>1. Sharing(c, s) \in SUBSET Slots /\ Sharing(c, s)' \in SUBSET Sharing(c, s)
    BY DEF Sharing
  <2> QED
    BY <1>1, <2>1
<1>3. Cardinality(Settling(c, s))' <= Cardinality(Settling(c, s))
      /\ Cardinality(Settling(c, s))' \in Nat /\ Cardinality(Settling(c, s)) \in Nat
  <2>1. Settling(c, s) \in SUBSET Slots /\ Settling(c, s)' \in SUBSET Settling(c, s)
    BY DEF Settling
  <2> QED
    BY <1>1, <2>1
<1>4. relayed[<<c, s>>] \in Int
  <2>1. <<c, s>> \in Crews \X Sockets /\ RelayLimit \in Nat
    BY Numbers DEF Types
  <2> QED
    BY <2>1 DEF Types
<1>5. ASSUME sock'[s].sharing = c
      PROVE  /\ Cardinality(Free(c, s))' <= Cardinality(Free(c, s))
             /\ Cardinality(Others(c, s))' <= Cardinality(Others(c, s))
  <2>1. Free(c, s) \in SUBSET Slots /\ Free(c, s)' \in SUBSET Free(c, s)
    BY <1>5 DEF Free
  <2>2. Others(c, s) \in SUBSET Slots /\ Others(c, s)' \in SUBSET Others(c, s)
    BY <1>5 DEF Others
  <2> QED
    BY <1>1, <2>1, <2>2
<1>6. ASSUME sock'[s].sharing # c
      PROVE  /\ Cardinality(Updating(c, s))' <= Cardinality(Updating(c, s))
             /\ Cardinality(Updating(c, s))' <= Cardinality(Free(c, s))
  <2>1. Updating(c, s) \in SUBSET Slots /\ Updating(c, s)' \in SUBSET Updating(c, s)
    BY <1>6 DEF Updating
  <2>2. Free(c, s) \in SUBSET Slots /\ Updating(c, s)' \in SUBSET Free(c, s)
    BY <2>1 DEF Free, Updating, UpdateOf, LockedOf
  <2> QED
    BY <1>1, <2>1, <2>2
<1> QED
  BY <1>2, <1>3, <1>4, <1>5, <1>6 DEF Still, SockStill

\* One handler moves.
LEMMA SharingMoves ==
  ASSUME NEW t \in Slots, NEW c, NEW s, \A x \in Slots \ {t} : tasks'[x] = tasks[x]
  PROVE  /\ (ShareOf(tasks[t], c, s) <=> ShareOf(tasks'[t], c, s)) =>
              Cardinality(Sharing(c, s))' = Cardinality(Sharing(c, s))
         /\ ShareOf(tasks[t], c, s) /\ ~ShareOf(tasks'[t], c, s) =>
              Cardinality(Sharing(c, s))' = Cardinality(Sharing(c, s)) - 1
<1>1. /\ Sharing(c, s) \in SUBSET Slots /\ Sharing(c, s)' \in SUBSET Slots
      /\ \A x \in Slots \ {t} : x \in Sharing(c, s) <=> x \in Sharing(c, s)'
      /\ t \in Sharing(c, s) <=> ShareOf(tasks[t], c, s)
      /\ t \in Sharing(c, s)' <=> ShareOf(tasks'[t], c, s)
  BY DEF Sharing
<1> QED
  BY <1>1, OneMoves

LEMMA SettlingMoves ==
  ASSUME NEW t \in Slots, NEW c, NEW s, \A x \in Slots \ {t} : tasks'[x] = tasks[x]
  PROVE  /\ (SettleOf(tasks[t], c, s) <=> SettleOf(tasks'[t], c, s)) =>
              Cardinality(Settling(c, s))' = Cardinality(Settling(c, s))
         /\ SettleOf(tasks[t], c, s) /\ ~SettleOf(tasks'[t], c, s) =>
              Cardinality(Settling(c, s))' = Cardinality(Settling(c, s)) - 1
<1>1. /\ Settling(c, s) \in SUBSET Slots /\ Settling(c, s)' \in SUBSET Slots
      /\ \A x \in Slots \ {t} : x \in Settling(c, s) <=> x \in Settling(c, s)'
      /\ t \in Settling(c, s) <=> SettleOf(tasks[t], c, s)
      /\ t \in Settling(c, s)' <=> SettleOf(tasks'[t], c, s)
  BY DEF Settling
<1> QED
  BY <1>1, OneMoves

LEMMA FreeMoves ==
  ASSUME NEW t \in Slots, NEW c, NEW s, \A x \in Slots \ {t} : tasks'[x] = tasks[x]
  PROVE  /\ (LockedOf(tasks[t], c, s) <=> LockedOf(tasks'[t], c, s)) =>
              Cardinality(Free(c, s))' = Cardinality(Free(c, s))
         /\ ~LockedOf(tasks[t], c, s) /\ LockedOf(tasks'[t], c, s) =>
              Cardinality(Free(c, s))' = Cardinality(Free(c, s)) - 1
<1>1. /\ Free(c, s) \in SUBSET Slots /\ Free(c, s)' \in SUBSET Slots
      /\ \A x \in Slots \ {t} : x \in Free(c, s) <=> x \in Free(c, s)'
      /\ t \in Free(c, s) <=> ~LockedOf(tasks[t], c, s)
      /\ t \in Free(c, s)' <=> ~LockedOf(tasks'[t], c, s)
  BY DEF Free
<1> QED
  BY <1>1, OneMoves

LEMMA OthersMoves ==
  ASSUME NEW t \in Slots, NEW c, NEW s, \A x \in Slots \ {t} : tasks'[x] = tasks[x]
  PROVE  /\ (OtherOf(tasks[t], c, s) <=> OtherOf(tasks'[t], c, s)) =>
              Cardinality(Others(c, s))' = Cardinality(Others(c, s))
         /\ OtherOf(tasks[t], c, s) /\ ~OtherOf(tasks'[t], c, s) =>
              Cardinality(Others(c, s))' = Cardinality(Others(c, s)) - 1
<1>1. /\ Others(c, s) \in SUBSET Slots /\ Others(c, s)' \in SUBSET Slots
      /\ \A x \in Slots \ {t} : x \in Others(c, s) <=> x \in Others(c, s)'
      /\ t \in Others(c, s) <=> OtherOf(tasks[t], c, s)
      /\ t \in Others(c, s)' <=> OtherOf(tasks'[t], c, s)
  BY DEF Others
<1> QED
  BY <1>1, OneMoves

LEMMA UpdatingMoves ==
  ASSUME NEW t \in Slots, NEW c, NEW s, \A x \in Slots \ {t} : tasks'[x] = tasks[x]
  PROVE  /\ (UpdateOf(tasks[t], c, s) <=> UpdateOf(tasks'[t], c, s)) =>
              Cardinality(Updating(c, s))' = Cardinality(Updating(c, s))
         /\ UpdateOf(tasks[t], c, s) /\ ~UpdateOf(tasks'[t], c, s) =>
              Cardinality(Updating(c, s))' = Cardinality(Updating(c, s)) - 1
<1>1. /\ Updating(c, s) \in SUBSET Slots /\ Updating(c, s)' \in SUBSET Slots
      /\ \A x \in Slots \ {t} : x \in Updating(c, s) <=> x \in Updating(c, s)'
      /\ t \in Updating(c, s) <=> UpdateOf(tasks[t], c, s)
      /\ t \in Updating(c, s)' <=> UpdateOf(tasks'[t], c, s)
  BY DEF Updating
<1> QED
  BY <1>1, OneMoves

\* A socket that keeps its share and its count, or whose share ends, or whose stamps go.
LEMMA SockStillIf ==
  ASSUME Types, scenario' = scenario, NEW c \in Crews, NEW s \in Sockets,
         \/ sock'[s].sharing # c
         \/ /\ sock'[s].sharing = sock[s].sharing
            /\ \/ sock'[s].checked = sock[s].checked /\ sock'[s].count = sock[s].count
               \/ ~sock'[s].checked
  PROVE  SockStill(c, s)
<1>1. Left(s) \in 0..Pass
  BY Sizes
<1>2. Left(s) \in Int /\ 0 <= Left(s) /\ Pass' = Pass
  <2>1. Pass \in Nat
    BY Sizes
  <2> QED
    BY <1>1, <2>1 DEF Pass
<1>3. CASE sock'[s].sharing # c
  BY <1>3 DEF SockStill
<1>4. CASE sock'[s].sharing = sock[s].sharing /\ sock'[s].checked = sock[s].checked
           /\ sock'[s].count = sock[s].count
  <2>1. Left(s)' = Left(s)
    BY <1>2, <1>4 DEF Left
  <2> QED
    BY <1>2, <1>4, <2>1 DEF SockStill
<1>5. CASE sock'[s].sharing = sock[s].sharing /\ ~sock'[s].checked
  <2>1. Left(s)' = 0
    BY <1>5 DEF Left
  <2> QED
    BY <1>2, <1>5, <2>1 DEF SockStill
<1> QED
  BY <1>3, <1>4, <1>5

LEMMA ClosedStill ==
  ASSUME Types, NEW S, Closed(S), NEW s \in Sockets
  PROVE  /\ sock'[s].sharing = sock[s].sharing /\ sock'[s].checked = sock[s].checked
         /\ sock'[s].count = sock[s].count
BY ZenonT(60) DEF Closed, ClearedSession, Types, SocketsOk, Data

\* What happens outside the handlers in flight, and handlers that start.
LEMMA ElsewhereStill ==
  ASSUME Types, scenario' = scenario, NEW c \in Crews, NEW s \in Sockets,
         <<c, Owner[s]>> \notin member', [Next]_vars, ~ \E t \in Slots : Step(t)
  PROVE  Still(c, s)
<1>1. sock \in [Sockets -> Data] /\ relayed \in [Crews \X Sockets -> 0..RelayLimit + 1] /\ None \notin Crews
  BY RoomAssumption DEF Types, SocketsOk
<1>2. relayed'[<<c, s>>] = relayed[<<c, s>>]
  <2>1. CASE \E d \in Crews, u \in Users : addMember(d, u)
    <3>1. PICK d \in Crews, u \in Users : addMember(d, u)
      BY <2>1
    <3>2. ~(c = d /\ Owner[s] = u)
      BY <3>1 DEF addMember
    <3> QED
      BY <1>1, <3>1, <3>2 DEF addMember
  <2> QED
    BY <2>1 DEF Next, vars, connect, disconnect, event, leaveFestival, locationStop, request,
       unchangedByStart, signIn
<1>3. \/ sock'[s].sharing = None
      \/ /\ sock'[s].sharing = sock[s].sharing /\ sock'[s].checked = sock[s].checked
         /\ sock'[s].count = sock[s].count
  <2>1. CASE sock' = sock
    BY <2>1
  <2>2. CASE \E z \in Sockets : disconnect(z)
    BY <2>2, ClosedStill DEF disconnect
  <2>3. CASE \E z \in Sockets : connect(z)
    BY <1>1, <2>3 DEF connect, Data
  <2>4. CASE \E z \in Sockets : leaveFestival(z)
    BY <1>1, <2>4 DEF leaveFestival, Data
  <2>5. CASE \E z \in Sockets, d \in Crews : locationStop(z, d)
    BY <1>1, <2>5 DEF locationStop, Data
  <2> QED
    BY <2>1, <2>2, <2>3, <2>4, <2>5 DEF Next, vars, event, request, unchangedByStart, signIn, addMember
<1>4. SockStill(c, s)
  BY <1>1, <1>3, SockStillIf
<1>5. CASE tasks' = tasks
  BY <1>2, <1>4, <1>5, StillIf
<1>6. CASE tasks' # tasks
  <2>1. PICK t, op, z, u, arg, step :
          /\ t \in Slots
          /\ tasks[t] = Idle /\ tasks'[t] = Begun(op, z, u, arg, step)
          /\ \A x \in Slots \ {t} : tasks'[x] = tasks[x]
          /\ step \in {"removeMember", "fetchSockets", "deleteSessions", "session", "limiter"}
          /\ op = "update" => arg = sock[z].sharing
    BY <1>6, TasksMove DEF HttpOps
  <2>2. CASE request \/ \E y \in Sockets : event(y)
    <3>1. sock' = sock
      BY <2>2 DEF request, event, unchangedByStart
    <3>2. /\ ~ShareOf(tasks'[t], c, s) /\ ~SettleOf(tasks'[t], c, s)
          /\ ~LockedOf(tasks[t], c, s)
      BY <2>1, BegunIs, RoomAssumption DEF ShareOf, SettleOf, LockedOf, Idle, TaskOps
    <3>3. /\ sock'[s].sharing = c => ~OtherOf(tasks'[t], c, s)
          /\ sock'[s].sharing # c => ~UpdateOf(tasks'[t], c, s)
      BY <2>1, <3>1, BegunIs DEF OtherOf, UpdateOf
    <3> QED
      BY <1>2, <1>4, <2>1, <3>2, <3>3, StillIf
  <2>3. CASE ~(request \/ \E y \in Sockets : event(y))
    BY <1>6, <2>3 DEF Next, vars, connect, disconnect, leaveFestival, locationStop, addMember, signIn
  <2> QED
    BY <2>2, <2>3
<1> QED
  BY <1>5, <1>6

\* The handlers but those of shares and updates that settle.
LEMMA PlainStill ==
  ASSUME Types, scenario' = scenario, NEW c \in Crews, NEW s \in Sockets, NEW t \in Slots, Step(t),
         <<c, Owner[s]>> \notin member,
         ~locationShare(t), ~locationUpdate(t), ~settleUpdate(t)
  PROVE  Still(c, s)
<1>1. sock \in [Sockets -> Data] /\ None \notin Crews \cup TaskOps
  BY RoomAssumption DEF Types, SocketsOk
<1>2. relayed'[<<c, s>>] = relayed[<<c, s>>]
  BY DEF Step, session, refuse, unchangedByStart, joinRoom, setSocketPresence, getMember, enterCrew,
     leaveCrew, registerSharingSocket, removeMember, fetchSockets, fetchSocketsTimesOut, evict,
     deleteRows, deleteSessions, disconnectUserSockets
<1>3. SockStill(c, s)
  <2>1. CASE sock' = sock
    BY <2>1, SockStillIf
  <2>2. CASE \E S : Closed(S)
    BY <2>2, ClosedStill, SockStillIf
  <2>3. CASE joinRoom(t)
    BY <1>1, <2>3, SockStillIf DEF joinRoom, Data
  <2>4. CASE enterCrew(t)
    BY <1>1, <2>4, SockStillIf DEF enterCrew, Data
  <2>5. CASE leaveCrew(t)
    <3>1. sock'[s] = sock[s] \/ sock'[s].sharing = None
          \/ (sock'[s].sharing = sock[s].sharing /\ ~sock'[s].checked)
      <4>1. PICK z, v, w : /\ z = tasks[t].sock
                           /\ v = IF sock[z].sharing = tasks[t].arg THEN None ELSE sock[z].sharing
                           /\ w = IF sock[z].crew = tasks[t].arg THEN None ELSE sock[z].crew
        OBVIOUS
      <4>2. z \in Sockets
        BY <2>5, <4>1, AtStep DEF leaveCrew, Reaches, Steps, ArgsOk, HttpOps
      <4>3. PICK e : e = [sock[z] EXCEPT !.sharing = v, !.crew = w, !.checked = FALSE, !.count = 0]
        OBVIOUS
      <4>4. sock' = [sock EXCEPT ![z] = e]
        BY <1>1, <2>5, <4>1, <4>2, <4>3 DEF leaveCrew, Data
      <4>5. e.sharing = v /\ ~e.checked
        BY <1>1, <4>2, <4>3 DEF Data
      <4> QED
        BY <1>1, <4>1, <4>2, <4>4, <4>5
    <3> QED
      BY <1>1, <3>1, SockStillIf
  <2>6. CASE evict(t)
    <3>1. sock'[s] = sock[s] \/ sock'[s].sharing = None
          \/ (sock'[s].sharing = sock[s].sharing /\ ~sock'[s].checked)
      BY <1>1, <2>6 DEF evict, Data
    <3> QED
      BY <1>1, <3>1, SockStillIf
  <2> QED
    BY <2>1, <2>2, <2>3, <2>4, <2>5, <2>6 DEF Step, session, disconnectSocket, refuse, unchangedByStart,
       setSocketPresence, getMember, registerSharingSocket, removeMember, fetchSockets,
       fetchSocketsTimesOut, deleteRows, deleteSessions, disconnectUserSockets
<1>4. /\ \A x \in Slots \ {t} : tasks'[x] = tasks[x]
      /\ tasks'[t] = Idle \/ /\ tasks'[t].op = tasks[t].op /\ tasks'[t].sock = tasks[t].sock
                             /\ tasks'[t].arg = tasks[t].arg
      /\ Idle.op \notin {"share", "update"}
  BY <1>1, StepGoesOn DEF Idle, TaskOps
<1>5. /\ ShareOf(tasks'[t], c, s) => ShareOf(tasks[t], c, s)
      /\ SettleOf(tasks'[t], c, s) => SettleOf(tasks[t], c, s)
      /\ OtherOf(tasks'[t], c, s) => OtherOf(tasks[t], c, s)
      /\ LockedOf(tasks[t], c, s) => LockedOf(tasks'[t], c, s)
      /\ UpdateOf(tasks'[t], c, s) => UpdateOf(tasks[t], c, s)
  <2>1. CASE tasks[t].op \notin {"share", "update"}
    BY <1>4, <2>1 DEF ShareOf, SettleOf, OtherOf, LockedOf, UpdateOf
  <2>2. CASE refuse(t)
    <3>1. tasks'[t] = Idle /\ ~LockedOf(tasks[t], c, s)
      BY <2>2, DoneIs DEF refuse, LockedOf
    <3> QED
      BY <1>4, <3>1 DEF ShareOf, SettleOf, OtherOf, UpdateOf
  <2>3. CASE session(t) /\ tasks[t].op = "share"
    <3>1. ~ShareOf(tasks'[t], c, s)
      <4>1. tasks'[t] = Idle \/ tasks'[t].got = {}
        BY <2>3, DoneIs, AwaitIs DEF session
      <4> QED
        BY <1>4, <4>1 DEF ShareOf
    <3> QED
      BY <1>4, <2>3, <3>1 DEF SettleOf, OtherOf, LockedOf, UpdateOf
  <2>4. CASE registerSharingSocket(t)
    <3>1. tasks[t].op = "share" /\ tasks[t].at = "register"
      BY <2>4, AtStep DEF registerSharingSocket, Reaches, Steps, At
    <3>2. ShareOf(tasks'[t], c, s) => ShareOf(tasks[t], c, s)
      <4>1. tasks'[t] = Idle \/ tasks[t].got # {}
        BY <2>4, DoneIs DEF registerSharingSocket
      <4> QED
        BY <1>4, <3>1, <4>1 DEF ShareOf
    <3> QED
      BY <1>4, <3>1, <3>2 DEF SettleOf, OtherOf, LockedOf, UpdateOf
  <2>5. CASE getMember(t)
    <3>1. At(t, "member") /\ \E step \in {"enter", "register", "settle"} :
            Await(t, step, member \cap {<<tasks[t].arg, Owner[tasks[t].sock]>>})
            /\ (tasks[t].op = "update" => step = "settle")
      <4>1. tasks[t].op \in {"join:crew", "share", "update"} /\ At(t, "member")
        BY <2>5, AtStep DEF getMember, Reaches, Steps
      <4> QED
        BY <2>5, <4>1 DEF getMember
    <3>2. /\ tasks'[t].got = member \cap {<<tasks[t].arg, Owner[tasks[t].sock]>>}
          /\ tasks'[t].at \in {"enter", "register", "settle"}
          /\ tasks[t].op = "update" => tasks'[t].at = "settle"
          /\ tasks'[t].op = tasks[t].op /\ tasks'[t].sock = tasks[t].sock /\ tasks'[t].arg = tasks[t].arg
      BY <3>1, AwaitIs
    <3>3. tasks[t].sock = s /\ tasks[t].arg = c => tasks'[t].got = {}
      BY <3>2
    <3> QED
      BY <3>2, <3>3 DEF ShareOf, SettleOf, OtherOf, LockedOf, UpdateOf
  <2>6. tasks[t].op \in {"share", "update"} =>
          refuse(t) \/ (session(t) /\ tasks[t].op = "share") \/ registerSharingSocket(t) \/ getMember(t)
    <3>1. /\ tasks[t].op = "update" => ~At(t, "session")
          /\ tasks[t].op \in {"share", "update"} =>
               /\ ~At(t, "profile") /\ ~At(t, "presence") /\ ~At(t, "enter") /\ ~At(t, "leave")
               /\ ~At(t, "removeMember") /\ ~At(t, "fetchSockets") /\ ~At(t, "evict")
               /\ ~At(t, "deleteRows") /\ ~At(t, "deleteSessions") /\ ~At(t, "disconnect")
      BY AtStep DEF Reaches, Steps
    <3> QED
      BY <3>1 DEF Step, joinRoom, setSocketPresence, enterCrew, leaveCrew, removeMember, fetchSockets,
         fetchSocketsTimesOut, evict, deleteRows, deleteSessions, disconnectUserSockets, session
  <2> QED
    BY <2>1, <2>2, <2>3, <2>4, <2>5, <2>6
<1> QED
  BY <1>2, <1>3, <1>4, <1>5, StillIf

\* A relay counts at most one for its own socket and crew, and none for another.
LEMMA RelayIs ==
  ASSUME Types, NEW z \in Sockets, NEW d \in Crews, Relay(z, d), NEW s \in Sockets, NEW c \in Crews
  PROVE  /\ relayed'[<<c, s>>] \in Nat /\ relayed[<<c, s>>] \in Nat
         /\ relayed'[<<c, s>>] <= relayed[<<c, s>>] + 1
         /\ ~(z = s /\ d = c) \/ <<c, Owner[s]>> \in member => relayed'[<<c, s>>] = relayed[<<c, s>>]
<1>1. relayed \in [Crews \X Sockets -> Nat]
  BY Numbers DEF Types
<1>2. \/ relayed' = relayed
      \/ <<d, Owner[z]>> \notin member /\ relayed' = [relayed EXCEPT ![<<d, z>>] = @ + 1]
  BY DEF Relay
<1>3. CASE relayed' = relayed
  BY <1>1, <1>3
<1>4. CASE <<d, Owner[z]>> \notin member /\ relayed' = [relayed EXCEPT ![<<d, z>>] = @ + 1]
  <2>1. <<d, z>> \in Crews \X Sockets /\ <<c, s>> \in Crews \X Sockets
    OBVIOUS
  <2>2. CASE z = s /\ d = c
    BY <1>1, <1>4, <2>1, <2>2
  <2>3. CASE ~(z = s /\ d = c)
    <3>1. <<d, z>> # <<c, s>>
      BY <2>3
    <3>2. relayed'[<<c, s>>] = relayed[<<c, s>>]
      BY <1>1, <1>4, <2>1, <3>1
    <3> QED
      BY <1>1, <2>1, <2>3, <3>2
  <2> QED
    BY <2>2, <2>3
<1> QED
  BY <1>2, <1>3, <1>4

LEMMA ShareStream ==
  ASSUME Types, scenario' = scenario, NEW c \in Crews, NEW s \in Sockets, NEW t \in Slots, locationShare(t)
  PROVE  Still(c, s) \/ SharesAgain(c, s)
<1>1. /\ tasks[t].op = "share" /\ tasks[t].at = "share" /\ tasks[t].sock \in Sockets
      /\ tasks[t].arg \in Crews /\ tasks'[t] = Idle /\ \A x \in Slots \ {t} : tasks'[x] = tasks[x]
  BY AtStep, DoneIs DEF locationShare, Reaches, Steps, ArgsOk, HttpOps, At
<1>2. PICK z \in Sockets, d \in Crews : z = tasks[t].sock /\ d = tasks[t].arg
  BY <1>1
<1>3. sock \in [Sockets -> Data] /\ relayed \in [Crews \X Sockets -> 0..RelayLimit + 1] /\ None \notin TaskOps
  BY RoomAssumption DEF Types, SocketsOk
<1>4. /\ ~SettleOf(tasks[t], c, s) /\ ~LockedOf(tasks[t], c, s) /\ ~UpdateOf(tasks[t], c, s)
      /\ ~OtherOf(tasks[t], c, s)
      /\ ~ShareOf(tasks'[t], c, s) /\ ~SettleOf(tasks'[t], c, s) /\ ~LockedOf(tasks'[t], c, s)
      /\ ~UpdateOf(tasks'[t], c, s) /\ ~OtherOf(tasks'[t], c, s)
  BY <1>1, <1>3 DEF ShareOf, SettleOf, LockedOf, UpdateOf, OtherOf, Idle, TaskOps
<1>5. CASE tasks[t].got = {}
  <2>1. sock' = sock /\ relayed' = relayed
    BY <1>5 DEF locationShare
  <2>2. SockStill(c, s)
    BY <2>1, SockStillIf
  <2> QED
    BY <1>1, <1>4, <2>1, <2>2, StillIf
<1>6. CASE tasks[t].got # {}
  <2>1. /\ sock' = [sock EXCEPT ![z].known = TRUE, ![z].sharing = d, ![z].checked = TRUE, ![z].count = 0]
        /\ Relay(z, d) \/ UNCHANGED <<cache, relayed>>
    BY <1>2, <1>6 DEF locationShare
  <2>2. /\ sock'[z].sharing = d
        /\ s # z => sock'[s] = sock[s]
    BY <1>3, <2>1 DEF Data
  <2>3. CASE z = s /\ d = c
    <3>1. ShareOf(tasks[t], c, s)
      BY <1>1, <1>2, <1>6, <2>3 DEF ShareOf
    <3>2. relayed'[<<c, s>>] <= relayed[<<c, s>>] + 1
      <4>1. relayed[<<c, s>>] \in Nat
        <5>1. relayed \in [Crews \X Sockets -> Nat] /\ <<c, s>> \in Crews \X Sockets
          BY Numbers DEF Types
        <5> QED
          BY <5>1
      <4>2. CASE Relay(z, d)
        BY <4>2, RelayIs
      <4>3. CASE UNCHANGED <<cache, relayed>>
        BY <4>1, <4>3
      <4> QED
        BY <2>1, <4>2, <4>3
    <3>3. Cardinality(Others(c, s))' < Cardinality(Slots)
      <4>1. Others(c, s)' \subseteq Slots \ {t}
        BY <1>4 DEF Others
      <4>2. /\ IsFiniteSet(Slots \ {t}) /\ Cardinality(Slots \ {t}) = Cardinality(Slots) - 1
            /\ Cardinality(Slots) \in Nat
        BY RoomAssumption, FS_RemoveElement, FS_CardinalityType
      <4>3. PICK B : B = Others(c, s)'
        OBVIOUS
      <4>4. IsFiniteSet(B) /\ Cardinality(B) <= Cardinality(Slots \ {t})
        BY <4>1, <4>2, <4>3, FS_Subset
      <4>5. Cardinality(B) \in Nat
        BY <4>4, FS_CardinalityType
      <4> QED
        BY <4>2, <4>3, <4>4, <4>5
    <3> QED
      BY <1>1, <1>4, <2>2, <2>3, <3>1, <3>2, <3>3, SharingMoves, SettlingMoves DEF SharesAgain
  <2>4. CASE ~(z = s /\ d = c)
    <3>1. relayed'[<<c, s>>] = relayed[<<c, s>>]
      <4>1. CASE Relay(z, d)
        BY <2>4, <4>1, RelayIs
      <4> QED
        BY <2>1, <4>1
    <3>2. SockStill(c, s)
      BY <2>2, <2>4, SockStillIf
    <3> QED
      BY <1>1, <1>4, <3>1, <3>2, StillIf
  <2> QED
    BY <2>3, <2>4
<1> QED
  BY <1>5, <1>6

LEMMA SettleStream ==
  ASSUME Types, scenario' = scenario, NEW c \in Crews, NEW s \in Sockets, NEW t \in Slots, settleUpdate(t)
  PROVE  Still(c, s)
<1>1. /\ tasks[t].op = "update" /\ tasks[t].at = "settle" /\ tasks[t].sock \in Sockets
      /\ tasks[t].arg \in Crews /\ tasks'[t] = Idle /\ \A x \in Slots \ {t} : tasks'[x] = tasks[x]
  BY AtStep, DoneIs DEF settleUpdate, Reaches, Steps, ArgsOk, HttpOps, At
<1>2. PICK z \in Sockets, d \in Crews : z = tasks[t].sock /\ d = tasks[t].arg
  BY <1>1
<1>3. sock \in [Sockets -> Data] /\ None \notin TaskOps \cup Crews
  BY RoomAssumption DEF Types, SocketsOk
<1>4. /\ ~ShareOf(tasks[t], c, s) /\ ~UpdateOf(tasks[t], c, s) /\ ~OtherOf(tasks[t], c, s)
      /\ ~ShareOf(tasks'[t], c, s) /\ ~SettleOf(tasks'[t], c, s) /\ ~LockedOf(tasks'[t], c, s)
      /\ ~UpdateOf(tasks'[t], c, s) /\ ~OtherOf(tasks'[t], c, s)
  BY <1>1, <1>3 DEF ShareOf, SettleOf, LockedOf, UpdateOf, OtherOf, Idle, TaskOps
<1>5. CASE tasks[t].got # {}
  <2>1. Relay(z, d) /\ sock' = sock
    BY <1>2, <1>5 DEF settleUpdate
  <2>2. SockStill(c, s) /\ ~LockedOf(tasks[t], c, s)
    BY <1>1, <1>5, <2>1, SockStillIf DEF LockedOf
  <2>3. CASE z = s /\ d = c
    <3>1. SettleOf(tasks[t], c, s)
      BY <1>1, <1>2, <1>5, <2>3 DEF SettleOf
    <3>2. /\ Cardinality(Sharing(c, s))' = Cardinality(Sharing(c, s))
          /\ Cardinality(Settling(c, s))' = Cardinality(Settling(c, s)) - 1
          /\ Cardinality(Free(c, s))' = Cardinality(Free(c, s))
          /\ Cardinality(Others(c, s))' = Cardinality(Others(c, s))
          /\ Cardinality(Updating(c, s))' = Cardinality(Updating(c, s))
      BY <1>1, <1>4, <2>2, <3>1, SharingMoves, SettlingMoves, FreeMoves, OthersMoves, UpdatingMoves
    <3>3. /\ Cardinality(Sharing(c, s)) \in Int /\ Cardinality(Settling(c, s)) \in Int
          /\ Cardinality(Free(c, s)) \in Int /\ Cardinality(Others(c, s)) \in Int
          /\ Cardinality(Updating(c, s)) \in Int /\ Cardinality(Updating(c, s)) <= Cardinality(Free(c, s))
      BY Sizes
    <3>4. /\ relayed'[<<c, s>>] \in Nat /\ relayed[<<c, s>>] \in Nat
          /\ relayed'[<<c, s>>] <= relayed[<<c, s>>] + 1
      BY <2>1, RelayIs
    <3>5. sock'[s].sharing = c => sock[s].sharing = c /\ Left(s)' <= Left(s)
      BY <2>2 DEF SockStill
    <3> QED
      BY <2>1, <3>2, <3>3, <3>4, <3>5 DEF Still
  <2>4. CASE ~(z = s /\ d = c)
    <3>1. relayed'[<<c, s>>] = relayed[<<c, s>>]
      BY <2>1, <2>4, RelayIs
    <3> QED
      BY <1>1, <1>4, <2>2, <3>1, StillIf
  <2> QED
    BY <2>3, <2>4
<1>6. CASE tasks[t].got = {}
  <2>1. /\ sock' = [sock EXCEPT ![z].sharing = None, ![z].crew = IF @ = d THEN None ELSE @]
        /\ relayed' = relayed
    BY <1>2, <1>6 DEF settleUpdate
  <2>2. PICK w : w = IF sock[z].crew = d THEN None ELSE sock[z].crew
    OBVIOUS
  <2>3. sock' = [sock EXCEPT ![z] = [sock[z] EXCEPT !.sharing = None, !.crew = w]]
    BY <1>3, <2>1, <2>2 DEF Data
  <2>4. sock'[z].sharing = None /\ (s # z => sock'[s] = sock[s])
    BY <1>3, <2>3 DEF Data
  <2>5. SockStill(c, s)
    BY <1>3, <2>4, SockStillIf
  <2>6. CASE z = s
    <3>1. sock'[s].sharing # c
      BY <1>3, <2>4, <2>6
    <3> QED
      BY <1>1, <1>4, <2>1, <2>5, <3>1, StillIf
  <2>7. CASE z # s
    <3>1. ~LockedOf(tasks[t], c, s)
      BY <1>2, <2>7 DEF LockedOf
    <3> QED
      BY <1>1, <1>4, <2>1, <2>5, <3>1, StillIf
  <2> QED
    BY <2>6, <2>7
<1> QED
  BY <1>5, <1>6

LEMMA UpdateStream ==
  ASSUME Types, scenario' = scenario, NEW c \in Crews, NEW s \in Sockets, NEW t \in Slots, locationUpdate(t)
  PROVE  Still(c, s) \/ LetsPass(c, s) \/ Rechecks(c, s)
<1>1. /\ tasks[t].op = "update" /\ tasks[t].at = "limiter" /\ tasks[t].sock \in Sockets
      /\ tasks[t].arg \in Crews
  BY AtStep DEF locationUpdate, Reaches, Steps, ArgsOk, HttpOps, At
<1>2. PICK z \in Sockets, d \in Crews : z = tasks[t].sock /\ d = tasks[t].arg
  BY <1>1
<1>3. sock \in [Sockets -> Data] /\ None \notin TaskOps \cup Crews
  BY RoomAssumption DEF Types, SocketsOk
<1>4. /\ ~ShareOf(tasks[t], c, s) /\ ~SettleOf(tasks[t], c, s) /\ ~LockedOf(tasks[t], c, s)
      /\ UpdateOf(tasks[t], c, s) <=> (z = s /\ d = c)
      /\ OtherOf(tasks[t], c, s) <=> (z = s /\ d # c)
  BY <1>1, <1>2 DEF ShareOf, SettleOf, LockedOf, UpdateOf, OtherOf
<1>5. PICK late \in BOOLEAN :
        IF Recheck(sock[z], late)
        THEN /\ sock' = [sock EXCEPT ![z].count = 0, ![z].checked = TRUE]
             /\ Await(t, "member", {})
             /\ UNCHANGED <<cache, relayed>>
        ELSE /\ sock' = [sock EXCEPT ![z].count = @ + 1]
             /\ Relay(z, d) /\ Done(t)
  BY <1>2 DEF locationUpdate
<1>6. CASE Recheck(sock[z], late)
  <2>1. /\ sock' = [sock EXCEPT ![z].count = 0, ![z].checked = TRUE]
        /\ Await(t, "member", {}) /\ relayed' = relayed
    BY <1>5, <1>6
  <2>2. /\ \A x \in Slots \ {t} : tasks'[x] = tasks[x]
        /\ tasks'[t].op = "update" /\ tasks'[t].at = "member" /\ tasks'[t].sock = z /\ tasks'[t].arg = d
    BY <1>1, <1>2, <2>1, AwaitIs
  <2>3. /\ ~ShareOf(tasks'[t], c, s) /\ ~SettleOf(tasks'[t], c, s)
        /\ ~UpdateOf(tasks'[t], c, s) /\ ~OtherOf(tasks'[t], c, s)
        /\ LockedOf(tasks'[t], c, s) <=> (z = s /\ d = c)
    BY <2>2 DEF ShareOf, SettleOf, LockedOf, UpdateOf, OtherOf
  <2>4. sock'[s].sharing = sock[s].sharing /\ (s # z => sock'[s] = sock[s])
    BY <1>3, <2>1 DEF Data
  <2>5. CASE z = s /\ sock[s].sharing = c
    <3>1. /\ Cardinality(Settling(c, s))' = Cardinality(Settling(c, s))
          /\ Cardinality(Sharing(c, s))' = Cardinality(Sharing(c, s))
      BY <1>4, <2>2, <2>3, SettlingMoves, SharingMoves
    <3>2. CASE d = c
      <4>1. /\ Cardinality(Free(c, s))' = Cardinality(Free(c, s)) - 1
            /\ Cardinality(Others(c, s))' = Cardinality(Others(c, s))
        BY <1>4, <2>2, <2>3, <2>5, <3>2, FreeMoves, OthersMoves
      <4> QED
        BY <2>1, <2>4, <2>5, <3>1, <4>1 DEF Rechecks
    <3>3. CASE d # c
      <4>1. /\ Cardinality(Free(c, s))' = Cardinality(Free(c, s))
            /\ Cardinality(Others(c, s))' = Cardinality(Others(c, s)) - 1
        BY <1>4, <2>2, <2>3, <2>5, <3>3, FreeMoves, OthersMoves
      <4> QED
        BY <2>1, <2>4, <2>5, <3>1, <4>1 DEF Rechecks
    <3> QED
      BY <3>2, <3>3
  <2>6. CASE ~(z = s /\ sock[s].sharing = c)
    <3>1. SockStill(c, s)
      BY <2>4, <2>6, SockStillIf
    <3> QED
      BY <1>4, <2>1, <2>2, <2>3, <3>1, StillIf
  <2> QED
    BY <2>5, <2>6
<1>7. CASE ~Recheck(sock[z], late)
  <2>1. /\ sock' = [sock EXCEPT ![z].count = @ + 1]
        /\ Relay(z, d) /\ Done(t)
    BY <1>5, <1>7
  <2>2. tasks'[t] = Idle /\ \A x \in Slots \ {t} : tasks'[x] = tasks[x]
    BY <2>1, DoneIs
  <2>3. /\ ~ShareOf(tasks'[t], c, s) /\ ~SettleOf(tasks'[t], c, s) /\ ~LockedOf(tasks'[t], c, s)
        /\ ~UpdateOf(tasks'[t], c, s) /\ ~OtherOf(tasks'[t], c, s)
    BY <1>3, <2>2 DEF ShareOf, SettleOf, LockedOf, UpdateOf, OtherOf, Idle, TaskOps
  <2>4. /\ sock'[s].sharing = sock[s].sharing /\ sock'[s].checked = sock[s].checked
        /\ sock'[s].count = IF s = z THEN sock[s].count + 1 ELSE sock[s].count
    BY <1>3, <2>1 DEF Data
  <2>5. sock[z].checked /\ Pass > 0 /\ Pass \in Nat /\ Pass' = Pass
    <3>1. PICK k, r : k = sock[z].count /\ r = scenario.recheckEvery
      OBVIOUS
    <3>2. k \in Nat /\ r \in Nat
      BY <1>3, <3>1, Numbers DEF Types, Data
    <3>3. sock[z].checked /\ ~(k + 1 >= r)
      BY <1>7, <3>1 DEF Recheck
    <3>4. r - 1 > 0 /\ r - 1 \in Nat
      BY <3>2, <3>3
    <3> QED
      BY <3>1, <3>3, <3>4 DEF Pass
  <2>6. z = s => Left(s)' = Left(s) - 1
    <3> SUFFICES ASSUME z = s
                 PROVE  Left(s)' = Left(s) - 1
      OBVIOUS
    <3>1. Left(s) = Pass - sock[s].count /\ Left(s)' = Pass - (sock[s].count + 1)
      BY <2>4, <2>5 DEF Left
    <3>2. sock[s].count \in Int
      BY <1>3, Numbers DEF Types, Data
    <3> QED
      BY <2>5, <3>1, <3>2
  <2>7. /\ relayed'[<<c, s>>] <= relayed[<<c, s>>] + 1
        /\ ~(z = s /\ d = c) => relayed'[<<c, s>>] = relayed[<<c, s>>]
    BY <2>1, RelayIs
  <2>8. CASE z = s /\ d = c
    <3>1. /\ Cardinality(Settling(c, s))' = Cardinality(Settling(c, s))
          /\ Cardinality(Sharing(c, s))' = Cardinality(Sharing(c, s))
          /\ Cardinality(Free(c, s))' = Cardinality(Free(c, s))
          /\ Cardinality(Others(c, s))' = Cardinality(Others(c, s))
          /\ Cardinality(Updating(c, s))' = Cardinality(Updating(c, s)) - 1
      BY <1>4, <2>2, <2>3, <2>8, SettlingMoves, SharingMoves, FreeMoves, OthersMoves, UpdatingMoves
    <3> QED
      BY <2>4, <2>5, <2>6, <2>7, <2>8, <3>1 DEF LetsPass
  <2>9. CASE ~(z = s /\ d = c)
    <3>1. SockStill(c, s)
      <4>1. Left(s) \in Int
        BY <2>5, Sizes
      <4>2. CASE z = s
        BY <2>4, <2>6, <4>1, <4>2 DEF SockStill
      <4>3. CASE z # s
        BY <2>4, <4>3, SockStillIf
      <4> QED
        BY <4>2, <4>3
    <3> QED
      BY <1>4, <2>2, <2>3, <2>7, <2>9, <3>1, StillIf
  <2> QED
    BY <2>8, <2>9
<1> QED
  BY <1>6, <1>7

\* Every step but a removal lets the potential fall.
LEMMA StreamFalls ==
  ASSUME Types, [Next]_vars, NEW c \in Crews, NEW s \in Sockets,
         <<c, Owner[s]>> \notin member, <<c, Owner[s]>> \notin member'
  PROVE  Potential(c, s)' <= Potential(c, s)
<1>1. Types' /\ scenario' = scenario
  BY NextTypes DEF Next, vars
<1>2. CASE \E t \in Slots : Step(t)
  BY <1>1, <1>2, PlainStill, ShareStream, UpdateStream, SettleStream, PotentialFalls
<1>3. CASE ~ \E t \in Slots : Step(t)
  BY <1>1, <1>3, ElsewhereStill, PotentialFalls
<1> QED
  BY <1>2, <1>3

\* Where a member goes, the handler that took it away is none of the stream's.
LEMMA RemovedBy ==
  ASSUME Types, [Next]_vars, NEW p \in member, p \notin member'
  PROVE  relayed' = relayed /\ \E t \in Slots : tasks'[t].op \notin {"share", "update"}
<1>1. PICK t \in Slots : removeMember(t) \/ deleteRows(t)
  <2>1. \E t \in Slots : Step(t)
    BY DEF Next, vars, connect, disconnect, event, leaveFestival, locationStop, request,
       unchangedByStart, addMember, signIn
  <2> QED
    BY ZenonT(60), <2>1 DEF Step, session, refuse, unchangedByStart, joinRoom, setSocketPresence, getMember,
       enterCrew, leaveCrew, registerSharingSocket, locationShare, locationUpdate, settleUpdate,
       fetchSockets, fetchSocketsTimesOut, evict, deleteSessions, disconnectUserSockets
<1>2. tasks[t].op \in {"remove", "deleteCrew"} /\ Step(t)
  BY <1>1, AtStep DEF removeMember, deleteRows, Reaches, Steps, Step
<1>3. tasks'[t].op = tasks[t].op \/ tasks'[t].op = None
  BY <1>2, StepGoesOn DEF Idle
<1>4. None \notin {"share", "update"}
  BY RoomAssumption DEF TaskOps
<1> QED
  BY <1>1, <1>2, <1>3, <1>4 DEF removeMember, deleteRows

\* A member's relays are not counted.
LEMMA MembersUncounted ==
  ASSUME Types, [Next]_vars, NEW c \in Crews, NEW s \in Sockets, <<c, Owner[s]>> \in member'
  PROVE  relayed'[<<c, s>>] = 0 \/ (<<c, Owner[s]>> \in member /\ relayed'[<<c, s>>] = relayed[<<c, s>>])
<1>1. relayed \in [Crews \X Sockets -> 0..RelayLimit + 1] /\ <<c, s>> \in Crews \X Sockets
  BY DEF Types
<1>2. CASE \E d \in Crews, u \in Users : addMember(d, u)
  <2>1. PICK d \in Crews, u \in Users : addMember(d, u)
    BY <1>2
  <2>2. relayed'[<<c, s>>] = IF c = d /\ Owner[s] = u THEN 0 ELSE relayed[<<c, s>>]
    BY <1>1, <2>1 DEF addMember
  <2>3. ~(c = d /\ Owner[s] = u) => <<c, Owner[s]>> \in member
    BY <2>1 DEF addMember
  <2> QED
    BY <2>2, <2>3
<1>3. CASE ~ \E d \in Crews, u \in Users : addMember(d, u)
  <2>1. member' \subseteq member
    BY ZenonT(60), <1>3 DEF Next, vars, connect, disconnect, event, leaveFestival, locationStop, request,
       unchangedByStart, signIn, Step, session, refuse, joinRoom, setSocketPresence, getMember,
       enterCrew, leaveCrew, registerSharingSocket, locationShare, locationUpdate, settleUpdate,
       removeMember, fetchSockets, fetchSocketsTimesOut, evict, deleteRows, deleteSessions,
       disconnectUserSockets
  <2>2. ASSUME NEW t \in Slots, locationShare(t) \/ locationUpdate(t) \/ settleUpdate(t)
        PROVE  relayed' = relayed \/ \E z \in Sockets, d \in Crews : Relay(z, d)
    <3>1. tasks[t].sock \in Sockets /\ tasks[t].arg \in Crews
      BY <2>2, AtStep DEF locationShare, locationUpdate, settleUpdate, Reaches, Steps, ArgsOk, HttpOps
    <3> QED
      BY <2>2, <3>1 DEF locationShare, locationUpdate, settleUpdate
  <2>3. relayed' = relayed \/ \E z \in Sockets, d \in Crews : Relay(z, d)
    BY <1>3, <2>2 DEF Next, vars, connect, disconnect, event, leaveFestival, locationStop, request,
       unchangedByStart, signIn, Step, session, refuse, joinRoom, setSocketPresence, getMember,
       enterCrew, leaveCrew, registerSharingSocket, removeMember, fetchSockets,
       fetchSocketsTimesOut, evict, deleteRows, deleteSessions, disconnectUserSockets
  <2> QED
    BY <2>1, <2>3, RelayIs
<1> QED
  BY <1>2, <1>3

\* It is a number, and no less than what was relayed.
Whole ==
  \A c \in Crews, s \in Sockets :
    /\ relayed[<<c, s>>] \in Nat /\ Potential(c, s) \in Int
    /\ relayed[<<c, s>>] <= Potential(c, s)

LEMMA AlwaysWhole == Types => Whole
<1> SUFFICES ASSUME Types, NEW c \in Crews, NEW s \in Sockets
             PROVE  /\ relayed[<<c, s>>] \in Nat /\ Potential(c, s) \in Int
                    /\ relayed[<<c, s>>] <= Potential(c, s)
  BY DEF Whole
<1>1. PICK n, r, w : n = Cardinality(Slots) /\ r = Pass /\ w = 1 + 2 * n * r
  OBVIOUS
<1>2. PICK R, x, k, l, o, u, d :
        /\ R = relayed[<<c, s>>]
        /\ x = Cardinality(Settling(c, s)) /\ k = Cardinality(Sharing(c, s))
        /\ l = Cardinality(Free(c, s)) /\ o = Cardinality(Others(c, s))
        /\ u = Cardinality(Updating(c, s)) /\ d = Left(s)
  OBVIOUS
<1>3. n \in Nat /\ r \in Nat /\ k \in Nat /\ x \in Nat /\ l \in Nat /\ o \in Nat /\ u \in Nat /\ d \in Nat
  BY <1>1, <1>2, Sizes
<1>4. R \in Nat
  <2>1. relayed \in [Crews \X Sockets -> Nat] /\ <<c, s>> \in Crews \X Sockets
    BY Numbers DEF Types
  <2> QED
    BY <1>2, <2>1
<1>5. n * r \in Nat /\ 2 * n * r = 2 * (n * r)
  BY <1>3
<1>6. w \in Nat
  BY <1>1, <1>5
<1>7. w * k \in Nat /\ r * l \in Nat /\ r * o \in Nat /\ r * u \in Nat
  BY <1>3, <1>6, Product
<1>8. Potential(c, s) = R + x + w * k + (IF sock[s].sharing = c THEN d + r * l + r * o ELSE r * u)
  BY <1>1, <1>2 DEF Potential, Weight
<1> QED
  BY <1>2, <1>3, <1>4, <1>7, <1>8

LEMMA NextCut == Types /\ Cut /\ [Next]_vars => Cut'
<1> SUFFICES ASSUME Types, Cut, [Next]_vars, NEW c \in Crews, NEW s \in Sockets
             PROVE  IF <<c, Owner[s]>> \in member' THEN relayed'[<<c, s>>] = 0
                    ELSE Potential(c, s)' <= RelayLimit'
  BY DEF Cut
<1>1. Types' /\ RelayLimit' = RelayLimit
  BY NextTypes, SameSituation DEF Next, vars
<1>2. CASE <<c, Owner[s]>> \in member'
  BY <1>2, MembersUncounted DEF Cut
<1>3. CASE <<c, Owner[s]>> \notin member' /\ <<c, Owner[s]>> \in member
  <2>1. relayed'[<<c, s>>] = 0
    BY <1>3, RemovedBy DEF Cut
  <2>2. PICK t \in Slots : tasks'[t].op \notin {"share", "update"}
    BY <1>3, RemovedBy
  <2>3. /\ t \notin Sharing(c, s)' /\ t \notin Settling(c, s)' /\ t \notin Others(c, s)'
        /\ t \notin Updating(c, s)'
    BY <2>2 DEF Sharing, Settling, Others, Updating, ShareOf, SettleOf, OtherOf, UpdateOf
  <2>4. Startable'
    BY <1>1, AlwaysStartable, PTL
  <2>5. Potential(c, s)' <= RelayLimit'
    BY <2>1, <2>3, <2>4 DEF Startable
  <2> QED
    BY <1>3, <2>5
<1>4. CASE <<c, Owner[s]>> \notin member' /\ <<c, Owner[s]>> \notin member
  <2>1. Potential(c, s)' <= Potential(c, s) /\ Potential(c, s) <= RelayLimit
    BY <1>4, StreamFalls DEF Cut
  <2>2. Potential(c, s) \in Int /\ Potential(c, s)' \in Int /\ RelayLimit \in Int
    <3>1. Whole
      BY AlwaysWhole
    <3>2. Whole'
      BY <1>1, AlwaysWhole, PTL
    <3>3. RelayLimit \in Nat
      BY Numbers DEF Types
    <3>4. Potential(c, s) \in Int
      BY <3>1 DEF Whole
    <3>5. Potential(c, s)' \in Int
      BY <3>2 DEF Whole
    <3> QED
      BY <3>3, <3>4, <3>5
  <2> QED
    BY <1>1, <1>4, <2>1, <2>2
<1> QED
  BY <1>2, <1>3, <1>4

LEMMA InitCut == Init => Cut
<1> SUFFICES ASSUME Init, NEW c \in Crews, NEW s \in Sockets
             PROVE  relayed[<<c, s>>] = 0 /\ Potential(c, s) <= RelayLimit
  BY DEF Cut
<1>1. Types /\ RelayLimit \in Nat /\ Pass \in Nat
  BY InitTypes, Numbers DEF Pass, Types
<1>2. relayed[<<c, s>>] = 0 /\ sock[s].sharing # c
  BY RoomAssumption DEF Init, Fresh
<1>3. Settling(c, s) = {} /\ Sharing(c, s) = {} /\ Updating(c, s) = {}
  BY RoomAssumption DEF Init, Idle, TaskOps, Settling, Sharing, Updating, SettleOf, ShareOf, UpdateOf
<1>4. Cardinality({}) = 0
  BY FS_EmptySet
<1>5. PICK w, r : w = Weight /\ r = Pass
  OBVIOUS
<1>6. Potential(c, s) = 0 + 0 + w * 0 + r * 0
  BY <1>2, <1>3, <1>4, <1>5 DEF Potential
<1>7. w \in Int /\ r \in Int
  <2>1. PICK n : n = Cardinality(Slots)
    OBVIOUS
  <2>2. n \in Nat
    BY <2>1, RoomAssumption, FS_CardinalityType
  <2>3. w = 1 + 2 * n * r
    BY <1>5, <2>1 DEF Weight
  <2> QED
    BY <1>1, <1>5, <2>2, <2>3
<1> QED
  BY <1>1, <1>2, <1>6, <1>7

\* StreamIsCut: whatever the order of removals, evictions that time out, shares, updates and
\* rechecks in flight, what the socket of a removed member relays is paid for beforehand by the
\* handlers in flight and by the count that location:update keeps.
THEOREM StreamEnds == Spec => []StreamIsCut
<1>1. Types /\ Cut => StreamIsCut
  <2> SUFFICES ASSUME Types, Cut, NEW c \in Crews, NEW s \in Sockets
               PROVE  relayed[<<c, s>>] <= RelayLimit
    BY DEF StreamIsCut, Types
  <2>1. RelayLimit \in Nat
    BY Numbers DEF Types
  <2>2. Whole
    BY AlwaysWhole
  <2>3. relayed[<<c, s>>] \in Nat /\ relayed[<<c, s>>] <= Potential(c, s) /\ Potential(c, s) \in Int
    BY <2>2 DEF Whole
  <2>4. CASE <<c, Owner[s]>> \in member
    BY <2>1, <2>4 DEF Cut
  <2>5. CASE <<c, Owner[s]>> \notin member
    <3>1. Potential(c, s) <= RelayLimit
      BY <2>5 DEF Cut
    <3> QED
      BY <2>1, <2>3, <3>1
  <2> QED
    BY <2>4, <2>5
<1>2. Init => Cut
  BY InitCut
<1>3. Types /\ Cut /\ [Next]_vars => Cut'
  BY NextCut
<1> QED
  BY <1>1, <1>2, <1>3, Typed, PTL DEF Spec

=============================================================================
