------------------------------ MODULE CrewRoom ------------------------------
(***************************************************************************)
(* The realtime side of the server: a socket's rooms and its socket.data,  *)
(* the presence list of a festival, the live-location relay with its Redis *)
(* structures, and the eviction of the sockets of removed members.         *)
(*                                                                         *)
(* An event handler runs to its next await without interruption; between   *)
(* two awaits of one handler the handlers of other events, of the same     *)
(* socket too, and of HTTP requests run.  A handler in flight is a task.   *)
(* The server is one process (pm2 starts one instance); its Redis commands *)
(* travel over one connection, so that a command takes effect, for this    *)
(* process, when it is issued.                                             *)
(***************************************************************************)
EXTENDS Integers, FiniteSets

CONSTANTS
  Users, Crews, Festivals, Sockets,
  Owner,     \* Owner[s]: the user whose session cookie socket s presents
  Roster,    \* crew_members at the start: a set of <<crew, user>>
  Leaders,   \* the rows of it with role 'owner', who may not leave nor be kicked
  Cap,       \* MAX_CONCURRENT_SHARING_SOCKETS
  Scenarios, \* the situations that are looked at
  Slots,     \* bound: the handlers in flight at the same time
  None

\* crews, sockets: those there are; ops: the events and requests that happen; exclusive: those
\* of them that meet no other handler in flight; serial: those a client only sends when its
\* previous such event is answered; festivalFirst: whether a client sends join:crew only once
\* join:festival has run; timeouts: whether fetchSockets may time out; recheckEvery:
\* MEMBERSHIP_RECHECK_EVERY_N.
Situation(x) ==
  /\ x.crews \subseteq Crews /\ x.sockets \subseteq Sockets
  /\ x.exclusive \subseteq x.ops /\ x.serial \subseteq x.ops
  /\ {x.timeouts, x.festivalFirst} \subseteq BOOLEAN /\ x.recheckEvery \in Nat \ {0}

\* What is in flight, and the awaits it may be at.
TaskOps == {"join:festival", "join:crew", "leave:crew", "share", "sync", "update", "remove",
            "deleteCrew", "signOut"}

Steps == {"session", "profile", "presence", "member", "enter", "leave", "register", "share",
          "snapshot", "limiter", "settle", "removeMember", "fetchSockets", "evict", "deleteRows",
          "deleteSessions", "disconnect"}

ASSUME RoomAssumption ==
  /\ Owner \in [Sockets -> Users] /\ Roster \subseteq Crews \X Users /\ Leaders \subseteq Roster
  /\ Cap \in Nat /\ IsFiniteSet(Slots) /\ IsFiniteSet(Sockets) /\ \A x \in Scenarios : Situation(x)
  /\ Crews \cap Festivals = {} /\ None \notin Crews \cup Festivals \cup Users \cup Sockets
  /\ None \notin TaskOps \cup Steps

VARIABLES
  scenario,  \* the situation of this behaviour
  member,    \* crew_members
  sessions,  \* the users with a session
  sock,      \* socket.data, and whether the socket is connected
  rooms,     \* socket.rooms
  online,    \* state.onlineUsers: <<festival, socket>>
  cache,     \* loc:pos:<crew>: <<crew, user>> with a cached position
  reg,       \* loc:sharing:<user>: the registered sockets
  tasks,     \* the handlers in flight
  relayed    \* history: positions relayed to a crew by a socket whose user is not its member

vars == <<scenario, member, sessions, sock, rooms, online, cache, reg, tasks, relayed>>
redis == <<cache, reg>>

\* What StreamIsCut allows, and the relays of a removed member are counted a little further:
\* a handler in flight when the member is removed may share again, and in each share each
\* handler lets recheckEvery - 1 updates pass before its own recheck, and as many when it is
\* an update of another crew, whose recheck restarts the count.
RelayLimit ==
  LET n == Cardinality(Slots)
  IN  n * (1 + 2 * n * (scenario.recheckEvery - 1))

Idle == [op |-> None, sock |-> None, user |-> None, arg |-> None, at |-> None, got |-> {}]

Fresh == [state |-> "new", known |-> FALSE, festival |-> None, crew |-> None, sharing |-> None,
          checked |-> FALSE, count |-> 0]

Init ==
  /\ scenario \in Scenarios
  /\ member = {p \in Roster : p[1] \in scenario.crews} /\ sessions = Users
  /\ sock = [s \in Sockets |-> Fresh] /\ rooms = [s \in Sockets |-> {}]
  /\ online = {} /\ cache = {} /\ reg = {}
  /\ tasks = [t \in Slots |-> Idle]
  /\ relayed = [p \in Crews \X Sockets |-> 0]

-----------------------------------------------------------------------------
(* Handlers in flight.                                                     *)

Active(t) == tasks[t].op # None

At(t, step) == tasks[t].at = step

\* The handler waits for its next await, with what the last one answered.
Await(t, step, got) == tasks' = [tasks EXCEPT ![t] = [@ EXCEPT !.at = step, !.got = got]]

Done(t) == tasks' = [tasks EXCEPT ![t] = Idle]

\* A handler that starts must be allowed beside each one in flight.
MayStart(op, s) ==
  \A t \in Slots : Active(t) =>
    /\ tasks[t].op \notin scenario.exclusive /\ op \notin scenario.exclusive
    /\ ~ (tasks[t].sock = s /\ s # None /\ {op, tasks[t].op} \subseteq scenario.serial)

Start(op, s, u, arg, step) ==
  /\ op \in scenario.ops /\ MayStart(op, s)
  /\ \E t \in Slots :
       /\ ~Active(t)
       /\ tasks' = [tasks EXCEPT ![t] = [Idle EXCEPT !.op = op, !.sock = s, !.user = u,
                                                     !.arg = arg, !.at = step]]

Up(s) == sock[s].state = "up"

-----------------------------------------------------------------------------
(* What the handlers do to a socket.                                       *)

\* socket.join is a no-op, and there is no room to leave, once a socket is disconnected.
Rooms(s, left, entered) ==
  rooms' = [rooms EXCEPT ![s] = IF Up(s) THEN (@ \ left) \cup entered ELSE @]

\* removeSocketPresence: the entry of the festival in socket.data.
WithoutPresence(S) == {e \in online : ~ (e[2] \in S /\ e[1] = sock[e[2]].festival)}

ClearedSession(d) == [d EXCEPT !.known = FALSE, !.festival = None]

\* The sockets of S are closed: they leave every room, and their presence and session go.
Closed(S) ==
  /\ sock' = [s \in Sockets |-> IF s \in S THEN [ClearedSession(sock[s]) EXCEPT !.state = "gone"]
                                ELSE sock[s]]
  /\ rooms' = [s \in Sockets |-> IF s \in S THEN {} ELSE rooms[s]]
  /\ online' = WithoutPresence(S)

\* disconnectSocket clears socket.data.userId first: the disconnect handler then leaves the
\* sharing registration and the cached position alone.
disconnectSocket(S) == Closed(S) /\ UNCHANGED redis

\* Redis, after the teardown of socket s's share of crew c.
StopSharing(s, c) ==
  /\ reg' = reg \ {s}
  /\ cache' = cache \ {<<c, Owner[s]>>}

\* A position goes to the crew's room and to the cache.
Relay(s, c) ==
  /\ cache' = cache \cup {<<c, Owner[s]>>}
  /\ relayed' = IF <<c, Owner[s]>> \in member \/ relayed[<<c, s>>] > RelayLimit
                THEN relayed ELSE [relayed EXCEPT ![<<c, s>>] = @ + 1]

-----------------------------------------------------------------------------
(* Connections and the events of a socket, up to their first await.        *)

connect(s) ==
  /\ s \in scenario.sockets /\ sock[s].state = "new"
  /\ sock' = [sock EXCEPT ![s].state = "up"]
  /\ UNCHANGED <<member, sessions, rooms, online, cache, reg, tasks, relayed>>

\* The transport closes.
disconnect(s) ==
  /\ Up(s) /\ "disconnect" \in scenario.ops /\ MayStart("disconnect", s)
  /\ Closed({s})
  /\ IF sock[s].sharing # None /\ sock[s].known THEN StopSharing(s, sock[s].sharing)
                                                ELSE UNCHANGED redis
  /\ UNCHANGED <<member, sessions, tasks, relayed>>

unchangedByStart == <<member, sessions, sock, rooms, online, cache, reg, relayed>>

\* join:festival, reconnect:restore, join:crew and leave:crew first look the session up.
event(s) ==
  /\ Up(s)
  /\ \/ \E f \in Festivals : Start("join:festival", s, None, f, "session")
     \/ \E c \in scenario.crews : (scenario.festivalFirst => sock[s].known) /\ Start("join:crew", s, None, c, "session")
     \/ \E c \in scenario.crews : Start("leave:crew", s, None, c, "session")
     \/ sock[s].crew # None /\ Start("share", s, None, sock[s].crew, "session")
     \/ sock[s].crew # None /\ Start("sync", s, None, sock[s].crew, "session")
     \/ sock[s].sharing # None /\ Start("update", s, None, sock[s].sharing, "limiter")
  /\ UNCHANGED unchangedByStart

\* Mutant: the presence entry goes and the rooms are kept.
leaveFestival_KeepsRooms(s) ==
  /\ Up(s) /\ "leave:festival" \in scenario.ops /\ MayStart("leave:festival", s)
  /\ online' = WithoutPresence({s})
  /\ sock' = [sock EXCEPT ![s].festival = None]
  /\ UNCHANGED <<member, sessions, rooms, cache, reg, tasks, relayed>>

\* leave:festival, without an await: it leaves the rooms, the crew's too.
leaveFestival(s) ==
  /\ Up(s) /\ "leave:festival" \in scenario.ops /\ MayStart("leave:festival", s)
  /\ rooms' = [rooms EXCEPT ![s] = {}]
  /\ online' = WithoutPresence({s})
  /\ sock' = [sock EXCEPT ![s].festival = None]
  /\ UNCHANGED <<member, sessions, cache, reg, tasks, relayed>>

\* location:stop, without an await.
locationStop(s, c) ==
  /\ Up(s) /\ "stop" \in scenario.ops /\ MayStart("stop", s)
  /\ c \in {sock[s].crew, sock[s].sharing}
  /\ sock' = [sock EXCEPT ![s].sharing = IF @ = c THEN None ELSE @]
  /\ reg' = IF sock[s].sharing = c THEN reg \ {s} ELSE reg
  /\ cache' = IF sock[s].known THEN cache \ {<<c, Owner[s]>>} ELSE cache
  /\ UNCHANGED <<member, sessions, rooms, online, tasks, relayed>>

-----------------------------------------------------------------------------
(* The rest of the handlers, one action per await.                         *)

FirstStep(op) ==
  CASE op = "join:festival" -> "profile" [] op = "join:crew" -> "member"
    [] op = "leave:crew" -> "leave"      [] op = "share" -> "member"
    [] op = "sync" -> "snapshot"

\* validateUserSession: without a session the socket is closed.
session(t) ==
  LET s == tasks[t].sock
  IN  /\ At(t, "session")
      /\ IF Owner[s] \in sessions
         THEN /\ Await(t, FirstStep(tasks[t].op), {})
              /\ UNCHANGED <<sock, rooms, online, cache, reg>>
         ELSE Done(t) /\ disconnectSocket({s} \cap {x \in Sockets : Up(x)})
      /\ UNCHANGED <<member, sessions, relayed>>

\* A rate limit, a full room, a missing festival or profile, an empty snapshot: no effect.
refuse(t) ==
  /\ tasks[t].at \in {"profile", "leave", "limiter", "snapshot"}
  /\ Done(t)
  /\ UNCHANGED unchangedByStart

\* The festival and the profile are there: the socket moves to the festival's room.
joinRoom(t) ==
  LET s == tasks[t].sock
  IN  /\ At(t, "profile")
      /\ Rooms(s, {sock[s].festival}, {tasks[t].arg})
      /\ online' = WithoutPresence({s})
      /\ sock' = [sock EXCEPT ![s].known = TRUE, ![s].festival = tasks[t].arg]
      /\ Await(t, "presence", {})
      /\ UNCHANGED <<member, sessions, cache, reg, relayed>>

\* getPresenceList reports no socket ids, so that the entry is always written.
setSocketPresence(t) ==
  /\ At(t, "presence")
  /\ online' = online \cup {<<tasks[t].arg, tasks[t].sock>>}
  /\ Done(t)
  /\ UNCHANGED <<member, sessions, sock, rooms, cache, reg, relayed>>

\* The database answers getMember; the handler goes on with the answer later.
getMember(t) ==
  LET q == tasks[t]
  IN  /\ At(t, "member")
      /\ Await(t, CASE q.op = "join:crew" -> "enter" [] q.op = "share" -> "register"
                    [] q.op = "update" -> "settle",
               member \cap {<<q.arg, Owner[q.sock]>>})
      /\ UNCHANGED unchangedByStart

\* Mutant: the previous crew's room is not left.
enterCrew_StaysInPrevious(t) ==
  LET s == tasks[t].sock
      c == tasks[t].arg
  IN  /\ At(t, "enter") /\ Done(t)
      /\ IF tasks[t].got = {} THEN UNCHANGED <<rooms, sock>>
         ELSE Rooms(s, {}, {c}) /\ sock' = [sock EXCEPT ![s].crew = c]
      /\ UNCHANGED <<member, sessions, online, cache, reg, relayed>>

\* join:crew: the room of the previous crew is left.
enterCrew(t) ==
  LET s == tasks[t].sock
      c == tasks[t].arg
  IN  /\ At(t, "enter") /\ Done(t)
      /\ IF tasks[t].got = {} THEN UNCHANGED <<rooms, sock>>
         ELSE Rooms(s, {sock[s].crew}, {c}) /\ sock' = [sock EXCEPT ![s].crew = c]
      /\ UNCHANGED <<member, sessions, online, cache, reg, relayed>>

\* leave:crew ends the share of that crew, leaves its room and forgets the recheck stamps.
leaveCrew(t) ==
  LET s == tasks[t].sock
      c == tasks[t].arg
      d == sock[s]
  IN  /\ At(t, "leave") /\ Done(t)
      /\ IF d.sharing = c THEN StopSharing(s, c) ELSE UNCHANGED redis
      /\ sock' = [sock EXCEPT ![s].sharing = IF @ = c THEN None ELSE @,
                              ![s].crew = IF @ = c THEN None ELSE @,
                              ![s].checked = FALSE, ![s].count = 0]
      /\ Rooms(s, {c}, {})
      /\ UNCHANGED <<member, sessions, online, relayed>>

\* registerSharingSocket: zadd, then zcard of the user's sockets; empty when over the cap.
Registered(s) ==
  LET mine == {x \in reg \cup {s} : Owner[x] = Owner[s]}
  IN  IF Cardinality(mine) <= Cap THEN {s} ELSE {}

\* A member's socket is registered; a refused one stays registered.
registerSharingSocket(t) ==
  LET s == tasks[t].sock
  IN  /\ At(t, "register")
      /\ IF tasks[t].got = {} THEN Done(t) /\ UNCHANGED reg
         ELSE reg' = reg \cup {s} /\ Await(t, "share", Registered(s))
      /\ UNCHANGED <<member, sessions, sock, rooms, online, cache, relayed>>

\* location:share within the cap: socket.data is stamped, and a first fix (optional) relayed.
locationShare(t) ==
  LET s == tasks[t].sock
      c == tasks[t].arg
  IN  /\ At(t, "share") /\ Done(t)
      /\ IF tasks[t].got = {} THEN UNCHANGED <<sock, cache, relayed>>
         ELSE /\ sock' = [sock EXCEPT ![s].known = TRUE, ![s].sharing = c, ![s].checked = TRUE,
                                      ![s].count = 0]
              /\ Relay(s, c) \/ UNCHANGED <<cache, relayed>>
      /\ UNCHANGED <<member, sessions, rooms, online, reg>>

\* Mutant: the stream is never rechecked.
Recheck_Never(d, late) == FALSE

\* The count has reached its bound, the stamp is missing, or it is older than the interval.
Recheck(d, late) == d.count + 1 >= scenario.recheckEvery \/ ~d.checked \/ late

\* Mutant: an update that is let through is not counted.
locationUpdate_KeepsCount(t) ==
  LET s == tasks[t].sock
      c == tasks[t].arg
  IN  /\ At(t, "limiter")
      /\ \E late \in BOOLEAN :
           IF Recheck(sock[s], late)
           THEN /\ sock' = [sock EXCEPT ![s].count = 0, ![s].checked = TRUE]
                /\ Await(t, "member", {})
                /\ UNCHANGED <<cache, relayed>>
           ELSE Relay(s, c) /\ Done(t) /\ UNCHANGED sock
      /\ UNCHANGED <<member, sessions, rooms, online, reg>>

\* location:update, once the limiter allows it.
locationUpdate(t) ==
  LET s == tasks[t].sock
      c == tasks[t].arg
  IN  /\ At(t, "limiter")
      /\ \E late \in BOOLEAN :
           IF Recheck(sock[s], late)
           THEN /\ sock' = [sock EXCEPT ![s].count = 0, ![s].checked = TRUE]
                /\ Await(t, "member", {})
                /\ UNCHANGED <<cache, relayed>>
           ELSE /\ sock' = [sock EXCEPT ![s].count = @ + 1]
                /\ Relay(s, c) /\ Done(t)
      /\ UNCHANGED <<member, sessions, rooms, online, reg>>

\* The recheck's answer: relay, or tear the share down.
settleUpdate(t) ==
  LET s == tasks[t].sock
      c == tasks[t].arg
  IN  /\ At(t, "settle") /\ Done(t)
      /\ IF tasks[t].got # {}
         THEN Relay(s, c) /\ UNCHANGED <<sock, rooms, reg>>
         ELSE /\ sock' = [sock EXCEPT ![s].sharing = None, ![s].crew = IF @ = c THEN None ELSE @]
              /\ Rooms(s, {c}, {})
              /\ StopSharing(s, c)
              /\ UNCHANGED relayed
      /\ UNCHANGED <<member, sessions, online>>

-----------------------------------------------------------------------------
(* HTTP requests that change who may be in a room.                         *)

request ==
  /\ \/ \E p \in member \ Leaders : Start("remove", None, p[2], p[1], "removeMember")
     \/ \E c \in scenario.crews : Start("deleteCrew", None, None, c, "fetchSockets")
     \/ \E u \in sessions : Start("signOut", None, u, None, "deleteSessions")
  /\ UNCHANGED unchangedByStart

\* A member is added: a join, or an owner's or an administrator's doing.
addMember(c, u) ==
  /\ "add" \in scenario.ops /\ MayStart("add", None)
  /\ <<c, u>> \notin member /\ \E p \in Leaders \cap member : p[1] = c
  /\ member' = member \cup {<<c, u>>}
  /\ relayed' = [p \in Crews \X Sockets |-> IF p[1] = c /\ Owner[p[2]] = u THEN 0 ELSE relayed[p]]
  /\ UNCHANGED <<sessions, sock, rooms, online, cache, reg, tasks>>

\* A new sign-in.
signIn(u) ==
  /\ "signIn" \in scenario.ops /\ MayStart("signIn", None)
  /\ u \notin sessions
  /\ sessions' = sessions \cup {u}
  /\ UNCHANGED <<member, sock, rooms, online, cache, reg, tasks, relayed>>

removeMember(t) ==
  /\ At(t, "removeMember")
  /\ member' = member \ {<<tasks[t].arg, tasks[t].user>>}
  /\ Await(t, "fetchSockets", {})
  /\ UNCHANGED <<sessions, sock, rooms, online, cache, reg, relayed>>

\* The sockets in the room when fetchSockets is called.
fetchSockets(t) ==
  /\ At(t, "fetchSockets")
  /\ Await(t, "evict", {s \in Sockets : tasks[t].arg \in rooms[s]})
  /\ UNCHANGED unchangedByStart

AfterEviction(t) == IF tasks[t].op = "deleteCrew" THEN Await(t, "deleteRows", {}) ELSE Done(t)

fetchSocketsTimesOut(t) ==
  /\ At(t, "evict") /\ scenario.timeouts
  /\ AfterEviction(t)
  /\ UNCHANGED unchangedByStart

\* Mutant: the sharing stamp is cleared and the room kept.
EvictedRooms_Kept(S, c) == rooms

EvictedRooms(S, c) == [s \in Sockets |-> IF s \in S THEN rooms[s] \ {c} ELSE rooms[s]]

\* evictUserFromCrewRoom ends any share of the user's sockets in the room, and keeps
\* data.crewId; evictAllFromCrewRoom takes every socket, and ends shares of this crew.
evict(t) ==
  LET q == tasks[t]
      all == q.op = "deleteCrew"
      S == {s \in q.got : Up(s) /\ (all \/ (sock[s].known /\ Owner[s] = q.user))}
  IN  /\ At(t, "evict")
      /\ sock' = [s \in Sockets |->
                    IF s \notin S THEN sock[s]
                    ELSE [sock[s] EXCEPT !.sharing = IF all /\ @ # q.arg THEN @ ELSE None,
                                         !.checked = FALSE, !.count = 0]]
      /\ rooms' = EvictedRooms(S, q.arg)
      /\ AfterEviction(t)
      /\ UNCHANGED <<member, sessions, online, cache, reg, relayed>>

\* The crew and, with it, its members: after the eviction.
deleteRows(t) ==
  /\ At(t, "deleteRows") /\ Done(t)
  /\ member' = {p \in member : p[1] # tasks[t].arg}
  /\ UNCHANGED <<sessions, sock, rooms, online, cache, reg, relayed>>

\* invalidateUserSessions and a password change: the sessions, then the user's sockets.
deleteSessions(t) ==
  /\ At(t, "deleteSessions")
  /\ sessions' = sessions \ {tasks[t].user}
  /\ Await(t, "disconnect", {})
  /\ UNCHANGED <<member, sock, rooms, online, cache, reg, relayed>>

\* The sockets whose socket.data names the user.
SocketsOf(u) == {s \in Sockets : Up(s) /\ sock[s].known /\ Owner[s] = u}

disconnectUserSockets(t) ==
  /\ At(t, "disconnect") /\ Done(t)
  /\ disconnectSocket(SocketsOf(tasks[t].user))
  /\ UNCHANGED <<member, sessions, relayed>>

-----------------------------------------------------------------------------
Step(t) ==
  \/ session(t) \/ refuse(t) \/ joinRoom(t) \/ setSocketPresence(t) \/ getMember(t)
  \/ enterCrew(t) \/ leaveCrew(t) \/ registerSharingSocket(t) \/ locationShare(t)
  \/ locationUpdate(t) \/ settleUpdate(t)
  \/ removeMember(t) \/ fetchSockets(t) \/ fetchSocketsTimesOut(t) \/ evict(t)
  \/ deleteRows(t) \/ deleteSessions(t) \/ disconnectUserSockets(t)

Next ==
  /\ \/ \E s \in Sockets : connect(s) \/ disconnect(s) \/ event(s) \/ leaveFestival(s)
     \/ \E s \in Sockets, c \in Crews : locationStop(s, c)
     \/ \E t \in Slots : Step(t)
     \/ request
     \/ \E c \in Crews, u \in Users : addMember(c, u)
     \/ \E u \in Users : signIn(u)
  /\ UNCHANGED scenario

Spec == Init /\ [][Next]_vars

-----------------------------------------------------------------------------
\* Every variable has its type.
TypeOK ==
  /\ member \subseteq Crews \X Users /\ sessions \subseteq Users
  /\ sock \in [Sockets -> [state : {"new", "up", "gone"}, known : BOOLEAN,
                          festival : Festivals \cup {None}, crew : Crews \cup {None},
                          sharing : Crews \cup {None}, checked : BOOLEAN,
                          count : 0..scenario.recheckEvery - 1]]
  /\ rooms \in [Sockets -> SUBSET (Crews \cup Festivals)]
  /\ online \subseteq Festivals \X Sockets /\ cache \subseteq Crews \X Users /\ reg \subseteq Sockets
  /\ \A t \in Slots : tasks[t].op \in TaskOps \cup {None} /\ tasks[t].at \in Steps \cup {None}
  /\ relayed \in [Crews \X Sockets -> 0..RelayLimit + 1]

\* No handler is in flight.
Quiet == \A t \in Slots : ~Active(t)

\* location:update rechecks the membership on the stream: whatever the order of removals,
\* evictions that time out, new shares and updates in flight, a socket of a removed member
\* relays boundedly many positions to the crew.
StreamIsCut == \A p \in DOMAIN relayed : relayed[p] <= RelayLimit

\* authenticateAndJoinRoom writes the presence entry after an await and leaveFestivalRealtime
\* removes it: a socket in a festival's room is on its presence list once its joins are answered.
RoomIsListed ==
  \A s \in Sockets, f \in Festivals :
    f \in rooms[s] /\ (\A t \in Slots : tasks[t].sock = s => tasks[t].op # "join:festival")
      => <<f, s>> \in online

\* Removals meet no handler in flight, fetchSockets answers, clients join a festival first.
Orderly ==
  /\ {"remove", "deleteCrew"} \cap scenario.ops \subseteq scenario.exclusive
  /\ scenario.festivalFirst /\ ~scenario.timeouts

\* evictUserFromCrewRoom and evictAllFromCrewRoom: no socket that names its user stays in the
\* room of a crew that user has left, where removals are orderly.
RemovedLeaveRoom ==
  Orderly /\ Quiet => \A s \in Sockets, c \in Crews :
                        c \in rooms[s] /\ sock[s].known => <<c, Owner[s]>> \in member

\* Nobody leaves a festival, and no removed member is added again.
Steady == {"leave:festival", "add"} \cap scenario.ops = {}

\* The gates of share and sync only look at socket.data.crewId: for a member it names the one
\* room the socket is in, so that the crew's broadcasts reach it; unless the crew is being
\* deleted.
GateMatchesRoom ==
  Steady /\ (\A t \in Slots : tasks[t].op # "deleteCrew") =>
    \A s \in Sockets :
      LET c == sock[s].crew
      IN  Up(s) /\ c # None /\ <<c, Owner[s]>> \in member => rooms[s] \cap Crews = {c}

=============================================================================
