--------------------------- MODULE CrewMembership ---------------------------
(***************************************************************************)
(* Crews, their owners and their members: the tables crews, crew_members   *)
(* and festival_profiles, and the API handlers that change them.           *)
(*                                                                         *)
(* A handler is a sequence of statements, each awaited: other handlers run *)
(* between any two of them.  A statement, or a transaction                 *)
(* (withTransaction), is one action; a handler is the list of its          *)
(* statements, and stops at the first check that fails.                    *)
(***************************************************************************)
EXTENDS Integers, FiniteSets, Sequences, SequencesExt

CONSTANTS
  Users,
  Festivals,
  Home,          \* the festival of the crew that exists at the start
  Scenarios,     \* instances: how the tables start and what is called, as Starts says
  MaxChoices,    \* the values of maxMembers a PUT asks for
  NewMax,        \* maxMembers of a crew that is created
  MaxCrews,      \* MAX_CREWS_PER_USER_PER_FESTIVAL
  MaxRequests,   \* bound: requests in a behaviour
  None

\* Crew 0 exists at the start; request r creates at most one crew, crew r.
Requests == 1..MaxRequests
Crews == 0..MaxRequests

Endpoints == {"create", "join", "adminAdd", "leave", "kick", "transfer", "update", "remove",
              "adminRemove", "adminDelete", "deleteUser", "reform"}

\* The statements of the handlers: the reads they check first.
Checks == {"getById", "hasProfile", "userExists", "notMember", "isMember", "isPlainMember",
           "isOwner", "withinLimit", "notFull"}

Statements ==
  Checks \cup {"addMember", "removeMember", "transferOwnership", "updateCrew", "deleteCrew",
              "persistCrew", "readBack", "sourceMembers", "targetProfiles", "findReformed", "reread",
              "readNew", "planRoster", "autoAdd", "deleteProfiles", "hardDelete"}

Results == {"ok", "refused", "error"}

Rows == [festival : Festivals, by : Users, max : Nat, from : Crews \cup {None}]

\* roster: the members of crew 0 in the order they joined, the first its owner; max: its
\* maxMembers; profiles: festival_profiles, as pairs <<user, festival>>; ops: the endpoints
\* that are called; into: the festivals that creations and reforms name; exclusive: the endpoints
\* served alone; leaving: the users whose profiles are deleted while they are members; requests
\* and inflight: bounds on requests, and on those served at once.
Starts(s) ==
  /\ s.roster \in Seq(Users) /\ s.roster # <<>> /\ IsInjective(s.roster)
  /\ s.max \in Nat \ {0}
  /\ s.profiles \subseteq Users \X Festivals
  /\ s.leaving \subseteq Users
  /\ s.ops \subseteq Endpoints /\ s.exclusive \subseteq s.ops /\ s.into \subseteq Festivals
  /\ s.requests \in Nat /\ s.inflight \in Nat

ASSUME CrewAssumption ==
  /\ IsFiniteSet(Users) /\ Home \in Festivals /\ \A s \in Scenarios : Starts(s)
  /\ NewMax \in Nat \ {0} /\ MaxChoices \subseteq Nat \ {0} /\ MaxCrews \in Nat
  /\ MaxRequests \in Nat
  /\ None \notin Users \cup Festivals \cup Crews /\ None \notin Rows
  /\ None \notin Endpoints \cup {"other"} \cup Statements \cup Results

VARIABLES
  scenario,  \* how the tables started and what is called: chosen at the start
  crews,     \* the rows of crews: [festival, by, max, from]
  joined,    \* crew_members: a crew's members, by joined_at
  owners,    \* those of them whose role is 'owner'
  profiles,  \* festival_profiles
  accounts,  \* users
  lapsed,    \* history: the profiles that went while a request was being served
  req        \* the requests: what was asked, the statement they are at, what they have read

vars == <<scenario, crews, joined, owners, profiles, accounts, lapsed, req>>
tables == <<crews, joined, owners, profiles, accounts>>

Row(f, u, m, src) == [festival |-> f, by |-> u, max |-> m, from |-> src]

Idle == [op |-> None, user |-> None, crew |-> 0, target |-> None, festival |-> None, max |-> 0,
         at |-> None, row |-> None, roster |-> <<>>, eligible |-> {}, new |-> None,
         slots |-> 0, result |-> None]

Init ==
  /\ scenario \in Scenarios
  /\ crews = [c \in Crews |-> IF c = 0 THEN Row(Home, scenario.roster[1], scenario.max, None) ELSE None]
  /\ joined = [c \in Crews |-> IF c = 0 THEN scenario.roster ELSE <<>>]
  /\ owners = [c \in Crews |-> IF c = 0 THEN {scenario.roster[1]} ELSE {}]
  /\ profiles = scenario.profiles /\ accounts = Users
  /\ lapsed = [r \in Requests |-> {}]
  /\ req = [r \in Requests |-> Idle]

-----------------------------------------------------------------------------
(* The handlers, as the statements they await.                             *)

create == <<"hasProfile", "withinLimit", "persistCrew", "readBack">>
join == <<"getById", "hasProfile", "notMember", "withinLimit", "notFull", "addMember">>
adminAdd == <<"getById", "userExists", "notMember", "notFull", "addMember">>
leave == <<"getById", "isPlainMember", "removeMember">>
kick == <<"getById", "isOwner", "isMember", "removeMember">>
transfer == <<"getById", "isOwner", "isMember", "transferOwnership">>
update == <<"getById", "isOwner", "updateCrew", "readBack">>
remove == <<"getById", "isOwner", "deleteCrew">>
adminRemove == <<"isMember", "removeMember">>
adminDelete == <<"getById", "deleteCrew">>
deleteUser == <<"userExists", "deleteProfiles", "hardDelete">>
reform == <<"getById", "isMember", "hasProfile", "sourceMembers", "targetProfiles",
            "findReformed", "persistCrew", "readNew", "planRoster", "autoAdd", "readBack">>

Handler ==
  [create |-> create, join |-> join, adminAdd |-> adminAdd, leave |-> leave, kick |-> kick,
   transfer |-> transfer, update |-> update, remove |-> remove, adminRemove |-> adminRemove,
   adminDelete |-> adminDelete, deleteUser |-> deleteUser, reform |-> reform]

\* The statement after s; None after the last one.
After(op, s) ==
  LET h == Handler[op]
      i == CHOOSE j \in DOMAIN h : h[j] = s
  IN  IF i = Len(h) THEN None ELSE h[i + 1]

Active(r) == req[r].at # None

\* Request r waits for statement s.
At(r, s) == req[r].at = s

\* Requests whose outcome matters to others afterwards; of an answered request, what they asked
\* and were answered is kept, and nothing else.
Remembered == {"reform", "adminRemove", "deleteUser"}

Answered(q, result) ==
  IF q.op \in Remembered
  THEN [Idle EXCEPT !.op = q.op, !.user = q.user, !.crew = q.crew, !.target = q.target,
                    !.festival = q.festival, !.new = q.new, !.result = result]
  ELSE [Idle EXCEPT !.op = "other"]

\* The handler goes on from statement s with q, the request and what it has read.
GoTo(r, s, q) ==
  req' = [req EXCEPT ![r] = IF s = None THEN Answered(q, "ok") ELSE [q EXCEPT !.at = s]]

Proceed(r, q) == GoTo(r, After(q.op, q.at), q)

\* It answers 4xx ("refused") or 500 ("error").
Answer(r, result) == req' = [req EXCEPT ![r] = Answered(req[r], result)]

-----------------------------------------------------------------------------
(* What the statements read.                                               *)

Members(c) == ToSet(joined[c])

\* Whose membership a handler adds, removes or checks: the caller's, or its target's.
Subject(q) == IF q.target = None THEN q.user ELSE q.target

FestivalOf(q) == IF q.op = "join" THEN q.row.festival ELSE q.festival

listByUserAndFestival(u, f) ==
  {c \in Crews : crews[c] # None /\ crews[c].festival = f /\ u \in Members(c)}

\* A crew of the requester's that was reformed from the source.
Reformed(q) ==
  {c \in listByUserAndFestival(q.user, q.festival) :
     crews[c].from = q.crew /\ crews[c].by = q.user}

\* The statement's rows satisfy the handler's condition.
Holds(s, q) ==
  \/ s = "getById" /\ crews[q.crew] # None
  \/ s = "hasProfile" /\ <<q.user, FestivalOf(q)>> \in profiles
  \/ s = "userExists" /\ q.target \in accounts
  \/ s = "notMember" /\ Subject(q) \notin Members(q.crew)
  \/ s = "isMember" /\ Subject(q) \in Members(q.crew)
  \/ s = "isPlainMember" /\ q.user \in Members(q.crew) \ owners[q.crew]
  \/ s = "isOwner" /\ q.user \in Members(q.crew) \cap owners[q.crew]
  \/ /\ s = "withinLimit"
     /\ Cardinality(listByUserAndFestival(q.user, FestivalOf(q))) < MaxCrews
  \/ s = "notFull" /\ Cardinality(Members(q.crew)) < q.row.max

\* A read the handler checks, and answers 4xx if the check fails.
check(r) ==
  /\ req[r].at \in Checks
  /\ IF Holds(req[r].at, req[r])
     THEN Proceed(r, IF At(r, "getById") THEN [req[r] EXCEPT !.row = crews[req[r].crew]]
                                         ELSE req[r])
     ELSE Answer(r, "refused")
  /\ UNCHANGED tables

-----------------------------------------------------------------------------
(* Changes to members and crews, in terms of the tables.                   *)

\* The foreign keys of crew_members.
CanInsert(c, u) == crews[c] # None /\ u \in accounts

\* Mutant: crew_members without its primary key.
Insert_Twice(c, u) == joined' = [joined EXCEPT ![c] = Append(@, u)]

\* ON CONFLICT (crew_id, user_id) DO NOTHING.
Insert(c, u) ==
  joined' = IF u \in Members(c) THEN joined ELSE [joined EXCEPT ![c] = Append(@, u)]

\* Mutant: the cap is only pre-checked.
addMember_Unlocked(r) ==
  /\ At(r, "addMember")
  /\ IF CanInsert(req[r].crew, Subject(req[r]))
     THEN Insert(req[r].crew, Subject(req[r])) /\ Proceed(r, req[r])
     ELSE Answer(r, "error") /\ UNCHANGED joined
  /\ UNCHANGED <<crews, owners, profiles, accounts>>

\* addMember with a cap: the count and the insert, with the crew's row locked; the cap is
\* the one read with the crew.
addMember(r) ==
  LET c == req[r].crew
      u == Subject(req[r])
      full == Cardinality(Members(c)) >= req[r].row.max
  IN  /\ At(r, "addMember")
      /\ \/ full /\ Answer(r, "refused") /\ UNCHANGED joined
         \/ ~full /\ CanInsert(c, u) /\ Insert(c, u) /\ Proceed(r, req[r])
         \/ ~full /\ ~CanInsert(c, u) /\ Answer(r, "error") /\ UNCHANGED joined
      /\ UNCHANGED <<crews, owners, profiles, accounts>>

removeMember(r) ==
  LET c == req[r].crew
      u == Subject(req[r])
  IN  /\ At(r, "removeMember")
      /\ joined' = [joined EXCEPT ![c] = RemoveFirst(@, u)]
      /\ owners' = [owners EXCEPT ![c] = @ \ {u}]
      /\ Proceed(r, req[r])
      /\ UNCHANGED <<crews, profiles, accounts>>

\* Two updates in a transaction; an update of a row that is gone changes nothing.
transferOwnership(r) ==
  LET c == req[r].crew
  IN  /\ At(r, "transferOwnership")
      /\ owners' = [owners EXCEPT ![c] = (@ \ {req[r].user}) \cup
                                           ({req[r].target} \cap Members(c))]
      /\ Proceed(r, req[r])
      /\ UNCHANGED <<crews, joined, profiles, accounts>>

\* maxMembers is written back as it was read when the PUT leaves it out (0).
updateCrew(r) ==
  LET c == req[r].crew
  IN  /\ At(r, "updateCrew")
      /\ crews' = IF crews[c] = None THEN crews
                  ELSE [crews EXCEPT ![c].max =
                          IF req[r].max = 0 THEN req[r].row.max ELSE req[r].max]
      /\ Proceed(r, [req[r] EXCEPT !.new = c])
      /\ UNCHANGED <<joined, owners, profiles, accounts>>

\* The crews left once those in gone are deleted: reformed_from is set to NULL in the rest.
Without(rows, gone) ==
  [c \in Crews |-> IF c \in gone \/ rows[c] = None THEN None
                   ELSE [rows[c] EXCEPT !.from = IF @ \in gone THEN None ELSE @]]

\* The members go with the crew: ON DELETE CASCADE.
Cascade(rows, gone) ==
  /\ crews' = Without(rows, gone)
  /\ joined' = [c \in Crews |-> IF c \in gone THEN <<>> ELSE joined[c]]
  /\ owners' = [c \in Crews |-> IF c \in gone THEN {} ELSE owners[c]]

deleteCrew(r) ==
  /\ At(r, "deleteCrew")
  /\ Cascade(crews, {req[r].crew})
  /\ Proceed(r, req[r])
  /\ UNCHANGED <<profiles, accounts>>

-----------------------------------------------------------------------------
(* A new crew: POST /crews and POST /crews/:crewId/reform.                 *)

\* crews_reform_idem_uidx.
ReformKeysUnique(rows) ==
  \A c, d \in Crews :
    c # d /\ rows[c] # None /\ rows[d] # None /\ rows[c].from # None =>
      ~ (rows[c].by = rows[d].by /\ rows[c].festival = rows[d].festival
         /\ rows[c].from = rows[d].from)

\* createWithOwner: the crew and its owner's membership, in a transaction.
createWithOwner(r, rows, u) ==
  /\ crews' = rows
  /\ joined' = [joined EXCEPT ![r] = <<u>>]
  /\ owners' = [owners EXCEPT ![r] = {u}]

Created(r) ==
  LET q == req[r]
  IN  [crews EXCEPT ![r] =
         IF q.op = "reform" THEN Row(q.festival, q.user, q.row.max, q.crew)
                            ELSE Row(q.festival, q.user, NewMax, None)]

\* The foreign keys of crews: the creator, and the crew it is reformed from.
CanCreate(q) == q.user \in accounts /\ (q.op = "reform" => crews[q.crew] # None)

\* Mutant: without migration 061.
persistCrew_NoIndex(r) ==
  /\ At(r, "persistCrew")
  /\ IF CanCreate(req[r])
     THEN /\ createWithOwner(r, Created(r), req[r].user)
          /\ Proceed(r, [req[r] EXCEPT !.new = r])
     ELSE Answer(r, "error") /\ UNCHANGED <<crews, joined, owners>>
  /\ UNCHANGED <<profiles, accounts>>

\* On a unique violation (23505) a reform reads the requester's crews again.
persistCrew(r) ==
  /\ At(r, "persistCrew")
  /\ \/ /\ CanCreate(req[r]) /\ ReformKeysUnique(Created(r))
        /\ createWithOwner(r, Created(r), req[r].user)
        /\ Proceed(r, [req[r] EXCEPT !.new = r])
     \/ /\ CanCreate(req[r]) /\ ~ReformKeysUnique(Created(r))
        /\ GoTo(r, "reread", req[r]) /\ UNCHANGED <<crews, joined, owners>>
     \/ ~CanCreate(req[r]) /\ Answer(r, "error") /\ UNCHANGED <<crews, joined, owners>>
  /\ UNCHANGED <<profiles, accounts>>

\* The handler answers with the crew as it is now, and 500 if it is gone.
readBack(r) ==
  /\ At(r, "readBack")
  /\ IF crews[req[r].new] # None THEN Proceed(r, req[r]) ELSE Answer(r, "error")
  /\ UNCHANGED tables

sourceMembers(r) ==
  /\ At(r, "sourceMembers")
  /\ Proceed(r, [req[r] EXCEPT !.roster = joined[req[r].crew]])
  /\ UNCHANGED tables

targetProfiles(r) ==
  /\ At(r, "targetProfiles")
  /\ Proceed(r, [req[r] EXCEPT !.eligible = {u \in Users : <<u, req[r].festival>> \in profiles}])
  /\ UNCHANGED tables

\* The crew the handler goes on with, and its member cap; the source's row is not used again.
Reuse(q, c) == [q EXCEPT !.new = c, !.slots = crews[c].max, !.row = None]

\* An earlier reform is reused; otherwise the per-festival limit applies.
findReformed(r) ==
  LET q == req[r]
      mine == listByUserAndFestival(q.user, q.festival)
  IN  /\ At(r, "findReformed")
      /\ \/ \E c \in Reformed(q) : GoTo(r, "planRoster", Reuse(q, c))
         \/ Reformed(q) = {} /\ Cardinality(mine) < MaxCrews /\ Proceed(r, q)
         \/ Reformed(q) = {} /\ Cardinality(mine) >= MaxCrews /\ Answer(r, "refused")
      /\ UNCHANGED tables

\* Mutant: the unique violation is not absorbed.
reread_Rethrows(r) == At(r, "reread") /\ Answer(r, "error") /\ UNCHANGED tables

\* After losing on the index: the winner, if it is among the requester's crews.
reread(r) ==
  LET q == req[r]
  IN  /\ At(r, "reread")
      /\ IF Reformed(q) # {} THEN \E c \in Reformed(q) : GoTo(r, "planRoster", Reuse(q, c))
                             ELSE Answer(r, "error")
      /\ UNCHANGED tables

readNew(r) ==
  /\ At(r, "readNew")
  /\ IF crews[req[r].new] # None THEN Proceed(r, Reuse(req[r], req[r].new))
                                 ELSE Answer(r, "error")
  /\ UNCHANGED tables

\* Mutant: prior members are added whether or not they have joined the festival.
planReformRoster_Everyone(source, requester, hasProfile, alreadyMember) ==
  {u \in ToSet(source) : u # requester /\ u \notin alreadyMember}

\* toAutoAdd, as a set: its order is the source's; the others are invited.
planReformRoster(source, requester, hasProfile, alreadyMember) ==
  {u \in ToSet(source) \cap hasProfile : u # requester /\ u \notin alreadyMember}

planRoster(r) ==
  LET q == req[r]
      existing == Members(q.new)
  IN  /\ At(r, "planRoster")
      /\ Proceed(r, [q EXCEPT !.eligible = planReformRoster(q.roster, q.user, @, existing),
                              !.slots = @ - Cardinality(existing)])
      /\ UNCHANGED tables

\* The first member of the source who is still to be added.
NextToAdd(q) == q.roster[Min({i \in DOMAIN q.roster : q.roster[i] \in q.eligible})]

\* One turn of the loop: addMember without a cap, its failure (a foreign key, the primary
\* key) swallowed.
autoAdd(r) ==
  LET q == req[r]
      c == q.new
      u == NextToAdd(q)
  IN  /\ At(r, "autoAdd")
      /\ IF q.slots <= 0 \/ q.eligible = {} THEN Proceed(r, q) /\ UNCHANGED joined
         ELSE IF CanInsert(c, u) /\ u \notin Members(c)
         THEN /\ joined' = [joined EXCEPT ![c] = Append(@, u)]
              /\ GoTo(r, "autoAdd", [q EXCEPT !.eligible = @ \ {u}, !.slots = @ - 1])
         ELSE GoTo(r, "autoAdd", [q EXCEPT !.eligible = @ \ {u}]) /\ UNCHANGED joined
      /\ UNCHANGED <<crews, owners, profiles, accounts>>

-----------------------------------------------------------------------------
(* DELETE /admin/users/:id.                                                *)

\* profiles.deleteByUserId, a statement of its own.
deleteProfiles(r) ==
  /\ At(r, "deleteProfiles")
  /\ profiles' = {p \in profiles : p[1] # req[r].target}
  /\ Proceed(r, req[r])
  /\ UNCHANGED <<crews, joined, owners, accounts>>

\* Mutant: the crews the user created are left to the members, without an heir.
hardDelete_NoHeir(r) ==
  LET u == req[r].target
      left == [c \in Crews |-> RemoveFirst(joined[c], u)]
      gone == {c \in Crews : crews[c] # None /\ crews[c].by = u /\ left[c] = <<>>}
  IN  /\ At(r, "hardDelete")
      /\ crews' = Without(crews, gone)
      /\ joined' = [c \in Crews |-> IF c \in gone THEN <<>> ELSE left[c]]
      /\ owners' = [c \in Crews |-> IF c \in gone THEN {} ELSE owners[c] \ {u}]
      /\ accounts' = accounts \ {u} /\ profiles' = {p \in profiles : p[1] # u}
      /\ Proceed(r, req[r])

\* users.hardDelete, a transaction: the memberships go; a crew the user created passes to
\* its longest-standing member, or goes when there is none.
hardDelete(r) ==
  LET u == req[r].target
      left == [c \in Crews |-> RemoveFirst(joined[c], u)]
      owned == {c \in Crews : crews[c] # None /\ crews[c].by = u}
      gone == {c \in owned : left[c] = <<>>}
      heirs == [c \in owned \ gone |-> left[c][1]]
      rows == Without([c \in Crews |-> IF c \in DOMAIN heirs
                                       THEN [crews[c] EXCEPT !.by = heirs[c]] ELSE crews[c]],
                      gone)
  IN  /\ At(r, "hardDelete")
      /\ IF ReformKeysUnique(rows)
         THEN /\ crews' = rows
              /\ joined' = [c \in Crews |-> IF c \in gone THEN <<>> ELSE left[c]]
              /\ owners' = [c \in Crews |->
                              IF c \in gone THEN {}
                              ELSE IF c \in DOMAIN heirs THEN (owners[c] \ {u}) \cup {heirs[c]}
                              ELSE owners[c] \ {u}]
              /\ accounts' = accounts \ {u} /\ profiles' = {p \in profiles : p[1] # u}
              /\ IF u \in accounts THEN Proceed(r, req[r]) ELSE Answer(r, "refused")
         ELSE Answer(r, "error") /\ UNCHANGED tables

-----------------------------------------------------------------------------

\* The endpoints that name another user, a festival or no crew, and those of admins, whose
\* identity plays no part.
Targeted == {"kick", "transfer", "adminAdd", "adminRemove", "deleteUser"}
FestivalNamed == {"create", "reform"}
Crewless == {"create", "deleteUser"}
AdminOps == {"adminAdd", "adminRemove", "adminDelete", "deleteUser"}

\* A request arrives, and passes userAuth (or adminAuth) and the schema.  Owners cannot
\* kick themselves or transfer to themselves (400).
start(r) ==
  /\ r <= scenario.requests
  /\ req[r] = Idle /\ \A s \in Requests : s < r => req[s] # Idle
  /\ Cardinality({s \in Requests : Active(s)}) < scenario.inflight
  /\ \A s \in Requests : Active(s) => req[s].op \notin scenario.exclusive
  /\ \E op \in scenario.ops, u, t \in accounts \cup {None}, c \in Crews,
        f \in scenario.into \cup {None}, m \in MaxChoices \cup {0} :
       /\ (u = None) <=> (op \in AdminOps)
       /\ (t # None) <=> (op \in Targeted)
       /\ (f # None) <=> (op \in FestivalNamed)
       /\ IF op \in Crewless THEN c = 0 ELSE crews[c] # None
       /\ op # "update" => m = 0
       /\ op \in scenario.exclusive => \A s \in Requests : ~Active(s)
       /\ op \in {"kick", "transfer"} => t # u
       /\ req' = [req EXCEPT ![r] =
                    [Idle EXCEPT !.op = op, !.user = u, !.crew = c, !.target = t,
                                 !.festival = f, !.max = m, !.at = Handler[op][1]]]
  /\ UNCHANGED tables

\* POST /profiles: a user joins a festival.
joinFestival(u, f) ==
  /\ u \in accounts /\ <<u, f>> \notin profiles
  /\ profiles' = profiles \cup {<<u, f>>}
  /\ UNCHANGED <<crews, joined, owners, accounts, req>>

\* DELETE /profiles/:id, an admin's, removes one profile; its user stays in the crews of the
\* festival.
deleteProfile(u, f) ==
  /\ u \in scenario.leaving /\ <<u, f>> \in profiles
  /\ profiles' = profiles \ {<<u, f>>}
  /\ UNCHANGED <<crews, joined, owners, accounts, req>>

\* DELETE /account is a soft delete: profiles.deleteByUserId, but no membership goes, and a later
\* login takes the deletion back, without the profiles.
softDelete(u) ==
  /\ u \in scenario.leaving \cap accounts
  /\ profiles' = {p \in profiles : p[1] # u}
  /\ UNCHANGED <<crews, joined, owners, accounts, req>>

Step(r) ==
  \/ check(r) \/ addMember(r) \/ removeMember(r) \/ transferOwnership(r) \/ updateCrew(r)
  \/ deleteCrew(r) \/ persistCrew(r) \/ readBack(r) \/ sourceMembers(r) \/ targetProfiles(r)
  \/ findReformed(r) \/ reread(r) \/ readNew(r) \/ planRoster(r) \/ autoAdd(r)
  \/ deleteProfiles(r) \/ hardDelete(r)

Next ==
  /\ \/ \E r \in Requests : start(r) \/ Step(r)
     \/ \E u \in Users, f \in Festivals : joinFestival(u, f) \/ deleteProfile(u, f)
     \/ \E u \in Users : softDelete(u)
  /\ lapsed' = [r \in Requests |->
                 IF Active(r) THEN lapsed[r] \cup (profiles \ profiles') ELSE {}]
  /\ UNCHANGED scenario

Spec == Init /\ [][Next]_vars

-----------------------------------------------------------------------------
(* Properties.                                                             *)

\* Every table row and every handler's local state has its type, and only members own.
TypeOK ==
  /\ crews \in [Crews -> Rows \cup {None}]
  /\ joined \in [Crews -> Seq(Users)]
  /\ owners \in [Crews -> SUBSET Users]
  /\ \A c \in Crews : owners[c] \subseteq Members(c) /\ IsInjective(joined[c])
  /\ profiles \subseteq Users \X Festivals /\ accounts \subseteq Users
  /\ lapsed \in [Requests -> SUBSET (Users \X Festivals)]
  /\ \A r \in Requests :
       /\ req[r].op \in scenario.ops \cup {None, "other"} /\ req[r].at \in Statements \cup {None}
       /\ req[r].crew \in Crews
       /\ req[r].new \in Crews \cup {None} /\ req[r].roster \in Seq(Users)
       /\ req[r].slots \in Int /\ req[r].result \in Results \cup {None}

\* A crew that exists has exactly one owner (transferOwnership: "Prevents inconsistent state
\* where both or neither are owner"), unless an admin has removed a member of it: that
\* endpoint does not ask whether it is the owner.
OneOwner ==
  \A c \in Crews :
    crews[c] # None =>
      \/ \E u \in Users : owners[c] = {u}
      \/ owners[c] = {} /\ \E r \in Requests : req[r].op = "adminRemove" /\ req[r].crew = c

\* No step that adds members leaves a crew with more of them than its member cap
\* (addMember: "the cap is enforced ATOMICALLY").
CapHolds ==
  [][\A c \in Crews : Len(joined'[c]) > Len(joined[c]) => Len(joined'[c]) <= crews'[c].max]_vars

\* Every reform of a crew by the same user into the same festival that succeeds returns the
\* same crew, as long as the crews it returned exist (POST /crews/:crewId/reform is
\* idempotent).
ReformIsIdempotent ==
  \A r, s \in Requests :
    LET q == req[r]
        p == req[s]
    IN  /\ q.op = "reform" /\ p.op = "reform" /\ q.result = "ok" /\ p.result = "ok"
        /\ q.user = p.user /\ q.crew = p.crew /\ q.festival = p.festival
        /\ crews[q.new] # None /\ crews[p.new] # None
        => q.new = p.new

\* Nobody is put into a crew of a festival they have not joined (reform: "everyone else ->
\* invited via the returned link, never silently added"), but by an admin, whose endpoint does not
\* ask: whoever becomes a member has a profile of the festival, or had one while the request that
\* adds them was being served.  A member whose profile is deleted later stays.
MembersHaveJoined ==
  [][\A c \in Crews : \A u \in ToSet(joined'[c]) \ Members(c) :
       \E r \in Requests :
         /\ req'[r] # req[r]
         /\ req[r].op = "adminAdd" \/ <<u, crews'[c].festival>> \in profiles \cup lapsed[r]]_vars

\* A reform fails only if its requester or the source is gone, or if the requester is no longer
\* in the crew made before, which is looked for among the requester's crews: whoever loses the
\* race on the index finds the winner's crew, as long as no crew is deleted meanwhile ("if a crew
\* already reformed FROM this source INTO this target by this requester exists, we return it").
ReformFindsExisting ==
  [][\A r \in Requests :
       LET q == req[r]
       IN  q.op = "reform" /\ q.result # "error" /\ req'[r].result = "error" =>
             \/ q.user \notin accounts \/ crews[q.crew] = None
             \/ \E c \in Crews :
                  /\ crews[c] # None /\ crews[c].festival = q.festival
                  /\ crews[c].by = q.user /\ crews[c].from = q.crew
                  /\ q.user \notin Members(c)]_vars
=============================================================================
