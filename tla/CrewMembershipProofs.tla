------------------------ MODULE CrewMembershipProofs ------------------------
(***************************************************************************)
(* Proofs about CrewMembership, for any users, festivals, scenarios and    *)
(* any number of requests served at once.                                  *)
(***************************************************************************)
EXTENDS CrewMembership, TLAPS, FiniteSetTheorems

-----------------------------------------------------------------------------
(* Sequences without repetitions: crew_members by joined_at.               *)

\* A set of numbers that is not empty has a least element.
LEMMA MinOf ==
  ASSUME NEW I, I \subseteq Nat, I # {}
  PROVE  Min(I) \in I
<1> DEFINE R == {ss \in Nat \X Nat : ss[1] < ss[2]}
<1>1. IsWellFoundedOn(R, Nat)
  BY NatLessThanWellFounded DEF OpToRel
<1>2. \E x \in I : \A y \in I : ~ (<<y, x>> \in R)
  <2> HIDE DEF R
  <2> QED
    BY <1>1, WFMin
<1>3. PICK x \in I : \A y \in I : ~ (<<y, x>> \in R)
  BY <1>2
<1>4. ASSUME NEW y \in I
      PROVE  x =< y
  <2>1. x \in Nat /\ y \in Nat /\ ~ (y < x)
    BY <1>3
  <2> QED
    BY <2>1
<1> QED
  BY <1>4 DEF Min

\* A roster: a sequence of users in which nobody comes twice.
Roster(s) == s \in Seq(Users) /\ IsInjective(s)

LEMMA AppendRoster ==
  ASSUME NEW s, Roster(s), NEW u \in Users, u \notin ToSet(s)
  PROVE  /\ Roster(Append(s, u)) /\ ToSet(Append(s, u)) = ToSet(s) \cup {u}
         /\ Len(Append(s, u)) = Len(s) + 1
<1> DEFINE t == Append(s, u)
<1>1. /\ s \in Seq(Users) /\ Len(s) \in Nat /\ DOMAIN s = 1..Len(s)
      /\ \A i, j \in DOMAIN s : s[i] = s[j] => i = j
  BY DEF Roster, IsInjective
<1>2. /\ t \in Seq(Users) /\ Len(t) = Len(s) + 1 /\ DOMAIN t = 1..Len(s) + 1
      /\ \A i \in 1..Len(s) : t[i] = s[i]
      /\ t[Len(s) + 1] = u
  BY <1>1
<1>3. \A i \in 1..Len(s) : s[i] # u
  BY <1>1 DEF ToSet
<1> HIDE DEF t
<1>4. IsInjective(t)
  BY <1>1, <1>2, <1>3 DEF IsInjective
<1>5. ToSet(t) = ToSet(s) \cup {u}
  BY <1>1, <1>2 DEF ToSet
<1> QED
  BY <1>2, <1>4, <1>5 DEF Roster, t

\* RemoveAt(s, m): what follows place m moves up by one.
LEMMA RemoveAtPlaces ==
  ASSUME NEW S, NEW s \in Seq(S), NEW m \in 1..Len(s)
  PROVE  /\ RemoveAt(s, m) \in Seq(S) /\ Len(RemoveAt(s, m)) = Len(s) - 1
         /\ \A i \in 1..Len(s) - 1 : RemoveAt(s, m)[i] = IF i < m THEN s[i] ELSE s[i + 1]
<1> DEFINE a == SubSeq(s, 1, m - 1)
<1> DEFINE b == SubSeq(s, m + 1, Len(s))
<1>0. Len(s) \in Nat /\ m \in Nat /\ 1 <= m /\ m <= Len(s)
  OBVIOUS
<1>1. a \in Seq(S) /\ Len(a) = m - 1 /\ \A i \in 1..m - 1 : a[i] = s[i]
  BY <1>0
<1>2. b \in Seq(S) /\ Len(b) = Len(s) - m /\ \A i \in 1..Len(s) - m : b[i] = s[m + i]
  BY <1>0
<1>3. RemoveAt(s, m) = a \o b
  BY DEF RemoveAt
<1> HIDE DEF a, b
<1>4. a \o b \in Seq(S) /\ Len(a \o b) = Len(s) - 1
  <2>0. a \in Seq(S) /\ b \in Seq(S)
    BY <1>1, <1>2
  <2>1. a \o b \in Seq(S) /\ Len(a \o b) = Len(a) + Len(b)
    BY <2>0
  <2> QED
    BY <1>0, <1>1, <1>2, <2>1
<1>5. ASSUME NEW i \in 1..Len(s) - 1
      PROVE  (a \o b)[i] = IF i < m THEN s[i] ELSE s[i + 1]
  <2>1. (a \o b)[i] = IF i <= Len(a) THEN a[i] ELSE b[i - Len(a)]
    BY <1>0, <1>1, <1>2
  <2>2. CASE i < m
    BY <1>0, <1>1, <2>1, <2>2
  <2>3. CASE ~(i < m)
    <3>1. i - Len(a) \in 1..Len(s) - m /\ m + (i - Len(a)) = i + 1
      BY <1>0, <1>1, <2>3
    <3> QED
      BY <1>0, <1>1, <1>2, <2>1, <2>3, <3>1
  <2> QED
    BY <2>2, <2>3
<1> QED
  BY <1>3, <1>4, <1>5

\* Removing a member leaves the others, in their order.
LEMMA RemoveRoster ==
  ASSUME NEW s, Roster(s), NEW u
  PROVE  /\ Roster(RemoveFirst(s, u)) /\ ToSet(RemoveFirst(s, u)) = ToSet(s) \ {u}
         /\ Len(RemoveFirst(s, u)) <= Len(s)
<1>1. /\ s \in Seq(Users) /\ Len(s) \in Nat /\ DOMAIN s = 1..Len(s)
      /\ \A i, j \in DOMAIN s : s[i] = s[j] => i = j
  BY DEF Roster, IsInjective
<1>2. CASE \E i \in 1..Len(s) : s[i] = u
  <2> DEFINE I == {i \in 1..Len(s) : s[i] = u}
  <2> DEFINE m == Min(I)
  <2>1. m \in 1..Len(s) /\ s[m] = u
    <3>1. I \subseteq Nat /\ I # {} /\ I \subseteq 1..Len(s)
      BY <1>2
    <3>2. m \in I
      <4> HIDE DEF I
      <4> QED
        BY <3>1, MinOf
    <3> QED
      BY <3>2
  <2>2. RemoveFirst(s, u) = RemoveAt(s, m)
    BY <1>2 DEF RemoveFirst, SelectInSeq
  <2> HIDE DEF I, m
  <2> DEFINE t == RemoveAt(s, m)
  <2>4. /\ t \in Seq(Users) /\ Len(t) = Len(s) - 1 /\ DOMAIN t = 1..Len(s) - 1
        /\ \A i \in 1..Len(s) - 1 : t[i] = IF i < m THEN s[i] ELSE s[i + 1]
    <3>0. s \in Seq(Users) /\ m \in 1..Len(s)
      BY <1>1, <2>1
    <3>1. /\ t \in Seq(Users) /\ Len(t) = Len(s) - 1
          /\ \A i \in 1..Len(s) - 1 : t[i] = IF i < m THEN s[i] ELSE s[i + 1]
      BY <3>0, RemoveAtPlaces
    <3> HIDE DEF t
    <3> QED
      BY <3>1
  <2>0. m \in Nat /\ 1 <= m /\ m <= Len(s)
    BY <1>1, <2>1
  <2> HIDE DEF t
  <2>5. IsInjective(t)
    <3> SUFFICES ASSUME NEW i \in 1..Len(s) - 1, NEW j \in 1..Len(s) - 1, t[i] = t[j]
                 PROVE  i = j
      BY <2>4 DEF IsInjective
    <3> DEFINE p == IF i < m THEN i ELSE i + 1
    <3> DEFINE q == IF j < m THEN j ELSE j + 1
    <3>1. p \in 1..Len(s) /\ q \in 1..Len(s) /\ (p = q => i = j)
      BY <1>1, <2>0
    <3>2. t[i] = s[p] /\ t[j] = s[q]
      BY <2>4
    <3> QED
      BY <1>1, <3>1, <3>2
  <2>6. ToSet(t) \subseteq ToSet(s) \ {u}
    <3> SUFFICES ASSUME NEW i \in 1..Len(s) - 1
                 PROVE  t[i] \in ToSet(s) /\ t[i] # u
      BY <2>4 DEF ToSet
    <3>1. PICK j \in 1..Len(s) : t[i] = s[j] /\ j # m
      <4>1. CASE i < m
        BY <1>1, <2>0, <2>4, <4>1
      <4>2. CASE ~(i < m)
        <5>1. i + 1 \in 1..Len(s) /\ i + 1 # m
          BY <1>1, <2>0, <4>2
        <5> QED
          BY <2>4, <4>2, <5>1
      <4> QED
        BY <4>1, <4>2
    <3> QED
      BY <1>1, <2>1, <3>1 DEF ToSet
  <2>7. ToSet(s) \ {u} \subseteq ToSet(t)
    <3>. SUFFICES ASSUME NEW j \in 1..Len(s), s[j] # u
                  PROVE  \E i \in 1..Len(s) - 1 : t[i] = s[j]
      <4>1. \A x \in ToSet(s) \ {u} : \E j \in 1..Len(s) : x = s[j] /\ s[j] # u
        BY <1>1 DEF ToSet
      <4>2. \A i \in 1..Len(s) - 1 : t[i] \in ToSet(t)
        BY <2>4 DEF ToSet
      <4> QED
        BY <4>1, <4>2
    <3>0. j \in Nat /\ 1 <= j /\ j <= Len(s) /\ j # m
      BY <1>1, <2>1
    <3>1. CASE j < m
      <4>1. j \in 1..Len(s) - 1
        BY <1>1, <2>0, <3>0, <3>1
      <4> QED
        BY <2>4, <3>1, <4>1
    <3>2. CASE j > m
      <4>1. j - 1 \in 1..Len(s) - 1 /\ ~(j - 1 < m) /\ (j - 1) + 1 = j
        BY <1>1, <2>0, <3>0, <3>2
      <4>2. t[j - 1] = s[(j - 1) + 1]
        BY <2>4, <4>1
      <4> QED
        BY <4>1, <4>2
    <3> QED
      BY <1>1, <2>0, <3>0, <3>1, <3>2
  <2> QED
    BY <1>1, <2>2, <2>4, <2>5, <2>6, <2>7 DEF Roster, t
<1>3. CASE ~ \E i \in 1..Len(s) : s[i] = u
  BY <1>1, <1>3 DEF RemoveFirst, ToSet, Roster
<1> QED
  BY <1>2, <1>3

\* A crew has as many members as its roster is long.
LEMMA RosterCount ==
  ASSUME NEW s, Roster(s)
  PROVE  IsFiniteSet(ToSet(s)) /\ Cardinality(ToSet(s)) = Len(s)
<1>1. /\ s \in Seq(Users) /\ Len(s) \in Nat /\ DOMAIN s = 1..Len(s)
      /\ \A i, j \in DOMAIN s : s[i] = s[j] => i = j
  BY DEF Roster, IsInjective
<1>2. s \in [1..Len(s) -> ToSet(s)]
  BY <1>1 DEF ToSet
<1>3. s \in Bijection(1..Len(s), ToSet(s))
  BY <1>1, <1>2 DEF Bijection, Injection, Surjection, IsInjective, ToSet
<1>4. ExistsBijection(1..Len(s), ToSet(s))
  BY <1>3 DEF ExistsBijection
<1>5. IsFiniteSet(1..Len(s)) /\ Cardinality(1..Len(s)) = Len(s)
  BY SMTT(60), <1>1, FS_Interval
<1> QED
  BY <1>4, <1>5, FS_Bijection

\* The longest-standing member is a member.
LEMMA HeadOfRoster ==
  ASSUME NEW s, Roster(s), s # <<>>
  PROVE  s[1] \in ToSet(s) /\ s[1] \in Users
BY DEF Roster, ToSet

-----------------------------------------------------------------------------
(* The statement after a statement.                                        *)

LEMMA AfterAt ==
  ASSUME NEW op, DOMAIN Handler[op] = 1..Len(Handler[op]), IsInjective(Handler[op]),
         NEW i \in 1..Len(Handler[op])
  PROVE  After(op, Handler[op][i]) = IF i = Len(Handler[op]) THEN None ELSE Handler[op][i + 1]
<1> DEFINE h == Handler[op]
<1> DEFINE k == CHOOSE j \in DOMAIN h : h[j] = h[i]
<1>1. i \in DOMAIN h /\ \A a, b \in DOMAIN h : h[a] = h[b] => a = b
  BY DEF IsInjective
<1>2. After(op, h[i]) = IF k = Len(h) THEN None ELSE h[k + 1]
  BY DEF After
<1> HIDE DEF h
<1>3. k \in DOMAIN h /\ h[k] = h[i]
  BY <1>1
<1>4. k = i
  BY <1>1, <1>3
<1> QED
  BY <1>2, <1>4 DEF h

LEMMA AfterCreate ==
  /\ After("create", "hasProfile") = "withinLimit"
  /\ After("create", "withinLimit") = "persistCrew" /\ After("create", "persistCrew") = "readBack"
  /\ After("create", "readBack") = None
<1>1. /\ create[1] = "hasProfile" /\ create[2] = "withinLimit" /\ create[3] = "persistCrew"
      /\ create[4] = "readBack"
  BY DEF create
<1>2. DOMAIN create = 1..4 /\ Len(create) = 4 /\ IsInjective(create)
  BY DEF create, IsInjective
<1>3. Handler["create"] = create
  BY DEF Handler
<1>4. \A i \in 1..4 : After("create", create[i]) = IF i = 4 THEN None ELSE create[i + 1]
  BY <1>2, <1>3, AfterAt
<1> QED
  BY <1>1, <1>4

LEMMA AfterJoin ==
  /\ After("join", "getById") = "hasProfile" /\ After("join", "hasProfile") = "notMember"
  /\ After("join", "notMember") = "withinLimit" /\ After("join", "withinLimit") = "notFull"
  /\ After("join", "notFull") = "addMember" /\ After("join", "addMember") = None
<1>1. /\ join[1] = "getById" /\ join[2] = "hasProfile" /\ join[3] = "notMember"
      /\ join[4] = "withinLimit" /\ join[5] = "notFull" /\ join[6] = "addMember"
  BY DEF join
<1>2. DOMAIN join = 1..6 /\ Len(join) = 6 /\ IsInjective(join)
  BY DEF join, IsInjective
<1>3. Handler["join"] = join
  BY DEF Handler
<1>4. \A i \in 1..6 : After("join", join[i]) = IF i = 6 THEN None ELSE join[i + 1]
  BY <1>2, <1>3, AfterAt
<1> QED
  BY <1>1, <1>4

LEMMA AfterAdminAdd ==
  /\ After("adminAdd", "getById") = "userExists" /\ After("adminAdd", "userExists") = "notMember"
  /\ After("adminAdd", "notMember") = "notFull" /\ After("adminAdd", "notFull") = "addMember"
  /\ After("adminAdd", "addMember") = None
<1>1. /\ adminAdd[1] = "getById" /\ adminAdd[2] = "userExists" /\ adminAdd[3] = "notMember"
      /\ adminAdd[4] = "notFull" /\ adminAdd[5] = "addMember"
  BY DEF adminAdd
<1>2. DOMAIN adminAdd = 1..5 /\ Len(adminAdd) = 5 /\ IsInjective(adminAdd)
  BY DEF adminAdd, IsInjective
<1>3. Handler["adminAdd"] = adminAdd
  BY DEF Handler
<1>4. \A i \in 1..5 : After("adminAdd", adminAdd[i]) = IF i = 5 THEN None ELSE adminAdd[i + 1]
  BY <1>2, <1>3, AfterAt
<1> QED
  BY <1>1, <1>4

LEMMA AfterLeave ==
  /\ After("leave", "getById") = "isPlainMember"
  /\ After("leave", "isPlainMember") = "removeMember" /\ After("leave", "removeMember") = None
<1>1. /\ leave[1] = "getById" /\ leave[2] = "isPlainMember" /\ leave[3] = "removeMember"
  BY DEF leave
<1>2. DOMAIN leave = 1..3 /\ Len(leave) = 3 /\ IsInjective(leave)
  BY DEF leave, IsInjective
<1>3. Handler["leave"] = leave
  BY DEF Handler
<1>4. \A i \in 1..3 : After("leave", leave[i]) = IF i = 3 THEN None ELSE leave[i + 1]
  BY <1>2, <1>3, AfterAt
<1> QED
  BY <1>1, <1>4

LEMMA AfterKick ==
  /\ After("kick", "getById") = "isOwner" /\ After("kick", "isOwner") = "isMember"
  /\ After("kick", "isMember") = "removeMember" /\ After("kick", "removeMember") = None
<1>1. /\ kick[1] = "getById" /\ kick[2] = "isOwner" /\ kick[3] = "isMember"
      /\ kick[4] = "removeMember"
  BY DEF kick
<1>2. DOMAIN kick = 1..4 /\ Len(kick) = 4 /\ IsInjective(kick)
  BY DEF kick, IsInjective
<1>3. Handler["kick"] = kick
  BY DEF Handler
<1>4. \A i \in 1..4 : After("kick", kick[i]) = IF i = 4 THEN None ELSE kick[i + 1]
  BY <1>2, <1>3, AfterAt
<1> QED
  BY <1>1, <1>4

LEMMA AfterTransfer ==
  /\ After("transfer", "getById") = "isOwner" /\ After("transfer", "isOwner") = "isMember"
  /\ After("transfer", "isMember") = "transferOwnership"
  /\ After("transfer", "transferOwnership") = None
<1>1. /\ transfer[1] = "getById" /\ transfer[2] = "isOwner" /\ transfer[3] = "isMember"
      /\ transfer[4] = "transferOwnership"
  BY DEF transfer
<1>2. DOMAIN transfer = 1..4 /\ Len(transfer) = 4 /\ IsInjective(transfer)
  BY DEF transfer, IsInjective
<1>3. Handler["transfer"] = transfer
  BY DEF Handler
<1>4. \A i \in 1..4 : After("transfer", transfer[i]) = IF i = 4 THEN None ELSE transfer[i + 1]
  BY <1>2, <1>3, AfterAt
<1> QED
  BY <1>1, <1>4

LEMMA AfterUpdate ==
  /\ After("update", "getById") = "isOwner" /\ After("update", "isOwner") = "updateCrew"
  /\ After("update", "updateCrew") = "readBack" /\ After("update", "readBack") = None
<1>1. /\ update[1] = "getById" /\ update[2] = "isOwner" /\ update[3] = "updateCrew"
      /\ update[4] = "readBack"
  BY DEF update
<1>2. DOMAIN update = 1..4 /\ Len(update) = 4 /\ IsInjective(update)
  BY DEF update, IsInjective
<1>3. Handler["update"] = update
  BY DEF Handler
<1>4. \A i \in 1..4 : After("update", update[i]) = IF i = 4 THEN None ELSE update[i + 1]
  BY <1>2, <1>3, AfterAt
<1> QED
  BY <1>1, <1>4

LEMMA AfterRemove ==
  /\ After("remove", "getById") = "isOwner" /\ After("remove", "isOwner") = "deleteCrew"
  /\ After("remove", "deleteCrew") = None
<1>1. /\ remove[1] = "getById" /\ remove[2] = "isOwner" /\ remove[3] = "deleteCrew"
  BY DEF remove
<1>2. DOMAIN remove = 1..3 /\ Len(remove) = 3 /\ IsInjective(remove)
  BY DEF remove, IsInjective
<1>3. Handler["remove"] = remove
  BY DEF Handler
<1>4. \A i \in 1..3 : After("remove", remove[i]) = IF i = 3 THEN None ELSE remove[i + 1]
  BY <1>2, <1>3, AfterAt
<1> QED
  BY <1>1, <1>4

LEMMA AfterAdminRemove ==
  /\ After("adminRemove", "isMember") = "removeMember"
  /\ After("adminRemove", "removeMember") = None
<1>1. /\ adminRemove[1] = "isMember" /\ adminRemove[2] = "removeMember"
  BY DEF adminRemove
<1>2. DOMAIN adminRemove = 1..2 /\ Len(adminRemove) = 2 /\ IsInjective(adminRemove)
  BY DEF adminRemove, IsInjective
<1>3. Handler["adminRemove"] = adminRemove
  BY DEF Handler
<1>4. \A i \in 1..2 : After("adminRemove", adminRemove[i]) = IF i = 2 THEN None ELSE adminRemove[i + 1]
  BY <1>2, <1>3, AfterAt
<1> QED
  BY <1>1, <1>4

LEMMA AfterAdminDelete ==
  /\ After("adminDelete", "getById") = "deleteCrew" /\ After("adminDelete", "deleteCrew") = None
<1>1. /\ adminDelete[1] = "getById" /\ adminDelete[2] = "deleteCrew"
  BY DEF adminDelete
<1>2. DOMAIN adminDelete = 1..2 /\ Len(adminDelete) = 2 /\ IsInjective(adminDelete)
  BY DEF adminDelete, IsInjective
<1>3. Handler["adminDelete"] = adminDelete
  BY DEF Handler
<1>4. \A i \in 1..2 : After("adminDelete", adminDelete[i]) = IF i = 2 THEN None ELSE adminDelete[i + 1]
  BY <1>2, <1>3, AfterAt
<1> QED
  BY <1>1, <1>4

LEMMA AfterDeleteUser ==
  /\ After("deleteUser", "userExists") = "deleteProfiles"
  /\ After("deleteUser", "deleteProfiles") = "hardDelete"
  /\ After("deleteUser", "hardDelete") = None
<1>1. /\ deleteUser[1] = "userExists" /\ deleteUser[2] = "deleteProfiles"
      /\ deleteUser[3] = "hardDelete"
  BY DEF deleteUser
<1>2. DOMAIN deleteUser = 1..3 /\ Len(deleteUser) = 3 /\ IsInjective(deleteUser)
  BY DEF deleteUser, IsInjective
<1>3. Handler["deleteUser"] = deleteUser
  BY DEF Handler
<1>4. \A i \in 1..3 : After("deleteUser", deleteUser[i]) = IF i = 3 THEN None ELSE deleteUser[i + 1]
  BY <1>2, <1>3, AfterAt
<1> QED
  BY <1>1, <1>4

LEMMA AfterReform ==
  /\ After("reform", "getById") = "isMember" /\ After("reform", "isMember") = "hasProfile"
  /\ After("reform", "hasProfile") = "sourceMembers"
  /\ After("reform", "sourceMembers") = "targetProfiles"
  /\ After("reform", "targetProfiles") = "findReformed"
  /\ After("reform", "findReformed") = "persistCrew" /\ After("reform", "persistCrew") = "readNew"
  /\ After("reform", "readNew") = "planRoster" /\ After("reform", "planRoster") = "autoAdd"
  /\ After("reform", "autoAdd") = "readBack" /\ After("reform", "readBack") = None
<1>1. /\ reform[1] = "getById" /\ reform[2] = "isMember" /\ reform[3] = "hasProfile"
      /\ reform[4] = "sourceMembers" /\ reform[5] = "targetProfiles" /\ reform[6] = "findReformed"
      /\ reform[7] = "persistCrew" /\ reform[8] = "readNew" /\ reform[9] = "planRoster"
      /\ reform[10] = "autoAdd" /\ reform[11] = "readBack"
  BY DEF reform
<1>2. DOMAIN reform = 1..11 /\ Len(reform) = 11 /\ IsInjective(reform)
  BY DEF reform, IsInjective
<1>3. Handler["reform"] = reform
  BY DEF Handler
<1>4. \A i \in 1..11 : After("reform", reform[i]) = IF i = 11 THEN None ELSE reform[i + 1]
  BY <1>2, <1>3, AfterAt
<1> QED
  BY <1>1, <1>4

\* The statements of an endpoint.
OnPath(op, s) ==
  \/ op = "create" /\ s \in {"hasProfile", "withinLimit", "persistCrew", "readBack"}
  \/ op = "join" /\ s \in {"getById", "hasProfile", "notMember", "withinLimit", "notFull",
                           "addMember"}
  \/ op = "adminAdd" /\ s \in {"getById", "userExists", "notMember", "notFull", "addMember"}
  \/ op = "leave" /\ s \in {"getById", "isPlainMember", "removeMember"}
  \/ op = "kick" /\ s \in {"getById", "isOwner", "isMember", "removeMember"}
  \/ op = "transfer" /\ s \in {"getById", "isOwner", "isMember", "transferOwnership"}
  \/ op = "update" /\ s \in {"getById", "isOwner", "updateCrew", "readBack"}
  \/ op = "remove" /\ s \in {"getById", "isOwner", "deleteCrew"}
  \/ op = "adminRemove" /\ s \in {"isMember", "removeMember"}
  \/ op = "adminDelete" /\ s \in {"getById", "deleteCrew"}
  \/ op = "deleteUser" /\ s \in {"userExists", "deleteProfiles", "hardDelete"}
  \/ /\ op = "reform"
     /\ s \in {"getById", "isMember", "hasProfile", "sourceMembers", "targetProfiles",
               "findReformed", "persistCrew", "reread", "readNew", "planRoster", "autoAdd",
               "readBack"}

\* Where the handler uses the crew's row, and the new crew's id; and where it may still create.
NeedsRow(op, s) ==
  IF op = "reform"
  THEN s \in {"isMember", "hasProfile", "sourceMembers", "targetProfiles", "findReformed",
              "persistCrew"}
  ELSE op \notin {"create", "adminRemove", "deleteUser"} /\ s # "getById"

NeedsNew(s) == s \in {"readNew", "planRoster", "autoAdd", "readBack"}

Creating(op, s) ==
  \/ op = "create" /\ s \in {"hasProfile", "withinLimit", "persistCrew"}
  \/ op = "reform" /\ s \in {"getById", "isMember", "hasProfile", "sourceMembers",
                             "targetProfiles", "findReformed", "persistCrew"}

\* What the next statement needs, its predecessor has read or created.
LEMMA AfterFacts ==
  ASSUME NEW op, NEW s, OnPath(op, s), s # "reread"
  PROVE  LET n == After(op, s)
         IN  IF n = None THEN op = "reform" => s = "readBack"
                         ELSE
                         /\ OnPath(op, n) /\ n \notin {"getById", "reread"}
                         /\ n = "autoAdd" => s = "planRoster"
                         /\ NeedsRow(op, n) => s = "getById" \/ NeedsRow(op, s)
                         /\ NeedsNew(n) => s \in {"persistCrew", "updateCrew"} \/ NeedsNew(s)
                         /\ Creating(op, n) => Creating(op, s) /\ s # "persistCrew"
<1>1. CASE op = "create"
  BY <1>1, AfterCreate DEF OnPath, NeedsRow, NeedsNew, Creating
<1>2. CASE op = "join"
  BY <1>2, AfterJoin DEF OnPath, NeedsRow, NeedsNew, Creating
<1>3. CASE op = "adminAdd"
  BY <1>3, AfterAdminAdd DEF OnPath, NeedsRow, NeedsNew, Creating
<1>4. CASE op = "leave"
  BY <1>4, AfterLeave DEF OnPath, NeedsRow, NeedsNew, Creating
<1>5. CASE op = "kick"
  BY <1>5, AfterKick DEF OnPath, NeedsRow, NeedsNew, Creating
<1>6. CASE op = "transfer"
  BY <1>6, AfterTransfer DEF OnPath, NeedsRow, NeedsNew, Creating
<1>7. CASE op = "update"
  BY <1>7, AfterUpdate DEF OnPath, NeedsRow, NeedsNew, Creating
<1>8. CASE op = "remove"
  BY <1>8, AfterRemove DEF OnPath, NeedsRow, NeedsNew, Creating
<1>9. CASE op = "adminRemove"
  BY <1>9, AfterAdminRemove DEF OnPath, NeedsRow, NeedsNew, Creating
<1>10. CASE op = "adminDelete"
  BY <1>10, AfterAdminDelete DEF OnPath, NeedsRow, NeedsNew, Creating
<1>11. CASE op = "deleteUser"
  BY <1>11, AfterDeleteUser DEF OnPath, NeedsRow, NeedsNew, Creating
<1>12. CASE op = "reform"
  <2>1. None \notin {"isMember", "hasProfile", "sourceMembers", "targetProfiles", "findReformed",
                    "persistCrew", "readNew", "planRoster", "autoAdd", "readBack"}
    BY CrewAssumption DEF Statements, Checks
  <2> QED
    BY <1>12, <2>1, AfterReform DEF OnPath, NeedsRow, NeedsNew, Creating
<1> QED
  BY <1>1, <1>2, <1>3, <1>4, <1>5, <1>6, <1>7, <1>8, <1>9, <1>10, <1>11, <1>12 DEF OnPath

\* The endpoints that have a statement.
LEMMA PathFacts ==
  ASSUME NEW op, NEW s, OnPath(op, s)
  PROVE  /\ op \in Endpoints /\ s \in Statements /\ op # None /\ s # None
         /\ s = "addMember" => op \in {"join", "adminAdd"}
         /\ s = "removeMember" => op \in {"leave", "kick", "adminRemove"}
         /\ s = "transferOwnership" => op = "transfer"
         /\ s = "updateCrew" => op = "update"
         /\ s = "persistCrew" => op \in {"create", "reform"}
         /\ s \in {"sourceMembers", "targetProfiles", "findReformed", "reread", "readNew",
                   "planRoster", "autoAdd"} => op = "reform"
         /\ s \in {"deleteProfiles", "hardDelete"} => op = "deleteUser"
         /\ s = "readBack" => op \in {"create", "update", "reform"}
         /\ s = "deleteCrew" => op \in {"remove", "adminDelete"}
<1>1. op \in Endpoints /\ s \in Statements
  BY DEF OnPath, Endpoints, Statements, Checks
<1>2. op # None /\ s # None
  BY <1>1, CrewAssumption
<1> QED
  BY <1>1, <1>2 DEF OnPath

-----------------------------------------------------------------------------
(* Types, and what a request has when it waits for a statement.            *)

ReqType ==
  [op : Endpoints \cup {None, "other"}, user : Users \cup {None}, crew : Crews,
   target : Users \cup {None}, festival : Festivals \cup {None}, max : Nat,
   at : Statements \cup {None}, row : Rows \cup {None}, roster : Seq(Users),
   eligible : SUBSET Users, new : Crews \cup {None}, slots : Int, result : Results \cup {None}]

\* What the endpoint was asked, as userAuth and the schemas let it through.
Asked(q) ==
  /\ IF q.op \in AdminOps THEN q.user = None ELSE q.user \in Users
  /\ IF q.op \in Targeted THEN q.target \in Users ELSE q.target = None
  /\ IF q.op \in FestivalNamed THEN q.festival \in Festivals ELSE q.festival = None

\* A request that is served: its endpoint, where it is, and what it has.
Served(q) ==
  q.at # None =>
    /\ OnPath(q.op, q.at) /\ Asked(q)
    /\ NeedsRow(q.op, q.at) => q.row \in Rows
    /\ NeedsNew(q.at) => q.new \in Crews

TablesType ==
  /\ crews \in [Crews -> Rows \cup {None}]
  /\ joined \in [Crews -> Seq(Users)] /\ \A c \in Crews : Roster(joined[c])
  /\ owners \in [Crews -> SUBSET Users] /\ \A c \in Crews : owners[c] \subseteq Members(c)
  /\ profiles \subseteq Users \X Festivals /\ accounts \subseteq Users

RequestsType ==
  /\ req \in [Requests -> ReqType]
  /\ \A r \in Requests : Served(req[r]) /\ req[r].op \in scenario.ops \cup {None, "other"}

TInv == scenario \in Scenarios /\ TablesType /\ RequestsType

\* What is kept of a request that was answered.
LEMMA AnsweredFields ==
  ASSUME NEW q \in ReqType, NEW v \in Results
  PROVE  LET n == Answered(q, v)
         IN  /\ n \in ReqType /\ n.at = None /\ n.row = None /\ n.roster = <<>> /\ n.eligible = {}
             /\ n.op \in {q.op, "other"} /\ (q.op \in Remembered => n.op = q.op)
             /\ n.op # "other" => /\ n.user = q.user /\ n.crew = q.crew /\ n.target = q.target
                                  /\ n.festival = q.festival /\ n.new = q.new /\ n.result = v
             /\ n.new \in {q.new, None} /\ n.crew \in {q.crew, 0}
<1>1. Idle \in ReqType /\ Idle.at = None /\ Idle.row = None /\ Idle.crew = 0 /\ Idle.new = None
      /\ Idle.roster = <<>> /\ Idle.eligible = {}
  BY CrewAssumption DEF Idle, ReqType, Crews
<1>2. CASE q.op \in Remembered
  BY ZenonT(60), <1>1, <1>2 DEF Answered, ReqType, Idle
<1>3. CASE q.op \notin Remembered
  <2>1. Answered(q, v) = [Idle EXCEPT !.op = "other"]
    BY <1>3 DEF Answered
  <2> QED
    BY <1>1, <1>3, <2>1 DEF ReqType, Idle
<1> QED
  BY <1>2, <1>3

\* The request that goes on from statement s with what it has read.
Moved(s, q) == IF s = None THEN Answered(q, "ok") ELSE [q EXCEPT !.at = s]

LEMMA GoToMoves ==
  ASSUME TInv, UNCHANGED scenario, NEW r \in Requests, NEW q \in ReqType, NEW s \in Statements \cup {None},
         q.op \in scenario.ops, GoTo(r, s, q),
         s # None => /\ OnPath(q.op, s) /\ Asked(q)
                     /\ NeedsRow(q.op, s) => q.row \in Rows
                     /\ NeedsNew(s) => q.new \in Crews
  PROVE  /\ RequestsType' /\ req'[r] = Moved(s, q)
         /\ \A t \in Requests \ {r} : req'[t] = req[t]
<1>1. req' = [req EXCEPT ![r] = Moved(s, q)] /\ req \in [Requests -> ReqType]
  BY DEF GoTo, Moved, TInv, RequestsType
<1>2. Moved(s, q) \in ReqType /\ Served(Moved(s, q)) /\ Moved(s, q).op \in scenario.ops \cup {None, "other"}
  <2>1. CASE s = None
    <3>1. /\ Answered(q, "ok") \in ReqType /\ Answered(q, "ok").at = None
          /\ Answered(q, "ok").op \in {q.op, "other"}
      BY AnsweredFields DEF Results
    <3> QED
      BY <2>1, <3>1 DEF Moved, Served
  <2>2. CASE s # None
    <3> DEFINE n == [q EXCEPT !.at = s]
    <3>1. n \in ReqType /\ n.at = s /\ n.op = q.op /\ n.row = q.row /\ n.new = q.new
          /\ n.user = q.user /\ n.target = q.target /\ n.festival = q.festival
      BY DEF ReqType
    <3>2. Moved(s, q) = n
      BY <2>2 DEF Moved
    <3> HIDE DEF n
    <3>3. Served(n)
      BY <2>2, <3>1 DEF Served, Asked
    <3> QED
      BY <3>1, <3>2, <3>3
  <2> QED
    BY <2>1, <2>2
<1>3. /\ req' \in [Requests -> ReqType] /\ req'[r] = Moved(s, q)
      /\ \A t \in Requests \ {r} : req'[t] = req[t]
  BY <1>1, <1>2
<1>4. RequestsType'
  <2>1. \A t \in Requests : Served(req[t]) /\ req[t].op \in scenario.ops \cup {None, "other"}
    BY DEF TInv, RequestsType
  <2>2. \A t \in Requests : Served(req'[t]) /\ req'[t].op \in scenario.ops \cup {None, "other"}
    BY <1>2, <1>3, <2>1
  <2> QED
    BY <1>3, <2>2 DEF RequestsType, Served, Asked
<1> QED
  BY <1>3, <1>4

LEMMA AnswerMoves ==
  ASSUME TInv, UNCHANGED scenario, NEW r \in Requests, NEW v \in Results, Answer(r, v)
  PROVE  /\ RequestsType' /\ req'[r] = Answered(req[r], v)
         /\ \A t \in Requests \ {r} : req'[t] = req[t]
<1> DEFINE n == Answered(req[r], v)
<1>1. req' = [req EXCEPT ![r] = n] /\ req \in [Requests -> ReqType]
  BY DEF Answer, TInv, RequestsType
<1>2. n \in ReqType /\ n.at = None /\ n.op \in {req[r].op, "other"}
  BY <1>1, AnsweredFields
<1> HIDE DEF n
<1>3. /\ req' \in [Requests -> ReqType] /\ req'[r] = n
      /\ \A t \in Requests \ {r} : req'[t] = req[t]
  BY <1>1, <1>2
<1>4. \A t \in Requests : Served(req[t]) /\ req[t].op \in scenario.ops \cup {None, "other"}
  BY DEF TInv, RequestsType
<1>5. Served(n) /\ n.op \in scenario.ops \cup {None, "other"}
  BY <1>2, <1>4 DEF Served
<1>6. \A t \in Requests : Served(req'[t]) /\ req'[t].op \in scenario.ops \cup {None, "other"}
  BY <1>3, <1>4, <1>5
<1>7. RequestsType'
  BY <1>3, <1>6 DEF RequestsType, Served, Asked
<1> QED
  BY <1>3, <1>7 DEF n

\* A request at a statement: what the invariant says of it.
LEMMA ServedFacts ==
  ASSUME TInv, NEW r \in Requests, req[r].at # None
  PROVE  /\ req[r] \in ReqType /\ req[r].op \in scenario.ops /\ req[r].op \in Endpoints
         /\ req[r].at \in Statements /\ OnPath(req[r].op, req[r].at) /\ Asked(req[r])
         /\ NeedsRow(req[r].op, req[r].at) => req[r].row \in Rows
         /\ NeedsNew(req[r].at) => req[r].new \in Crews
<1>1. /\ req[r] \in ReqType /\ Served(req[r]) /\ req[r].op \in scenario.ops \cup {None, "other"}
  BY DEF TInv, RequestsType
<1>2. OnPath(req[r].op, req[r].at)
  BY <1>1 DEF Served
<1>3. req[r].op \in Endpoints /\ req[r].at \in Statements /\ req[r].op # None /\ req[r].op # "other"
  BY <1>2, PathFacts DEF Endpoints
<1> QED
  BY <1>1, <1>2, <1>3 DEF Served

\* The request goes on to its next statement, with a record that has what q had, and a row or
\* a crew if that is what the statement gives.
LEMMA ProceedMoves ==
  ASSUME TInv, UNCHANGED scenario, NEW r \in Requests, req[r].at # None, req[r].at # "reread",
         NEW q \in ReqType, Proceed(r, q),
         q.op = req[r].op, q.at = req[r].at, q.user = req[r].user, q.target = req[r].target,
         q.festival = req[r].festival,
         q.row # req[r].row => q.row \in Rows \/ ~NeedsRow(q.op, After(q.op, q.at)),
         q.at = "getById" => q.row \in Rows,
         q.new = req[r].new \/ q.new \in Crews,
         q.at \in {"persistCrew", "updateCrew"} => q.new \in Crews
  PROVE  /\ RequestsType' /\ req'[r] = Moved(After(q.op, q.at), q)
         /\ \A t \in Requests \ {r} : req'[t] = req[t]
<1> DEFINE s == After(q.op, q.at)
<1>1. /\ q.op \in scenario.ops /\ OnPath(q.op, q.at) /\ Asked(q)
      /\ NeedsRow(q.op, q.at) => req[r].row \in Rows
      /\ NeedsNew(q.at) => req[r].new \in Crews
  BY ServedFacts DEF Asked
<1>2. s = None \/ /\ OnPath(q.op, s)
                  /\ NeedsRow(q.op, s) => q.at = "getById" \/ NeedsRow(q.op, q.at)
                  /\ NeedsNew(s) => q.at \in {"persistCrew", "updateCrew"} \/ NeedsNew(q.at)
  BY <1>1, AfterFacts
<1>3. s \in Statements \cup {None}
  BY <1>2, PathFacts
<1>4. GoTo(r, s, q)
  BY DEF Proceed
<1> HIDE DEF s
<1>5. s # None => /\ OnPath(q.op, s) /\ Asked(q)
                  /\ NeedsRow(q.op, s) => q.row \in Rows
                  /\ NeedsNew(s) => q.new \in Crews
  <2>1. NeedsRow(q.op, s) => q.row = req[r].row \/ q.row \in Rows
    BY DEF s
  <2> QED
    BY <1>1, <1>2, <2>1
<1>6. /\ RequestsType' /\ req'[r] = Moved(s, q)
      /\ \A t \in Requests \ {r} : req'[t] = req[t]
  BY <1>1, <1>3, <1>4, <1>5, GoToMoves
<1> QED
  BY <1>6 DEF s

-----------------------------------------------------------------------------
(* What each statement does to its request, and that types are kept.       *)

Others(r) == \A t \in Requests \ {r} : req'[t] = req[t]

LEMMA SameTables == TInv /\ UNCHANGED tables => TablesType'
BY DEF TInv, TablesType, tables, Roster, Members

LEMMA checkMoves ==
  ASSUME TInv, UNCHANGED scenario, NEW r \in Requests, check(r)
  PROVE  /\ RequestsType' /\ Others(r)
         /\ \/ req'[r] = Answered(req[r], "refused")
            \/ /\ Holds(req[r].at, req[r])
               /\ \E q \in ReqType :
                    /\ req'[r] = Moved(After(q.op, q.at), q)
                    /\ q = IF req[r].at = "getById" THEN [req[r] EXCEPT !.row = crews[req[r].crew]]
                                                    ELSE req[r]
                    /\ q.at = "getById" => q.row \in Rows
<1>0. req[r].at \in Checks /\ req[r].at # None /\ req[r].at # "reread"
      /\ req[r].at \notin {"persistCrew", "updateCrew"}
  BY CrewAssumption DEF check, Statements, Checks
<1>1. req[r] \in ReqType
  BY <1>0, ServedFacts
<1>2. CASE Holds(req[r].at, req[r])
  <2> DEFINE q == IF req[r].at = "getById" THEN [req[r] EXCEPT !.row = crews[req[r].crew]] ELSE req[r]
  <2>1. req[r].at = "getById" => crews[req[r].crew] \in Rows
    <3>1. req[r].crew \in Crews
      BY <1>1 DEF ReqType
    <3> QED
      BY <1>2, <3>1 DEF Holds, TInv, TablesType
  <2>2. /\ q \in ReqType /\ q.op = req[r].op /\ q.at = req[r].at /\ q.user = req[r].user
        /\ q.target = req[r].target /\ q.festival = req[r].festival /\ q.new = req[r].new
        /\ (q.row # req[r].row => q.row \in Rows) /\ (q.at = "getById" => q.row \in Rows)
    <3>1. CASE req[r].at = "getById"
      BY <1>1, <2>1, <3>1 DEF ReqType
    <3>2. CASE req[r].at # "getById"
      BY <1>1, <3>2
    <3> QED
      BY <3>1, <3>2
  <2>3. Proceed(r, q)
    BY <1>2 DEF check, At
  <2> HIDE DEF q
  <2>4. RequestsType' /\ req'[r] = Moved(After(q.op, q.at), q) /\ Others(r)
    BY <1>0, <2>2, <2>3, ProceedMoves DEF Others
  <2> QED
    BY <1>2, <2>2, <2>4 DEF q
<1>3. CASE ~Holds(req[r].at, req[r])
  BY <1>3, AnswerMoves DEF check, Others, Results
<1> QED
  BY <1>2, <1>3

\* A statement that changes the request's own record only in what it has read.
LEMMA ReadMoves ==
  ASSUME TInv, UNCHANGED scenario, NEW r \in Requests, req[r].at # None, req[r].at # "reread",
         req[r].at \notin {"getById", "persistCrew", "updateCrew"},
         NEW q \in ReqType, Proceed(r, q),
         q.op = req[r].op, q.at = req[r].at, q.user = req[r].user, q.target = req[r].target,
         q.festival = req[r].festival, q.new = req[r].new, q.row = req[r].row
  PROVE  /\ RequestsType' /\ Others(r) /\ req'[r] = Moved(After(req[r].op, req[r].at), q)
<1>1. RequestsType' /\ req'[r] = Moved(After(q.op, q.at), q) /\ Others(r)
  BY ProceedMoves DEF Others
<1> QED
  BY <1>1

\* A statement after which the handler goes on as it was.
LEMMA SameMoves ==
  ASSUME TInv, UNCHANGED scenario, NEW r \in Requests, req[r].at # None, req[r].at # "reread",
         req[r].at \notin {"getById", "persistCrew", "updateCrew"}, Proceed(r, req[r])
  PROVE  /\ RequestsType' /\ Others(r) /\ req'[r] = Moved(After(req[r].op, req[r].at), req[r])
BY ServedFacts, ProceedMoves DEF Others

\* Whom a membership statement is about.
LEMMA SubjectIsUser ==
  ASSUME TInv, NEW r \in Requests, req[r].at # None, req[r].op \in {"join", "adminAdd", "leave", "kick", "adminRemove"}
  PROVE  Subject(req[r]) \in Users /\ req[r].crew \in Crews
<1>1. Asked(req[r]) /\ req[r] \in ReqType
  BY ServedFacts
<1> QED
  BY <1>1, CrewAssumption DEF Asked, Subject, AdminOps, Targeted, ReqType

\* User u becomes a member of crew c, or nobody does.
Adds(c, u) ==
  \/ UNCHANGED joined
  \/ u \notin Members(c) /\ joined' = [joined EXCEPT ![c] = Append(@, u)]

LEMMA InsertType ==
  ASSUME TablesType, NEW c \in Crews, NEW u \in Users, Adds(c, u),
         UNCHANGED <<crews, owners, profiles, accounts>>
  PROVE  TablesType'
<1>1. CASE joined' = joined
  BY <1>1 DEF TablesType, Roster, Members
<1>2. CASE u \notin Members(c) /\ joined' = [joined EXCEPT ![c] = Append(@, u)]
  <2>1. Roster(joined[c]) /\ joined \in [Crews -> Seq(Users)]
    BY DEF TablesType
  <2>2. /\ Roster(Append(joined[c], u))
        /\ ToSet(Append(joined[c], u)) = Members(c) \cup {u}
    BY <1>2, <2>1, AppendRoster DEF Members
  <2>3. \A d \in Crews : joined'[d] = IF d = c THEN Append(joined[c], u) ELSE joined[d]
    BY <1>2, <2>1
  <2>4. joined' \in [Crews -> Seq(Users)]
    BY <1>2, <2>1, <2>2 DEF Roster
  <2>5. \A d \in Crews : Roster(joined'[d])
    BY <2>2, <2>3 DEF TablesType
  <2>6. \A d \in Crews : owners'[d] \subseteq Members(d)'
    BY <2>2, <2>3 DEF TablesType, Members
  <2> QED
    BY <2>4, <2>5, <2>6 DEF TablesType, Roster
<1> QED
  BY <1>1, <1>2 DEF Adds

LEMMA addMemberMoves ==
  ASSUME TInv, UNCHANGED scenario, NEW r \in Requests, addMember(r)
  PROVE  /\ RequestsType' /\ Others(r) /\ TablesType'
         /\ req'[r] \in {Moved(After(req[r].op, "addMember"), req[r]), Answered(req[r], "refused"),
                         Answered(req[r], "error")}
<1>0. req[r].at = "addMember" /\ req[r].at # None
  BY CrewAssumption DEF addMember, At, Statements
<1>1. req[r].op \in {"join", "adminAdd"}
  BY <1>0, ServedFacts, PathFacts
<1>2. Subject(req[r]) \in Users /\ req[r].crew \in Crews
  BY <1>0, <1>1, SubjectIsUser
<1>3. \/ Answer(r, "refused") /\ UNCHANGED joined
      \/ Insert(req[r].crew, Subject(req[r])) /\ Proceed(r, req[r])
      \/ Answer(r, "error") /\ UNCHANGED joined
  BY DEF addMember
<1>4. TablesType'
  <2>1. UNCHANGED <<crews, owners, profiles, accounts>>
    BY DEF addMember
  <2>2. Adds(req[r].crew, Subject(req[r]))
    BY <1>3 DEF Insert, Adds
  <2>3. TablesType
    BY DEF TInv
  <2> QED
    BY <1>2, <2>1, <2>2, <2>3, InsertType
<1>5. /\ RequestsType' /\ Others(r)
      /\ req'[r] \in {Moved(After(req[r].op, "addMember"), req[r]), Answered(req[r], "refused"),
                      Answered(req[r], "error")}
  BY <1>0, <1>3, SameMoves, AnswerMoves DEF Others, Results
<1> QED
  BY <1>4, <1>5

LEMMA removeMemberMoves ==
  ASSUME TInv, UNCHANGED scenario, NEW r \in Requests, removeMember(r)
  PROVE  /\ RequestsType' /\ Others(r) /\ TablesType'
         /\ req'[r] = Moved(After(req[r].op, "removeMember"), req[r])
<1>0. req[r].at = "removeMember" /\ req[r].at # None
  BY CrewAssumption DEF removeMember, At, Statements
<1>1. req[r].op \in {"leave", "kick", "adminRemove"}
  BY <1>0, ServedFacts, PathFacts
<1>2. req[r].crew \in Crews
  BY <1>0, <1>1, SubjectIsUser
<1> DEFINE c == req[r].crew
<1> DEFINE u == Subject(req[r])
<1>3. /\ joined' = [joined EXCEPT ![c] = RemoveFirst(@, u)] /\ owners' = [owners EXCEPT ![c] = @ \ {u}]
      /\ Proceed(r, req[r]) /\ UNCHANGED <<crews, profiles, accounts>>
  BY DEF removeMember
<1>4. TablesType'
  <2>1. /\ joined \in [Crews -> Seq(Users)] /\ \A d \in Crews : Roster(joined[d])
        /\ owners \in [Crews -> SUBSET Users] /\ \A d \in Crews : owners[d] \subseteq ToSet(joined[d])
    BY DEF TInv, TablesType, Members
  <2>2. Roster(RemoveFirst(joined[c], u)) /\ ToSet(RemoveFirst(joined[c], u)) = ToSet(joined[c]) \ {u}
    BY <1>2, <2>1, RemoveRoster
  <2>3. /\ \A d \in Crews : joined'[d] = IF d = c THEN RemoveFirst(joined[c], u) ELSE joined[d]
        /\ \A d \in Crews : owners'[d] = IF d = c THEN owners[c] \ {u} ELSE owners[d]
    BY <1>3, <2>1
  <2>4. joined' \in [Crews -> Seq(Users)] /\ owners' \in [Crews -> SUBSET Users]
    BY <1>3, <2>1, <2>2 DEF Roster
  <2>5. \A d \in Crews : Roster(joined'[d])
    BY <2>1, <2>2, <2>3
  <2>6. \A d \in Crews : owners'[d] \subseteq ToSet(joined'[d])
    BY <2>1, <2>2, <2>3
  <2> QED
    BY <1>3, <2>4, <2>5, <2>6 DEF TInv, TablesType, Roster, Members
<1>5. RequestsType' /\ Others(r) /\ req'[r] = Moved(After(req[r].op, "removeMember"), req[r])
  BY <1>0, <1>3, SameMoves
<1> QED
  BY <1>4, <1>5

LEMMA transferMoves ==
  ASSUME TInv, UNCHANGED scenario, NEW r \in Requests, transferOwnership(r)
  PROVE  /\ RequestsType' /\ Others(r) /\ TablesType'
         /\ req'[r] = Moved(After(req[r].op, "transferOwnership"), req[r])
<1>0. req[r].at = "transferOwnership" /\ req[r].at # None
  BY CrewAssumption DEF transferOwnership, At, Statements
<1>1. Proceed(r, req[r]) /\ UNCHANGED <<crews, joined, profiles, accounts>>
  BY DEF transferOwnership
<1>2. TablesType'
  <2>1. /\ owners \in [Crews -> SUBSET Users] /\ \A d \in Crews : owners[d] \subseteq Members(d)
        /\ joined \in [Crews -> Seq(Users)] /\ \A d \in Crews : Members(d) \subseteq Users
    BY DEF TInv, TablesType, Members, ToSet
  <2>2. owners' = [owners EXCEPT ![req[r].crew] =
                     (@ \ {req[r].user}) \cup ({req[r].target} \cap Members(req[r].crew))]
    BY DEF transferOwnership
  <2>3. owners' \in [Crews -> SUBSET Users] /\ \A d \in Crews : owners'[d] \subseteq Members(d)
    BY <2>1, <2>2
  <2> QED
    BY <1>1, <2>3 DEF TInv, TablesType, Roster, Members
<1>3. RequestsType' /\ Others(r) /\ req'[r] = Moved(After(req[r].op, "transferOwnership"), req[r])
  BY <1>0, <1>1, SameMoves
<1> QED
  BY <1>2, <1>3

LEMMA updateMoves ==
  ASSUME TInv, UNCHANGED scenario, NEW r \in Requests, updateCrew(r)
  PROVE  /\ RequestsType' /\ Others(r) /\ TablesType' /\ req[r].op = "update"
         /\ req'[r] = Moved("readBack", [req[r] EXCEPT !.new = req[r].crew])
<1>0. req[r].at = "updateCrew" /\ req[r].at # None
  BY CrewAssumption DEF updateCrew, At, Statements
<1>1. req[r].op = "update" /\ req[r] \in ReqType /\ req[r].row \in Rows
  <2>1. req[r].op = "update"
    BY <1>0, ServedFacts, PathFacts
  <2> QED
    BY <1>0, <2>1, ServedFacts DEF NeedsRow
<1> DEFINE c == req[r].crew
<1> DEFINE q == [req[r] EXCEPT !.new = c]
<1> DEFINE m == IF req[r].max = 0 THEN req[r].row.max ELSE req[r].max
<1>2. c \in Crews /\ m \in Nat
  BY <1>1 DEF ReqType, Rows
<1>3. TablesType'
  <2>1. crews' = IF crews[c] = None THEN crews ELSE [crews EXCEPT ![c].max = m]
    BY DEF updateCrew
  <2>2. crews \in [Crews -> Rows \cup {None}]
    BY DEF TInv, TablesType
  <2>3. crews[c] # None => [crews[c] EXCEPT !.max = m] \in Rows
    BY <1>2, <2>2 DEF Rows
  <2> HIDE DEF m
  <2>4. crews' \in [Crews -> Rows \cup {None}]
    BY <1>2, <2>1, <2>2, <2>3
  <2> QED
    BY <2>4 DEF updateCrew, TInv, TablesType, Roster, Members
<1>4. /\ q \in ReqType /\ q.op = req[r].op /\ q.at = req[r].at /\ q.user = req[r].user
      /\ q.target = req[r].target /\ q.festival = req[r].festival /\ q.new \in Crews /\ q.row = req[r].row
  BY <1>1, <1>2 DEF ReqType
<1>5. Proceed(r, q)
  BY DEF updateCrew
<1> HIDE DEF q
<1>6. RequestsType' /\ req'[r] = Moved(After(q.op, q.at), q) /\ Others(r)
  BY <1>0, <1>4, <1>5, ProceedMoves DEF Others
<1> QED
  BY <1>0, <1>1, <1>3, <1>4, <1>6, AfterUpdate DEF q

\* Deleting crews: the others keep their rows, but for the crew they were reformed from.
LEMMA WithoutRows ==
  ASSUME NEW rows \in [Crews -> Rows \cup {None}], NEW gone
  PROVE  /\ Without(rows, gone) \in [Crews -> Rows \cup {None}]
         /\ \A c \in Crews :
              IF c \in gone \/ rows[c] = None THEN Without(rows, gone)[c] = None
              ELSE LET row == Without(rows, gone)[c]
                   IN  /\ row \in Rows /\ row # None /\ row.festival = rows[c].festival
                       /\ row.by = rows[c].by /\ row.max = rows[c].max
                       /\ row.from = IF rows[c].from \in gone THEN None ELSE rows[c].from
<1> SUFFICES ASSUME NEW c \in Crews
             PROVE  IF c \in gone \/ rows[c] = None THEN Without(rows, gone)[c] = None
                    ELSE LET row == Without(rows, gone)[c]
                         IN  /\ row \in Rows /\ row # None /\ row.festival = rows[c].festival
                             /\ row.by = rows[c].by /\ row.max = rows[c].max
                             /\ row.from = IF rows[c].from \in gone THEN None ELSE rows[c].from
  <2>1. DOMAIN Without(rows, gone) = Crews /\ Without(rows, gone) = [c \in Crews |-> Without(rows, gone)[c]]
    BY DEF Without
  <2> QED
    BY <2>1
<1>1. CASE c \in gone \/ rows[c] = None
  BY <1>1 DEF Without
<1>2. CASE c \notin gone /\ rows[c] # None
  <2> DEFINE f == IF rows[c].from \in gone THEN None ELSE rows[c].from
  <2> DEFINE n == [rows[c] EXCEPT !.from = f]
  <2>1. Without(rows, gone)[c] = n
    BY <1>2 DEF Without
  <2>2. rows[c] \in Rows
    BY <1>2
  <2>3. f \in Crews \cup {None}
    BY <2>2 DEF Rows
  <2> HIDE DEF f
  <2>4. /\ n \in Rows /\ n.festival = rows[c].festival /\ n.by = rows[c].by /\ n.max = rows[c].max
        /\ n.from = f
    BY <2>2, <2>3 DEF Rows
  <2>5. n # None
    BY <2>4, CrewAssumption
  <2> QED
    BY <1>2, <2>1, <2>4, <2>5 DEF f
<1> QED
  BY <1>1, <1>2

LEMMA deleteMoves ==
  ASSUME TInv, UNCHANGED scenario, NEW r \in Requests, deleteCrew(r)
  PROVE  /\ RequestsType' /\ Others(r) /\ TablesType'
         /\ req'[r] = Moved(After(req[r].op, "deleteCrew"), req[r])
<1>0. req[r].at = "deleteCrew" /\ req[r].at # None
  BY CrewAssumption DEF deleteCrew, At, Statements
<1> DEFINE c == req[r].crew
<1>1. /\ crews' = Without(crews, {c})
      /\ joined' = [d \in Crews |-> IF d \in {c} THEN <<>> ELSE joined[d]]
      /\ owners' = [d \in Crews |-> IF d \in {c} THEN {} ELSE owners[d]]
      /\ Proceed(r, req[r]) /\ UNCHANGED <<profiles, accounts>>
  BY DEF deleteCrew, Cascade
<1>2. TablesType'
  <2>1. /\ crews \in [Crews -> Rows \cup {None}] /\ joined \in [Crews -> Seq(Users)]
        /\ owners \in [Crews -> SUBSET Users]
        /\ \A d \in Crews : Roster(joined[d]) /\ owners[d] \subseteq ToSet(joined[d])
    BY DEF TInv, TablesType, Members
  <2>2. crews' \in [Crews -> Rows \cup {None}]
    BY <1>1, <2>1, WithoutRows
  <2>3. Roster(<<>>)
    BY DEF Roster, IsInjective
  <2>4. joined' \in [Crews -> Seq(Users)] /\ \A d \in Crews : Roster(joined'[d])
    BY <1>1, <2>1, <2>3 DEF Roster
  <2>5. owners' \in [Crews -> SUBSET Users] /\ \A d \in Crews : owners'[d] \subseteq ToSet(joined'[d])
    BY <1>1, <2>1
  <2> QED
    BY <1>1, <2>2, <2>4, <2>5 DEF TInv, TablesType, Roster, Members
<1>3. RequestsType' /\ Others(r) /\ req'[r] = Moved(After(req[r].op, "deleteCrew"), req[r])
  BY <1>0, <1>1, SameMoves
<1> QED
  BY <1>2, <1>3

\* The index on the reforms says nothing of a crew that is not one.
LEMMA CreateKeepsKeys ==
  ASSUME TInv, ReformKeysUnique(crews), NEW r \in Requests, req[r] \in ReqType, req[r].op = "create"
  PROVE  ReformKeysUnique(Created(r))
<1> DEFINE row == Row(req[r].festival, req[r].user, NewMax, None)
<1>1. /\ \A c \in Crews : Created(r)[c] = IF c = r THEN row ELSE crews[c]
      /\ row.from = None
  BY DEF Created, Row, TInv, TablesType
<1> HIDE DEF row
<1> QED
  BY <1>1 DEF ReformKeysUnique

LEMMA NewRoster ==
  ASSUME NEW u \in Users
  PROVE  Roster(<<u>>) /\ ToSet(<<u>>) = {u}
BY DEF Roster, IsInjective, ToSet

\* The row of a crew that is created.
NewRow(q) == IF q.op = "reform" THEN Row(q.festival, q.user, q.row.max, q.crew)
                                ELSE Row(q.festival, q.user, NewMax, None)

LEMMA NewRowType ==
  ASSUME TInv, NEW r \in Requests, req[r].at = "persistCrew"
  PROVE  /\ NewRow(req[r]) \in Rows /\ NewRow(req[r]) # None /\ req[r].user \in Users
         /\ NewRow(req[r]).festival = req[r].festival /\ NewRow(req[r]).by = req[r].user
         /\ NewRow(req[r]).from = IF req[r].op = "reform" THEN req[r].crew ELSE None
         /\ req[r].op \in {"create", "reform"} /\ req[r] \in ReqType
<1>0. "persistCrew" # None
  BY CrewAssumption DEF Statements
<1>1. req[r] \in ReqType /\ req[r].op \in {"create", "reform"} /\ Asked(req[r])
      /\ (req[r].op = "reform" => req[r].row \in Rows)
  BY <1>0, ServedFacts, PathFacts DEF NeedsRow
<1>2. req[r].user \in Users /\ req[r].festival \in Festivals /\ req[r].crew \in Crews
  BY <1>1 DEF Asked, AdminOps, FestivalNamed, ReqType
<1>3. CASE req[r].op = "reform"
  BY <1>1, <1>2, <1>3, CrewAssumption DEF NewRow, Row, Rows
<1>4. CASE req[r].op = "create"
  BY <1>1, <1>2, <1>4, CrewAssumption DEF NewRow, Row, Rows
<1> QED
  BY <1>1, <1>2, <1>3, <1>4

LEMMA persistCrewMoves ==
  ASSUME TInv, ReformKeysUnique(crews), UNCHANGED scenario, NEW r \in Requests, persistCrew(r)
  PROVE  /\ RequestsType' /\ Others(r) /\ TablesType' /\ UNCHANGED <<profiles, accounts>>
         /\ \/ /\ CanCreate(req[r]) /\ ReformKeysUnique(crews')
               /\ crews' = [crews EXCEPT ![r] = NewRow(req[r])]
               /\ joined' = [joined EXCEPT ![r] = <<req[r].user>>]
               /\ owners' = [owners EXCEPT ![r] = {req[r].user}]
               /\ req'[r] = Moved(After(req[r].op, "persistCrew"), [req[r] EXCEPT !.new = r])
            \/ /\ UNCHANGED <<crews, joined, owners>>
               /\ \/ req[r].op = "reform" /\ req'[r] = [req[r] EXCEPT !.at = "reread"]
                  \/ req'[r] = Answered(req[r], "error")
<1>0. req[r].at = "persistCrew" /\ req[r].at # None /\ "reread" # None
  BY CrewAssumption DEF persistCrew, At, Statements
<1>1. /\ NewRow(req[r]) \in Rows /\ req[r].user \in Users /\ req[r].op \in {"create", "reform"}
      /\ req[r] \in ReqType
  BY <1>0, NewRowType
<1>2. r \in Crews /\ UNCHANGED <<profiles, accounts>>
  BY CrewAssumption DEF persistCrew, Requests, Crews
<1>3. Created(r) = [crews EXCEPT ![r] = NewRow(req[r])]
  BY DEF Created, NewRow
<1>4. CASE CanCreate(req[r]) /\ ReformKeysUnique(Created(r)) /\ createWithOwner(r, Created(r), req[r].user)
           /\ Proceed(r, [req[r] EXCEPT !.new = r])
  <2> DEFINE q == [req[r] EXCEPT !.new = r]
  <2>1. /\ crews' = [crews EXCEPT ![r] = NewRow(req[r])] /\ ReformKeysUnique(crews')
        /\ joined' = [joined EXCEPT ![r] = <<req[r].user>>]
        /\ owners' = [owners EXCEPT ![r] = {req[r].user}]
    BY <1>3, <1>4 DEF createWithOwner
  <2>2. Roster(<<req[r].user>>) /\ ToSet(<<req[r].user>>) = {req[r].user}
    BY <1>1, NewRoster
  <2>3. TablesType'
    <3>1. /\ crews \in [Crews -> Rows \cup {None}] /\ joined \in [Crews -> Seq(Users)]
          /\ owners \in [Crews -> SUBSET Users]
          /\ \A d \in Crews : Roster(joined[d]) /\ owners[d] \subseteq ToSet(joined[d])
      BY DEF TInv, TablesType, Members
    <3>2. crews' \in [Crews -> Rows \cup {None}]
      BY <1>1, <1>2, <2>1, <3>1
    <3>3. joined' \in [Crews -> Seq(Users)] /\ \A d \in Crews : Roster(joined'[d])
      BY <1>2, <2>1, <2>2, <3>1 DEF Roster
    <3>4. owners' \in [Crews -> SUBSET Users] /\ \A d \in Crews : owners'[d] \subseteq ToSet(joined'[d])
      BY <1>1, <1>2, <2>1, <2>2, <3>1
    <3> QED
      BY <1>2, <3>2, <3>3, <3>4 DEF TInv, TablesType, Roster, Members
  <2>4. /\ q \in ReqType /\ q.op = req[r].op /\ q.at = req[r].at /\ q.user = req[r].user
        /\ q.target = req[r].target /\ q.festival = req[r].festival /\ q.new \in Crews /\ q.row = req[r].row
    BY <1>1, <1>2 DEF ReqType
  <2> HIDE DEF q
  <2>5. RequestsType' /\ req'[r] = Moved(After(q.op, q.at), q) /\ Others(r)
    BY <1>0, <1>4, <2>4, ProceedMoves DEF Others, q
  <2> QED
    BY <1>0, <1>2, <1>4, <2>1, <2>3, <2>4, <2>5 DEF q
<1>5. CASE GoTo(r, "reread", req[r]) /\ ~ReformKeysUnique(Created(r)) /\ UNCHANGED <<crews, joined, owners>>
  <2>1. req[r].op = "reform"
    BY <1>1, <1>5, CreateKeepsKeys
  <2>2. OnPath("reform", "reread") /\ ~NeedsRow("reform", "reread") /\ ~NeedsNew("reread")
        /\ "reread" \in Statements
    BY DEF OnPath, NeedsRow, NeedsNew, Statements
  <2>3. req[r].op \in scenario.ops /\ Asked(req[r])
    BY <1>0, ServedFacts
  <2>4. RequestsType' /\ req'[r] = Moved("reread", req[r]) /\ Others(r)
    BY <1>1, <1>5, <2>1, <2>2, <2>3, GoToMoves DEF Others
  <2>5. TablesType'
    BY <1>2, <1>5, SameTables DEF tables
  <2> QED
    BY <1>0, <1>2, <1>5, <2>1, <2>4, <2>5 DEF Moved
<1>6. CASE Answer(r, "error") /\ UNCHANGED <<crews, joined, owners>>
  <2>1. TablesType'
    BY <1>2, <1>6, SameTables DEF tables
  <2> QED
    BY <1>2, <1>6, <2>1, AnswerMoves DEF Others, Results
<1> QED
  BY <1>4, <1>5, <1>6 DEF persistCrew

LEMMA readBackMoves ==
  ASSUME TInv, UNCHANGED scenario, NEW r \in Requests, readBack(r)
  PROVE  /\ RequestsType' /\ Others(r) /\ UNCHANGED tables
         /\ req[r].at = "readBack" /\ req[r].new \in Crews
         /\ req'[r] \in {Answered(req[r], "ok"), Answered(req[r], "error")}
<1>0. /\ req[r].at = "readBack" /\ req[r].at # None /\ req[r].at # "reread"
      /\ req[r].at \notin {"getById", "persistCrew", "updateCrew"}
  BY CrewAssumption DEF readBack, At, Statements
<1>1. req[r].new \in Crews /\ req[r].op \in {"create", "update", "reform"}
  BY <1>0, ServedFacts, PathFacts DEF NeedsNew
<1>2. After(req[r].op, req[r].at) = None
  BY <1>0, <1>1, AfterCreate, AfterUpdate, AfterReform
<1>3. UNCHANGED tables
  BY DEF readBack
<1>4. CASE Proceed(r, req[r])
  <2>1. RequestsType' /\ Others(r) /\ req'[r] = Moved(After(req[r].op, req[r].at), req[r])
    BY <1>0, <1>4, SameMoves
  <2> QED
    BY <1>0, <1>1, <1>2, <1>3, <2>1 DEF Moved
<1>5. CASE Answer(r, "error")
  BY <1>0, <1>1, <1>3, <1>5, AnswerMoves DEF Others, Results
<1> QED
  BY <1>4, <1>5 DEF readBack

\* The reads of a reform.
LEMMA sourceMembersMoves ==
  ASSUME TInv, UNCHANGED scenario, NEW r \in Requests, sourceMembers(r)
  PROVE  /\ RequestsType' /\ Others(r) /\ UNCHANGED tables
         /\ req[r].at = "sourceMembers" /\ req[r].op = "reform"
         /\ req'[r] = Moved("targetProfiles", [req[r] EXCEPT !.roster = joined[req[r].crew]])
<1>0. /\ req[r].at = "sourceMembers" /\ req[r].at # None /\ req[r].at # "reread"
      /\ req[r].at \notin {"getById", "persistCrew", "updateCrew"} /\ "targetProfiles" # None
  BY CrewAssumption DEF sourceMembers, At, Statements
<1>1. req[r].op = "reform" /\ req[r] \in ReqType
  BY <1>0, ServedFacts, PathFacts
<1>2. joined[req[r].crew] \in Seq(Users)
  BY <1>1 DEF ReqType, TInv, TablesType
<1> DEFINE q == [req[r] EXCEPT !.roster = joined[req[r].crew]]
<1>3. Proceed(r, q) /\ UNCHANGED tables
  BY DEF sourceMembers
<1>4. /\ q \in ReqType /\ q.op = req[r].op /\ q.at = req[r].at /\ q.user = req[r].user
      /\ q.target = req[r].target /\ q.festival = req[r].festival /\ q.new = req[r].new
      /\ q.row = req[r].row
  BY ZenonT(60), <1>1, <1>2 DEF ReqType
<1> HIDE DEF q
<1>6. RequestsType' /\ Others(r) /\ req'[r] = Moved(After(req[r].op, req[r].at), q)
  BY <1>0, <1>3, <1>4, ReadMoves
<1> QED
  BY <1>0, <1>1, <1>3, <1>6, AfterReform DEF q

\* Who has joined a festival.
HaveJoined(f) == {u \in Users : <<u, f>> \in profiles}

LEMMA targetProfilesMoves ==
  ASSUME TInv, UNCHANGED scenario, NEW r \in Requests, targetProfiles(r)
  PROVE  /\ RequestsType' /\ Others(r) /\ UNCHANGED tables
         /\ req[r].at = "targetProfiles" /\ req[r].op = "reform"
         /\ req'[r] = Moved("findReformed",
                            [req[r] EXCEPT !.eligible = HaveJoined(req[r].festival)])
<1>0. /\ req[r].at = "targetProfiles" /\ req[r].at # None /\ req[r].at # "reread"
      /\ req[r].at \notin {"getById", "persistCrew", "updateCrew"} /\ "findReformed" # None
  BY CrewAssumption DEF targetProfiles, At, Statements
<1>1. req[r].op = "reform" /\ req[r] \in ReqType
  BY <1>0, ServedFacts, PathFacts
<1> DEFINE q == [req[r] EXCEPT !.eligible = HaveJoined(req[r].festival)]
<1>2. HaveJoined(req[r].festival) \in SUBSET Users
  BY DEF HaveJoined
<1>3. Proceed(r, q) /\ UNCHANGED tables
  BY DEF targetProfiles, HaveJoined
<1>4. /\ q \in ReqType /\ q.op = req[r].op /\ q.at = req[r].at /\ q.user = req[r].user
      /\ q.target = req[r].target /\ q.festival = req[r].festival /\ q.new = req[r].new
      /\ q.row = req[r].row
  BY <1>1, <1>2 DEF ReqType
<1> HIDE DEF q
<1>6. RequestsType' /\ Others(r) /\ req'[r] = Moved(After(req[r].op, req[r].at), q)
  BY <1>0, <1>3, <1>4, ReadMoves
<1>7. req'[r] = Moved("findReformed", q)
  BY <1>0, <1>1, <1>6, AfterReform
<1> QED
  BY <1>0, <1>1, <1>3, <1>6, <1>7 DEF q

\* A reform goes on with a crew that exists.
LEMMA ReuseMoves ==
  ASSUME TInv, UNCHANGED scenario, NEW r \in Requests, req[r].at # None, req[r].op = "reform",
         NEW c \in Crews, crews[c] # None, GoTo(r, "planRoster", Reuse(req[r], c))
  PROVE  /\ RequestsType' /\ Others(r)
         /\ req'[r] = [Reuse(req[r], c) EXCEPT !.at = "planRoster"]
<1>0. "planRoster" # None
  BY CrewAssumption DEF Statements
<1>1. req[r] \in ReqType /\ req[r].op \in scenario.ops /\ Asked(req[r])
  BY ServedFacts
<1> DEFINE q == Reuse(req[r], c)
<1>2. /\ q \in ReqType /\ q.op = req[r].op /\ q.user = req[r].user
      /\ q.target = req[r].target /\ q.festival = req[r].festival /\ q.new = c
  <2>1. crews[c].max \in Int
    BY DEF TInv, TablesType, Rows
  <2> QED
    BY <1>1, <2>1 DEF Reuse, ReqType
<1> HIDE DEF q
<1>3. /\ OnPath("reform", "planRoster") /\ ~NeedsRow("reform", "planRoster") /\ "planRoster" \in Statements
  BY DEF OnPath, NeedsRow, Statements
<1>4. Asked(q)
  BY <1>1, <1>2 DEF Asked
<1>5. RequestsType' /\ req'[r] = Moved("planRoster", q) /\ Others(r)
  BY <1>1, <1>2, <1>3, <1>4, GoToMoves DEF Others, q
<1> QED
  BY <1>0, <1>5 DEF Moved, q

LEMMA findReformedMoves ==
  ASSUME TInv, UNCHANGED scenario, NEW r \in Requests, findReformed(r)
  PROVE  /\ RequestsType' /\ Others(r) /\ UNCHANGED tables
         /\ req[r].at = "findReformed" /\ req[r].op = "reform"
         /\ \/ \E c \in Reformed(req[r]) : req'[r] = [Reuse(req[r], c) EXCEPT !.at = "planRoster"]
            \/ req'[r] = [req[r] EXCEPT !.at = "persistCrew"]
            \/ req'[r] = Answered(req[r], "refused")
<1>0. /\ req[r].at = "findReformed" /\ req[r].at # None /\ req[r].at # "reread"
      /\ req[r].at \notin {"getById", "persistCrew", "updateCrew"} /\ "persistCrew" # None
  BY CrewAssumption DEF findReformed, At, Statements
<1>1. req[r].op = "reform" /\ req[r] \in ReqType
  BY <1>0, ServedFacts, PathFacts
<1>2. UNCHANGED tables
  BY DEF findReformed
<1>3. ASSUME NEW c \in Reformed(req[r]), GoTo(r, "planRoster", Reuse(req[r], c))
      PROVE  RequestsType' /\ Others(r) /\ req'[r] = [Reuse(req[r], c) EXCEPT !.at = "planRoster"]
  <2>1. c \in Crews /\ crews[c] # None
    BY DEF Reformed, listByUserAndFestival
  <2> QED
    BY <1>0, <1>1, <1>3, <2>1, ReuseMoves
<1>4. CASE Proceed(r, req[r])
  <2>1. RequestsType' /\ Others(r) /\ req'[r] = Moved(After(req[r].op, req[r].at), req[r])
    BY <1>0, <1>4, SameMoves
  <2> QED
    BY <1>0, <1>1, <1>2, <2>1, AfterReform DEF Moved
<1>5. CASE Answer(r, "refused")
  BY <1>0, <1>1, <1>2, <1>5, AnswerMoves DEF Others, Results
<1> QED
  BY <1>0, <1>1, <1>2, <1>3, <1>4, <1>5 DEF findReformed

LEMMA rereadMoves ==
  ASSUME TInv, UNCHANGED scenario, NEW r \in Requests, reread(r)
  PROVE  /\ RequestsType' /\ Others(r) /\ UNCHANGED tables
         /\ req[r].at = "reread" /\ req[r].op = "reform"
         /\ \/ \E c \in Reformed(req[r]) : req'[r] = [Reuse(req[r], c) EXCEPT !.at = "planRoster"]
            \/ req'[r] = Answered(req[r], "error")
<1>0. req[r].at = "reread" /\ req[r].at # None
  BY CrewAssumption DEF reread, At, Statements
<1>1. req[r].op = "reform" /\ req[r] \in ReqType
  BY <1>0, ServedFacts, PathFacts
<1>2. UNCHANGED tables
  BY DEF reread
<1>3. ASSUME NEW c \in Reformed(req[r]), GoTo(r, "planRoster", Reuse(req[r], c))
      PROVE  RequestsType' /\ Others(r) /\ req'[r] = [Reuse(req[r], c) EXCEPT !.at = "planRoster"]
  <2>1. c \in Crews /\ crews[c] # None
    BY DEF Reformed, listByUserAndFestival
  <2> QED
    BY <1>0, <1>1, <1>3, <2>1, ReuseMoves
<1>4. CASE Answer(r, "error")
  BY <1>0, <1>1, <1>2, <1>4, AnswerMoves DEF Others, Results
<1> QED
  BY <1>0, <1>1, <1>2, <1>3, <1>4 DEF reread

LEMMA readNewMoves ==
  ASSUME TInv, UNCHANGED scenario, NEW r \in Requests, readNew(r)
  PROVE  /\ RequestsType' /\ Others(r) /\ UNCHANGED tables
         /\ req[r].at = "readNew" /\ req[r].op = "reform"
         /\ req'[r] \in {[Reuse(req[r], req[r].new) EXCEPT !.at = "planRoster"],
                         Answered(req[r], "error")}
<1>0. req[r].at = "readNew" /\ req[r].at # None
  BY CrewAssumption DEF readNew, At, Statements
<1>1. req[r].op = "reform" /\ req[r] \in ReqType /\ req[r].new \in Crews
  BY <1>0, ServedFacts, PathFacts DEF NeedsNew
<1>2. UNCHANGED tables
  BY DEF readNew
<1>3. CASE crews[req[r].new] # None /\ Proceed(r, Reuse(req[r], req[r].new))
  <2>1. Reuse(req[r], req[r].new).op = "reform" /\ Reuse(req[r], req[r].new).at = "readNew"
    BY <1>0, <1>1 DEF Reuse, ReqType
  <2>2. GoTo(r, "planRoster", Reuse(req[r], req[r].new))
    BY <1>3, <2>1, AfterReform DEF Proceed
  <2> QED
    BY <1>0, <1>1, <1>2, <1>3, <2>2, ReuseMoves
<1>4. CASE Answer(r, "error")
  BY <1>0, <1>1, <1>2, <1>4, AnswerMoves DEF Others, Results
<1> QED
  BY <1>0, <1>1, <1>2, <1>3, <1>4 DEF readNew

LEMMA planRosterMoves ==
  ASSUME TInv, UNCHANGED scenario, NEW r \in Requests, planRoster(r)
  PROVE  /\ RequestsType' /\ Others(r) /\ UNCHANGED tables
         /\ req[r].at = "planRoster" /\ req[r].op = "reform"
         /\ \E e \in SUBSET Users, n \in Int :
              /\ e \subseteq ToSet(req[r].roster) \cap req[r].eligible
              /\ req'[r] = Moved("autoAdd", [req[r] EXCEPT !.eligible = e, !.slots = n])
<1>0. /\ req[r].at = "planRoster" /\ req[r].at # None /\ req[r].at # "reread"
      /\ req[r].at \notin {"getById", "persistCrew", "updateCrew"}
  BY CrewAssumption DEF planRoster, At, Statements
<1>1. req[r].op = "reform" /\ req[r] \in ReqType /\ req[r].new \in Crews
  BY <1>0, ServedFacts, PathFacts DEF NeedsNew
<1> DEFINE e == planReformRoster(req[r].roster, req[r].user, req[r].eligible, Members(req[r].new))
<1> DEFINE n == req[r].slots - Cardinality(Members(req[r].new))
<1> DEFINE q == [req[r] EXCEPT !.eligible = e, !.slots = n]
<1>2. e \subseteq ToSet(req[r].roster) \cap req[r].eligible /\ e \in SUBSET Users
  <2>1. req[r].eligible \subseteq Users
    BY <1>1 DEF ReqType
  <2> QED
    BY <2>1 DEF planReformRoster
<1>3. n \in Int
  <2>1. Roster(joined[req[r].new]) /\ req[r].slots \in Int
    BY <1>1 DEF TInv, TablesType, ReqType
  <2>2. Cardinality(Members(req[r].new)) = Len(joined[req[r].new]) /\ Len(joined[req[r].new]) \in Nat
    BY <2>1, RosterCount DEF Members, Roster
  <2> QED
    BY <2>1, <2>2
<1>4. Proceed(r, q) /\ UNCHANGED tables
  BY <1>1 DEF planRoster, ReqType
<1> HIDE DEF e, n
<1>5. /\ q \in ReqType /\ q.op = req[r].op /\ q.at = req[r].at /\ q.user = req[r].user
      /\ q.target = req[r].target /\ q.festival = req[r].festival /\ q.new = req[r].new
      /\ q.row = req[r].row
  BY <1>1, <1>2, <1>3 DEF ReqType
<1> HIDE DEF q
<1>6. RequestsType' /\ Others(r) /\ req'[r] = Moved(After(req[r].op, req[r].at), q)
  BY <1>0, <1>4, <1>5, ReadMoves
<1>7. req'[r] = Moved("autoAdd", q)
  BY <1>0, <1>1, <1>6, AfterReform
<1>8. \E x \in SUBSET Users, y \in Int :
        /\ x \subseteq ToSet(req[r].roster) \cap req[r].eligible
        /\ req'[r] = Moved("autoAdd", [req[r] EXCEPT !.eligible = x, !.slots = y])
  BY <1>2, <1>3, <1>7 DEF q
<1> QED
  BY <1>0, <1>1, <1>4, <1>6, <1>8

\* Those a reform is about to add are members of its source.
Planned == \A r \in Requests : req[r].at = "autoAdd" => req[r].eligible \subseteq ToSet(req[r].roster)

LEMMA NextIsEligible ==
  ASSUME NEW q \in ReqType, q.eligible # {}, q.eligible \subseteq ToSet(q.roster)
  PROVE  NextToAdd(q) \in q.eligible /\ NextToAdd(q) \in Users
<1> DEFINE I == {i \in DOMAIN q.roster : q.roster[i] \in q.eligible}
<1>1. q.roster \in Seq(Users) /\ q.eligible \subseteq Users
  BY DEF ReqType
<1>2. I \subseteq Nat /\ I # {}
  BY <1>1 DEF ToSet
<1>3. NextToAdd(q) = q.roster[Min(I)]
  BY DEF NextToAdd
<1>4. Min(I) \in I
  <2> HIDE DEF I
  <2> QED
    BY <1>2, MinOf
<1> QED
  BY <1>1, <1>3, <1>4

\* The record after a turn of the loop.
Turned(q, u, n) == [q EXCEPT !.eligible = @ \ {u}, !.slots = n]

\* One turn of the loop: someone is added, or dropped from those still to be added.
LEMMA autoAddMoves ==
  ASSUME TInv, Planned, UNCHANGED scenario, NEW r \in Requests, autoAdd(r)
  PROVE  /\ RequestsType' /\ Others(r) /\ TablesType' /\ req[r].at = "autoAdd" /\ req[r].op = "reform"
         /\ req[r].new \in Crews
         /\ \/ req'[r] = Moved("readBack", req[r]) /\ UNCHANGED tables
            \/ \E u \in req[r].eligible, n \in Int :
                 /\ req'[r] = Turned(req[r], u, n)
                 /\ UNCHANGED <<crews, owners, profiles, accounts>>
                 /\ \/ UNCHANGED joined
                    \/ /\ CanInsert(req[r].new, u) /\ u \notin Members(req[r].new)
                       /\ joined' = [joined EXCEPT ![req[r].new] = Append(@, u)]
<1>0. /\ req[r].at = "autoAdd" /\ req[r].at # None /\ req[r].at # "reread"
      /\ req[r].at \notin {"getById", "persistCrew", "updateCrew"}
  BY CrewAssumption DEF autoAdd, At, Statements
<1>1. /\ req[r].op = "reform" /\ req[r] \in ReqType /\ req[r].new \in Crews
      /\ req[r].op \in scenario.ops /\ Asked(req[r])
  BY <1>0, ServedFacts, PathFacts DEF NeedsNew
<1> DEFINE u == NextToAdd(req[r])
<1> DEFINE c == req[r].new
<1>2. UNCHANGED <<crews, owners, profiles, accounts>>
  BY DEF autoAdd
<1>3. CASE Proceed(r, req[r]) /\ UNCHANGED joined
  <2>1. RequestsType' /\ Others(r) /\ req'[r] = Moved(After(req[r].op, req[r].at), req[r])
    BY <1>0, <1>3, SameMoves
  <2>2. UNCHANGED tables /\ TablesType'
    BY <1>2, <1>3, SameTables DEF tables
  <2> QED
    BY <1>0, <1>1, <2>1, <2>2, AfterReform
<1>4. CASE ~(req[r].slots <= 0 \/ req[r].eligible = {})
  <2>1. u \in req[r].eligible /\ u \in Users
    BY <1>0, <1>1, <1>4, NextIsEligible DEF Planned
  <2>2. ASSUME NEW n \in Int, GoTo(r, "autoAdd", [req[r] EXCEPT !.eligible = @ \ {u}, !.slots = n])
        PROVE  RequestsType' /\ Others(r) /\ req'[r] = Turned(req[r], u, n)
    <3> DEFINE q == [req[r] EXCEPT !.eligible = @ \ {u}, !.slots = n]
    <3>1. /\ q \in ReqType /\ q.op = req[r].op /\ q.at = req[r].at /\ q.user = req[r].user
          /\ q.target = req[r].target /\ q.festival = req[r].festival /\ q.new = req[r].new
      BY <1>1 DEF ReqType
    <3>2. [q EXCEPT !.at = "autoAdd"] = q
      BY <1>0, <1>1 DEF ReqType
    <3>3. GoTo(r, "autoAdd", q)
      BY <2>2
    <3>4. /\ OnPath("reform", "autoAdd") /\ ~NeedsRow("reform", "autoAdd") /\ "autoAdd" \in Statements
          /\ "autoAdd" # None
      BY CrewAssumption DEF OnPath, NeedsRow, Statements
    <3> HIDE DEF q
    <3>5. Asked(q)
      BY <1>1, <3>1 DEF Asked
    <3>6. RequestsType' /\ req'[r] = Moved("autoAdd", q) /\ Others(r)
      BY <1>1, <3>1, <3>3, <3>4, <3>5, GoToMoves DEF Others
    <3> QED
      BY <3>2, <3>4, <3>6 DEF Moved, q, Turned
  <2>3. CASE CanInsert(c, u) /\ u \notin Members(c)
    <3>1. /\ joined' = [joined EXCEPT ![c] = Append(@, u)]
          /\ GoTo(r, "autoAdd", [req[r] EXCEPT !.eligible = @ \ {u}, !.slots = @ - 1])
      BY <1>4, <2>3 DEF autoAdd
    <3>2. req[r].slots - 1 \in Int
      BY <1>1 DEF ReqType
    <3>3. RequestsType' /\ Others(r)
          /\ req'[r] = Turned(req[r], u, req[r].slots - 1)
      BY <2>2, <3>1, <3>2
    <3>4. Adds(c, u)
      BY <2>3, <3>1 DEF Adds
    <3>5. TablesType'
      <4>1. TablesType
        BY DEF TInv
      <4> HIDE DEF u
      <4> QED
        BY <1>1, <1>2, <2>1, <3>4, <4>1, InsertType
    <3> QED
      BY <1>0, <1>1, <1>2, <2>1, <2>3, <3>1, <3>2, <3>3, <3>5
  <2>4. CASE ~(CanInsert(c, u) /\ u \notin Members(c))
    <3>1. UNCHANGED joined /\ GoTo(r, "autoAdd", [req[r] EXCEPT !.eligible = @ \ {u}])
      BY <1>4, <2>4 DEF autoAdd
    <3>2. /\ req[r].slots \in Int
          /\ [req[r] EXCEPT !.eligible = @ \ {u}] = [req[r] EXCEPT !.eligible = @ \ {u}, !.slots = req[r].slots]
      BY <1>1 DEF ReqType
    <3>3. RequestsType' /\ Others(r)
          /\ req'[r] = Turned(req[r], u, req[r].slots)
      BY <2>2, <3>1, <3>2
    <3>4. TablesType'
      BY <1>2, <3>1, SameTables DEF tables
    <3> QED
      BY <1>0, <1>1, <1>2, <2>1, <3>1, <3>2, <3>3, <3>4
  <2> QED
    BY <2>3, <2>4
<1> QED
  BY <1>3, <1>4 DEF autoAdd

LEMMA deleteProfilesMoves ==
  ASSUME TInv, UNCHANGED scenario, NEW r \in Requests, deleteProfiles(r)
  PROVE  /\ RequestsType' /\ Others(r) /\ TablesType'
         /\ UNCHANGED <<crews, joined, owners, accounts>>
         /\ profiles' = {p \in profiles : p[1] # req[r].target}
         /\ req[r].at = "deleteProfiles" /\ req[r].op = "deleteUser"
         /\ req'[r] = Moved("hardDelete", req[r])
<1>0. /\ req[r].at = "deleteProfiles" /\ req[r].at # None /\ req[r].at # "reread"
      /\ req[r].at \notin {"getById", "persistCrew", "updateCrew"}
  BY CrewAssumption DEF deleteProfiles, At, Statements
<1>1. req[r].op = "deleteUser"
  BY <1>0, ServedFacts, PathFacts
<1>2. /\ UNCHANGED <<crews, joined, owners, accounts>> /\ Proceed(r, req[r])
      /\ profiles' = {p \in profiles : p[1] # req[r].target}
  BY DEF deleteProfiles
<1>3. TablesType'
  <2>1. profiles' \subseteq Users \X Festivals
    BY <1>2 DEF TInv, TablesType
  <2> QED
    BY <1>2, <2>1 DEF TInv, TablesType, Roster, Members
<1>4. RequestsType' /\ Others(r) /\ req'[r] = Moved(After(req[r].op, req[r].at), req[r])
  BY <1>0, <1>2, SameMoves
<1> QED
  BY <1>0, <1>1, <1>2, <1>3, <1>4, AfterDeleteUser

\* A user is deleted: the crews in gone, theirs and empty without them, go with them; of their
\* others the first member left is the heir.
Inherited(u, gone) ==
  /\ accounts' = accounts \ {u} /\ profiles' = {p \in profiles : p[1] # u}
  /\ \A c \in gone : /\ crews[c] # None /\ crews[c].by = u
                     /\ crews'[c] = None /\ joined'[c] = <<>> /\ owners'[c] = {}
  /\ \A c \in Crews \ gone :
       /\ joined'[c] = RemoveFirst(joined[c], u)
       /\ crews[c] = None => crews'[c] = None /\ owners'[c] = owners[c] \ {u}
       /\ crews[c] # None =>
            /\ crews'[c] # None /\ crews'[c].festival = crews[c].festival
            /\ crews'[c].max = crews[c].max
            /\ crews'[c].from = IF crews[c].from \in gone THEN None ELSE crews[c].from
            /\ \/ /\ crews[c].by # u /\ crews'[c].by = crews[c].by
                  /\ owners'[c] = owners[c] \ {u}
               \/ /\ crews[c].by = u /\ crews'[c].by \in ToSet(joined'[c])
                  /\ owners'[c] = (owners[c] \ {u}) \cup {crews'[c].by}

LEMMA InheritedType ==
  ASSUME TInv, NEW u, NEW gone \in SUBSET Crews, Inherited(u, gone),
         crews' \in [Crews -> Rows \cup {None}], DOMAIN joined' = Crews, DOMAIN owners' = Crews,
         joined' = [c \in Crews |-> joined'[c]], owners' = [c \in Crews |-> owners'[c]]
  PROVE  TablesType'
<1>1. /\ crews \in [Crews -> Rows \cup {None}] /\ joined \in [Crews -> Seq(Users)]
      /\ owners \in [Crews -> SUBSET Users] /\ profiles \subseteq Users \X Festivals
      /\ \A d \in Crews : Roster(joined[d]) /\ owners[d] \subseteq ToSet(joined[d])
      /\ accounts \subseteq Users
  BY DEF TInv, TablesType, Members
<1>2. \A d \in Crews : ToSet(joined[d]) \subseteq Users
  BY <1>1 DEF ToSet
<1>3. ASSUME NEW c \in Crews
      PROVE  Roster(joined'[c]) /\ owners'[c] \subseteq ToSet(joined'[c]) /\ owners'[c] \subseteq Users
  <2>1. CASE c \in gone
    <3>1. Roster(<<>>)
      BY DEF Roster, IsInjective
    <3> QED
      BY <2>1, <3>1 DEF Inherited
  <2>2. CASE c \notin gone
    <3>1. joined'[c] = RemoveFirst(joined[c], u)
      BY <2>2 DEF Inherited
    <3>2. Roster(joined'[c]) /\ ToSet(joined'[c]) = ToSet(joined[c]) \ {u}
      BY <1>1, <3>1, RemoveRoster
    <3>3. owners'[c] \subseteq ToSet(joined'[c])
      BY <1>1, <2>2, <3>2 DEF Inherited
    <3> QED
      BY <1>2, <3>2, <3>3
  <2> QED
    BY <2>1, <2>2
<1>4. joined' \in [Crews -> Seq(Users)]
  <2>1. \A c \in Crews : joined'[c] \in Seq(Users)
    BY <1>3 DEF Roster
  <2> QED
    BY <2>1
<1>5. owners' \in [Crews -> SUBSET Users]
  <2>1. \A c \in Crews : owners'[c] \in SUBSET Users
    BY <1>3
  <2> QED
    BY <2>1
<1>6. profiles' \subseteq Users \X Festivals /\ accounts' \subseteq Users
  BY <1>1 DEF Inherited
<1> QED
  BY <1>3, <1>4, <1>5, <1>6 DEF TablesType, Roster, Members

LEMMA hardDeleteMoves ==
  ASSUME TInv, UNCHANGED scenario, NEW r \in Requests, hardDelete(r)
  PROVE  /\ RequestsType' /\ Others(r) /\ TablesType'
         /\ req[r].at = "hardDelete" /\ req[r].op = "deleteUser"
         /\ \/ req'[r] = Answered(req[r], "error") /\ UNCHANGED tables
            \/ /\ req'[r] \in {Answered(req[r], "ok"), Answered(req[r], "refused")}
               /\ ReformKeysUnique(crews')
               /\ \E gone \in SUBSET Crews : Inherited(req[r].target, gone)
<1>0. /\ req[r].at = "hardDelete" /\ req[r].at # None /\ req[r].at # "reread"
      /\ req[r].at \notin {"getById", "persistCrew", "updateCrew"}
  BY CrewAssumption DEF hardDelete, At, Statements
<1>1. req[r].op = "deleteUser" /\ Asked(req[r])
  BY <1>0, ServedFacts, PathFacts
<1>2. req[r].target \in Users
  BY <1>1 DEF Asked, Targeted
<1> DEFINE u == req[r].target
<1> DEFINE left == [c \in Crews |-> RemoveFirst(joined[c], u)]
<1> DEFINE owned == {c \in Crews : crews[c] # None /\ crews[c].by = u}
<1> DEFINE gone == {c \in owned : left[c] = <<>>}
<1> DEFINE heirs == [c \in owned \ gone |-> left[c][1]]
<1> DEFINE base == [c \in Crews |-> IF c \in DOMAIN heirs
                                    THEN [crews[c] EXCEPT !.by = heirs[c]] ELSE crews[c]]
<1> DEFINE rows == Without(base, gone)
<1>3. \/ Answer(r, "error") /\ UNCHANGED tables
      \/ /\ ReformKeysUnique(rows) /\ crews' = rows
         /\ joined' = [c \in Crews |-> IF c \in gone THEN <<>> ELSE left[c]]
         /\ owners' = [c \in Crews |->
                         IF c \in gone THEN {}
                         ELSE IF c \in DOMAIN heirs THEN (owners[c] \ {u}) \cup {heirs[c]}
                         ELSE owners[c] \ {u}]
         /\ accounts' = accounts \ {u} /\ profiles' = {p \in profiles : p[1] # u}
         /\ (Proceed(r, req[r]) \/ Answer(r, "refused"))
  BY DEF hardDelete
<1>4. CASE Answer(r, "error") /\ UNCHANGED tables
  <2>1. TablesType'
    BY <1>4, SameTables
  <2> QED
    BY <1>0, <1>1, <1>4, <2>1, AnswerMoves DEF Others, Results
<1>5. CASE /\ ReformKeysUnique(rows) /\ crews' = rows
           /\ joined' = [c \in Crews |-> IF c \in gone THEN <<>> ELSE left[c]]
           /\ owners' = [c \in Crews |->
                           IF c \in gone THEN {}
                           ELSE IF c \in DOMAIN heirs THEN (owners[c] \ {u}) \cup {heirs[c]}
                           ELSE owners[c] \ {u}]
           /\ accounts' = accounts \ {u} /\ profiles' = {p \in profiles : p[1] # u}
           /\ (Proceed(r, req[r]) \/ Answer(r, "refused"))
  <2>1. /\ crews \in [Crews -> Rows \cup {None}] /\ \A d \in Crews : Roster(joined[d])
    BY DEF TInv, TablesType
  <2>2. \A c \in owned \ gone : heirs[c] \in ToSet(left[c]) /\ heirs[c] \in Users
    <3> SUFFICES ASSUME NEW c \in owned \ gone
                 PROVE  heirs[c] \in ToSet(left[c]) /\ heirs[c] \in Users
      OBVIOUS
    <3>1. left[c] = RemoveFirst(joined[c], u) /\ left[c] # <<>> /\ heirs[c] = left[c][1] /\ c \in Crews
      OBVIOUS
    <3> HIDE DEF left, heirs
    <3>2. Roster(left[c])
      BY <2>1, <3>1, RemoveRoster
    <3> QED
      BY <3>1, <3>2, HeadOfRoster
  <2>3. DOMAIN heirs = owned \ gone /\ gone \subseteq owned /\ owned \subseteq Crews
    OBVIOUS
  <2>4. \A c \in Crews : IF c \in owned \ gone
                         THEN /\ base[c] \in Rows /\ base[c] # None /\ base[c].by = heirs[c]
                              /\ base[c].festival = crews[c].festival
                              /\ base[c].max = crews[c].max /\ base[c].from = crews[c].from
                         ELSE base[c] = crews[c]
    <3> SUFFICES ASSUME NEW c \in Crews
                 PROVE  IF c \in owned \ gone
                         THEN /\ base[c] \in Rows /\ base[c] # None /\ base[c].by = heirs[c]
                              /\ base[c].festival = crews[c].festival
                              /\ base[c].max = crews[c].max /\ base[c].from = crews[c].from
                         ELSE base[c] = crews[c]
      OBVIOUS
    <3>1. CASE c \in owned \ gone
      <4>1. base[c] = [crews[c] EXCEPT !.by = heirs[c]]
        BY <2>3, <3>1
      <4>2. crews[c] \in Rows /\ heirs[c] \in Users
        BY <2>1, <2>2, <3>1
      <4> HIDE DEF base, heirs
      <4>3. /\ base[c] \in Rows /\ base[c].by = heirs[c] /\ base[c].festival = crews[c].festival
            /\ base[c].max = crews[c].max /\ base[c].from = crews[c].from
        BY <4>1, <4>2 DEF Rows
      <4>4. base[c] # None
        BY <4>3, CrewAssumption
      <4> QED
        BY <3>1, <4>3, <4>4
    <3>2. CASE c \notin owned \ gone
      BY <2>3, <3>2
    <3> QED
      BY <3>1, <3>2
  <2>5. base \in [Crews -> Rows \cup {None}]
    <3>1. \A c \in Crews : base[c] \in Rows \cup {None}
      BY <2>1, <2>4
    <3> QED
      BY <3>1
  <2>6. \A c \in Crews : c \in owned <=> crews[c] # None /\ crews[c].by = u
    OBVIOUS
  <2>7. \A c \in Crews : left[c] = RemoveFirst(joined[c], u)
    OBVIOUS
  <2>8. \A c \in Crews :
          /\ joined'[c] = IF c \in gone THEN <<>> ELSE left[c]
          /\ owners'[c] = IF c \in gone THEN {}
                          ELSE IF c \in owned \ gone THEN (owners[c] \ {u}) \cup {heirs[c]}
                          ELSE owners[c] \ {u}
    BY <1>5, <2>3
  <2>9. crews' = rows /\ accounts' = accounts \ {u} /\ profiles' = {p \in profiles : p[1] # u}
        /\ ReformKeysUnique(rows)
        /\ DOMAIN joined' = Crews /\ DOMAIN owners' = Crews
        /\ joined' = [c \in Crews |-> joined'[c]] /\ owners' = [c \in Crews |-> owners'[c]]
    BY <1>5
  <2>10. gone \in SUBSET Crews
    BY <2>3
  <2> HIDE DEF left, owned, gone, heirs, base
  <2>11. /\ rows \in [Crews -> Rows \cup {None}]
         /\ \A c \in Crews :
              IF c \in gone \/ base[c] = None THEN rows[c] = None
              ELSE /\ rows[c] # None /\ rows[c].festival = base[c].festival
                   /\ rows[c].by = base[c].by /\ rows[c].max = base[c].max
                   /\ rows[c].from = IF base[c].from \in gone THEN None ELSE base[c].from
    BY <2>5, WithoutRows
  <2> HIDE DEF rows
  <2>12. Inherited(u, gone)
    <3>1. \A c \in gone : /\ crews[c] # None /\ crews[c].by = u
                         /\ crews'[c] = None /\ joined'[c] = <<>> /\ owners'[c] = {}
      BY <2>3, <2>6, <2>8, <2>9, <2>11
    <3>2. ASSUME NEW c \in Crews \ gone
          PROVE  /\ joined'[c] = RemoveFirst(joined[c], u)
                 /\ crews[c] = None => crews'[c] = None /\ owners'[c] = owners[c] \ {u}
      BY <2>3, <2>4, <2>6, <2>7, <2>8, <2>9, <2>11
    <3>3. ASSUME NEW c \in Crews \ gone, crews[c] # None
          PROVE  /\ crews'[c] # None /\ crews'[c].festival = crews[c].festival
                 /\ crews'[c].max = crews[c].max
                 /\ crews'[c].from = IF crews[c].from \in gone THEN None ELSE crews[c].from
                 /\ \/ /\ crews[c].by # u /\ crews'[c].by = crews[c].by
                       /\ owners'[c] = owners[c] \ {u}
                    \/ /\ crews[c].by = u /\ crews'[c].by \in ToSet(joined'[c])
                       /\ owners'[c] = (owners[c] \ {u}) \cup {crews'[c].by}
      <4>1. CASE c \in owned
        BY <2>2, <2>4, <2>6, <2>8, <2>9, <2>11, <3>3, <4>1
      <4>2. CASE c \notin owned
        BY <2>4, <2>6, <2>8, <2>9, <2>11, <3>3, <4>2
      <4> QED
        BY <4>1, <4>2
    <3> QED
      BY <2>9, <3>1, <3>2, <3>3 DEF Inherited
  <2>13. TablesType'
    BY <2>9, <2>10, <2>11, <2>12, InheritedType
  <2>14. /\ RequestsType' /\ Others(r)
         /\ req'[r] \in {Answered(req[r], "ok"), Answered(req[r], "refused")}
    <3>1. After(req[r].op, req[r].at) = None
      BY <1>0, <1>1, AfterDeleteUser
    <3>2. CASE Proceed(r, req[r])
      <4>1. RequestsType' /\ Others(r) /\ req'[r] = Moved(After(req[r].op, req[r].at), req[r])
        BY <1>0, <3>2, SameMoves
      <4> QED
        BY <3>1, <4>1 DEF Moved
    <3>3. CASE Answer(r, "refused")
      BY <3>3, AnswerMoves DEF Others, Results
    <3> QED
      BY <1>5, <3>2, <3>3
  <2> QED
    BY <1>0, <1>1, <2>9, <2>10, <2>12, <2>13, <2>14
<1> QED
  BY <1>3, <1>4, <1>5

\* The first statement of a handler needs nothing its predecessors would have read.
LEMMA FirstStatement ==
  ASSUME NEW op \in Endpoints
  PROVE  LET s == Handler[op][1]
         IN  /\ s \in Checks /\ OnPath(op, s) /\ ~NeedsRow(op, s) /\ ~NeedsNew(s)
             /\ s # None
             /\ Creating(op, s) => op \in {"create", "reform"}
             /\ s \in {"getById", "hasProfile", "userExists", "isMember"}
<1> DEFINE s == Handler[op][1]
<1>1. \/ op = "create" /\ s = "hasProfile"
      \/ op = "deleteUser" /\ s = "userExists"
      \/ op = "adminRemove" /\ s = "isMember"
      \/ op \in {"join", "adminAdd", "leave", "kick", "transfer", "update", "remove",
                 "adminDelete", "reform"} /\ s = "getById"
  <2>1. /\ create[1] = "hasProfile" /\ deleteUser[1] = "userExists" /\ adminRemove[1] = "isMember"
        /\ join[1] = "getById" /\ adminAdd[1] = "getById" /\ leave[1] = "getById"
        /\ kick[1] = "getById" /\ transfer[1] = "getById" /\ update[1] = "getById"
        /\ remove[1] = "getById" /\ adminDelete[1] = "getById" /\ reform[1] = "getById"
    BY DEF create, join, adminAdd, leave, kick, transfer, update, remove, adminRemove, adminDelete,
           deleteUser, reform
  <2>2. CASE op \in {"create", "deleteUser", "adminRemove"}
    BY <2>1, <2>2 DEF Handler
  <2>3. CASE op \in {"join", "adminAdd", "leave", "kick"}
    BY <2>1, <2>3 DEF Handler
  <2>4. CASE op \in {"transfer", "update", "remove", "adminDelete", "reform"}
    BY <2>1, <2>4 DEF Handler
  <2> QED
    BY <2>2, <2>3, <2>4 DEF Endpoints
<1>2. s \in Checks
  BY <1>1 DEF Checks
<1>3. s # None
  BY <1>2, CrewAssumption DEF Statements
<1> HIDE DEF s
<1> QED
  BY <1>1, <1>2, <1>3 DEF OnPath, NeedsRow, NeedsNew, Creating, s

LEMMA IdleType ==
  /\ Idle \in ReqType /\ Idle.op = None /\ Idle.at = None /\ Idle.new = None /\ Idle.crew = 0
  /\ Idle.result = None /\ Idle.row = None /\ Idle.roster = <<>> /\ Idle.eligible = {}
BY CrewAssumption DEF Idle, ReqType, Crews

LEMMA startMoves ==
  ASSUME TInv, UNCHANGED scenario, NEW r \in Requests, start(r)
  PROVE  /\ RequestsType' /\ Others(r) /\ UNCHANGED tables /\ req[r] = Idle
         /\ req'[r].op \in scenario.ops /\ req'[r].op \in Endpoints
         /\ req'[r].at = Handler[req'[r].op][1]
         /\ req'[r].crew = 0 \/ crews[req'[r].crew] # None
         /\ req'[r].op \notin Crewless => crews[req'[r].crew] # None
         /\ req'[r].new = None /\ req'[r].result = None
         /\ req'[r].row = None /\ req'[r].roster = <<>> /\ req'[r].eligible = {}
         /\ req'[r].op \in scenario.exclusive => \A s \in Requests : ~Active(s)
         /\ \A s \in Requests : Active(s) => req[s].op \notin scenario.exclusive
         /\ req'[r].op \in {"kick", "transfer"} => req'[r].target # req'[r].user
<1>1. PICK op \in scenario.ops, u, t \in accounts \cup {None}, c \in Crews,
           f \in scenario.into \cup {None}, m \in MaxChoices \cup {0} :
       /\ (u = None) <=> (op \in AdminOps)
       /\ (t # None) <=> (op \in Targeted)
       /\ (f # None) <=> (op \in FestivalNamed)
       /\ IF op \in Crewless THEN c = 0 ELSE crews[c] # None
       /\ op # "update" => m = 0
       /\ op \in scenario.exclusive => \A s \in Requests : ~Active(s)
       /\ op \in {"kick", "transfer"} => t # u
       /\ req' = [req EXCEPT ![r] =
                    [Idle EXCEPT !.op = op, !.user = u, !.crew = c, !.target = t,
                                 !.festival = f, !.max = m, !.at = Handler[op][1]]]
  BY DEF start
<1>2. /\ req[r] = Idle /\ UNCHANGED tables
      /\ \A s \in Requests : Active(s) => req[s].op \notin scenario.exclusive
  BY DEF start
<1>3. /\ op \in Endpoints /\ u \in Users \cup {None} /\ t \in Users \cup {None}
      /\ f \in Festivals \cup {None} /\ m \in Nat
  <2>1. scenario.ops \subseteq Endpoints /\ scenario.into \subseteq Festivals
    BY CrewAssumption DEF TInv, Starts
  <2>2. accounts \subseteq Users /\ MaxChoices \subseteq Nat
    BY CrewAssumption DEF TInv, TablesType
  <2> QED
    BY <2>1, <2>2
<1> DEFINE s == Handler[op][1]
<1> DEFINE n == [Idle EXCEPT !.op = op, !.user = u, !.crew = c, !.target = t,
                             !.festival = f, !.max = m, !.at = s]
<1>4. s \in Statements /\ OnPath(op, s) /\ ~NeedsRow(op, s) /\ ~NeedsNew(s)
  BY <1>3, FirstStatement DEF Statements
<1> HIDE DEF s
<1>5. /\ n \in ReqType /\ n.op = op /\ n.user = u /\ n.crew = c /\ n.target = t /\ n.festival = f
      /\ n.at = s /\ n.new = None /\ n.result = None /\ n.row = None /\ n.roster = <<>>
      /\ n.eligible = {}
  BY <1>3, <1>4, IdleType DEF ReqType, Idle
<1>6. req' = [req EXCEPT ![r] = n] /\ req \in [Requests -> ReqType]
  BY <1>1 DEF TInv, RequestsType, s
<1> HIDE DEF n
<1>7. Asked(n)
  <2>1. op \in FestivalNamed => f \in Festivals
    BY <1>1, <1>3
  <2>2. op \in Targeted => t \in Users
    BY <1>1, <1>3
  <2>3. op \notin AdminOps => u \in Users
    BY <1>1, <1>3
  <2> QED
    BY <1>1, <1>5, <2>1, <2>2, <2>3 DEF Asked
<1>8. Served(n)
  BY <1>4, <1>5, <1>7 DEF Served
<1>9. req' \in [Requests -> ReqType] /\ req'[r] = n /\ Others(r)
  BY <1>5, <1>6 DEF Others
<1>10. \A x \in Requests : Served(req'[x]) /\ req'[x].op \in scenario.ops \cup {None, "other"}
  <2>1. \A x \in Requests : Served(req[x]) /\ req[x].op \in scenario.ops \cup {None, "other"}
    BY DEF TInv, RequestsType
  <2> QED
    BY <1>1, <1>5, <1>8, <1>9, <2>1 DEF Others
<1>11. RequestsType'
  BY <1>9, <1>10 DEF RequestsType, Served, Asked
<1>12. c = 0 \/ crews[c] # None
  BY <1>1
<1> QED
  BY <1>1, <1>2, <1>3, <1>5, <1>9, <1>11, <1>12 DEF s

\* A user joins a festival, or profiles are deleted.
ProfileStep ==
  \E u \in Users : softDelete(u) \/ \E f \in Festivals : joinFestival(u, f) \/ deleteProfile(u, f)

LEMMA ProfileStepMoves ==
  ASSUME TInv, UNCHANGED scenario, ProfileStep
  PROVE  TInv' /\ UNCHANGED <<crews, joined, owners, accounts, req>>
<1>1. UNCHANGED <<crews, joined, owners, accounts, req>>
  BY DEF ProfileStep, joinFestival, deleteProfile, softDelete
<1>2. profiles' \subseteq Users \X Festivals
  <2>1. profiles \subseteq Users \X Festivals
    BY DEF TInv, TablesType
  <2>2. ASSUME NEW u \in Users, NEW f \in Festivals, joinFestival(u, f)
        PROVE  profiles' \subseteq Users \X Festivals
    BY <2>1, <2>2 DEF joinFestival
  <2>3. profiles' \subseteq profiles \/ \E u \in Users, f \in Festivals : joinFestival(u, f)
    BY DEF ProfileStep, deleteProfile, softDelete
  <2> QED
    BY <2>1, <2>2, <2>3
<1> QED
  BY <1>1, <1>2 DEF TInv, TablesType, RequestsType, Served, Asked, Roster, Members

LEMMA InitTypes ==
  ASSUME Init
  PROVE  TInv /\ ReformKeysUnique(crews) /\ Planned
<1>1. /\ scenario \in Scenarios /\ Starts(scenario)
      /\ req = [r \in Requests |-> Idle]
  BY CrewAssumption DEF Init
<1>2. Roster(scenario.roster) /\ scenario.roster # <<>> /\ scenario.max \in Nat
  BY <1>1 DEF Starts, Roster
<1>3. scenario.roster[1] \in ToSet(scenario.roster) /\ scenario.roster[1] \in Users
  BY <1>2, HeadOfRoster
<1> DEFINE row == Row(Home, scenario.roster[1], scenario.max, None)
<1>4. row \in Rows /\ row.from = None
  BY <1>2, <1>3, CrewAssumption DEF Row, Rows
<1>5. crews = [c \in Crews |-> IF c = 0 THEN row ELSE None]
  BY DEF Init
<1> HIDE DEF row
<1>6. crews \in [Crews -> Rows \cup {None}]
  BY <1>4, <1>5
<1>7. ReformKeysUnique(crews)
  BY <1>4, <1>5 DEF ReformKeysUnique
<1>8. TablesType
  <2>1. Roster(<<>>)
    BY DEF Roster, IsInjective
  <2>2. joined = [c \in Crews |-> IF c = 0 THEN scenario.roster ELSE <<>>]
    BY DEF Init
  <2>3. joined \in [Crews -> Seq(Users)] /\ \A c \in Crews : Roster(joined[c])
    BY <1>2, <2>1, <2>2 DEF Roster
  <2>4. owners = [c \in Crews |-> IF c = 0 THEN {scenario.roster[1]} ELSE {}]
    BY DEF Init
  <2>5. owners \in [Crews -> SUBSET Users] /\ \A c \in Crews : owners[c] \subseteq Members(c)
    BY <1>3, <2>2, <2>4 DEF Members
  <2>6. profiles \subseteq Users \X Festivals /\ accounts \subseteq Users
    BY <1>1 DEF Init, Starts
  <2> QED
    BY <1>6, <2>3, <2>5, <2>6 DEF TablesType
<1>9. RequestsType
  <2>1. req \in [Requests -> ReqType] /\ \A r \in Requests : req[r] = Idle
    BY <1>1, IdleType
  <2>2. \A r \in Requests : Served(req[r]) /\ req[r].op \in scenario.ops \cup {None, "other"}
    BY <2>1, IdleType DEF Served
  <2> QED
    BY <2>1, <2>2 DEF RequestsType
<1>10. Planned
  BY <1>1, IdleType, CrewAssumption DEF Planned, Statements
<1> QED
  BY <1>1, <1>7, <1>8, <1>9, <1>10 DEF TInv

-----------------------------------------------------------------------------
(* What a step keeps of the request that takes it.                         *)

\* q before a step, n after it: what was asked stays as long as the request is remembered; a
\* reform is answered "ok" only once it has read its crew back.
Kept(q, n) ==
  /\ \/ n.op = q.op
     \/ n.op = "other" /\ n.at = None /\ n.new = None /\ q.op \notin Remembered
  /\ n.op # "other" => n.user = q.user /\ n.crew = q.crew /\ n.target = q.target
                       /\ n.festival = q.festival
  /\ n.crew \in {q.crew, 0}
  /\ n.at = "autoAdd" => n.eligible \subseteq ToSet(n.roster)
  /\ Creating(n.op, n.at) => Creating(q.op, q.at) /\ q.at # "persistCrew"
  /\ n.at # None => n.result = q.result
  /\ n.at = None /\ n.op = "reform" /\ n.result = "ok" => q.at = "readBack"

\* The crew that a request returns: the one it had, or, if it is a reform's, one made before.
NewFrom(q, n) ==
  \/ n.new = q.new \/ n.op = "other"
  \/ q.op = "update" /\ n.new = q.crew
  \/ q.op = "reform" /\ n.new \in Reformed(q)

LEMMA NotCreatingAnswered == \A op : ~Creating(op, None)
BY CrewAssumption DEF Creating, Statements, Checks

LEMMA AnsweredKept ==
  ASSUME NEW q \in ReqType, NEW v \in Results, q.op \in Endpoints,
         v = "ok" /\ q.op = "reform" => q.at = "readBack"
  PROVE  Kept(q, Answered(q, v)) /\ NewFrom(q, Answered(q, v))
<1> DEFINE n == Answered(q, v)
<1>1. /\ n \in ReqType /\ n.at = None /\ n.op \in {q.op, "other"}
      /\ (q.op \in Remembered => n.op = q.op)
      /\ n.op # "other" => /\ n.user = q.user /\ n.crew = q.crew /\ n.target = q.target
                           /\ n.festival = q.festival /\ n.new = q.new /\ n.result = v
      /\ n.crew \in {q.crew, 0}
  BY AnsweredFields
<1>2. q.op \notin Remembered => n.op = "other" /\ n.new = None
  BY IdleType DEF Answered, Idle
<1>3. "autoAdd" # None /\ ~Creating(n.op, None)
  BY CrewAssumption, NotCreatingAnswered DEF Statements
<1> HIDE DEF n
<1>4. q.op # "other"
  BY DEF Endpoints
<1>5. \/ n.op = q.op
      \/ n.op = "other" /\ n.at = None /\ n.new = None /\ q.op \notin Remembered
  BY <1>1, <1>2
<1>6. Kept(q, n)
  BY <1>1, <1>3, <1>4, <1>5 DEF Kept
<1>7. NewFrom(q, n)
  BY <1>1 DEF NewFrom
<1> QED
  BY <1>6, <1>7 DEF n

\* The request goes on, having read something, and perhaps with a new crew.
LEMMA MovedKept ==
  ASSUME NEW q \in ReqType, OnPath(q.op, q.at), NEW p \in ReqType,
         p.op = q.op, p.user = q.user, p.crew = q.crew, p.target = q.target,
         p.festival = q.festival, p.result = q.result, p.at = q.at,
         NEW s, s \in Statements \cup {None},
         s = None => (q.op = "reform" => q.at = "readBack"),
         s = "autoAdd" => p.eligible \subseteq ToSet(p.roster),
         Creating(q.op, s) => Creating(q.op, q.at) /\ q.at # "persistCrew"
  PROVE  /\ Kept(q, Moved(s, p))
         /\ Moved(s, p).new = p.new \/ Moved(s, p).op = "other"
         /\ Moved(s, p).op = "reform" => Moved(s, p).new = p.new
<1>0. q.op \in Endpoints /\ q.op # "other"
  BY PathFacts DEF Endpoints
<1>1. CASE s = None
  <2>1. Moved(s, p) = Answered(p, "ok")
    BY <1>1 DEF Moved
  <2>2. Kept(p, Answered(p, "ok"))
    BY <1>0, <1>1, AnsweredKept DEF Results
  <2>3. Kept(q, Answered(p, "ok"))
    BY <2>2 DEF Kept
  <2>4. /\ Answered(p, "ok").op # "other" => Answered(p, "ok").new = p.new
    BY AnsweredFields DEF Results
  <2> QED
    BY <2>1, <2>3, <2>4
<1>2. CASE s # None
  <2> DEFINE n == [p EXCEPT !.at = s]
  <2>1. Moved(s, p) = n
    BY <1>2 DEF Moved
  <2>2. /\ n.op = q.op /\ n.user = q.user /\ n.crew = q.crew /\ n.target = q.target
        /\ n.festival = q.festival /\ n.result = q.result /\ n.at = s /\ n.new = p.new
        /\ n.eligible = p.eligible /\ n.roster = p.roster
    BY DEF ReqType
  <2> HIDE DEF n
  <2>3. Kept(q, n)
    BY <1>2, <2>2 DEF Kept
  <2> QED
    BY <2>1, <2>2, <2>3
<1> QED
  BY <1>1, <1>2

\* The next statement of a request that is served.
LEMMA NextStatement ==
  ASSUME TInv, NEW r \in Requests, req[r].at # None, req[r].at # "reread"
  PROVE  LET q == req[r]
             s == After(q.op, q.at)
         IN  /\ s \in Statements \cup {None}
             /\ s = None => (q.op = "reform" => q.at = "readBack")
             /\ s = "autoAdd" => q.at = "planRoster"
             /\ Creating(q.op, s) => Creating(q.op, q.at) /\ q.at # "persistCrew"
<1> DEFINE s == After(req[r].op, req[r].at)
<1>1. OnPath(req[r].op, req[r].at)
  BY ServedFacts
<1>2. IF s = None THEN req[r].op = "reform" => req[r].at = "readBack"
      ELSE /\ OnPath(req[r].op, s)
           /\ s = "autoAdd" => req[r].at = "planRoster"
           /\ Creating(req[r].op, s) => Creating(req[r].op, req[r].at) /\ req[r].at # "persistCrew"
  BY <1>1, AfterFacts
<1>3. "autoAdd" # None
  BY CrewAssumption DEF Statements
<1> HIDE DEF s
<1>4. s \in Statements \cup {None}
  BY <1>2, PathFacts
<1>5. Creating(req[r].op, s) => s # None
  BY NotCreatingAnswered
<1> QED
  BY <1>2, <1>3, <1>4, <1>5 DEF s

\* A statement that goes on with the request as it was.
LEMMA SameKept ==
  ASSUME TInv, NEW r \in Requests, req[r].at # None, req[r].at \notin {"reread", "planRoster"},
         req'[r] = Moved(After(req[r].op, req[r].at), req[r])
  PROVE  Kept(req[r], req'[r]) /\ NewFrom(req[r], req'[r])
<1> DEFINE s == After(req[r].op, req[r].at)
<1>1. req[r] \in ReqType /\ OnPath(req[r].op, req[r].at)
  BY ServedFacts
<1>2. /\ s \in Statements \cup {None}
      /\ s = None => (req[r].op = "reform" => req[r].at = "readBack")
      /\ s # "autoAdd"
      /\ Creating(req[r].op, s) => Creating(req[r].op, req[r].at) /\ req[r].at # "persistCrew"
  BY NextStatement
<1> HIDE DEF s
<1>3. /\ Kept(req[r], Moved(s, req[r]))
      /\ Moved(s, req[r]).new = req[r].new \/ Moved(s, req[r]).op = "other"
  BY <1>1, <1>2, MovedKept
<1> QED
  BY <1>3 DEF NewFrom, s

\* A statement that refuses or fails.
LEMMA RefusedKept ==
  ASSUME TInv, NEW r \in Requests, req[r].at # None,
         req'[r] \in {Answered(req[r], "refused"), Answered(req[r], "error")}
  PROVE  Kept(req[r], req'[r]) /\ NewFrom(req[r], req'[r])
<1>1. req[r] \in ReqType /\ req[r].op \in Endpoints
  BY ServedFacts
<1> QED
  BY <1>1, AnsweredKept DEF Results

LEMMA checkKeeps ==
  ASSUME TInv, UNCHANGED scenario, NEW r \in Requests, check(r)
  PROVE  Kept(req[r], req'[r]) /\ NewFrom(req[r], req'[r])
<1>0. req[r].at \in Checks /\ req[r].at # None /\ req[r].at \notin {"reread", "planRoster"}
  BY CrewAssumption DEF check, Statements, Checks
<1>1. CASE req'[r] = Answered(req[r], "refused")
  BY <1>0, <1>1, RefusedKept
<1>2. CASE req'[r] # Answered(req[r], "refused")
  <2>1. PICK q \in ReqType :
          /\ req'[r] = Moved(After(q.op, q.at), q)
          /\ q = IF req[r].at = "getById" THEN [req[r] EXCEPT !.row = crews[req[r].crew]]
                                          ELSE req[r]
    BY <1>2, checkMoves
  <2>2. req[r] \in ReqType /\ OnPath(req[r].op, req[r].at)
    BY <1>0, ServedFacts
  <2>3. /\ q.op = req[r].op /\ q.user = req[r].user /\ q.crew = req[r].crew
        /\ q.target = req[r].target /\ q.festival = req[r].festival /\ q.result = req[r].result
        /\ q.at = req[r].at /\ q.new = req[r].new
    <3>1. CASE req[r].at = "getById"
      BY <2>1, <2>2, <3>1 DEF ReqType
    <3>2. CASE req[r].at # "getById"
      BY <2>1, <3>2
    <3> QED
      BY <3>1, <3>2
  <2> DEFINE s == After(req[r].op, req[r].at)
  <2>4. /\ s \in Statements \cup {None}
        /\ s = None => (req[r].op = "reform" => req[r].at = "readBack")
        /\ s # "autoAdd"
        /\ Creating(req[r].op, s) => Creating(req[r].op, req[r].at) /\ req[r].at # "persistCrew"
    BY <1>0, NextStatement
  <2>5. req'[r] = Moved(s, q)
    BY <2>1, <2>3
  <2> HIDE DEF s
  <2>6. /\ Kept(req[r], Moved(s, q))
        /\ Moved(s, q).new = q.new \/ Moved(s, q).op = "other"
    BY <2>2, <2>3, <2>4, MovedKept
  <2> QED
    BY <2>3, <2>5, <2>6 DEF NewFrom
<1> QED
  BY <1>1, <1>2

\* The requests that are moved on with another crew: updates and reforms.
LEMMA ReuseKept ==
  ASSUME TInv, NEW r \in Requests, req[r].at # None, req[r].op = "reform", NEW c \in Crews,
         crews[c] # None, req'[r] = [Reuse(req[r], c) EXCEPT !.at = "planRoster"]
  PROVE  Kept(req[r], req'[r]) /\ req'[r].new = c /\ req'[r].op = "reform"
<1>1. req[r] \in ReqType
  BY ServedFacts
<1> DEFINE n == [Reuse(req[r], c) EXCEPT !.at = "planRoster"]
<1>2. /\ n.op = req[r].op /\ n.user = req[r].user /\ n.crew = req[r].crew
      /\ n.target = req[r].target /\ n.festival = req[r].festival /\ n.result = req[r].result
      /\ n.at = "planRoster" /\ n.new = c
  BY <1>1 DEF Reuse, ReqType
<1>3. "planRoster" # None /\ ~Creating("reform", "planRoster")
  BY CrewAssumption DEF Statements, Creating
<1> HIDE DEF n
<1>4. req'[r] = n
  BY DEF n
<1> QED
  BY <1>2, <1>3, <1>4 DEF Kept

\* A request of its own id is created by persistCrew.
Creates(r) ==
  /\ CanCreate(req[r]) /\ req'[r].op = req[r].op /\ req'[r].new = r
  /\ req[r].at = "persistCrew"
  /\ crews' = [crews EXCEPT ![r] = NewRow(req[r])]
  /\ joined' = [joined EXCEPT ![r] = <<req[r].user>>]
  /\ owners' = [owners EXCEPT ![r] = {req[r].user}]
  /\ UNCHANGED <<profiles, accounts>>

LEMMA persistCrewKeeps ==
  ASSUME TInv, ReformKeysUnique(crews), UNCHANGED scenario, NEW r \in Requests, persistCrew(r)
  PROVE  /\ Kept(req[r], req'[r])
         /\ \/ Creates(r)
            \/ UNCHANGED <<crews, joined, owners>> /\ NewFrom(req[r], req'[r])
<1>0. /\ req[r].at = "persistCrew" /\ req[r].at # None /\ req[r].at \notin {"reread", "planRoster"}
      /\ "reread" # None /\ "readBack" # None /\ "readNew" # None
  BY CrewAssumption DEF persistCrew, At, Statements
<1>1. /\ req[r] \in ReqType /\ req[r].op \in {"create", "reform"} /\ OnPath(req[r].op, req[r].at)
      /\ r \in Crews
  BY <1>0, ServedFacts, PathFacts, CrewAssumption DEF Requests, Crews
<1>2. CASE /\ CanCreate(req[r]) /\ ReformKeysUnique(crews')
           /\ crews' = [crews EXCEPT ![r] = NewRow(req[r])]
           /\ joined' = [joined EXCEPT ![r] = <<req[r].user>>]
           /\ owners' = [owners EXCEPT ![r] = {req[r].user}]
           /\ req'[r] = Moved(After(req[r].op, "persistCrew"), [req[r] EXCEPT !.new = r])
  <2> DEFINE q == [req[r] EXCEPT !.new = r]
  <2> DEFINE s == After(req[r].op, "persistCrew")
  <2>1. /\ q \in ReqType /\ q.op = req[r].op /\ q.user = req[r].user /\ q.crew = req[r].crew
        /\ q.target = req[r].target /\ q.festival = req[r].festival /\ q.result = req[r].result
        /\ q.at = req[r].at /\ q.new = r
    BY <1>1 DEF ReqType
  <2>2. /\ s \in Statements \cup {None} /\ s # None /\ s # "autoAdd"
        /\ Creating(req[r].op, s) => Creating(req[r].op, req[r].at) /\ req[r].at # "persistCrew"
    <3>1. s # None
      BY <1>0, <1>1, AfterCreate, AfterReform
    <3> QED
      BY <1>0, <3>1, NextStatement
  <2>3. req'[r] = Moved(s, q)
    BY <1>2
  <2> HIDE DEF q, s
  <2>4. Kept(req[r], Moved(s, q))
    BY <1>1, <2>1, <2>2, MovedKept
  <2>5. Moved(s, q).op = q.op /\ Moved(s, q).new = r
    BY <2>1, <2>2 DEF Moved, ReqType
  <2> QED
    BY <1>0, <1>2, <2>1, <2>3, <2>4, <2>5, persistCrewMoves DEF Creates
<1>3. CASE req[r].op = "reform" /\ req'[r] = [req[r] EXCEPT !.at = "reread"] /\ UNCHANGED <<crews, joined, owners>>
  <2>1. req'[r] = Moved("reread", req[r])
    BY <1>0, <1>3 DEF Moved
  <2>2. "reread" \in Statements /\ ~Creating(req[r].op, "reread")
    BY DEF Statements, Creating
  <2>3. /\ Kept(req[r], Moved("reread", req[r]))
        /\ Moved("reread", req[r]).new = req[r].new \/ Moved("reread", req[r]).op = "other"
    BY <1>0, <1>1, <2>2, MovedKept
  <2> QED
    BY <1>3, <2>1, <2>3 DEF NewFrom
<1>4. CASE req'[r] = Answered(req[r], "error") /\ UNCHANGED <<crews, joined, owners>>
  BY <1>0, <1>4, RefusedKept
<1> QED
  BY <1>2, <1>3, <1>4, persistCrewMoves

\* The reads of a reform, and the turns of its loop.
LEMMA ReformKeeps ==
  ASSUME TInv, Planned, UNCHANGED scenario, NEW r \in Requests,
         \/ sourceMembers(r) \/ targetProfiles(r) \/ findReformed(r) \/ reread(r) \/ readNew(r)
         \/ planRoster(r) \/ autoAdd(r)
  PROVE  Kept(req[r], req'[r]) /\ NewFrom(req[r], req'[r])
<1>0. None \notin {"targetProfiles", "findReformed", "persistCrew", "planRoster", "autoAdd", "readBack"}
  BY CrewAssumption DEF Statements
<1>1. ASSUME NEW p \in ReqType, NEW s \in Statements, s # None, req[r].at # None,
             p.op = req[r].op, p.user = req[r].user, p.crew = req[r].crew,
             p.target = req[r].target, p.festival = req[r].festival, p.result = req[r].result,
             p.at = req[r].at, p.new = req[r].new,
             s = "autoAdd" => p.eligible \subseteq ToSet(p.roster),
             Creating(req[r].op, s) => Creating(req[r].op, req[r].at) /\ req[r].at # "persistCrew",
             req'[r] = Moved(s, p)
      PROVE  Kept(req[r], req'[r]) /\ NewFrom(req[r], req'[r])
  <2>1. req[r] \in ReqType /\ OnPath(req[r].op, req[r].at)
    BY <1>1, ServedFacts
  <2>2. /\ Kept(req[r], Moved(s, p))
        /\ Moved(s, p).new = p.new \/ Moved(s, p).op = "other"
    BY <1>1, <2>1, MovedKept
  <2> QED
    BY <1>1, <2>2 DEF NewFrom
<1>2. CASE sourceMembers(r)
  <2> DEFINE p == [req[r] EXCEPT !.roster = joined[req[r].crew]]
  <2>1. /\ req[r].at = "sourceMembers" /\ req[r].op = "reform" /\ req[r].at # None
        /\ req'[r] = Moved("targetProfiles", p)
    BY <1>2, sourceMembersMoves, CrewAssumption DEF Statements
  <2>2. req[r] \in ReqType /\ joined[req[r].crew] \in Seq(Users)
    BY <2>1, ServedFacts DEF TInv, TablesType, ReqType
  <2>3. /\ p \in ReqType /\ p.op = req[r].op /\ p.user = req[r].user /\ p.crew = req[r].crew
        /\ p.target = req[r].target /\ p.festival = req[r].festival /\ p.result = req[r].result
        /\ p.at = req[r].at /\ p.new = req[r].new
    BY ZenonT(60), <2>2 DEF ReqType
  <2>4. Creating("reform", "sourceMembers") /\ "targetProfiles" \in Statements
    BY DEF Creating, Statements
  <2> HIDE DEF p
  <2> QED
    BY <1>0, <1>1, <2>1, <2>3, <2>4
<1>3. CASE targetProfiles(r)
  <2> DEFINE p == [req[r] EXCEPT !.eligible = HaveJoined(req[r].festival)]
  <2>1. /\ req[r].at = "targetProfiles" /\ req[r].op = "reform" /\ req[r].at # None
        /\ req'[r] = Moved("findReformed", p)
    BY <1>3, targetProfilesMoves, CrewAssumption DEF Statements
  <2>2. req[r] \in ReqType /\ HaveJoined(req[r].festival) \in SUBSET Users
    BY <2>1, ServedFacts DEF HaveJoined
  <2>3. /\ p \in ReqType /\ p.op = req[r].op /\ p.user = req[r].user /\ p.crew = req[r].crew
        /\ p.target = req[r].target /\ p.festival = req[r].festival /\ p.result = req[r].result
        /\ p.at = req[r].at /\ p.new = req[r].new
    BY <2>2 DEF ReqType
  <2>4. Creating("reform", "targetProfiles") /\ "findReformed" \in Statements
    BY DEF Creating, Statements
  <2> HIDE DEF p
  <2> QED
    BY <1>0, <1>1, <2>1, <2>3, <2>4
<1>4. CASE findReformed(r)
  <2>1. req[r].at = "findReformed" /\ req[r].op = "reform" /\ req[r].at # None /\ req[r] \in ReqType
    <3>1. req[r].at = "findReformed" /\ req[r].op = "reform" /\ req[r].at # None
      BY <1>4, findReformedMoves, CrewAssumption DEF Statements
    <3> QED
      BY <3>1, ServedFacts
  <2>2. ASSUME NEW c \in Reformed(req[r]), req'[r] = [Reuse(req[r], c) EXCEPT !.at = "planRoster"]
        PROVE  Kept(req[r], req'[r]) /\ NewFrom(req[r], req'[r])
    <3>1. c \in Crews /\ crews[c] # None
      BY DEF Reformed, listByUserAndFestival
    <3> QED
      BY <2>1, <2>2, <3>1, ReuseKept DEF NewFrom
  <2>3. CASE req'[r] = [req[r] EXCEPT !.at = "persistCrew"]
    <3>1. req'[r] = Moved("persistCrew", req[r])
      BY <1>0, <2>3 DEF Moved
    <3>2. Creating("reform", "findReformed") /\ "persistCrew" \in Statements
      BY DEF Creating, Statements
    <3> QED
      BY <1>0, <1>1, <2>1, <3>1, <3>2
  <2>4. CASE req'[r] = Answered(req[r], "refused")
    BY <2>1, <2>4, RefusedKept
  <2> QED
    BY <1>4, <2>2, <2>3, <2>4, findReformedMoves
<1>5. CASE reread(r)
  <2>1. req[r].at = "reread" /\ req[r].op = "reform" /\ req[r].at # None
    BY <1>5, rereadMoves, CrewAssumption DEF Statements
  <2>2. ASSUME NEW c \in Reformed(req[r]), req'[r] = [Reuse(req[r], c) EXCEPT !.at = "planRoster"]
        PROVE  Kept(req[r], req'[r]) /\ NewFrom(req[r], req'[r])
    <3>1. c \in Crews /\ crews[c] # None
      BY DEF Reformed, listByUserAndFestival
    <3> QED
      BY <2>1, <2>2, <3>1, ReuseKept DEF NewFrom
  <2>3. CASE req'[r] = Answered(req[r], "error")
    BY <2>1, <2>3, RefusedKept
  <2> QED
    BY <1>5, <2>2, <2>3, rereadMoves
<1>6. CASE readNew(r)
  <2>1. req[r].at = "readNew" /\ req[r].op = "reform" /\ req[r].at # None /\ req[r].new \in Crews
    <3>1. req[r].at = "readNew" /\ req[r].op = "reform" /\ req[r].at # None
      BY <1>6, readNewMoves, CrewAssumption DEF Statements
    <3> QED
      BY <3>1, ServedFacts DEF NeedsNew
  <2>2. CASE req'[r] = Answered(req[r], "error")
    BY <2>1, <2>2, RefusedKept
  <2>3. CASE req'[r] # Answered(req[r], "error")
    <3>1. req'[r] = [Reuse(req[r], req[r].new) EXCEPT !.at = "planRoster"]
      BY <1>6, <2>3, readNewMoves
    <3>2. /\ req[r] \in ReqType
      BY <2>1, ServedFacts
    <3> DEFINE n == [Reuse(req[r], req[r].new) EXCEPT !.at = "planRoster"]
    <3>3. /\ n.op = req[r].op /\ n.user = req[r].user /\ n.crew = req[r].crew
          /\ n.target = req[r].target /\ n.festival = req[r].festival /\ n.result = req[r].result
          /\ n.at = "planRoster" /\ n.new = req[r].new
      BY <3>2 DEF Reuse, ReqType
    <3>4. ~Creating("reform", "planRoster")
      BY DEF Creating
    <3> HIDE DEF n
    <3>5. req'[r] = n
      BY <3>1 DEF n
    <3> QED
      BY <1>0, <2>1, <3>3, <3>4, <3>5 DEF Kept, NewFrom
  <2> QED
    BY <2>2, <2>3
<1>7. CASE planRoster(r)
  <2>1. req[r].at = "planRoster" /\ req[r].op = "reform" /\ req[r].at # None
    BY <1>7, planRosterMoves, CrewAssumption DEF Statements
  <2>2. PICK e \in SUBSET Users, n \in Int :
          /\ e \subseteq ToSet(req[r].roster) \cap req[r].eligible
          /\ req'[r] = Moved("autoAdd", [req[r] EXCEPT !.eligible = e, !.slots = n])
    BY <1>7, planRosterMoves
  <2> DEFINE p == [req[r] EXCEPT !.eligible = e, !.slots = n]
  <2>3. req[r] \in ReqType
    BY <2>1, ServedFacts
  <2>4. /\ p \in ReqType /\ p.op = req[r].op /\ p.user = req[r].user /\ p.crew = req[r].crew
        /\ p.target = req[r].target /\ p.festival = req[r].festival /\ p.result = req[r].result
        /\ p.at = req[r].at /\ p.new = req[r].new /\ p.eligible = e /\ p.roster = req[r].roster
    BY ZenonT(60), <2>3 DEF ReqType
  <2>5. ~Creating("reform", "autoAdd") /\ "autoAdd" \in Statements
    BY DEF Creating, Statements
  <2>6. req'[r] = Moved("autoAdd", p)
    BY <2>2
  <2> HIDE DEF p
  <2> QED
    BY <1>0, <1>1, <2>1, <2>2, <2>4, <2>5, <2>6
<1>8. CASE autoAdd(r)
  <2>1. req[r].at = "autoAdd" /\ req[r].op = "reform" /\ req[r].at # None
    BY <1>8, autoAddMoves, CrewAssumption DEF Statements
  <2>2. req[r] \in ReqType /\ req[r].eligible \subseteq ToSet(req[r].roster)
    BY <2>1, ServedFacts DEF Planned
  <2>3. ~Creating("reform", "readBack") /\ "readBack" \in Statements /\ ~Creating("reform", "autoAdd")
    BY DEF Creating, Statements
  <2>4. CASE req'[r] = Moved("readBack", req[r])
    BY <1>0, <1>1, <2>1, <2>2, <2>3, <2>4
  <2>5. ASSUME NEW u, NEW n \in Int, req'[r] = Turned(req[r], u, n)
        PROVE  Kept(req[r], req'[r]) /\ NewFrom(req[r], req'[r])
    <3> DEFINE p == [req[r] EXCEPT !.eligible = @ \ {u}, !.slots = n]
    <3>1. /\ p.op = req[r].op /\ p.user = req[r].user /\ p.crew = req[r].crew
          /\ p.target = req[r].target /\ p.festival = req[r].festival /\ p.result = req[r].result
          /\ p.at = req[r].at /\ p.new = req[r].new /\ p.eligible = req[r].eligible \ {u}
          /\ p.roster = req[r].roster
      BY <2>2 DEF ReqType
    <3>2. req'[r] = p
      BY <2>5 DEF Turned
    <3> HIDE DEF p
    <3> QED
      BY <2>1, <2>2, <2>3, <3>1, <3>2 DEF Kept, NewFrom
  <2>6. CASE req'[r] # Moved("readBack", req[r])
    <3>1. PICK u \in req[r].eligible, n \in Int :
            req'[r] = Turned(req[r], u, n)
      BY <1>8, <2>6, autoAddMoves
    <3> QED
      BY <2>5, <3>1
  <2> QED
    BY <2>4, <2>6
<1> QED
  BY <1>2, <1>3, <1>4, <1>5, <1>6, <1>7, <1>8

-----------------------------------------------------------------------------
(* What a step makes of the tables.                                        *)

\* The foreign keys of crew_members and of crews.
ForeignKeys ==
  /\ \A c \in Crews : Members(c) \subseteq accounts
  /\ \A c \in Crews : crews[c] = None => joined[c] = <<>>
  /\ \A c \in Crews : crews[c] # None => crews[c].by \in accounts
  /\ \A c \in Crews : crews[c] # None /\ crews[c].from # None => crews[crews[c].from] # None

\* A row after a step that creates none: it keeps its festival; its creator, unless deleted; and
\* its source, unless deleted.
RowsFate ==
  \A c \in Crews : crews'[c] # None =>
    /\ crews[c] # None /\ crews'[c].festival = crews[c].festival
    /\ crews'[c].by = crews[c].by \/ crews[c].by \notin accounts'
    /\ \/ crews'[c].from = crews[c].from
       \/ crews[c].from \in Crews /\ crews'[crews[c].from] = None /\ crews'[c].from = None

LEMMA FateKeepsKeys ==
  ASSUME ReformKeysUnique(crews), RowsFate,
         \A c \in Crews : crews'[c] # None => crews'[c].by = crews[c].by
  PROVE  ReformKeysUnique(crews')
BY DEF ReformKeysUnique, RowsFate

LEMMA SameFate == UNCHANGED crews => RowsFate
BY DEF RowsFate

LEMMA SameForeignKeys == ForeignKeys /\ UNCHANGED <<crews, joined, accounts>> => ForeignKeys'
BY DEF ForeignKeys, Members

LEMMA InsertForeignKeys ==
  ASSUME TablesType, ForeignKeys, NEW c \in Crews, NEW u \in Users, CanInsert(c, u), Adds(c, u),
         UNCHANGED <<crews, owners, profiles, accounts>>
  PROVE  ForeignKeys'
<1>1. CASE joined' = joined
  BY <1>1, SameForeignKeys
<1>2. CASE u \notin Members(c) /\ joined' = [joined EXCEPT ![c] = Append(@, u)]
  <2>1. Roster(joined[c]) /\ joined \in [Crews -> Seq(Users)]
    BY DEF TablesType
  <2>2. ToSet(Append(joined[c], u)) = Members(c) \cup {u}
    BY <1>2, <2>1, AppendRoster DEF Members
  <2>3. \A d \in Crews : joined'[d] = IF d = c THEN Append(joined[c], u) ELSE joined[d]
    BY <1>2, <2>1
  <2>4. \A d \in Crews : Members(d)' \subseteq accounts'
    BY <2>2, <2>3 DEF ForeignKeys, Members, CanInsert
  <2>5. \A d \in Crews : crews'[d] = None => joined'[d] = <<>>
    BY <2>3 DEF ForeignKeys, CanInsert
  <2> QED
    BY <2>4, <2>5 DEF ForeignKeys
<1> QED
  BY <1>1, <1>2 DEF Adds

LEMMA addMemberTables ==
  ASSUME TInv, ForeignKeys, UNCHANGED scenario, NEW r \in Requests, addMember(r)
  PROVE  ForeignKeys' /\ UNCHANGED <<crews, owners, profiles, accounts>>
<1>0. req[r].at = "addMember" /\ req[r].at # None
  BY CrewAssumption DEF addMember, At, Statements
<1>1. req[r].op \in {"join", "adminAdd"}
  BY <1>0, ServedFacts, PathFacts
<1>2. Subject(req[r]) \in Users /\ req[r].crew \in Crews
  BY <1>0, <1>1, SubjectIsUser
<1>3. UNCHANGED <<crews, owners, profiles, accounts>>
  BY DEF addMember
<1>4. \/ UNCHANGED joined
      \/ Insert(req[r].crew, Subject(req[r])) /\ CanInsert(req[r].crew, Subject(req[r]))
  BY DEF addMember
<1>5. CASE UNCHANGED joined
  BY <1>3, <1>5, SameForeignKeys
<1>6. CASE Insert(req[r].crew, Subject(req[r])) /\ CanInsert(req[r].crew, Subject(req[r]))
  <2>1. Adds(req[r].crew, Subject(req[r]))
    BY <1>6 DEF Insert, Adds
  <2>2. TablesType
    BY DEF TInv
  <2> QED
    BY <1>2, <1>3, <1>6, <2>1, <2>2, InsertForeignKeys
<1> QED
  BY <1>3, <1>4, <1>5, <1>6

LEMMA removeMemberTables ==
  ASSUME TInv, ForeignKeys, UNCHANGED scenario, NEW r \in Requests, removeMember(r)
  PROVE  ForeignKeys' /\ UNCHANGED <<crews, profiles, accounts>>
<1>0. req[r].at = "removeMember" /\ req[r].at # None
  BY CrewAssumption DEF removeMember, At, Statements
<1> DEFINE c == req[r].crew
<1> DEFINE u == Subject(req[r])
<1>1. c \in Crews
  BY <1>0, ServedFacts DEF ReqType
<1>2. joined' = [joined EXCEPT ![c] = RemoveFirst(@, u)] /\ UNCHANGED <<crews, profiles, accounts>>
  BY DEF removeMember
<1>3. joined \in [Crews -> Seq(Users)] /\ \A d \in Crews : Roster(joined[d])
  BY DEF TInv, TablesType
<1>4. ToSet(RemoveFirst(joined[c], u)) = ToSet(joined[c]) \ {u} /\ Roster(RemoveFirst(joined[c], u))
  BY <1>1, <1>3, RemoveRoster
<1>5. \A d \in Crews : joined'[d] = IF d = c THEN RemoveFirst(joined[c], u) ELSE joined[d]
  BY <1>2, <1>3
<1>6. joined[c] = <<>> => joined'[c] = <<>>
  <2> HIDE DEF c, u
  <2>1. ASSUME joined[c] = <<>>
        PROVE  Len(RemoveFirst(joined[c], u)) = 0
    <3>1. Len(RemoveFirst(joined[c], u)) <= Len(joined[c])
      BY <1>1, <1>3, RemoveRoster
    <3> QED
      BY <1>4, <2>1, <3>1 DEF Roster
  <2> QED
    BY <1>1, <1>4, <1>5, <2>1 DEF Roster
<1> HIDE DEF c, u
<1>7. \A d \in Crews : Members(d)' \subseteq accounts'
  BY <1>2, <1>4, <1>5 DEF ForeignKeys, Members
<1>8. \A d \in Crews : crews'[d] = None => joined'[d] = <<>>
  BY <1>2, <1>5, <1>6 DEF ForeignKeys
<1> QED
  BY <1>2, <1>7, <1>8 DEF ForeignKeys

\* PUT /crews/:crewId changes the member cap of one crew.
LEMMA updateCrewTables ==
  ASSUME TInv, ForeignKeys, UNCHANGED scenario, NEW r \in Requests, updateCrew(r)
  PROVE  /\ ForeignKeys' /\ RowsFate /\ \A c \in Crews : crews'[c] # None => crews'[c].by = crews[c].by
         /\ \A c \in Crews : crews[c] # None => crews'[c] # None
         /\ \A c \in Crews : crews[c] # None /\ c # req[r].crew => crews'[c] = crews[c]
         /\ UNCHANGED <<joined, owners, profiles, accounts>>
<1>0. req[r].at = "updateCrew" /\ req[r].at # None
  BY CrewAssumption DEF updateCrew, At, Statements
<1> DEFINE c == req[r].crew
<1> DEFINE m == IF req[r].max = 0 THEN req[r].row.max ELSE req[r].max
<1>1. c \in Crews /\ crews \in [Crews -> Rows \cup {None}] /\ crews' \in [Crews -> Rows \cup {None}]
  BY <1>0, ServedFacts, updateMoves DEF ReqType, TInv, TablesType
<1>2. crews' = IF crews[c] = None THEN crews ELSE [crews EXCEPT ![c].max = m]
  BY DEF updateCrew
<1>3. UNCHANGED <<joined, owners, profiles, accounts>>
  BY DEF updateCrew
<1> HIDE DEF m
<1>4. \A d \in Crews : d # c => crews'[d] = crews[d]
  BY <1>1, <1>2
<1>5. /\ crews[c] = None => crews'[c] = None
      /\ crews[c] # None => /\ crews'[c] # None /\ crews'[c].festival = crews[c].festival
                            /\ crews'[c].by = crews[c].by /\ crews'[c].from = crews[c].from
  <2>1. CASE crews[c] = None
    BY <1>2, <2>1
  <2>2. CASE crews[c] # None
    <3>1. crews'[c] = [crews[c] EXCEPT !.max = m] /\ crews[c] \in Rows
      BY <1>1, <1>2, <2>2
    <3>2. /\ crews'[c].festival = crews[c].festival
          /\ crews'[c].by = crews[c].by /\ crews'[c].from = crews[c].from
      BY <3>1 DEF Rows
    <3>4. crews'[c] # None
      <4>1. None \notin Rows
        BY CrewAssumption
      <4>2. [crews[c] EXCEPT !.max = m] \in Rows
        BY <1>0, <3>1, ServedFacts, updateMoves DEF m, NeedsRow, ReqType, Rows
      <4> QED
        BY <3>1, <4>1, <4>2
    <3> QED
      BY <2>2, <3>2, <3>4
  <2> QED
    BY <2>1, <2>2
<1> HIDE DEF c
<1>6. RowsFate
  BY <1>1, <1>4, <1>5 DEF RowsFate
<1>7. \A d \in Crews : crews'[d] # None => crews'[d].by = crews[d].by /\ crews'[d].from = crews[d].from
  BY <1>1, <1>4, <1>5
<1>8. \A d \in Crews : crews'[d] = None <=> crews[d] = None
  BY <1>1, <1>4, <1>5
<1>9. \A d \in Crews : crews'[d] # None /\ crews'[d].from # None => crews'[crews'[d].from] # None
  <2> SUFFICES ASSUME NEW d \in Crews, crews'[d] # None, crews'[d].from # None
               PROVE  crews'[crews'[d].from] # None
    OBVIOUS
  <2>1. crews[d] # None /\ crews[d].from # None /\ crews[d].from = crews'[d].from /\ crews[crews[d].from] # None
    BY <1>7, <1>8 DEF ForeignKeys
  <2>2. crews[d].from \in Crews
    BY <1>1, <2>1 DEF Rows
  <2> QED
    BY <1>8, <2>1, <2>2
<1>10. ForeignKeys'
  BY <1>3, <1>7, <1>8, <1>9 DEF ForeignKeys, Members
<1> QED
  BY <1>3, <1>4, <1>6, <1>7, <1>8, <1>10 DEF c

LEMMA deleteCrewTables ==
  ASSUME TInv, ForeignKeys, UNCHANGED scenario, NEW r \in Requests, deleteCrew(r)
  PROVE  /\ ForeignKeys' /\ RowsFate /\ \A c \in Crews : crews'[c] # None => crews'[c].by = crews[c].by
         /\ \A c \in Crews : crews'[c] # None =>
              /\ crews'[c].max = crews[c].max /\ joined'[c] = joined[c] /\ owners'[c] = owners[c]
         /\ \A c \in Crews : Len(joined'[c]) <= Len(joined[c])
         /\ UNCHANGED <<profiles, accounts>>
<1> DEFINE c == req[r].crew
<1>1. /\ crews' = Without(crews, {c})
      /\ joined' = [d \in Crews |-> IF d \in {c} THEN <<>> ELSE joined[d]]
      /\ owners' = [d \in Crews |-> IF d \in {c} THEN {} ELSE owners[d]]
      /\ UNCHANGED <<profiles, accounts>>
  BY DEF deleteCrew, Cascade
<1>2. crews \in [Crews -> Rows \cup {None}] /\ joined \in [Crews -> Seq(Users)]
  BY DEF TInv, TablesType
<1>3. \A d \in Crews :
        IF d \in {c} \/ crews[d] = None THEN crews'[d] = None
        ELSE /\ crews'[d] # None /\ crews'[d].festival = crews[d].festival
             /\ crews'[d].by = crews[d].by /\ crews'[d].max = crews[d].max
             /\ crews'[d].from = IF crews[d].from \in {c} THEN None ELSE crews[d].from
  <2> DEFINE gone == {c}
  <2>1. crews' = Without(crews, gone)
    BY <1>1
  <2> HIDE DEF gone
  <2>2. \A d \in Crews :
          IF d \in gone \/ crews[d] = None THEN crews'[d] = None
          ELSE /\ crews'[d] # None /\ crews'[d].festival = crews[d].festival
               /\ crews'[d].by = crews[d].by /\ crews'[d].max = crews[d].max
               /\ crews'[d].from = IF crews[d].from \in gone THEN None ELSE crews[d].from
    BY <1>2, <2>1, WithoutRows
  <2> QED
    BY <2>2 DEF gone
<1>4. \A d \in Crews : crews[d] # None => crews[d].from \in Crews \cup {None}
  BY <1>2 DEF Rows
<1> HIDE DEF c
<1>5. \A d \in Crews : crews'[d] = None <=> crews[d] = None \/ d = c
  BY <1>3
<1>6. RowsFate
  BY <1>3, <1>4, <1>5, CrewAssumption DEF RowsFate
<1>7. \A d \in Crews : crews'[d] # None /\ crews'[d].from # None => crews'[crews'[d].from] # None
  <2> SUFFICES ASSUME NEW d \in Crews, crews'[d] # None, crews'[d].from # None
               PROVE  crews'[crews'[d].from] # None
    OBVIOUS
  <2>1. crews[d] # None /\ crews[d].from # c /\ crews'[d].from = crews[d].from
    BY <1>3, <1>5
  <2>2. crews[d].from \in Crews /\ crews[crews[d].from] # None
    BY <1>4, <2>1 DEF ForeignKeys
  <2> QED
    BY <1>5, <2>1, <2>2
<1>8. \A d \in Crews : joined'[d] = IF d = c THEN <<>> ELSE joined[d]
  BY <1>1
<1>9. \A d \in Crews : Members(d)' \subseteq accounts'
  BY <1>1, <1>8 DEF ForeignKeys, Members, ToSet
<1>10. \A d \in Crews : crews'[d] = None => joined'[d] = <<>>
  BY <1>5, <1>8 DEF ForeignKeys
<1>11. \A d \in Crews : crews'[d] # None => crews'[d].by \in accounts'
  BY <1>1, <1>3, <1>5 DEF ForeignKeys
<1>12. ForeignKeys'
  BY <1>7, <1>9, <1>10, <1>11 DEF ForeignKeys
<1>13. \A d \in Crews : Len(joined'[d]) <= Len(joined[d])
  BY <1>2, <1>8
<1> QED
  BY <1>1, <1>3, <1>5, <1>6, <1>8, <1>12, <1>13

LEMMA CreatesTables ==
  ASSUME TInv, ForeignKeys, NEW r \in Requests, Creates(r), crews[r] = None
  PROVE  /\ ForeignKeys'
         /\ crews'[r] = NewRow(req[r]) /\ crews'[r] # None
         /\ \A c \in Crews \ {r} : crews'[c] = crews[c] /\ joined'[c] = joined[c] /\ owners'[c] = owners[c]
<1>1. /\ NewRow(req[r]) \in Rows /\ NewRow(req[r]) # None /\ req[r].user \in Users
      /\ NewRow(req[r]).by = req[r].user
      /\ NewRow(req[r]).from = IF req[r].op = "reform" THEN req[r].crew ELSE None
      /\ req[r] \in ReqType
  BY NewRowType DEF Creates
<1>2. r \in Crews
  BY CrewAssumption DEF Requests, Crews
<1>3. crews \in [Crews -> Rows \cup {None}] /\ joined \in [Crews -> Seq(Users)]
      /\ owners \in [Crews -> SUBSET Users]
  BY DEF TInv, TablesType
<1>4. /\ \A c \in Crews : crews'[c] = IF c = r THEN NewRow(req[r]) ELSE crews[c]
      /\ \A c \in Crews : joined'[c] = IF c = r THEN <<req[r].user>> ELSE joined[c]
      /\ \A c \in Crews : owners'[c] = IF c = r THEN {req[r].user} ELSE owners[c]
      /\ accounts' = accounts
  BY <1>2, <1>3 DEF Creates
<1>5. req[r].user \in accounts /\ (req[r].op = "reform" => crews[req[r].crew] # None)
  BY DEF Creates, CanCreate
<1>6. \A c \in Crews : Members(c)' \subseteq accounts'
  <2>1. ToSet(<<req[r].user>>) = {req[r].user}
    BY <1>1, NewRoster
  <2> QED
    BY <1>4, <1>5, <2>1 DEF ForeignKeys, Members
<1>7. \A c \in Crews : crews'[c] = None => joined'[c] = <<>>
  BY <1>1, <1>4 DEF ForeignKeys
<1>8. \A c \in Crews : crews'[c] # None => crews'[c].by \in accounts'
  BY <1>1, <1>4, <1>5 DEF ForeignKeys
<1>9. \A c \in Crews : crews'[c] # None /\ crews'[c].from # None => crews'[crews'[c].from] # None
  <2> SUFFICES ASSUME NEW c \in Crews, crews'[c] # None, crews'[c].from # None
               PROVE  crews'[crews'[c].from] # None
    OBVIOUS
  <2>1. crews'[c].from \in Crews /\ crews[crews'[c].from] # None
    <3>1. CASE c = r
      <4>1. req[r].op = "reform" /\ crews'[c].from = req[r].crew
        BY <1>1, <1>4, <3>1
      <4> QED
        BY <1>1, <1>5, <4>1 DEF ReqType
    <3>2. CASE c # r
      <4>1. crews'[c] = crews[c] /\ crews[c] \in Rows
        BY <1>3, <1>4, <3>2
      <4> QED
        BY <4>1 DEF ForeignKeys, Rows
    <3> QED
      BY <3>1, <3>2
  <2> QED
    BY <1>1, <1>4, <2>1
<1> QED
  BY <1>1, <1>2, <1>4, <1>6, <1>7, <1>8, <1>9 DEF ForeignKeys

LEMMA autoAddTables ==
  ASSUME TInv, Planned, ForeignKeys, UNCHANGED scenario, NEW r \in Requests, autoAdd(r)
  PROVE  ForeignKeys' /\ UNCHANGED <<crews, owners, profiles, accounts>>
<1>1. UNCHANGED <<crews, owners, profiles, accounts>>
  BY DEF autoAdd
<1>2. CASE UNCHANGED joined
  BY <1>1, <1>2, SameForeignKeys
<1>3. CASE ~ UNCHANGED joined
  <2>1. PICK u \in req[r].eligible :
          /\ CanInsert(req[r].new, u) /\ u \notin Members(req[r].new)
          /\ joined' = [joined EXCEPT ![req[r].new] = Append(@, u)]
    BY <1>3, autoAddMoves DEF tables
  <2>2. req[r].new \in Crews /\ u \in Users
    <3>1. req[r].at = "autoAdd" /\ req[r].new \in Crews
      BY autoAddMoves
    <3>2. req[r] \in ReqType
      BY <3>1, ServedFacts, CrewAssumption DEF Statements
    <3> QED
      BY <3>1, <3>2 DEF ReqType
  <2>3. Adds(req[r].new, u) /\ TablesType
    BY <2>1 DEF Adds, TInv
  <2> QED
    BY <1>1, <2>1, <2>2, <2>3, InsertForeignKeys
<1> QED
  BY <1>2, <1>3

LEMMA hardDeleteTables ==
  ASSUME TInv, ForeignKeys, NEW u, NEW gone \in SUBSET Crews, Inherited(u, gone)
  PROVE  ForeignKeys' /\ RowsFate
<1>1. crews \in [Crews -> Rows \cup {None}] /\ \A c \in Crews : Roster(joined[c])
  BY DEF TInv, TablesType
<1>2. \A c \in Crews : crews'[c] = None <=> crews[c] = None \/ c \in gone
  BY DEF Inherited
<1>3. \A c \in Crews \ gone :
        /\ ToSet(RemoveFirst(joined[c], u)) = ToSet(joined[c]) \ {u}
        /\ Roster(RemoveFirst(joined[c], u)) /\ Len(RemoveFirst(joined[c], u)) <= Len(joined[c])
  BY <1>1, RemoveRoster
<1>4. \A c \in Crews : ToSet(joined'[c]) \subseteq ToSet(joined[c]) \ {u}
  <2>1. ToSet(<<>>) = {}
    BY DEF ToSet
  <2> QED
    BY <1>3, <2>1 DEF Inherited
<1>5. accounts' = accounts \ {u}
  BY DEF Inherited
<1>6. \A c \in Crews : Members(c)' \subseteq accounts'
  BY <1>4, <1>5 DEF ForeignKeys, Members
<1>7. \A c \in Crews : crews'[c] = None => joined'[c] = <<>>
  <2> SUFFICES ASSUME NEW c \in Crews \ gone, crews[c] = None
               PROVE  joined'[c] = <<>>
    BY <1>2 DEF Inherited
  <2>1. joined[c] = <<>> /\ joined'[c] = RemoveFirst(joined[c], u)
    BY DEF ForeignKeys, Inherited
  <2>2. joined'[c] \in Seq(Users) /\ Len(joined'[c]) <= Len(joined[c])
    BY <1>3, <2>1 DEF Roster
  <2> QED
    BY <2>1, <2>2
<1>8. \A c \in Crews : crews'[c] # None =>
        /\ crews[c] # None /\ crews'[c].festival = crews[c].festival
        /\ crews'[c].from = IF crews[c].from \in gone THEN None ELSE crews[c].from
        /\ \/ crews[c].by # u /\ crews'[c].by = crews[c].by
           \/ crews[c].by = u /\ crews'[c].by \in ToSet(joined'[c])
  BY <1>2 DEF Inherited
<1>9. \A c \in Crews : crews'[c] # None => crews'[c].by \in accounts'
  BY <1>5, <1>6, <1>8 DEF ForeignKeys, Members
<1>10. \A c \in Crews : crews'[c] # None /\ crews'[c].from # None => crews'[crews'[c].from] # None
  <2> SUFFICES ASSUME NEW c \in Crews, crews'[c] # None, crews'[c].from # None
               PROVE  crews'[crews'[c].from] # None
    OBVIOUS
  <2>1. crews[c] # None /\ crews[c].from \notin gone /\ crews'[c].from = crews[c].from
    BY <1>8
  <2>2. crews[c].from \in Crews /\ crews[crews[c].from] # None
    BY <1>1, <2>1 DEF ForeignKeys, Rows
  <2> QED
    BY <1>2, <2>1, <2>2
<1>11. RowsFate
  BY <1>2, <1>5, <1>8 DEF RowsFate
<1> QED
  BY <1>6, <1>7, <1>9, <1>10, <1>11 DEF ForeignKeys

-----------------------------------------------------------------------------
(* The inductive invariant.                                                *)

\* A request that has not created its crew, and may.
Unborn(q) == q.op = None \/ Creating(q.op, q.at)

\* The crew a request may create does not exist yet, and nobody has heard of it.
Ids ==
  \A r \in Requests : Unborn(req[r]) =>
    crews[r] = None /\ \A s \in Requests : req[s].crew # r /\ req[s].new # r

\* A reform that is answered "ok" returns a crew.
Answers ==
  \A r \in Requests : req[r].op = "reform" =>
    /\ req[r].at # None => req[r].result = None
    /\ req[r].result = "ok" => req[r].new \in Crews

\* Crew c, if it exists, is the one that reform q asks for: in its festival, by its requester and
\* from its source, as far as these exist.
Wanted(rows, users, c, q) ==
  rows[c] # None =>
    /\ rows[c].festival = q.festival
    /\ rows[c].by = q.user \/ q.user \notin users
    /\ rows[c].from = q.crew \/ rows[q.crew] = None

Reforms ==
  \A r \in Requests : req[r].op = "reform" /\ req[r].new # None =>
    Wanted(crews, accounts, req[r].new, req[r])

\* The same reform.
Alike(q, p) ==
  /\ q.op = "reform" /\ p.op = "reform" /\ q.user = p.user /\ q.crew = p.crew
  /\ q.festival = p.festival

\* The crews that like reforms found or made are the same, answered or not.
Pairs ==
  \A r, s \in Requests :
    /\ Alike(req[r], req[s]) /\ req[r].new # None /\ req[s].new # None
    /\ crews[req[r].new] # None /\ crews[req[s].new] # None
    => req[r].new = req[s].new

CInv ==
  TInv /\ ReformKeysUnique(crews) /\ Planned /\ ForeignKeys /\ Ids /\ Answers /\ Reforms /\ Pairs

\* What every statement does.
Effect(r) ==
  /\ TInv' /\ Others(r) /\ req[r].at # None /\ Kept(req[r], req'[r]) /\ ForeignKeys'
  /\ ReformKeysUnique(crews') /\ accounts' \subseteq accounts
  /\ \/ Creates(r)
     \/ RowsFate /\ NewFrom(req[r], req'[r])

LEMMA SameUnique == ReformKeysUnique(crews) /\ UNCHANGED crews => ReformKeysUnique(crews')
OBVIOUS

LEMMA TInvNext == scenario \in Scenarios /\ UNCHANGED scenario /\ TablesType' /\ RequestsType' => TInv'
BY DEF TInv

LEMMA SimpleEffects ==
  ASSUME CInv, UNCHANGED scenario, NEW r \in Requests,
         \/ addMember(r) \/ removeMember(r) \/ transferOwnership(r) \/ updateCrew(r) \/ deleteCrew(r)
         \/ deleteProfiles(r) \/ hardDelete(r)
  PROVE  Effect(r)
<1>0. /\ TInv /\ ForeignKeys /\ ReformKeysUnique(crews) /\ scenario \in Scenarios /\ Planned
      /\ None \notin Statements
  BY CrewAssumption DEF CInv, TInv
<1>1. CASE addMember(r)
  <2>1. req[r].at = "addMember" /\ req[r].at # None
    BY <1>0, <1>1 DEF addMember, At, Statements
  <2>2. /\ RequestsType' /\ TablesType' /\ Others(r)
        /\ req'[r] \in {Moved(After(req[r].op, req[r].at), req[r]), Answered(req[r], "refused"),
                        Answered(req[r], "error")}
    BY <1>0, <1>1, <2>1, addMemberMoves
  <2>3. Kept(req[r], req'[r]) /\ NewFrom(req[r], req'[r])
    BY <1>0, <2>1, <2>2, SameKept, RefusedKept
  <2>4. ForeignKeys' /\ UNCHANGED crews /\ UNCHANGED accounts
    BY <1>0, <1>1, addMemberTables
  <2> QED
    BY <1>0, <2>1, <2>2, <2>3, <2>4, SameUnique, SameFate, TInvNext DEF Effect
<1>2. CASE removeMember(r)
  <2>1. req[r].at = "removeMember" /\ req[r].at # None
    BY <1>0, <1>2 DEF removeMember, At, Statements
  <2>2. /\ RequestsType' /\ TablesType' /\ Others(r)
        /\ req'[r] = Moved(After(req[r].op, req[r].at), req[r])
    BY <1>0, <1>2, <2>1, removeMemberMoves
  <2>3. Kept(req[r], req'[r]) /\ NewFrom(req[r], req'[r])
    BY <1>0, <2>1, <2>2, SameKept
  <2>4. ForeignKeys' /\ UNCHANGED crews /\ UNCHANGED accounts
    BY <1>0, <1>2, removeMemberTables
  <2> QED
    BY <1>0, <2>1, <2>2, <2>3, <2>4, SameUnique, SameFate, TInvNext DEF Effect
<1>3. CASE transferOwnership(r)
  <2>1. req[r].at = "transferOwnership" /\ req[r].at # None
    BY <1>0, <1>3 DEF transferOwnership, At, Statements
  <2>2. /\ RequestsType' /\ TablesType' /\ Others(r)
        /\ req'[r] = Moved(After(req[r].op, req[r].at), req[r])
    BY <1>0, <1>3, <2>1, transferMoves
  <2>3. Kept(req[r], req'[r]) /\ NewFrom(req[r], req'[r])
    BY <1>0, <2>1, <2>2, SameKept
  <2>4. UNCHANGED crews /\ UNCHANGED accounts /\ UNCHANGED joined
    BY <1>3 DEF transferOwnership
  <2>5. ForeignKeys'
    BY <1>0, <2>4, SameForeignKeys
  <2> QED
    BY <1>0, <2>1, <2>2, <2>3, <2>4, <2>5, SameUnique, SameFate, TInvNext DEF Effect
<1>4. CASE updateCrew(r)
  <2>1. req[r].at = "updateCrew" /\ req[r].at # None
    BY <1>0, <1>4 DEF updateCrew, At, Statements
  <2>2. /\ RequestsType' /\ TablesType' /\ Others(r) /\ req[r].op = "update"
        /\ req'[r] = Moved("readBack", [req[r] EXCEPT !.new = req[r].crew])
    BY <1>0, <1>4, updateMoves
  <2>3. req[r] \in ReqType /\ OnPath(req[r].op, req[r].at)
    BY <1>0, <2>1, ServedFacts
  <2> DEFINE p == [req[r] EXCEPT !.new = req[r].crew]
  <2>4. /\ p \in ReqType /\ p.op = req[r].op /\ p.user = req[r].user /\ p.crew = req[r].crew
        /\ p.target = req[r].target /\ p.festival = req[r].festival /\ p.result = req[r].result
        /\ p.at = req[r].at /\ p.new = req[r].crew
    BY <2>3 DEF ReqType
  <2>5. "readBack" \in Statements /\ ~Creating("update", "readBack") /\ "readBack" # None
    BY <1>0 DEF Statements, Creating
  <2> HIDE DEF p
  <2>6. /\ Kept(req[r], Moved("readBack", p))
        /\ Moved("readBack", p).new = p.new \/ Moved("readBack", p).op = "other"
    BY <2>2, <2>3, <2>4, <2>5, MovedKept
  <2>7. Kept(req[r], req'[r]) /\ NewFrom(req[r], req'[r])
    BY <2>2, <2>4, <2>6 DEF NewFrom, p
  <2>8. ForeignKeys' /\ RowsFate /\ UNCHANGED accounts /\ ReformKeysUnique(crews')
    BY <1>0, <1>4, updateCrewTables, FateKeepsKeys
  <2> QED
    BY <1>0, <2>1, <2>2, <2>7, <2>8, TInvNext DEF Effect
<1>5. CASE deleteCrew(r)
  <2>1. req[r].at = "deleteCrew" /\ req[r].at # None
    BY <1>0, <1>5 DEF deleteCrew, At, Statements
  <2>2. /\ RequestsType' /\ TablesType' /\ Others(r)
        /\ req'[r] = Moved(After(req[r].op, req[r].at), req[r])
    BY <1>0, <1>5, <2>1, deleteMoves
  <2>3. Kept(req[r], req'[r]) /\ NewFrom(req[r], req'[r])
    BY <1>0, <2>1, <2>2, SameKept
  <2>4. ForeignKeys' /\ RowsFate /\ UNCHANGED accounts /\ ReformKeysUnique(crews')
    BY <1>0, <1>5, deleteCrewTables, FateKeepsKeys
  <2> QED
    BY <1>0, <2>1, <2>2, <2>3, <2>4, TInvNext DEF Effect
<1>6. CASE deleteProfiles(r)
  <2>1. req[r].at = "deleteProfiles" /\ req[r].at # None /\ req[r].op = "deleteUser"
    BY <1>0, <1>6, deleteProfilesMoves DEF Statements
  <2>2. /\ RequestsType' /\ TablesType' /\ Others(r) /\ UNCHANGED <<crews, joined, accounts>>
        /\ req'[r] = Moved(After(req[r].op, req[r].at), req[r])
    BY <1>0, <1>6, <2>1, deleteProfilesMoves, AfterDeleteUser
  <2>3. Kept(req[r], req'[r]) /\ NewFrom(req[r], req'[r])
    BY <1>0, <2>1, <2>2, SameKept
  <2>4. ForeignKeys'
    BY <1>0, <2>2, SameForeignKeys
  <2> QED
    BY <1>0, <2>1, <2>2, <2>3, <2>4, SameUnique, SameFate, TInvNext DEF Effect
<1>7. CASE hardDelete(r)
  <2>1. req[r].at = "hardDelete" /\ req[r].at # None /\ req[r].op = "deleteUser"
        /\ RequestsType' /\ TablesType' /\ Others(r) /\ req[r] \in ReqType
    <3>1. req[r].at = "hardDelete" /\ req[r].at # None /\ req[r].op = "deleteUser"
          /\ RequestsType' /\ TablesType' /\ Others(r)
      BY <1>0, <1>7, hardDeleteMoves DEF Statements
    <3> QED
      BY <1>0, <3>1, ServedFacts
  <2>2. CASE req'[r] = Answered(req[r], "error") /\ UNCHANGED tables
    <3>1. UNCHANGED <<crews, joined, accounts>>
      BY <2>2 DEF tables
    <3>2. Kept(req[r], req'[r]) /\ NewFrom(req[r], req'[r])
      BY <1>0, <2>1, <2>2, RefusedKept
    <3> QED
      BY <1>0, <2>1, <3>1, <3>2, SameForeignKeys, SameUnique, SameFate, TInvNext DEF Effect
  <2>3. CASE /\ req'[r] \in {Answered(req[r], "ok"), Answered(req[r], "refused")}
             /\ ReformKeysUnique(crews')
             /\ \E gone \in SUBSET Crews : Inherited(req[r].target, gone)
    <3>1. PICK gone \in SUBSET Crews : Inherited(req[r].target, gone)
      BY <2>3
    <3>2. ForeignKeys' /\ RowsFate /\ accounts' \subseteq accounts
      BY <1>0, <3>1, hardDeleteTables DEF Inherited
    <3>3. Kept(req[r], req'[r]) /\ NewFrom(req[r], req'[r])
      BY <2>1, <2>3, AnsweredKept DEF Endpoints, Results
    <3> QED
      BY <1>0, <2>1, <2>3, <3>2, <3>3, TInvNext DEF Effect
  <2> QED
    BY <1>0, <1>7, <2>2, <2>3, hardDeleteMoves
<1> QED
  BY <1>1, <1>2, <1>3, <1>4, <1>5, <1>6, <1>7

LEMMA ReadEffects ==
  ASSUME CInv, UNCHANGED scenario, NEW r \in Requests,
         \/ check(r) \/ readBack(r) \/ sourceMembers(r) \/ targetProfiles(r) \/ findReformed(r)
         \/ reread(r) \/ readNew(r) \/ planRoster(r)
  PROVE  Effect(r)
<1>0. /\ TInv /\ ForeignKeys /\ ReformKeysUnique(crews) /\ scenario \in Scenarios /\ Planned
      /\ None \notin Statements
  BY CrewAssumption DEF CInv, TInv
<1>1. RequestsType' /\ Others(r) /\ UNCHANGED tables /\ req[r].at # None
  <2>1. CASE check(r)
    BY <1>0, <2>1, checkMoves DEF check, Statements
  <2>2. CASE readBack(r)
    BY <1>0, <2>2, readBackMoves DEF Statements
  <2>3. CASE sourceMembers(r)
    BY <1>0, <2>3, sourceMembersMoves DEF Statements
  <2>4. CASE targetProfiles(r)
    BY <1>0, <2>4, targetProfilesMoves DEF Statements
  <2>5. CASE findReformed(r)
    BY <1>0, <2>5, findReformedMoves DEF Statements
  <2>6. CASE reread(r)
    BY <1>0, <2>6, rereadMoves DEF Statements
  <2>7. CASE readNew(r)
    BY <1>0, <2>7, readNewMoves DEF Statements
  <2>8. CASE planRoster(r)
    BY <1>0, <2>8, planRosterMoves DEF Statements
  <2> QED
    BY <2>1, <2>2, <2>3, <2>4, <2>5, <2>6, <2>7, <2>8
<1>2. Kept(req[r], req'[r]) /\ NewFrom(req[r], req'[r])
  <2>1. CASE check(r)
    BY <1>0, <2>1, checkKeeps
  <2>2. CASE readBack(r)
    <3>1. /\ req[r].at = "readBack" /\ req[r] \in ReqType /\ req[r].op \in Endpoints
          /\ req'[r] \in {Answered(req[r], "ok"), Answered(req[r], "error")}
      BY <1>0, <1>1, <2>2, readBackMoves, ServedFacts
    <3> QED
      BY <3>1, AnsweredKept DEF Results
  <2>3. CASE ~ check(r) /\ ~ readBack(r)
    BY <1>0, <2>3, ReformKeeps
  <2> QED
    BY <2>1, <2>2, <2>3
<1>3. UNCHANGED crews /\ UNCHANGED joined /\ UNCHANGED accounts /\ TablesType'
  BY <1>0, <1>1, SameTables DEF tables
<1> QED
  BY <1>0, <1>1, <1>2, <1>3, SameForeignKeys, SameUnique, SameFate, TInvNext DEF Effect

LEMMA autoAddEffect ==
  ASSUME CInv, UNCHANGED scenario, NEW r \in Requests, autoAdd(r)
  PROVE  Effect(r)
<1>0. /\ TInv /\ ForeignKeys /\ ReformKeysUnique(crews) /\ scenario \in Scenarios /\ Planned
      /\ None \notin Statements
  BY CrewAssumption DEF CInv, TInv
<1>1. RequestsType' /\ Others(r) /\ TablesType' /\ req[r].at # None
  BY <1>0, autoAddMoves DEF Statements
<1>2. Kept(req[r], req'[r]) /\ NewFrom(req[r], req'[r])
  BY <1>0, ReformKeeps
<1>3. ForeignKeys' /\ UNCHANGED crews /\ UNCHANGED accounts
  BY <1>0, autoAddTables
<1> QED
  BY <1>0, <1>1, <1>2, <1>3, SameUnique, SameFate, TInvNext DEF Effect

\* The crew a request is about to create does not exist.
LEMMA BeforeCreation ==
  ASSUME CInv, NEW r \in Requests, req[r].at = "persistCrew"
  PROVE  /\ crews[r] = None /\ Creating(req[r].op, req[r].at) /\ req[r].at # None
         /\ \A s \in Requests : req[s].crew # r /\ req[s].new # r
<1>1. req[r].at # None
  BY CrewAssumption DEF Statements
<1>2. req[r].op \in {"create", "reform"}
  BY <1>1, ServedFacts, PathFacts DEF CInv
<1>3. Creating(req[r].op, req[r].at)
  BY <1>2 DEF Creating
<1> QED
  BY <1>1, <1>3 DEF CInv, Ids, Unborn

LEMMA persistCrewEffect ==
  ASSUME CInv, UNCHANGED scenario, NEW r \in Requests, persistCrew(r)
  PROVE  Effect(r)
<1>0. /\ TInv /\ ForeignKeys /\ ReformKeysUnique(crews) /\ scenario \in Scenarios /\ Planned
      /\ req[r].at = "persistCrew"
  BY DEF CInv, TInv, persistCrew, At
<1>1. /\ RequestsType' /\ Others(r) /\ TablesType' /\ UNCHANGED accounts /\ ReformKeysUnique(crews')
  BY <1>0, persistCrewMoves, SameUnique
<1>2. crews[r] = None /\ req[r].at # None
  BY <1>0, BeforeCreation
<1>3. /\ Kept(req[r], req'[r])
      /\ \/ Creates(r)
         \/ UNCHANGED <<crews, joined, owners>> /\ NewFrom(req[r], req'[r])
  BY <1>0, persistCrewKeeps
<1>4. CASE Creates(r)
  BY <1>0, <1>1, <1>2, <1>3, <1>4, CreatesTables, TInvNext DEF Effect
<1>5. CASE UNCHANGED <<crews, joined, owners>> /\ NewFrom(req[r], req'[r])
  <2>1. ForeignKeys' /\ RowsFate
    BY <1>0, <1>1, <1>5, SameForeignKeys, SameFate
  <2> QED
    BY <1>0, <1>1, <1>2, <1>3, <1>5, <2>1, TInvNext DEF Effect
<1> QED
  BY <1>3, <1>4, <1>5

LEMMA StepEffect ==
  ASSUME CInv, UNCHANGED scenario, NEW r \in Requests, Step(r)
  PROVE  Effect(r)
<1>1. \/ check(r) \/ readBack(r) \/ sourceMembers(r) \/ targetProfiles(r) \/ findReformed(r)
      \/ reread(r) \/ readNew(r) \/ planRoster(r) \/ autoAdd(r) \/ persistCrew(r)
      \/ addMember(r) \/ removeMember(r) \/ transferOwnership(r) \/ updateCrew(r) \/ deleteCrew(r)
      \/ deleteProfiles(r) \/ hardDelete(r)
  BY DEF Step
<1>2. CASE \/ check(r) \/ readBack(r) \/ sourceMembers(r) \/ targetProfiles(r) \/ findReformed(r)
           \/ reread(r) \/ readNew(r) \/ planRoster(r)
  BY <1>2, ReadEffects
<1>3. CASE \/ addMember(r) \/ removeMember(r) \/ transferOwnership(r) \/ updateCrew(r) \/ deleteCrew(r)
           \/ deleteProfiles(r) \/ hardDelete(r)
  BY <1>3, SimpleEffects
<1> QED
  BY <1>1, <1>2, <1>3, autoAddEffect, persistCrewEffect

\* The endpoint of a request that is served.
LEMMA ActiveOp ==
  ASSUME TInv, NEW r \in Requests, req[r].at # None
  PROVE  /\ req[r].op \in Endpoints /\ req[r].op # None /\ req[r].op # "other" /\ None # "other"
         /\ req[r] \in ReqType
BY ServedFacts, CrewAssumption DEF Endpoints

LEMMA StepPlanned ==
  ASSUME CInv, NEW r \in Requests, Effect(r)
  PROVE  Planned'
<1>1. req'[r].at = "autoAdd" => req'[r].eligible \subseteq ToSet(req'[r].roster)
  BY DEF Effect, Kept
<1>2. \A t \in Requests \ {r} : req'[t].at = "autoAdd" => req'[t].eligible \subseteq ToSet(req'[t].roster)
  BY DEF Effect, Others, CInv, Planned
<1> QED
  BY <1>1, <1>2 DEF Planned

LEMMA StepIds ==
  ASSUME CInv, NEW r \in Requests, Effect(r)
  PROVE  Ids'
<1>1. /\ req[r].at # None /\ Kept(req[r], req'[r]) /\ Others(r) /\ TInv
      /\ \/ Creates(r)
         \/ RowsFate /\ NewFrom(req[r], req'[r])
  BY DEF Effect, CInv
<1>2. /\ req[r].op \in Endpoints /\ req[r].op # None /\ req[r].op # "other" /\ None # "other"
  BY <1>1, ActiveOp
<1> SUFFICES ASSUME NEW t \in Requests, Unborn(req'[t])
             PROVE  crews'[t] = None /\ \A s \in Requests : req'[s].crew # t /\ req'[s].new # t
  BY DEF Ids, Unborn, Creating
<1>3. t \in Crews /\ t # 0 /\ t # None
  BY CrewAssumption DEF Requests, Crews
<1>4. Unborn(req[t]) /\ (t = r => req[r].at # "persistCrew")
  <2>1. CASE t # r
    BY <1>1, <2>1 DEF Others
  <2>2. CASE t = r
    <3>1. req'[r].op # None
      BY <1>1, <1>2 DEF Kept
    <3>2. Creating(req'[r].op, req'[r].at)
      BY <2>2, <3>1 DEF Unborn
    <3> QED
      BY <1>1, <2>2, <3>2 DEF Kept, Unborn
  <2> QED
    BY <2>1, <2>2
<1>5. crews[t] = None /\ \A s \in Requests : req[s].crew # t /\ req[s].new # t
  BY <1>4 DEF CInv, Ids
<1>6. Creates(r) => t # r
  BY <1>4 DEF Creates
<1>7. crews'[t] = None
  <2>1. CASE Creates(r)
    BY <1>3, <1>5, <1>6, <2>1 DEF Creates, CInv, TInv, TablesType
  <2>2. CASE RowsFate
    BY <1>3, <1>5, <2>2 DEF RowsFate
  <2> QED
    BY <1>1, <2>1, <2>2
<1>8. req'[r].crew # t
  BY <1>1, <1>3, <1>5 DEF Kept
<1>9. req'[r].new # t
  <2>1. CASE Creates(r)
    BY <1>6, <2>1 DEF Creates
  <2>2. CASE NewFrom(req[r], req'[r])
    <3>1. CASE req'[r].new = req[r].new
      BY <1>5, <3>1
    <3>2. CASE req'[r].op = "other"
      BY <1>1, <1>2, <1>3, <3>2 DEF Kept
    <3>3. CASE req'[r].new = req[r].crew
      BY <1>5, <3>3
    <3>4. CASE req'[r].new \in Reformed(req[r])
      BY <1>5, <3>4 DEF Reformed, listByUserAndFestival
    <3> QED
      BY <2>2, <3>1, <3>2, <3>3, <3>4 DEF NewFrom
  <2> QED
    BY <1>1, <2>1, <2>2
<1> QED
  BY <1>1, <1>5, <1>7, <1>8, <1>9 DEF Others

LEMMA StepAnswers ==
  ASSUME CInv, NEW r \in Requests, Effect(r)
  PROVE  Answers'
<1>1. /\ req[r].at # None /\ Kept(req[r], req'[r]) /\ Others(r) /\ TInv
      /\ \/ Creates(r)
         \/ RowsFate /\ NewFrom(req[r], req'[r])
  BY DEF Effect, CInv
<1>2. /\ req[r].op \in Endpoints /\ req[r].op # "other"
  BY <1>1, ActiveOp
<1> SUFFICES ASSUME NEW t \in Requests, req'[t].op = "reform"
             PROVE  /\ req'[t].at # None => req'[t].result = None
                    /\ req'[t].result = "ok" => req'[t].new \in Crews
  BY DEF Answers
<1>3. CASE t # r
  BY <1>1, <1>3 DEF Others, CInv, Answers
<1>4. CASE t = r
  <2>1. req[r].op = "reform" /\ req[r].result = None
    BY <1>1, <1>4 DEF Kept, CInv, Answers
  <2>2. req'[r].at # None => req'[r].result = None
    BY <1>1, <2>1 DEF Kept
  <2>3. ASSUME req'[r].result = "ok"
        PROVE  req'[r].new \in Crews
    <3>1. "ok" # None /\ "readBack" # "persistCrew"
      BY CrewAssumption DEF Results
    <3>2. req[r].at = "readBack"
      BY <1>1, <1>4, <2>2, <2>3, <3>1 DEF Kept
    <3>3. req[r].new \in Crews
      BY <1>1, <3>2, ServedFacts DEF NeedsNew
    <3>4. NewFrom(req[r], req'[r])
      BY <1>1, <3>1, <3>2 DEF Creates
    <3>5. req'[r].new = req[r].new \/ req'[r].new \in Reformed(req[r])
      BY <1>4, <2>1, <3>4 DEF NewFrom
    <3> QED
      BY <3>3, <3>5 DEF Reformed, listByUserAndFestival
  <2> QED
    BY <1>4, <2>2, <2>3
<1> QED
  BY <1>3, <1>4

\* A crew that a reform wants stays so.
LEMMA FateKeepsWanted ==
  ASSUME RowsFate, accounts' \subseteq accounts, NEW q, q.crew \in Crews, NEW c \in Crews,
         Wanted(crews, accounts, c, q)
  PROVE  Wanted(crews', accounts', c, q)
<1> SUFFICES ASSUME crews'[c] # None
             PROVE  /\ crews'[c].festival = q.festival
                    /\ crews'[c].by = q.user \/ q.user \notin accounts'
                    /\ crews'[c].from = q.crew \/ crews'[q.crew] = None
  BY DEF Wanted
<1>1. /\ crews[c] # None /\ crews'[c].festival = crews[c].festival
      /\ crews'[c].by = crews[c].by \/ crews[c].by \notin accounts'
      /\ \/ crews'[c].from = crews[c].from
         \/ crews[c].from \in Crews /\ crews'[crews[c].from] = None /\ crews'[c].from = None
      /\ crews[q.crew] = None => crews'[q.crew] = None
  BY DEF RowsFate
<1>2. /\ crews[c].festival = q.festival
      /\ crews[c].by = q.user \/ q.user \notin accounts
      /\ crews[c].from = q.crew \/ crews[q.crew] = None
  BY <1>1 DEF Wanted
<1> QED
  BY <1>1, <1>2

LEMMA StepReforms ==
  ASSUME CInv, NEW r \in Requests, Effect(r)
  PROVE  Reforms'
<1>1. /\ req[r].at # None /\ Kept(req[r], req'[r]) /\ Others(r) /\ TInv /\ TInv'
      /\ accounts' \subseteq accounts
      /\ \/ Creates(r)
         \/ RowsFate /\ NewFrom(req[r], req'[r])
  BY DEF Effect, CInv
<1>2. /\ req[r].op \in Endpoints /\ req[r].op # "other"
  BY <1>1, ActiveOp
<1>3. ASSUME NEW t \in Requests, NEW q, q.crew \in Crews, q.crew = req[t].crew, NEW c \in Crews,
             Wanted(crews, accounts, c, q), Creates(r) => c # r
      PROVE  Wanted(crews', accounts', c, q)
  <2>1. CASE RowsFate
    BY <1>1, <1>3, <2>1, FateKeepsWanted
  <2>2. CASE Creates(r)
    <3>1. \A s \in Requests : req[s].crew # r
      BY <2>2, BeforeCreation DEF Creates
    <3>2. q.crew # r /\ c # r
      BY <1>3, <2>2, <3>1
    <3>3. \A d \in Crews \ {r} : crews'[d] = crews[d]
      BY <1>1, <2>2 DEF Creates, TInv, TablesType
    <3> QED
      BY <1>1, <1>3, <3>2, <3>3 DEF Wanted
  <2> QED
    BY <1>1, <2>1, <2>2
<1> SUFFICES ASSUME NEW t \in Requests, req'[t].op = "reform", req'[t].new # None
             PROVE  Wanted(crews', accounts', req'[t].new, req'[t])
  BY DEF Reforms, Wanted
<1>4. req[t] \in ReqType /\ req'[t] \in ReqType
  BY <1>1 DEF TInv, RequestsType
<1>5. req[t].crew \in Crews /\ req'[t].crew \in Crews /\ req'[t].new \in Crews /\ req[t].new \in Crews \cup {None}
  BY <1>4 DEF ReqType
<1>6. req[t].op = "reform" /\ req[t].user = req'[t].user /\ req[t].crew = req'[t].crew
      /\ req[t].festival = req'[t].festival
  BY <1>1 DEF Others, Kept
<1>7. CASE req'[t].new = req[t].new
  <2>1. Wanted(crews, accounts, req[t].new, req[t])
    BY <1>6, <1>7 DEF CInv, Reforms
  <2>2. Wanted(crews, accounts, req[t].new, req'[t])
    BY <1>6, <2>1 DEF Wanted
  <2>3. Creates(r) => req[t].new # r
    BY BeforeCreation DEF Creates
  <2> QED
    BY <1>3, <1>5, <1>6, <1>7, <2>2, <2>3
<1>8. CASE req'[t].new # req[t].new
  <2>1. t = r
    BY <1>1, <1>8 DEF Others
  <2>2. CASE Creates(r)
    <3>1. /\ NewRow(req[r]).festival = req[r].festival /\ NewRow(req[r]).by = req[r].user
          /\ NewRow(req[r]).from = req[r].crew
      BY <1>1, <1>6, <2>1, <2>2, NewRowType DEF Creates
    <3>2. crews'[r] = NewRow(req[r]) /\ req'[r].new = r
      BY <1>1, <1>5, <2>1, <2>2 DEF Creates, TInv, TablesType
    <3> QED
      BY <1>6, <2>1, <3>1, <3>2 DEF Wanted
  <2>3. CASE NewFrom(req[r], req'[r]) /\ RowsFate
    <3>1. req'[r].new \in Reformed(req[r])
      BY <1>6, <1>8, <2>1, <2>3 DEF NewFrom
    <3>2. Wanted(crews, accounts, req'[r].new, req'[r])
      BY <1>6, <2>1, <3>1 DEF Wanted, Reformed, listByUserAndFestival
    <3> QED
      BY <1>1, <1>5, <2>1, <2>3, <3>2, FateKeepsWanted
  <2> QED
    BY <1>1, <2>1, <2>2, <2>3
<1> QED
  BY <1>7, <1>8

\* The request that finds or makes a crew agrees with every like reform that has one.
LEMMA NewAgrees ==
  ASSUME CInv, NEW r \in Requests, Effect(r), NEW t \in Requests \ {r},
         Alike(req[r], req[t]), req'[r].new # req[r].new, req'[r].op = "reform",
         req[t].new # None, crews'[req'[r].new] # None, crews'[req[t].new] # None
  PROVE  req'[r].new = req[t].new
<1>1. /\ req[r].at # None /\ Kept(req[r], req'[r]) /\ TInv /\ ForeignKeys
      /\ ReformKeysUnique(crews) /\ ReformKeysUnique(crews')
      /\ \/ Creates(r)
         \/ RowsFate /\ NewFrom(req[r], req'[r])
  BY DEF Effect, CInv
<1>2. req[t] \in ReqType /\ req[r] \in ReqType
  BY <1>1 DEF TInv, RequestsType
<1>3. req[t].new \in Crews /\ req[r].crew \in Crews /\ req[r].crew # None
  BY <1>2, CrewAssumption DEF ReqType
<1>4. Wanted(crews, accounts, req[t].new, req[t])
  BY DEF CInv, Reforms, Alike
<1>5. CASE Creates(r)
  <2>1. /\ req[r].user \in accounts /\ crews[req[r].crew] # None
    BY <1>5 DEF Creates, CanCreate, Alike
  <2>2. /\ NewRow(req[r]).festival = req[r].festival /\ NewRow(req[r]).by = req[r].user
        /\ NewRow(req[r]).from = req[r].crew /\ NewRow(req[r]) # None
    BY <1>1, <1>5, NewRowType DEF Creates, Alike
  <2>3. r \in Crews /\ req'[r].new = r /\ crews'[r] = NewRow(req[r])
        /\ \A d \in Crews \ {r} : crews'[d] = crews[d]
    BY <1>1, <1>5, CrewAssumption DEF Creates, TInv, TablesType, Requests, Crews
  <2>4. req[t].new # r
    BY <1>5, BeforeCreation DEF Creates
  <2>5. /\ crews'[req[t].new] = crews[req[t].new] /\ crews[req[t].new] # None
    BY <1>3, <2>3, <2>4
  <2>6. /\ crews[req[t].new].festival = req[r].festival /\ crews[req[t].new].by = req[r].user
        /\ crews[req[t].new].from = req[r].crew
    BY <1>4, <2>1, <2>5 DEF Wanted, Alike
  <2> QED
    BY <1>1, <1>3, <2>2, <2>3, <2>4, <2>5, <2>6 DEF ReformKeysUnique
<1>6. CASE RowsFate /\ NewFrom(req[r], req'[r])
  <2> DEFINE c == req'[r].new
  <2>1. c \in Reformed(req[r])
    BY <1>6 DEF NewFrom, Alike
  <2>2. /\ c \in Crews /\ crews[c] # None /\ crews[c].festival = req[r].festival
        /\ crews[c].by = req[r].user /\ crews[c].from = req[r].crew
    BY <2>1 DEF Reformed, listByUserAndFestival
  <2>3. req[r].user \in accounts /\ crews[req[r].crew] # None
    BY <1>1, <1>3, <2>2 DEF ForeignKeys
  <2>4. crews[req[t].new] # None
    BY <1>3, <1>6 DEF RowsFate
  <2>5. /\ crews[req[t].new].festival = req[r].festival /\ crews[req[t].new].by = req[r].user
        /\ crews[req[t].new].from = req[r].crew
    BY <1>4, <2>3, <2>4 DEF Wanted, Alike
  <2> HIDE DEF c
  <2>6. c = req[t].new
    BY <1>1, <1>3, <2>2, <2>4, <2>5 DEF ReformKeysUnique
  <2> QED
    BY <2>6 DEF c
<1> QED
  BY <1>1, <1>5, <1>6

LEMMA StepPairs ==
  ASSUME CInv, NEW r \in Requests, Effect(r)
  PROVE  Pairs'
<1>1. /\ req[r].at # None /\ Kept(req[r], req'[r]) /\ Others(r) /\ TInv /\ TInv'
      /\ \/ Creates(r)
         \/ RowsFate /\ NewFrom(req[r], req'[r])
  BY DEF Effect, CInv
<1> SUFFICES ASSUME NEW s \in Requests, NEW t \in Requests, Alike(req'[s], req'[t]),
                    req'[s].new # None, req'[t].new # None,
                    crews'[req'[s].new] # None, crews'[req'[t].new] # None
             PROVE  req'[s].new = req'[t].new
  BY DEF Pairs, Alike
<1>2. Alike(req[s], req[t])
  <2>1. \A x \in Requests : req'[x].op = "reform" =>
          /\ req[x].op = "reform" /\ req'[x].user = req[x].user /\ req'[x].crew = req[x].crew
          /\ req'[x].festival = req[x].festival
    BY <1>1 DEF Others, Kept
  <2> QED
    BY <2>1 DEF Alike
<1>3. Alike(req[t], req[s])
  BY <1>2 DEF Alike
<1>4. CASE s = t
  BY <1>4
<1>5. CASE s # t /\ req'[s].new = req[s].new /\ req'[t].new = req[t].new
  <2>1. req[s] \in ReqType /\ req[t] \in ReqType
    BY <1>1 DEF TInv, RequestsType
  <2>2. req[s].new \in Crews /\ req[t].new \in Crews
    BY <1>5, <2>1 DEF ReqType
  <2>3. crews[req[s].new] # None /\ crews[req[t].new] # None
    <3>1. CASE Creates(r)
      <4>1. req[s].new # r /\ req[t].new # r
        BY <3>1, BeforeCreation DEF Creates
      <4>2. \A d \in Crews \ {r} : crews'[d] = crews[d]
        BY <1>1, <3>1 DEF Creates, TInv, TablesType
      <4> QED
        BY <1>5, <2>2, <4>1, <4>2
    <3>2. CASE RowsFate
      BY <1>5, <2>2, <3>2 DEF RowsFate
    <3> QED
      BY <1>1, <3>1, <3>2
  <2> QED
    BY <1>2, <1>5, <2>3 DEF CInv, Pairs
<1>6. CASE s # t /\ req'[s].new # req[s].new
  <2>1. s = r /\ req'[t] = req[t]
    BY <1>1, <1>6 DEF Others
  <2> QED
    BY <1>2, <1>6, <2>1, NewAgrees DEF Alike
<1>7. CASE s # t /\ req'[t].new # req[t].new
  <2>1. t = r /\ req'[s] = req[s]
    BY <1>1, <1>7 DEF Others
  <2>2. req'[t].new = req[s].new
    BY <1>3, <1>7, <2>1, NewAgrees DEF Alike
  <2> QED
    BY <2>1, <2>2
<1> QED
  BY <1>4, <1>5, <1>6, <1>7

LEMMA StepKeepsInv ==
  ASSUME CInv, NEW r \in Requests, Effect(r)
  PROVE  CInv'
<1>1. TInv' /\ ReformKeysUnique(crews)' /\ ForeignKeys'
  BY DEF Effect, ReformKeysUnique
<1> QED
  BY <1>1, StepPlanned, StepIds, StepAnswers, StepReforms, StepPairs DEF CInv

LEMMA StartKeepsInv ==
  ASSUME CInv, UNCHANGED scenario, NEW r \in Requests, start(r)
  PROVE  CInv'
<1>1. TInv /\ scenario \in Scenarios
  BY DEF CInv, TInv
<1>2. /\ RequestsType' /\ Others(r) /\ UNCHANGED tables /\ req[r] = Idle
      /\ req'[r].op \in Endpoints
      /\ req'[r].crew = 0 \/ crews[req'[r].crew] # None
      /\ req'[r].new = None /\ req'[r].result = None /\ req'[r].at \in Checks
      /\ req'[r].eligible = {}
  BY <1>1, startMoves, FirstStatement
<1>3. UNCHANGED <<crews, joined, owners, profiles, accounts>>
  BY <1>2 DEF tables
<1>4. TInv'
  BY <1>1, <1>2, SameTables, TInvNext
<1>5. ReformKeysUnique(crews)' /\ ForeignKeys'
  BY <1>3, SameForeignKeys, SameUnique DEF CInv, ReformKeysUnique
<1>6. Planned'
  <2>1. req'[r].at # "autoAdd"
    BY <1>2 DEF Checks
  <2> QED
    BY <1>2, <2>1 DEF Planned, Others, CInv
<1>7. Ids'
  <2> SUFFICES ASSUME NEW t \in Requests, Unborn(req'[t])
               PROVE  crews'[t] = None /\ \A s \in Requests : req'[s].crew # t /\ req'[s].new # t
    BY DEF Ids, Unborn, Creating
  <2>1. Unborn(req[t])
    BY <1>2, IdleType DEF Others, Unborn
  <2>2. crews[t] = None /\ \A s \in Requests : req[s].crew # t /\ req[s].new # t
    BY <2>1 DEF CInv, Ids
  <2>3. t # 0 /\ t # None
    BY CrewAssumption DEF Requests, Crews
  <2>4. req'[r].crew # t /\ req'[r].new # t
    BY <1>2, <2>2, <2>3
  <2> QED
    BY <1>2, <1>3, <2>2, <2>4 DEF Others
<1>8. Answers'
  <2>1. "ok" # None
    BY CrewAssumption DEF Results
  <2> QED
    BY <1>2, <2>1 DEF Answers, Others, CInv
<1>9. Reforms'
  BY <1>2, <1>3 DEF Reforms, Others, CInv, Wanted
<1>10. Pairs'
  BY <1>2, <1>3 DEF Pairs, Alike, Others, CInv
<1> QED
  BY <1>4, <1>5, <1>6, <1>7, <1>8, <1>9, <1>10 DEF CInv

LEMMA ProfileStepKeepsInv ==
  ASSUME CInv, UNCHANGED scenario, ProfileStep
  PROVE  CInv'
<1>1. TInv' /\ UNCHANGED <<crews, joined, owners, accounts, req>>
  BY ProfileStepMoves DEF CInv
<1> QED
  BY <1>1 DEF CInv, ReformKeysUnique, Planned, ForeignKeys, Members, Ids, Unborn, Creating, Answers,
              Reforms, Wanted, Pairs, Alike

LEMMA StutterKeepsInv == CInv /\ UNCHANGED vars => CInv'
BY DEF vars, CInv, TInv, TablesType, RequestsType, Served, Asked, Roster, ReformKeysUnique, Planned,
       ForeignKeys, Members, Ids, Unborn, Creating, Answers, Reforms, Wanted, Pairs, Alike

LEMMA InitInv == Init => CInv
<1> SUFFICES ASSUME Init
             PROVE  CInv
  OBVIOUS
<1>1. TInv /\ ReformKeysUnique(crews) /\ Planned
  BY InitTypes
<1>2. /\ req = [r \in Requests |-> Idle] /\ scenario \in Scenarios /\ accounts = Users
      /\ crews = [c \in Crews |-> IF c = 0 THEN Row(Home, scenario.roster[1], scenario.max, None)
                                  ELSE None]
      /\ joined = [c \in Crews |-> IF c = 0 THEN scenario.roster ELSE <<>>]
  BY DEF Init
<1> DEFINE row == Row(Home, scenario.roster[1], scenario.max, None)
<1>3. row.from = None /\ row.by = scenario.roster[1]
  BY DEF Row
<1>4. Roster(scenario.roster) /\ scenario.roster # <<>>
  BY <1>2, CrewAssumption DEF Starts, Roster
<1>5. 0 \in Crews /\ crews[0] = row /\ joined[0] = scenario.roster
      /\ \A c \in Crews \ {0} : crews[c] = None /\ joined[c] = <<>>
  BY <1>2, CrewAssumption DEF Crews
<1>6. row \in Rows /\ row # None
  <2>1. scenario.roster[1] \in Users /\ scenario.max \in Nat
    BY <1>2, <1>4, HeadOfRoster, CrewAssumption DEF Starts
  <2>2. row \in Rows
    BY <2>1, CrewAssumption DEF Row, Rows
  <2> HIDE DEF row
  <2> QED
    BY <2>2, CrewAssumption
<1> HIDE DEF row
<1>7. ForeignKeys
  <2>1. ToSet(scenario.roster) \subseteq Users /\ scenario.roster[1] \in Users
    BY <1>4, HeadOfRoster DEF Roster, ToSet
  <2>2. ToSet(<<>>) = {}
    BY DEF ToSet
  <2>3. \A c \in Crews : Members(c) \subseteq accounts
    BY <1>2, <1>5, <2>1, <2>2 DEF Members
  <2> QED
    BY <1>2, <1>3, <1>5, <1>6, <2>1, <2>3 DEF ForeignKeys
<1>8. Ids
  <2>1. \A r \in Requests : r # 0 /\ r # None /\ r \in Crews
    BY CrewAssumption DEF Requests, Crews
  <2> QED
    BY <1>2, <1>5, <2>1, IdleType DEF Ids
<1>9. \A r \in Requests : req[r].op # "reform"
  BY <1>2, IdleType, CrewAssumption DEF Endpoints
<1>10. Answers /\ Reforms /\ Pairs
  BY <1>9 DEF Answers, Reforms, Pairs, Alike
<1> QED
  BY <1>1, <1>7, <1>8, <1>10 DEF CInv

LEMMA NextKeepsInv == CInv /\ [Next]_vars => CInv'
<1> SUFFICES ASSUME CInv, [Next]_vars
             PROVE  CInv'
  OBVIOUS
<1>1. ASSUME NEW r \in Requests, start(r), UNCHANGED scenario
      PROVE  CInv'
  BY <1>1, StartKeepsInv
<1>2. ASSUME NEW r \in Requests, Step(r), UNCHANGED scenario
      PROVE  CInv'
  BY <1>2, StepEffect, StepKeepsInv
<1>3. ASSUME ProfileStep, UNCHANGED scenario
      PROVE  CInv'
  BY <1>3, ProfileStepKeepsInv
<1> QED
  BY <1>1, <1>2, <1>3, StutterKeepsInv DEF Next, ProfileStep

LEMMA Invariance == Spec => []CInv
BY InitInv, NextKeepsInv, PTL DEF Spec

-----------------------------------------------------------------------------
(* The theorems.                                                           *)

\* How profiles go while requests are served.
Lapses ==
  lapsed' = [r \in Requests |-> IF Active(r) THEN lapsed[r] \cup (profiles \ profiles') ELSE {}]

LapsedType == lapsed \in [Requests -> SUBSET (Users \X Festivals)]

LEMMA LapsedTyped ==
  /\ Init => LapsedType
  /\ CInv /\ LapsedType /\ [Next]_vars => LapsedType'
<1>1. Init => LapsedType
  BY DEF Init, LapsedType
<1>2. ASSUME CInv, LapsedType, Next
      PROVE  LapsedType'
  <2>1. profiles \subseteq Users \X Festivals /\ Lapses
    BY <1>2 DEF CInv, TInv, TablesType, Next, Lapses
  <2> QED
    BY <1>2, <2>1 DEF LapsedType, Lapses
<1>3. LapsedType /\ UNCHANGED vars => LapsedType'
  BY DEF LapsedType, vars
<1> QED
  BY <1>1, <1>2, <1>3

\* Every row of crews, crew_members and festival_profiles and every request being served has its
\* type, nobody is twice in a crew (crew_members' primary key), and only members own.
THEOREM TypeCorrect == Spec => []TypeOK
<1>1. CInv /\ LapsedType => TypeOK
  <2> SUFFICES ASSUME CInv, LapsedType
               PROVE  TypeOK
    OBVIOUS
  <2>1. TablesType /\ req \in [Requests -> ReqType]
        /\ \A r \in Requests : req[r].op \in scenario.ops \cup {None, "other"}
    BY DEF CInv, TInv, RequestsType
  <2>2. \A r \in Requests : /\ req[r].at \in Statements \cup {None} /\ req[r].crew \in Crews
                            /\ req[r].new \in Crews \cup {None} /\ req[r].roster \in Seq(Users)
                            /\ req[r].slots \in Int /\ req[r].result \in Results \cup {None}
    BY <2>1 DEF ReqType
  <2>3. /\ crews \in [Crews -> Rows \cup {None}] /\ joined \in [Crews -> Seq(Users)]
        /\ owners \in [Crews -> SUBSET Users]
        /\ \A c \in Crews : owners[c] \subseteq Members(c) /\ IsInjective(joined[c])
        /\ profiles \subseteq Users \X Festivals /\ accounts \subseteq Users
    BY <2>1 DEF TablesType, Roster
  <2> QED
    BY <2>1, <2>2, <2>3 DEF TypeOK, LapsedType
<1> QED
  BY <1>1, LapsedTyped, InitInv, NextKeepsInv, PTL DEF Spec

\* POST /crews/:crewId/reform: like reforms that are answered "ok" name one crew, whatever runs
\* between their statements, members leave, the source or the requester goes, or the crews made
\* before are deleted and made anew.
THEOREM OneReform == Spec => []ReformIsIdempotent
<1>1. CInv => ReformIsIdempotent
  <2> SUFFICES ASSUME CInv, NEW r \in Requests, NEW s \in Requests,
                      req[r].op = "reform", req[s].op = "reform", req[r].result = "ok", req[s].result = "ok",
                      req[r].user = req[s].user, req[r].crew = req[s].crew, req[r].festival = req[s].festival,
                      crews[req[r].new] # None, crews[req[s].new] # None
               PROVE  req[r].new = req[s].new
    BY DEF ReformIsIdempotent
  <2>1. req[r].new # None /\ req[s].new # None
    BY CrewAssumption DEF CInv, Answers
  <2> QED
    BY <2>1 DEF CInv, Pairs, Alike
<1> QED
  BY <1>1, Invariance, PTL

-----------------------------------------------------------------------------
(* The rules of crews: who may be in one, how many, and who owns it.  Each *)
(* holds only in some situations, which are the theorems' assumptions.     *)

-----------------------------------------------------------------------------
(* How a request goes on.                                                  *)

\* q before a step, n after it: the next statement of the handler, or one that a reform jumps
\* to; a check is passed only if it holds; the crew's row is the one read first.
GoesOn(q, n) ==
  n.at # None =>
    /\ n.op = q.op
    /\ \/ /\ n.at = After(q.op, q.at) /\ q.at # "reread"
          /\ q.at \in Checks => Holds(q.at, q)
       \/ /\ q.op = "reform" /\ q.at \notin Checks
          /\ n.at \in {"reread", "planRoster", "autoAdd"}
    /\ NeedsRow(n.op, n.at) => n.row = IF q.at = "getById" THEN crews[q.crew] ELSE q.row

\* A request that goes on from s with what it has read.
LEMMA MovedFields ==
  ASSUME NEW p \in ReqType, NEW s, Moved(s, p).at # None
  PROVE  /\ s # None /\ Moved(s, p) = [p EXCEPT !.at = s] /\ Moved(s, p).at = s
         /\ Moved(s, p).op = p.op /\ Moved(s, p).row = p.row
         /\ Moved(s, p).user = p.user /\ Moved(s, p).festival = p.festival
         /\ Moved(s, p).target = p.target /\ Moved(s, p).crew = p.crew
         /\ Moved(s, p).eligible = p.eligible /\ Moved(s, p).slots = p.slots
         /\ Moved(s, p).new = p.new /\ Moved(s, p).max = p.max
<1>1. s # None
  <2>1. Answered(p, "ok").at = None
    BY AnsweredFields DEF Results
  <2> QED
    BY <2>1 DEF Moved
<1>2. Moved(s, p) = [p EXCEPT !.at = s]
  BY <1>1 DEF Moved
<1> QED
  BY <1>1, <1>2 DEF ReqType

\* A statement goes on to its successor, having read something that is not a crew's row.
LEMMA NextGoesOn ==
  ASSUME NEW q \in ReqType, NEW p \in ReqType, p.op = q.op, p.row = q.row,
         q.at \notin Checks \cup {"reread"}, NEW n, n = Moved(After(q.op, q.at), p)
  PROVE  GoesOn(q, n)
<1>1. "getById" \in Checks
  BY DEF Checks
<1> DEFINE s == After(q.op, q.at)
<1> HIDE DEF s
<1>2. n = Moved(s, p)
  BY DEF s
<1>3. n.at # None => n.at = s /\ n.op = q.op /\ n.row = q.row
  BY <1>2, MovedFields
<1> QED
  BY <1>1, <1>3 DEF GoesOn, s

LEMMA AnsweredGoesOn ==
  ASSUME NEW q \in ReqType, NEW v \in Results
  PROVE  GoesOn(q, Answered(q, v))
BY AnsweredFields DEF GoesOn

LEMMA checkGoesOn ==
  ASSUME TInv, UNCHANGED scenario, NEW r \in Requests, check(r)
  PROVE  GoesOn(req[r], req'[r])
<1>1. req[r].at \in Checks /\ req[r].at # None
  BY CrewAssumption DEF check, Statements
<1>2. req[r] \in ReqType
  BY <1>1, ServedFacts
<1>3. CASE req'[r] = Answered(req[r], "refused")
  BY <1>2, <1>3, AnsweredGoesOn DEF Results
<1>4. CASE req'[r] # Answered(req[r], "refused")
  <2>1. PICK q \in ReqType :
          /\ req'[r] = Moved(After(q.op, q.at), q)
          /\ q = IF req[r].at = "getById" THEN [req[r] EXCEPT !.row = crews[req[r].crew]]
                                          ELSE req[r]
    BY <1>4, checkMoves
  <2>2. Holds(req[r].at, req[r])
    BY <1>4, checkMoves
  <2>3. /\ q.op = req[r].op /\ q.at = req[r].at
        /\ q.row = IF req[r].at = "getById" THEN crews[req[r].crew] ELSE req[r].row
    BY <1>2, <2>1 DEF ReqType
  <2> DEFINE s == After(q.op, q.at)
  <2> HIDE DEF s
  <2>4. req'[r] = Moved(s, q)
    BY <2>1 DEF s
  <2>5. req'[r].at # None => req'[r].at = s /\ req'[r].op = q.op /\ req'[r].row = q.row
    BY <2>4, MovedFields
  <2>6. "reread" \notin Checks
    BY DEF Checks
  <2> QED
    BY <1>1, <2>2, <2>3, <2>5, <2>6 DEF GoesOn, s
<1> QED
  BY <1>3, <1>4

\* A reform that has found or made its crew.
LEMMA ReuseGoesOn ==
  ASSUME NEW q \in ReqType, q.op = "reform", q.at \notin Checks, NEW c,
         NEW n, n = [Reuse(q, c) EXCEPT !.at = "planRoster"]
  PROVE  /\ GoesOn(q, n) /\ n.at = "planRoster" /\ n.op = "reform" /\ n.new = c
         /\ n.slots = crews[c].max /\ n.eligible = q.eligible /\ n.user = q.user
         /\ n.festival = q.festival /\ n.crew = q.crew
<1>1. /\ n.at = "planRoster" /\ n.op = "reform" /\ n.new = c
      /\ n.slots = crews[c].max /\ n.eligible = q.eligible /\ n.user = q.user
      /\ n.festival = q.festival /\ n.crew = q.crew
  BY DEF Reuse, ReqType
<1> QED
  BY <1>1 DEF GoesOn, NeedsRow

LEMMA StepGoesOn ==
  ASSUME CInv, UNCHANGED scenario, NEW r \in Requests, Step(r)
  PROVE  GoesOn(req[r], req'[r])
<1>0. TInv /\ Planned /\ ReformKeysUnique(crews) /\ None \notin Statements
  BY CrewAssumption DEF CInv
<1>1. req[r].at # None /\ req[r] \in ReqType /\ OnPath(req[r].op, req[r].at)
  BY StepEffect, ServedFacts DEF Effect, CInv
<1>2. ASSUME NEW s, s \notin Checks \cup {"reread"}, req[r].at = s, req'[r] = Moved(After(req[r].op, s), req[r])
      PROVE  GoesOn(req[r], req'[r])
  BY <1>1, <1>2, NextGoesOn
<1>3. ASSUME NEW v \in Results, req'[r] = Answered(req[r], v)
      PROVE  GoesOn(req[r], req'[r])
  BY <1>1, <1>3, AnsweredGoesOn
<1>4. ASSUME NEW p \in ReqType, p.op = req[r].op, p.row = req[r].row, req[r].at \notin Checks \cup {"reread"},
             req'[r] = Moved(After(req[r].op, req[r].at), p)
      PROVE  GoesOn(req[r], req'[r])
  BY <1>1, <1>4, NextGoesOn
<1>5. CASE check(r)
  BY <1>0, <1>5, checkGoesOn
<1>6. CASE addMember(r)
  <2>1. req[r].at = "addMember"
    BY <1>6 DEF addMember, At
  <2> QED
    BY <1>0, <1>2, <1>3, <1>6, <2>1, addMemberMoves DEF Checks, Results
<1>7. CASE removeMember(r)
  <2>1. req[r].at = "removeMember"
    BY <1>7 DEF removeMember, At
  <2> QED
    BY <1>0, <1>2, <1>7, <2>1, removeMemberMoves DEF Checks
<1>8. CASE transferOwnership(r)
  <2>1. req[r].at = "transferOwnership"
    BY <1>8 DEF transferOwnership, At
  <2> QED
    BY <1>0, <1>2, <1>8, <2>1, transferMoves DEF Checks
<1>9. CASE updateCrew(r)
  <2>1. req[r].at = "updateCrew" /\ req[r].op = "update"
        /\ req'[r] = Moved(After(req[r].op, req[r].at), [req[r] EXCEPT !.new = req[r].crew])
    BY <1>0, <1>9, updateMoves, AfterUpdate DEF updateCrew, At
  <2> DEFINE p == [req[r] EXCEPT !.new = req[r].crew]
  <2>2. p \in ReqType /\ p.op = req[r].op /\ p.row = req[r].row
    BY <1>1 DEF ReqType
  <2> HIDE DEF p
  <2>3. req'[r] = Moved(After(req[r].op, req[r].at), p)
    BY <2>1 DEF p
  <2>4. req[r].at \notin Checks \cup {"reread"}
    BY <2>1 DEF Checks
  <2> QED
    BY <1>4, <2>2, <2>3, <2>4
<1>10. CASE deleteCrew(r)
  <2>1. req[r].at = "deleteCrew"
    BY <1>10 DEF deleteCrew, At
  <2> QED
    BY <1>0, <1>2, <1>10, <2>1, deleteMoves DEF Checks
<1>11. CASE persistCrew(r)
  <2>1. req[r].at = "persistCrew" /\ req[r].at \notin Checks \cup {"reread"} /\ "error" \in Results
    BY <1>11 DEF persistCrew, At, Checks, Results
  <2>2. CASE req'[r] = Moved(After(req[r].op, "persistCrew"), [req[r] EXCEPT !.new = r])
    <3> DEFINE p == [req[r] EXCEPT !.new = r]
    <3>1. p \in ReqType /\ p.op = req[r].op /\ p.row = req[r].row
      <4>1. r \in Crews
        BY CrewAssumption DEF Requests, Crews
      <4> QED
        BY <1>1, <4>1 DEF ReqType
    <3> HIDE DEF p
    <3>2. req'[r] = Moved(After(req[r].op, req[r].at), p)
      BY <2>1, <2>2 DEF p
    <3> QED
      BY <1>4, <2>1, <3>1, <3>2
  <2>3. CASE req[r].op = "reform" /\ req'[r] = [req[r] EXCEPT !.at = "reread"]
    <3>1. req'[r].at = "reread" /\ req'[r].op = "reform"
      BY <1>1, <2>3 DEF ReqType
    <3> QED
      BY <2>1, <2>3, <3>1 DEF GoesOn, NeedsRow
  <2>4. CASE req'[r] = Answered(req[r], "error")
    BY <1>3, <2>1, <2>4
  <2> QED
    BY <1>0, <1>11, <2>2, <2>3, <2>4, persistCrewMoves
<1>12. CASE readBack(r)
  BY <1>0, <1>3, <1>12, readBackMoves DEF Results
<1>13. CASE sourceMembers(r) \/ targetProfiles(r)
  <2>1. /\ req[r].at \notin Checks \cup {"reread"} /\ req[r].op = "reform"
        /\ \E p \in ReqType : /\ p.op = req[r].op /\ p.row = req[r].row
                              /\ req'[r] = Moved(After(req[r].op, req[r].at), p)
    <3>1. CASE sourceMembers(r)
      <4> DEFINE p == [req[r] EXCEPT !.roster = joined[req[r].crew]]
      <4>1. p \in ReqType /\ p.op = req[r].op /\ p.row = req[r].row
        <5>1. req[r].crew \in Crews /\ joined[req[r].crew] \in Seq(Users)
          BY <1>0, <1>1 DEF ReqType, TInv, TablesType
        <5> QED
          BY <1>1, <5>1 DEF ReqType
      <4> HIDE DEF p
      <4>2. /\ req[r].at = "sourceMembers" /\ req[r].op = "reform"
            /\ req'[r] = Moved(After(req[r].op, req[r].at), p)
        BY <1>0, <3>1, sourceMembersMoves, AfterReform DEF p
      <4> QED
        BY <4>1, <4>2 DEF Checks
    <3>2. CASE targetProfiles(r)
      <4> DEFINE p == [req[r] EXCEPT !.eligible = HaveJoined(req[r].festival)]
      <4>1. p \in ReqType /\ p.op = req[r].op /\ p.row = req[r].row
        <5>1. HaveJoined(req[r].festival) \in SUBSET Users
          BY DEF HaveJoined
        <5> QED
          BY <1>1, <5>1 DEF ReqType
      <4> HIDE DEF p
      <4>2. /\ req[r].at = "targetProfiles" /\ req[r].op = "reform"
            /\ req'[r] = Moved(After(req[r].op, req[r].at), p)
        BY <1>0, <3>2, targetProfilesMoves, AfterReform DEF p
      <4> QED
        BY <4>1, <4>2 DEF Checks
    <3> QED
      BY <1>13, <3>1, <3>2
  <2> QED
    BY <1>4, <2>1
<1>14. CASE findReformed(r)
  <2>1. req[r].at = "findReformed" /\ req[r].op = "reform" /\ req[r].at \notin Checks \cup {"reread"}
    BY <1>0, <1>14, findReformedMoves DEF Checks
  <2>2. CASE \E c \in Reformed(req[r]) : req'[r] = [Reuse(req[r], c) EXCEPT !.at = "planRoster"]
    BY <1>1, <2>1, <2>2, ReuseGoesOn
  <2>3. CASE req'[r] = [req[r] EXCEPT !.at = "persistCrew"]
    <3>1. req'[r] = Moved(After(req[r].op, req[r].at), req[r])
      BY <1>0, <2>1, <2>3, AfterReform DEF Moved, Statements
    <3> QED
      BY <1>1, <1>4, <2>1, <3>1
  <2> QED
    BY <1>0, <1>3, <1>14, <2>2, <2>3, findReformedMoves DEF Results
<1>15. CASE reread(r)
  <2>1. req[r].at = "reread" /\ req[r].op = "reform" /\ req[r].at \notin Checks
    BY <1>0, <1>15, rereadMoves DEF Checks
  <2>2. CASE \E c \in Reformed(req[r]) : req'[r] = [Reuse(req[r], c) EXCEPT !.at = "planRoster"]
    BY <1>1, <2>1, <2>2, ReuseGoesOn
  <2> QED
    BY <1>0, <1>3, <1>15, <2>2, rereadMoves DEF Results
<1>16. CASE readNew(r)
  <2>1. req[r].at = "readNew" /\ req[r].op = "reform" /\ req[r].at \notin Checks
    BY <1>0, <1>16, readNewMoves DEF Checks
  <2>2. CASE req'[r] = [Reuse(req[r], req[r].new) EXCEPT !.at = "planRoster"]
    BY <1>1, <2>1, <2>2, ReuseGoesOn
  <2> QED
    BY <1>0, <1>3, <1>16, <2>2, readNewMoves DEF Results
<1>17. CASE planRoster(r)
  <2>1. req[r].at = "planRoster" /\ req[r].op = "reform" /\ req[r].at \notin Checks \cup {"reread"}
    BY <1>0, <1>17, planRosterMoves DEF Checks
  <2>2. PICK e \in SUBSET Users, n \in Int :
          req'[r] = Moved("autoAdd", [req[r] EXCEPT !.eligible = e, !.slots = n])
    BY <1>0, <1>17, planRosterMoves
  <2> DEFINE p == [req[r] EXCEPT !.eligible = e, !.slots = n]
  <2>3. p \in ReqType /\ p.op = req[r].op /\ p.row = req[r].row
    BY <1>1 DEF ReqType
  <2> HIDE DEF p
  <2>4. req'[r] = Moved(After(req[r].op, req[r].at), p)
    BY <2>1, <2>2, AfterReform DEF p
  <2> QED
    BY <1>4, <2>1, <2>3, <2>4
<1>18. CASE autoAdd(r)
  <2>1. req[r].at = "autoAdd" /\ req[r].op = "reform" /\ req[r].at \notin Checks \cup {"reread"}
    BY <1>0, <1>18, autoAddMoves DEF Checks
  <2>2. CASE req'[r] = Moved("readBack", req[r])
    <3>1. req'[r] = Moved(After(req[r].op, req[r].at), req[r])
      BY <2>1, <2>2, AfterReform
    <3> QED
      BY <1>1, <1>4, <2>1, <3>1
  <2>3. CASE \E u, n : req'[r] = Turned(req[r], u, n)
    <3>1. PICK u, n : req'[r] = Turned(req[r], u, n)
      BY <2>3
    <3> DEFINE p == Turned(req[r], u, n)
    <3>2. p.at = req[r].at /\ p.op = req[r].op
      BY <1>1 DEF Turned, ReqType
    <3> HIDE DEF p
    <3>3. req'[r] = p
      BY <3>1 DEF p
    <3> QED
      BY <2>1, <3>2, <3>3 DEF GoesOn, NeedsRow
  <2> QED
    BY <1>0, <1>18, <2>2, <2>3, autoAddMoves
<1>19. CASE deleteProfiles(r)
  <2>1. req[r].at = "deleteProfiles" /\ req[r].op = "deleteUser" /\ req[r].at \notin Checks \cup {"reread"}
        /\ req'[r] = Moved("hardDelete", req[r])
    BY <1>0, <1>19, deleteProfilesMoves DEF Checks
  <2>2. req'[r] = Moved(After(req[r].op, req[r].at), req[r])
    BY <2>1, AfterDeleteUser
  <2> QED
    BY <1>1, <1>4, <2>1, <2>2
<1>20. CASE hardDelete(r)
  BY <1>0, <1>3, <1>20, hardDeleteMoves DEF Results
<1> QED
  BY <1>5, <1>6, <1>7, <1>8, <1>9, <1>10, <1>11, <1>12, <1>13, <1>14, <1>15, <1>16, <1>17, <1>18,
     <1>19, <1>20 DEF Step

-----------------------------------------------------------------------------
(* What a statement does to the tables.                                    *)

\* A member is added: by addMember, under the cap that was read with the crew, or by a turn of a
\* reform's loop, which has places left.
Inserts(r) ==
  \E c \in Crews, u \in Users :
    /\ crews[c] # None /\ u \notin Members(c) /\ joined' = [joined EXCEPT ![c] = Append(@, u)]
    /\ UNCHANGED <<crews, owners, profiles, accounts>>
    /\ \/ /\ req[r].at = "addMember" /\ c = req[r].crew /\ u = Subject(req[r])
          /\ Cardinality(Members(c)) < req[r].row.max
       \/ /\ req[r].at = "autoAdd" /\ c = req[r].new /\ u \in req[r].eligible
          /\ req[r].slots > 0 /\ req'[r] = Turned(req[r], u, req[r].slots - 1)

Removes(r) ==
  /\ req[r].at = "removeMember" /\ UNCHANGED <<crews, profiles, accounts>>
  /\ \A c \in Crews \ {req[r].crew} : joined'[c] = joined[c] /\ owners'[c] = owners[c]
  /\ joined'[req[r].crew] = RemoveFirst(joined[req[r].crew], Subject(req[r]))
  /\ owners'[req[r].crew] = owners[req[r].crew] \ {Subject(req[r])}

Transfers(r) ==
  /\ req[r].at = "transferOwnership" /\ UNCHANGED <<crews, joined, profiles, accounts>>
  /\ \A c \in Crews \ {req[r].crew} : owners'[c] = owners[c]
  /\ owners'[req[r].crew] =
       (owners[req[r].crew] \ {req[r].user}) \cup ({req[r].target} \cap Members(req[r].crew))

Updates(r) ==
  /\ req[r].at = "updateCrew" /\ UNCHANGED <<joined, owners, profiles, accounts>>
  /\ \A c \in Crews :
       /\ crews'[c] = None <=> crews[c] = None
       /\ crews'[c].by = crews[c].by /\ crews'[c].festival = crews[c].festival
       /\ \/ crews'[c].max = crews[c].max
          \/ /\ c = req[r].crew
             /\ crews'[c].max = IF req[r].max = 0 THEN req[r].row.max ELSE req[r].max

Deletes(r) ==
  /\ req[r].at = "deleteCrew" /\ UNCHANGED <<profiles, accounts>>
  /\ \A c \in Crews : crews'[c] # None =>
       /\ crews[c] # None /\ joined'[c] = joined[c] /\ owners'[c] = owners[c]
       /\ crews'[c].max = crews[c].max /\ crews'[c].by = crews[c].by
       /\ crews'[c].festival = crews[c].festival

Forgets(r) ==
  /\ req[r].at = "deleteProfiles" /\ UNCHANGED <<crews, joined, owners, accounts>>
  /\ profiles' = {p \in profiles : p[1] # req[r].target}

Inherits(r) ==
  req[r].at = "hardDelete" /\ \E gone \in SUBSET Crews : Inherited(req[r].target, gone)

LEMMA addMemberInserts ==
  ASSUME TInv, UNCHANGED scenario, NEW r \in Requests, addMember(r)
  PROVE  UNCHANGED tables \/ Inserts(r)
<1> DEFINE c == req[r].crew
<1> DEFINE u == Subject(req[r])
<1>0. req[r].at = "addMember" /\ req[r].at # None
  BY CrewAssumption DEF addMember, At, Statements
<1>1. /\ req[r] \in ReqType /\ req[r].op \in {"join", "adminAdd"} /\ req[r].row \in Rows
  <2>1. req[r].op \in {"join", "adminAdd"}
    BY <1>0, ServedFacts, PathFacts
  <2> QED
    BY <1>0, <2>1, ServedFacts DEF NeedsRow
<1>2. u \in Users /\ c \in Crews
  BY <1>0, <1>1, SubjectIsUser
<1>3. UNCHANGED <<crews, owners, profiles, accounts>>
  BY DEF addMember
<1>4. CASE UNCHANGED joined
  BY <1>3, <1>4 DEF tables
<1>5. CASE ~ UNCHANGED joined
  <2>1. /\ ~(Cardinality(Members(c)) >= req[r].row.max) /\ CanInsert(c, u) /\ Insert(c, u)
    BY <1>5 DEF addMember
  <2>2. u \notin Members(c) /\ joined' = [joined EXCEPT ![c] = Append(@, u)]
    BY <1>5, <2>1 DEF Insert
  <2>3. Cardinality(Members(c)) < req[r].row.max
    <3>1. Roster(joined[c])
      BY <1>2 DEF TInv, TablesType
    <3>2. Cardinality(Members(c)) \in Nat
      BY <3>1, RosterCount DEF Members, Roster
    <3>3. req[r].row.max \in Nat
      BY <1>1 DEF Rows
    <3> QED
      BY <2>1, <3>2, <3>3
  <2> HIDE DEF c, u
  <2>4. crews[c] # None
    BY <2>1 DEF CanInsert
  <2> QED
    BY <1>0, <1>2, <1>3, <2>2, <2>3, <2>4 DEF Inserts, c, u
<1> QED
  BY <1>4, <1>5

LEMMA autoAddInserts ==
  ASSUME TInv, Planned, UNCHANGED scenario, NEW r \in Requests, autoAdd(r)
  PROVE  UNCHANGED tables \/ Inserts(r)
<1> DEFINE u == NextToAdd(req[r])
<1> DEFINE c == req[r].new
<1>0. req[r].at = "autoAdd" /\ req[r].at # None
  BY CrewAssumption DEF autoAdd, At, Statements
<1>1. /\ req[r].op = "reform" /\ req[r] \in ReqType /\ c \in Crews
  BY <1>0, ServedFacts, PathFacts DEF NeedsNew
<1>2. UNCHANGED <<crews, owners, profiles, accounts>>
  BY DEF autoAdd
<1>3. CASE UNCHANGED joined
  BY <1>2, <1>3 DEF tables
<1>4. CASE ~ UNCHANGED joined
  <2>1. /\ ~(req[r].slots <= 0 \/ req[r].eligible = {}) /\ CanInsert(c, u) /\ u \notin Members(c)
        /\ joined' = [joined EXCEPT ![c] = Append(@, u)]
        /\ GoTo(r, "autoAdd", [req[r] EXCEPT !.eligible = @ \ {u}, !.slots = @ - 1])
    BY <1>4 DEF autoAdd
  <2>2. u \in req[r].eligible /\ u \in Users
    BY <1>0, <1>1, <2>1, NextIsEligible DEF Planned
  <2>3. req[r].slots > 0
    BY <1>1, <2>1 DEF ReqType
  <2>4. req'[r] = Turned(req[r], u, req[r].slots - 1)
    <3>1. req' = [req EXCEPT ![r] = [[req[r] EXCEPT !.eligible = @ \ {u}, !.slots = @ - 1]
                                       EXCEPT !.at = "autoAdd"]]
      BY <1>0, <2>1 DEF GoTo
    <3>2. req \in [Requests -> ReqType]
      BY DEF TInv, RequestsType
    <3>3. req'[r] = [[req[r] EXCEPT !.eligible = @ \ {u}, !.slots = @ - 1] EXCEPT !.at = "autoAdd"]
      BY <3>1, <3>2
    <3> HIDE DEF u
    <3> QED
      BY <1>0, <1>1, <3>3 DEF Turned, ReqType
  <2> HIDE DEF c, u
  <2>5. crews[c] # None
    BY <2>1 DEF CanInsert
  <2> QED
    BY <1>0, <1>1, <1>2, <2>1, <2>2, <2>3, <2>4, <2>5 DEF Inserts, c
<1> QED
  BY <1>3, <1>4

LEMMA removeMemberRemoves ==
  ASSUME TInv, NEW r \in Requests, removeMember(r)
  PROVE  Removes(r)
<1>0. req[r].at = "removeMember" /\ req[r].at # None
  BY CrewAssumption DEF removeMember, At, Statements
<1>1. req[r].crew \in Crews
  BY <1>0, ServedFacts DEF ReqType
<1> DEFINE c == req[r].crew
<1> DEFINE u == Subject(req[r])
<1>2. /\ joined' = [joined EXCEPT ![c] = RemoveFirst(@, u)] /\ owners' = [owners EXCEPT ![c] = @ \ {u}]
      /\ UNCHANGED <<crews, profiles, accounts>>
  BY DEF removeMember
<1>3. joined \in [Crews -> Seq(Users)] /\ owners \in [Crews -> SUBSET Users]
  BY DEF TInv, TablesType
<1> HIDE DEF u
<1>4. /\ \A d \in Crews : joined'[d] = IF d = c THEN RemoveFirst(joined[c], u) ELSE joined[d]
      /\ \A d \in Crews : owners'[d] = IF d = c THEN owners[c] \ {u} ELSE owners[d]
  BY <1>2, <1>3
<1> QED
  BY <1>0, <1>1, <1>2, <1>4 DEF Removes, u

LEMMA transferTransfers ==
  ASSUME TInv, NEW r \in Requests, transferOwnership(r)
  PROVE  Transfers(r)
<1>0. req[r].at = "transferOwnership" /\ req[r].at # None
  BY CrewAssumption DEF transferOwnership, At, Statements
<1>1. req[r].crew \in Crews
  BY <1>0, ServedFacts DEF ReqType
<1>2. owners \in [Crews -> SUBSET Users]
  BY DEF TInv, TablesType
<1> DEFINE new == (owners[req[r].crew] \ {req[r].user}) \cup ({req[r].target} \cap Members(req[r].crew))
<1>3. owners' = [owners EXCEPT ![req[r].crew] = new] /\ UNCHANGED <<crews, joined, profiles, accounts>>
  BY DEF transferOwnership
<1> HIDE DEF new
<1>4. \A d \in Crews : owners'[d] = IF d = req[r].crew THEN new ELSE owners[d]
  BY <1>2, <1>3
<1> QED
  BY <1>0, <1>1, <1>3, <1>4 DEF Transfers, new

LEMMA updateCrewUpdates ==
  ASSUME TInv, UNCHANGED scenario, NEW r \in Requests, updateCrew(r)
  PROVE  Updates(r)
<1>0. req[r].at = "updateCrew" /\ req[r].at # None
  BY CrewAssumption DEF updateCrew, At, Statements
<1> DEFINE c == req[r].crew
<1> DEFINE m == IF req[r].max = 0 THEN req[r].row.max ELSE req[r].max
<1>1. c \in Crews /\ crews \in [Crews -> Rows \cup {None}] /\ m \in Nat
  <2>1. req[r] \in ReqType /\ req[r].op = "update" /\ req[r].row \in Rows
    BY <1>0, ServedFacts, updateMoves DEF NeedsRow
  <2> QED
    BY <2>1 DEF ReqType, TInv, TablesType, Rows
<1>2. crews' = IF crews[c] = None THEN crews ELSE [crews EXCEPT ![c].max = m]
  BY DEF updateCrew
<1>3. UNCHANGED <<joined, owners, profiles, accounts>>
  BY DEF updateCrew
<1> HIDE DEF m
<1>4. CASE crews[c] = None
  BY <1>0, <1>2, <1>3, <1>4 DEF Updates
<1>5. CASE crews[c] # None
  <2>1. crews[c] \in Rows /\ crews'[c] = [crews[c] EXCEPT !.max = m]
    BY <1>1, <1>2, <1>5
  <2>2. /\ crews'[c].by = crews[c].by /\ crews'[c].festival = crews[c].festival
        /\ crews'[c].max = m /\ crews'[c] \in Rows
    BY <1>1, <2>1 DEF Rows
  <2>3. crews'[c] # None
    BY <2>2, CrewAssumption
  <2>4. \A d \in Crews : d # c => crews'[d] = crews[d]
    BY <1>1, <1>2, <1>5
  <2> HIDE DEF c
  <2>5. ASSUME NEW d \in Crews
        PROVE  /\ crews'[d] = None <=> crews[d] = None
               /\ crews'[d].by = crews[d].by /\ crews'[d].festival = crews[d].festival
               /\ \/ crews'[d].max = crews[d].max
                  \/ d = c /\ crews'[d].max = m
    <3>1. CASE d = c
      BY <1>5, <2>2, <2>3, <3>1
    <3>2. CASE d # c
      BY <2>4, <3>2
    <3> QED
      BY <3>1, <3>2
  <2> QED
    BY <1>0, <1>3, <2>5 DEF Updates, m, c
<1> QED
  BY <1>4, <1>5

LEMMA deleteCrewDeletes ==
  ASSUME TInv, ForeignKeys, UNCHANGED scenario, NEW r \in Requests, deleteCrew(r)
  PROVE  Deletes(r)
<1>1. req[r].at = "deleteCrew"
  BY DEF deleteCrew, At
<1>2. /\ RowsFate /\ UNCHANGED <<profiles, accounts>>
      /\ \A c \in Crews : crews'[c] # None =>
           /\ crews'[c].max = crews[c].max /\ joined'[c] = joined[c] /\ owners'[c] = owners[c]
           /\ crews'[c].by = crews[c].by
  BY deleteCrewTables
<1> QED
  BY <1>1, <1>2 DEF Deletes, RowsFate

\* Every statement does one of these.
LEMMA StepTables ==
  ASSUME CInv, UNCHANGED scenario, NEW r \in Requests, Step(r)
  PROVE  \/ UNCHANGED tables
         \/ Inserts(r) \/ Creates(r) \/ Removes(r) \/ Transfers(r) \/ Updates(r) \/ Deletes(r)
         \/ Forgets(r) \/ Inherits(r)
<1>0. TInv /\ Planned /\ ReformKeysUnique(crews) /\ ForeignKeys
  BY DEF CInv
<1>1. CASE \/ check(r) \/ readBack(r) \/ sourceMembers(r) \/ targetProfiles(r) \/ findReformed(r)
           \/ reread(r) \/ readNew(r) \/ planRoster(r)
  BY <1>1 DEF check, readBack, sourceMembers, targetProfiles, findReformed, reread, readNew, planRoster
<1>2. CASE addMember(r) \/ autoAdd(r)
  BY <1>0, <1>2, addMemberInserts, autoAddInserts
<1>3. CASE removeMember(r) \/ transferOwnership(r)
  BY <1>0, <1>3, removeMemberRemoves, transferTransfers
<1>4. CASE updateCrew(r) \/ deleteCrew(r)
  BY <1>0, <1>4, updateCrewUpdates, deleteCrewDeletes
<1>5. CASE persistCrew(r)
  <2>1. UNCHANGED <<profiles, accounts>>
    BY <1>5 DEF persistCrew
  <2> QED
    BY <1>0, <1>5, <2>1, persistCrewKeeps DEF tables
<1>6. CASE deleteProfiles(r)
  BY <1>0, <1>6, deleteProfilesMoves DEF Forgets
<1>7. CASE hardDelete(r)
  BY <1>0, <1>7, hardDeleteMoves DEF Inherits
<1> QED
  BY <1>1, <1>2, <1>3, <1>4, <1>5, <1>6, <1>7 DEF Step

-----------------------------------------------------------------------------
(* The row that was read with the crew.                                    *)

\* A check changes no table.
LEMMA ChecksRead ==
  ASSUME NEW r \in Requests, Step(r), req[r].at \in Checks
  PROVE  check(r) /\ UNCHANGED tables
<1>1. ~ \E s \in {"addMember", "removeMember", "transferOwnership", "updateCrew", "deleteCrew",
                  "persistCrew", "readBack", "sourceMembers", "targetProfiles", "findReformed",
                  "reread", "readNew", "planRoster", "autoAdd", "deleteProfiles", "hardDelete"} :
        At(r, s)
  BY DEF At, Checks
<1>2. check(r)
  BY <1>1 DEF Step, addMember, removeMember, transferOwnership, updateCrew, deleteCrew,
              persistCrew, readBack, sourceMembers, targetProfiles, findReformed, reread, readNew,
              planRoster, autoAdd, deleteProfiles, hardDelete
<1> QED
  BY <1>2 DEF check

\* A request goes on with the endpoint and the crew it was sent for.
LEMMA SameRequest ==
  ASSUME CInv, UNCHANGED scenario, NEW r \in Requests, Step(r), req'[r].at # None
  PROVE  /\ req'[r].op = req[r].op /\ req'[r].crew = req[r].crew /\ req'[r].user = req[r].user
         /\ req'[r].target = req[r].target /\ req'[r].festival = req[r].festival
         /\ req[r].op # "other" /\ req[r].at # None /\ req[r] \in ReqType
         /\ OnPath(req[r].op, req[r].at)
<1>1. Effect(r) /\ TInv
  BY StepEffect DEF CInv
<1>2. /\ req[r].op # "other" /\ req[r].at # None /\ req[r] \in ReqType
      /\ OnPath(req[r].op, req[r].at)
  BY <1>1, ActiveOp, ServedFacts DEF Effect
<1> QED
  BY <1>1, <1>2 DEF Effect, Kept

\* Where the row is needed it is the one that was needed before, or that has just been read.
LEMMA RowRead ==
  ASSUME CInv, UNCHANGED scenario, NEW r \in Requests, Step(r), req'[r].at # None,
         NeedsRow(req'[r].op, req'[r].at)
  PROVE  \/ /\ UNCHANGED tables /\ crews[req[r].crew] # None
            /\ req'[r].row = crews[req[r].crew]
         \/ NeedsRow(req[r].op, req[r].at) /\ req'[r].row = req[r].row
<1>1. GoesOn(req[r], req'[r]) /\ req'[r].op = req[r].op /\ OnPath(req[r].op, req[r].at)
  BY StepGoesOn, SameRequest
<1>2. /\ \/ /\ req'[r].at = After(req[r].op, req[r].at) /\ req[r].at # "reread"
            /\ req[r].at \in Checks => Holds(req[r].at, req[r])
         \/ req[r].op = "reform" /\ req'[r].at \in {"reread", "planRoster", "autoAdd"}
      /\ req'[r].row = IF req[r].at = "getById" THEN crews[req[r].crew] ELSE req[r].row
  BY <1>1 DEF GoesOn
<1>3. /\ req'[r].at = After(req[r].op, req[r].at) /\ req[r].at # "reread"
      /\ req[r].at \in Checks => Holds(req[r].at, req[r])
  BY <1>1, <1>2 DEF NeedsRow
<1>4. CASE req[r].at = "getById"
  <2>1. req[r].at \in Checks
    BY <1>4 DEF Checks
  <2> QED
    BY <1>2, <1>3, <1>4, <2>1, ChecksRead DEF Holds
<1>5. CASE req[r].at # "getById"
  <2>1. NeedsRow(req[r].op, req[r].at)
    BY <1>1, <1>3, <1>5, AfterFacts
  <2> QED
    BY <1>2, <1>5, <2>1
<1> QED
  BY <1>4, <1>5

\* What has been read of the crew's festival is so, for as long as the crew exists.
RowFestival ==
  \A r \in Requests :
    req[r].at # None /\ NeedsRow(req[r].op, req[r].at) /\ crews[req[r].crew] # None =>
      req[r].row.festival = crews[req[r].crew].festival

\* No crew that a request was sent for is made anew.
LEMMA SameCrew ==
  ASSUME CInv, UNCHANGED scenario, NEW r \in Requests, Step(r), NEW t \in Requests,
         crews'[req[t].crew] # None
  PROVE  /\ crews[req[t].crew] # None /\ req[t].crew \in Crews
         /\ crews'[req[t].crew].festival = crews[req[t].crew].festival
         /\ Creates(r) => req[t].crew # r
<1>1. Effect(r) /\ TInv
  BY StepEffect DEF CInv
<1>2. req[t].crew \in Crews
  BY <1>1 DEF TInv, RequestsType, ReqType
<1>3. CASE Creates(r)
  <2>1. req[r].at = "persistCrew"
    BY <1>3 DEF Creates
  <2>2. crews[r] = None /\ req[t].crew # r
    BY <2>1, BeforeCreation
  <2>3. ForeignKeys
    BY DEF CInv
  <2>4. crews'[req[t].crew] = crews[req[t].crew]
    BY <1>1, <1>2, <1>3, <2>2, <2>3, CreatesTables
  <2> QED
    BY <1>2, <2>2, <2>4
<1>4. CASE ~ Creates(r)
  BY <1>1, <1>2, <1>4 DEF Effect, RowsFate
<1> QED
  BY <1>3, <1>4

LEMMA StepRowFestival ==
  ASSUME CInv, RowFestival, UNCHANGED scenario, NEW r \in Requests, Step(r)
  PROVE  RowFestival'
<1> SUFFICES ASSUME NEW t \in Requests, req'[t].at # None, NeedsRow(req'[t].op, req'[t].at),
                    crews'[req'[t].crew] # None
             PROVE  req'[t].row.festival = crews'[req'[t].crew].festival
  BY DEF RowFestival, NeedsRow
<1>1. Others(r)
  BY StepEffect DEF Effect
<1>2. CASE t # r
  <2>1. req'[t] = req[t]
    BY <1>1, <1>2 DEF Others
  <2> QED
    BY <2>1, SameCrew DEF RowFestival
<1>3. CASE t = r
  <2>1. req'[r].crew = req[r].crew /\ req[r].at # None
    BY <1>3, SameRequest
  <2>2. /\ crews[req[r].crew] # None
        /\ crews'[req[r].crew].festival = crews[req[r].crew].festival
    BY <1>3, <2>1, SameCrew
  <2>3. CASE UNCHANGED tables /\ req'[r].row = crews[req[r].crew]
    BY <1>3, <2>1, <2>2, <2>3
  <2>4. CASE NeedsRow(req[r].op, req[r].at) /\ req'[r].row = req[r].row
    BY <1>3, <2>1, <2>2, <2>4 DEF RowFestival
  <2> QED
    BY <1>3, <2>3, <2>4, RowRead
<1> QED
  BY <1>2, <1>3

-----------------------------------------------------------------------------
(* Who may be in a crew.                                                   *)

\* The handler has passed its check of the requester's profile.
PastProfile(q) ==
  q.op \in {"create", "join", "reform"} /\ q.at \notin {None, "getById", "isMember", "hasProfile"}

\* The profile that was checked is there, or went while the request was being served.
ProfilesChecked ==
  \A r \in Requests :
    PastProfile(req[r]) => <<req[r].user, FestivalOf(req[r])>> \in profiles \cup lapsed[r]

\* So are those of the users that a reform may add.
EligibleJoined ==
  \A r \in Requests : req[r].at # None /\ req[r].op = "reform" =>
    \A u \in req[r].eligible : <<u, req[r].festival>> \in profiles \cup lapsed[r]

JoinedInv == CInv /\ RowFestival /\ ProfilesChecked /\ EligibleJoined

\* A profile that goes while a request is being served is remembered.
LEMMA HadStays ==
  ASSUME Lapses, NEW t \in Requests, req[t].at # None
  PROVE  profiles \cup lapsed[t] \subseteq profiles' \cup lapsed'[t]
BY DEF Lapses, Active

LEMMA StepProfilesChecked ==
  ASSUME JoinedInv, UNCHANGED scenario, Lapses, NEW r \in Requests, Step(r)
  PROVE  ProfilesChecked'
<1>0. CInv
  BY DEF JoinedInv
<1> SUFFICES ASSUME NEW t \in Requests, PastProfile(req'[t])
             PROVE  <<req'[t].user, FestivalOf(req'[t])>> \in profiles' \cup lapsed'[t]
  BY DEF ProfilesChecked, PastProfile, FestivalOf
<1>1. Others(r)
  BY <1>0, StepEffect DEF Effect
<1>2. CASE t # r
  <2>1. req'[t] = req[t] /\ req[t].at # None
    BY <1>1, <1>2 DEF Others, PastProfile
  <2>2. <<req[t].user, FestivalOf(req[t])>> \in profiles \cup lapsed[t]
    BY <2>1 DEF JoinedInv, ProfilesChecked
  <2> QED
    BY <2>1, <2>2, HadStays
<1>3. CASE t = r
  <2>1. /\ req'[r].at # None /\ req'[r].op = req[r].op /\ req'[r].user = req[r].user
        /\ req'[r].festival = req[r].festival /\ req[r].op # "other" /\ req[r].at # None
    BY <1>0, <1>3, SameRequest DEF PastProfile
  <2>2. CASE PastProfile(req[r])
    <3>1. <<req[r].user, FestivalOf(req[r])>> \in profiles \cup lapsed[r]
      BY <2>2 DEF JoinedInv, ProfilesChecked
    <3>2. FestivalOf(req'[r]) = FestivalOf(req[r])
      <4>1. CASE req[r].op = "join"
        <5>1. NeedsRow(req'[r].op, req'[r].at)
          BY <1>3, <2>1, <4>1 DEF PastProfile, NeedsRow
        <5>2. req[r].at # "getById"
          BY <2>2 DEF PastProfile
        <5>3. req'[r].row = req[r].row
          BY <1>0, <2>1, <5>1, <5>2, StepGoesOn DEF GoesOn
        <5> QED
          BY <2>1, <4>1, <5>3 DEF FestivalOf
      <4>2. CASE req[r].op # "join"
        BY <2>1, <4>2 DEF FestivalOf
      <4> QED
        BY <4>1, <4>2
    <3> QED
      BY <1>3, <2>1, <3>1, <3>2, HadStays
  <2>3. CASE ~PastProfile(req[r])
    <3>1. req[r].op \in {"create", "join", "reform"} /\ req[r].at \in {"getById", "isMember", "hasProfile"}
      BY <1>3, <2>1, <2>3 DEF PastProfile
    <3>2. req[r].at \in Checks
      BY <3>1 DEF Checks
    <3>3. req'[r].at = After(req[r].op, req[r].at) /\ Holds(req[r].at, req[r])
      BY <1>0, <2>1, <3>2, StepGoesOn DEF GoesOn
    <3>4. OnPath(req[r].op, req[r].at)
      BY <1>0, <2>1, SameRequest
    <3>5. req[r].at = "hasProfile"
      BY <1>3, <2>1, <3>1, <3>3, <3>4, AfterJoin, AfterReform, AfterCreate DEF PastProfile, OnPath
    <3>6. <<req[r].user, FestivalOf(req[r])>> \in profiles
      BY <3>3, <3>5 DEF Holds
    <3>7. FestivalOf(req'[r]) = FestivalOf(req[r])
      <4>1. CASE req[r].op = "join"
        <5>1. NeedsRow(req'[r].op, req'[r].at)
          BY <1>3, <2>1, <4>1 DEF PastProfile, NeedsRow
        <5>2. req'[r].row = req[r].row
          BY <1>0, <2>1, <3>5, <5>1, StepGoesOn DEF GoesOn
        <5> QED
          BY <2>1, <4>1, <5>2 DEF FestivalOf
      <4>2. CASE req[r].op # "join"
        BY <2>1, <4>2 DEF FestivalOf
      <4> QED
        BY <4>1, <4>2
    <3> QED
      BY <1>3, <2>1, <3>6, <3>7, HadStays
  <2> QED
    BY <2>2, <2>3
<1> QED
  BY <1>2, <1>3

\* Whom a reform may add it has read from the festival's profiles.
LEMMA StepEligible ==
  ASSUME CInv, UNCHANGED scenario, NEW r \in Requests, Step(r), req[r].op = "reform"
  PROVE  req'[r].eligible \subseteq req[r].eligible \cup HaveJoined(req[r].festival)
<1>0. TInv /\ Planned /\ ReformKeysUnique(crews) /\ None \notin Statements
  BY CrewAssumption DEF CInv
<1>1. req[r].at # None /\ req[r] \in ReqType /\ OnPath(req[r].op, req[r].at)
  BY <1>0, StepEffect, ServedFacts DEF Effect
<1>2. ASSUME NEW v \in Results, req'[r] = Answered(req[r], v)
      PROVE  req'[r].eligible = {}
  BY <1>1, <1>2, AnsweredFields
<1>3. ASSUME NEW p \in ReqType, NEW s, req'[r] = Moved(s, p)
      PROVE  req'[r].eligible \subseteq p.eligible
  <2>1. CASE req'[r].at # None
    BY <1>3, <2>1, MovedFields
  <2>2. CASE req'[r].at = None
    <3>1. s = None \/ req'[r].at = s
      BY <1>3 DEF Moved, ReqType
    <3>2. req'[r] = Answered(p, "ok")
      BY <1>3, <2>2, <3>1 DEF Moved
    <3> QED
      BY <3>2, AnsweredFields DEF Results
  <2> QED
    BY <2>1, <2>2
<1>4. CASE check(r)
  <2>1. CASE req'[r] = Answered(req[r], "refused")
    BY <1>2, <2>1 DEF Results
  <2>2. CASE req'[r] # Answered(req[r], "refused")
    <3>1. PICK q \in ReqType :
            /\ req'[r] = Moved(After(q.op, q.at), q)
            /\ q = IF req[r].at = "getById" THEN [req[r] EXCEPT !.row = crews[req[r].crew]]
                                            ELSE req[r]
      BY <1>0, <1>4, <2>2, checkMoves
    <3>2. q.eligible = req[r].eligible
      BY <1>1, <3>1 DEF ReqType
    <3> QED
      BY <1>3, <3>1, <3>2
  <2> QED
    BY <2>1, <2>2
<1>5. CASE persistCrew(r)
  <2>1. CASE req'[r] = Moved(After(req[r].op, "persistCrew"), [req[r] EXCEPT !.new = r])
    <3> DEFINE p == [req[r] EXCEPT !.new = r]
    <3>1. p \in ReqType /\ p.eligible = req[r].eligible
      <4>1. r \in Crews
        BY CrewAssumption DEF Requests, Crews
      <4> QED
        BY <1>1, <4>1 DEF ReqType
    <3> HIDE DEF p
    <3>2. req'[r] = Moved(After(req[r].op, "persistCrew"), p)
      BY <2>1 DEF p
    <3> QED
      BY <1>3, <3>1, <3>2
  <2>2. CASE req'[r] = [req[r] EXCEPT !.at = "reread"]
    BY <1>1, <2>2 DEF ReqType
  <2> QED
    BY <1>0, <1>2, <1>5, <2>1, <2>2, persistCrewMoves DEF Results
<1>6. CASE readBack(r)
  BY <1>0, <1>2, <1>6, readBackMoves DEF Results
<1>7. CASE sourceMembers(r)
  <2> DEFINE p == [req[r] EXCEPT !.roster = joined[req[r].crew]]
  <2>1. p \in ReqType /\ p.eligible = req[r].eligible
    <3>1. req[r].crew \in Crews /\ joined[req[r].crew] \in Seq(Users)
      BY <1>0, <1>1 DEF ReqType, TInv, TablesType
    <3> QED
      BY <1>1, <3>1 DEF ReqType
  <2> HIDE DEF p
  <2>2. req'[r] = Moved("targetProfiles", p)
    BY <1>0, <1>7, sourceMembersMoves DEF p
  <2> QED
    BY <1>3, <2>1, <2>2
<1>8. CASE targetProfiles(r)
  <2> DEFINE p == [req[r] EXCEPT !.eligible = HaveJoined(req[r].festival)]
  <2>1. p \in ReqType /\ p.eligible = HaveJoined(req[r].festival)
    <3>1. HaveJoined(req[r].festival) \in SUBSET Users
      BY DEF HaveJoined
    <3> QED
      BY <1>1, <3>1 DEF ReqType
  <2> HIDE DEF p
  <2>2. req'[r] = Moved("findReformed", p)
    BY <1>0, <1>8, targetProfilesMoves DEF p
  <2> QED
    BY <1>3, <2>1, <2>2
<1>9. ASSUME NEW c, req'[r] = [Reuse(req[r], c) EXCEPT !.at = "planRoster"]
      PROVE  req'[r].eligible = req[r].eligible
  BY <1>1, <1>9 DEF Reuse, ReqType
<1>10. CASE findReformed(r)
  <2>1. CASE req'[r] = [req[r] EXCEPT !.at = "persistCrew"]
    BY <1>1, <2>1 DEF ReqType
  <2> QED
    BY <1>0, <1>2, <1>9, <1>10, <2>1, findReformedMoves DEF Results
<1>11. CASE reread(r) \/ readNew(r)
  BY <1>0, <1>2, <1>9, <1>11, rereadMoves, readNewMoves DEF Results
<1>12. CASE planRoster(r)
  <2>1. PICK e \in SUBSET Users, n \in Int :
          /\ e \subseteq ToSet(req[r].roster) \cap req[r].eligible
          /\ req'[r] = Moved("autoAdd", [req[r] EXCEPT !.eligible = e, !.slots = n])
    BY <1>0, <1>12, planRosterMoves
  <2> DEFINE p == [req[r] EXCEPT !.eligible = e, !.slots = n]
  <2>2. p \in ReqType /\ p.eligible = e
    BY <1>1 DEF ReqType
  <2> HIDE DEF p
  <2>3. req'[r] = Moved("autoAdd", p)
    BY <2>1 DEF p
  <2> QED
    BY <1>3, <2>1, <2>2, <2>3
<1>13. CASE autoAdd(r)
  <2>1. CASE req'[r] = Moved("readBack", req[r])
    BY <1>1, <1>3, <2>1
  <2>2. ASSUME NEW u, NEW n, req'[r] = Turned(req[r], u, n)
        PROVE  req'[r].eligible \subseteq req[r].eligible
    BY <1>1, <2>2 DEF Turned, ReqType
  <2> QED
    BY <1>0, <1>13, <2>1, <2>2, autoAddMoves
<1>14. ~ \E s \in {"addMember", "removeMember", "transferOwnership", "updateCrew", "deleteCrew",
                   "deleteProfiles", "hardDelete"} : At(r, s)
  BY <1>1 DEF OnPath, At
<1> QED
  BY <1>4, <1>5, <1>6, <1>7, <1>8, <1>10, <1>11, <1>12, <1>13, <1>14 DEF Step, addMember,
     removeMember, transferOwnership, updateCrew, deleteCrew, deleteProfiles, hardDelete

LEMMA StepEligibleJoined ==
  ASSUME JoinedInv, UNCHANGED scenario, Lapses, NEW r \in Requests, Step(r)
  PROVE  EligibleJoined'
<1>0. CInv
  BY DEF JoinedInv
<1> SUFFICES ASSUME NEW t \in Requests, req'[t].at # None, req'[t].op = "reform",
                    NEW u \in req'[t].eligible
             PROVE  <<u, req'[t].festival>> \in profiles' \cup lapsed'[t]
  BY DEF EligibleJoined
<1>1. Others(r)
  BY <1>0, StepEffect DEF Effect
<1>2. CASE t # r
  <2>1. req'[t] = req[t]
    BY <1>1, <1>2 DEF Others
  <2>2. <<u, req[t].festival>> \in profiles \cup lapsed[t]
    BY <2>1 DEF JoinedInv, EligibleJoined
  <2> QED
    BY <2>1, <2>2, HadStays
<1>3. CASE t = r
  <2>1. req[r].op = "reform" /\ req'[r].festival = req[r].festival /\ req[r].at # None
    BY <1>0, <1>3, SameRequest
  <2>2. u \in req[r].eligible \/ u \in HaveJoined(req[r].festival)
    BY <1>0, <1>3, <2>1, StepEligible
  <2>3. <<u, req[r].festival>> \in profiles \cup lapsed[r]
    BY <2>1, <2>2 DEF JoinedInv, EligibleJoined, HaveJoined
  <2> QED
    BY <1>3, <2>1, <2>3, HadStays
<1> QED
  BY <1>2, <1>3

\* Who becomes a member in a step: the creator of a crew, or whom it inserts.
LEMMA StepMembers ==
  ASSUME CInv, UNCHANGED scenario, NEW r \in Requests, Step(r), NEW c \in Crews,
         NEW u, u \in ToSet(joined'[c]), u \notin Members(c)
  PROVE  \/ Creates(r) /\ c = r /\ u = req[r].user
         \/ /\ Inserts(r) /\ crews[c] # None /\ UNCHANGED crews
            /\ \/ req[r].at = "addMember" /\ c = req[r].crew /\ u = Subject(req[r])
               \/ req[r].at = "autoAdd" /\ c = req[r].new /\ u \in req[r].eligible
<1>0. TInv /\ ForeignKeys /\ \A d \in Crews : Roster(joined[d])
  BY DEF CInv, TInv, TablesType
<1>1. joined \in [Crews -> Seq(Users)] /\ ToSet(<<>>) = {}
  BY <1>0 DEF TInv, TablesType, ToSet
<1>2. CASE Inserts(r)
  <2>1. PICK d \in Crews, v \in Users :
          /\ crews[d] # None /\ v \notin Members(d) /\ joined' = [joined EXCEPT ![d] = Append(@, v)]
          /\ UNCHANGED crews
          /\ \/ req[r].at = "addMember" /\ d = req[r].crew /\ v = Subject(req[r])
             \/ req[r].at = "autoAdd" /\ d = req[r].new /\ v \in req[r].eligible
    BY <1>2 DEF Inserts
  <2>2. ToSet(Append(joined[d], v)) = ToSet(joined[d]) \cup {v}
    BY <1>0, <2>1, AppendRoster DEF Members
  <2>3. c = d /\ u = v
    <3>1. joined'[c] = IF c = d THEN Append(joined[d], v) ELSE joined[c]
      BY <1>1, <2>1
    <3> QED
      BY <2>2, <3>1 DEF Members
  <2> QED
    BY <1>2, <2>1, <2>3
<1>3. CASE Creates(r)
  <2>1. joined'[c] = IF c = r THEN <<req[r].user>> ELSE joined[c]
    BY <1>1, <1>3 DEF Creates
  <2>2. c = r
    BY <2>1 DEF Members
  <2>3. req[r].user \in Users
    BY <1>0, <1>3, NewRowType DEF Creates
  <2>4. ToSet(<<req[r].user>>) = {req[r].user}
    BY <2>3, NewRoster
  <2> QED
    BY <1>3, <2>1, <2>2, <2>4
<1>4. CASE Removes(r)
  <2>1. joined'[c] = joined[c] \/ joined'[c] = RemoveFirst(joined[c], Subject(req[r]))
    BY <1>4 DEF Removes
  <2>2. ToSet(RemoveFirst(joined[c], Subject(req[r]))) \subseteq ToSet(joined[c])
    BY <1>0, RemoveRoster
  <2> QED
    BY <2>1, <2>2 DEF Members
<1>5. CASE Deletes(r)
  <2>1. crews'[c] = None \/ joined'[c] = joined[c]
    BY <1>5 DEF Deletes
  <2>2. ForeignKeys'
    BY StepEffect DEF Effect
  <2> QED
    BY <1>1, <2>1, <2>2 DEF ForeignKeys, Members
<1>6. CASE Inherits(r)
  <2>1. joined'[c] \in {<<>>, RemoveFirst(joined[c], req[r].target)}
    BY <1>6 DEF Inherits, Inherited
  <2>2. ToSet(RemoveFirst(joined[c], req[r].target)) \subseteq ToSet(joined[c])
    BY <1>0, RemoveRoster
  <2> QED
    BY <1>1, <2>1, <2>2 DEF Members
<1>7. CASE UNCHANGED tables \/ Transfers(r) \/ Updates(r) \/ Forgets(r)
  BY <1>7 DEF tables, Transfers, Updates, Forgets, Members
<1> QED
  BY <1>2, <1>3, <1>4, <1>5, <1>6, <1>7, StepTables

\* A request that makes a member goes on.
LEMMA AddingMoves ==
  ASSUME CInv, UNCHANGED scenario, NEW r \in Requests, Step(r), Creates(r) \/ Inserts(r)
  PROVE  req'[r] # req[r]
<1>1. TInv
  BY DEF CInv
<1>2. CASE Creates(r)
  <2>1. req[r].new # r
    BY <1>2, BeforeCreation DEF Creates
  <2> QED
    BY <1>2, <2>1 DEF Creates
<1>3. CASE Inserts(r) /\ req[r].at = "addMember"
  <2>1. req[r].at # None
    BY <1>3, CrewAssumption DEF Statements
  <2>2. req[r].op \in {"join", "adminAdd"}
    BY <1>1, <1>3, <2>1, ServedFacts, PathFacts
  <2>3. After(req[r].op, req[r].at) = None
    BY <1>3, <2>2, AfterJoin, AfterAdminAdd
  <2>4. req'[r].at = None
    BY <2>2, <2>3, StepGoesOn DEF GoesOn
  <2> QED
    BY <2>1, <2>4
<1>4. CASE Inserts(r) /\ req[r].at # "addMember"
  <2>1. PICK u \in req[r].eligible : req'[r] = Turned(req[r], u, req[r].slots - 1)
    BY <1>4 DEF Inserts
  <2>2. req[r] \in ReqType
    BY <1>1 DEF TInv, RequestsType
  <2>3. u \notin req'[r].eligible
    BY <2>1, <2>2 DEF Turned, ReqType
  <2> QED
    BY <2>3
<1> QED
  BY <1>2, <1>3, <1>4

\* Whoever becomes a member has joined the festival, or is added by an admin.
LEMMA StepJoins ==
  ASSUME JoinedInv, UNCHANGED scenario, NEW r \in Requests, Step(r), NEW c \in Crews,
         NEW u, u \in ToSet(joined'[c]), u \notin Members(c)
  PROVE  /\ req'[r] # req[r]
         /\ req[r].op = "adminAdd" \/ <<u, crews'[c].festival>> \in profiles \cup lapsed[r]
<1>0. CInv /\ TInv /\ ForeignKeys
  BY DEF JoinedInv, CInv
<1>1. CASE Creates(r) /\ c = r /\ u = req[r].user
  <2>1. /\ crews[r] = None /\ req[r].at = "persistCrew" /\ NewRow(req[r]).festival = req[r].festival
        /\ req[r].op \in {"create", "reform"}
    BY <1>0, <1>1, BeforeCreation, NewRowType DEF Creates
  <2>2. crews'[c].festival = req[r].festival
    BY <1>0, <1>1, <2>1, CreatesTables
  <2>3. PastProfile(req[r])
    BY <2>1, CrewAssumption DEF PastProfile, Statements
  <2>4. <<u, req[r].festival>> \in profiles \cup lapsed[r]
    BY <1>1, <2>1, <2>3 DEF JoinedInv, ProfilesChecked, FestivalOf
  <2> QED
    BY <1>0, <1>1, <2>2, <2>4, AddingMoves
<1>2. ASSUME crews[c] # None, UNCHANGED crews,
             \/ req[r].at = "addMember" /\ c = req[r].crew /\ u = Subject(req[r])
             \/ req[r].at = "autoAdd" /\ c = req[r].new /\ u \in req[r].eligible
      PROVE  req[r].op = "adminAdd" \/ <<u, crews'[c].festival>> \in profiles \cup lapsed[r]
  <2>0. req[r].at # None
    BY <1>2, CrewAssumption DEF Statements
  <2>1. CASE req[r].at = "addMember" /\ c = req[r].crew /\ u = Subject(req[r]) /\ req[r].op # "adminAdd"
    <3>1. req[r].op = "join" /\ Asked(req[r])
      BY <1>0, <2>0, <2>1, ServedFacts, PathFacts
    <3>2. u = req[r].user
      BY <2>1, <3>1, CrewAssumption DEF Subject, Asked, Targeted
    <3>3. PastProfile(req[r])
      BY <2>1, <3>1, CrewAssumption DEF PastProfile, Statements
    <3>4. req[r].row.festival = crews[c].festival
      BY <1>2, <2>0, <2>1, <3>1 DEF JoinedInv, RowFestival, NeedsRow
    <3>5. <<u, crews[c].festival>> \in profiles \cup lapsed[r]
      BY <3>1, <3>2, <3>3, <3>4 DEF JoinedInv, ProfilesChecked, FestivalOf
    <3> QED
      BY <1>2, <3>5
  <2>2. CASE req[r].at = "autoAdd" /\ c = req[r].new /\ u \in req[r].eligible
    <3>1. req[r].op = "reform" /\ req[r].new # None
      BY <1>0, <2>0, <2>2, ServedFacts, PathFacts, CrewAssumption
    <3>2. crews[c].festival = req[r].festival
      BY <1>2, <2>2, <3>1 DEF JoinedInv, CInv, Reforms, Wanted
    <3>3. <<u, crews[c].festival>> \in profiles \cup lapsed[r]
      BY <2>0, <2>2, <3>1, <3>2 DEF JoinedInv, EligibleJoined
    <3> QED
      BY <1>2, <3>3
  <2> QED
    BY <1>2, <2>1, <2>2
<1>3. CASE ~(Creates(r) /\ c = r /\ u = req[r].user)
  <2>1. /\ Inserts(r) /\ crews[c] # None /\ UNCHANGED crews
        /\ \/ req[r].at = "addMember" /\ c = req[r].crew /\ u = Subject(req[r])
           \/ req[r].at = "autoAdd" /\ c = req[r].new /\ u \in req[r].eligible
    BY <1>0, <1>3, StepMembers
  <2>2. req'[r] # req[r]
    BY <1>0, <2>1, AddingMoves
  <2> QED
    BY <1>2, <2>1, <2>2
<1> QED
  BY <1>1, <1>3

LEMMA StartKeepsJoined ==
  ASSUME JoinedInv, UNCHANGED scenario, Lapses, NEW r \in Requests, start(r)
  PROVE  JoinedInv' /\ UNCHANGED joined
<1>0. CInv /\ TInv /\ CInv'
  BY StartKeepsInv DEF JoinedInv, CInv
<1>1. /\ Others(r) /\ UNCHANGED tables /\ req[r] = Idle /\ req'[r].op \in Endpoints
      /\ req'[r].at = Handler[req'[r].op][1] /\ req'[r].eligible = {}
  BY <1>0, startMoves
<1>2. UNCHANGED <<crews, joined>>
  BY <1>1 DEF tables
<1>3. /\ ~NeedsRow(req'[r].op, req'[r].at) /\ OnPath(req'[r].op, req'[r].at)
      /\ req'[r].at \in {"getById", "hasProfile", "userExists", "isMember"}
  BY <1>1, FirstStatement
<1>4. ~PastProfile(req'[r])
  BY <1>3 DEF PastProfile, OnPath
<1>5. \A t \in Requests \ {r} : req'[t] = req[t]
  BY <1>1 DEF Others
<1>6. RowFestival'
  BY <1>2, <1>3, <1>5 DEF JoinedInv, RowFestival, NeedsRow
<1>7. ProfilesChecked'
  <2> SUFFICES ASSUME NEW t \in Requests, PastProfile(req'[t])
               PROVE  <<req'[t].user, FestivalOf(req'[t])>> \in profiles' \cup lapsed'[t]
    BY DEF ProfilesChecked, PastProfile, FestivalOf
  <2>1. req'[t] = req[t] /\ req[t].at # None
    BY <1>4, <1>5 DEF PastProfile
  <2>2. <<req[t].user, FestivalOf(req[t])>> \in profiles \cup lapsed[t]
    BY <2>1 DEF JoinedInv, ProfilesChecked
  <2> QED
    BY <2>1, <2>2, HadStays
<1>8. EligibleJoined'
  <2> SUFFICES ASSUME NEW t \in Requests, req'[t].at # None, req'[t].op = "reform",
                      NEW u \in req'[t].eligible
               PROVE  <<u, req'[t].festival>> \in profiles' \cup lapsed'[t]
    BY DEF EligibleJoined
  <2>1. req'[t] = req[t]
    BY <1>1, <1>5
  <2>2. <<u, req[t].festival>> \in profiles \cup lapsed[t]
    BY <2>1 DEF JoinedInv, EligibleJoined
  <2> QED
    BY <2>1, <2>2, HadStays
<1> QED
  BY <1>0, <1>2, <1>6, <1>7, <1>8 DEF JoinedInv

\* Profiles come and go, or nothing happens.
LEMMA RestKeepsJoined ==
  ASSUME JoinedInv, CInv', UNCHANGED <<crews, req>>,
         \A t \in Requests : req[t].at # None => profiles \cup lapsed[t] \subseteq profiles' \cup lapsed'[t]
  PROVE  JoinedInv'
<1>1. RowFestival'
  BY DEF JoinedInv, RowFestival, NeedsRow
<1>2. ProfilesChecked'
  <2> SUFFICES ASSUME NEW t \in Requests, PastProfile(req[t])
               PROVE  <<req[t].user, FestivalOf(req[t])>> \in profiles' \cup lapsed'[t]
    BY DEF ProfilesChecked, PastProfile, FestivalOf
  <2>1. req[t].at # None
    BY DEF PastProfile
  <2> QED
    BY <2>1 DEF JoinedInv, ProfilesChecked
<1>3. EligibleJoined'
  BY DEF JoinedInv, EligibleJoined
<1> QED
  BY <1>1, <1>2, <1>3 DEF JoinedInv

\* Whoever becomes a member in a step is added by a request that goes on in it.
Joins ==
  \A c \in Crews : \A u \in ToSet(joined'[c]) \ Members(c) :
    \E r \in Requests :
      /\ req'[r] # req[r]
      /\ req[r].op = "adminAdd" \/ <<u, crews'[c].festival>> \in profiles \cup lapsed[r]

LEMMA NextJoins ==
  ASSUME JoinedInv, [Next]_vars
  PROVE  JoinedInv' /\ Joins
<1>0. CInv /\ TInv /\ CInv'
  BY NextKeepsInv DEF JoinedInv, CInv
<1>1. UNCHANGED joined => Joins
  BY DEF Joins, Members
<1>2. ASSUME NEW r \in Requests, start(r), UNCHANGED scenario, Lapses
      PROVE  JoinedInv' /\ Joins
  BY <1>1, <1>2, StartKeepsJoined
<1>3. ASSUME NEW r \in Requests, Step(r), UNCHANGED scenario, Lapses
      PROVE  JoinedInv' /\ Joins
  <2>1. RowFestival' /\ ProfilesChecked' /\ EligibleJoined'
    BY <1>0, <1>3, StepRowFestival, StepProfilesChecked, StepEligibleJoined DEF JoinedInv
  <2>2. Joins
    BY <1>3, StepJoins DEF Joins
  <2> QED
    BY <1>0, <2>1, <2>2 DEF JoinedInv
<1>4. ASSUME ProfileStep, UNCHANGED scenario, Lapses
      PROVE  JoinedInv' /\ Joins
  <2>1. UNCHANGED <<crews, joined, req>>
    BY <1>0, <1>4, ProfileStepMoves
  <2> QED
    BY <1>0, <1>1, <1>4, <2>1, HadStays, RestKeepsJoined
<1>5. CASE UNCHANGED vars
  <2>1. UNCHANGED <<crews, joined, req, profiles, lapsed>>
    BY <1>5 DEF vars
  <2> QED
    BY <1>0, <1>1, <2>1, RestKeepsJoined
<1> QED
  BY <1>2, <1>3, <1>4, <1>5 DEF Next, ProfileStep, Lapses

LEMMA InitJoined == Init => JoinedInv
<1> SUFFICES ASSUME Init
             PROVE  JoinedInv
  OBVIOUS
<1>1. CInv /\ \A r \in Requests : req[r] = Idle
  BY InitInv DEF Init
<1>2. RowFestival /\ ProfilesChecked /\ EligibleJoined
  BY <1>1, IdleType, CrewAssumption DEF RowFestival, ProfilesChecked, EligibleJoined, PastProfile,
                                        Endpoints
<1> QED
  BY <1>1, <1>2 DEF JoinedInv

\* Whoever is put into a crew, but by an admin, has joined its festival, or had when the request
\* that adds them looked: whatever runs between the profile check of a create, a join or a reform
\* and its insert, and between the plan of a reform and each turn of its loop, deletions of
\* profiles, of accounts and of users among it.
THEOREM JoinedFirst == Spec => MembersHaveJoined
<1>1. JoinedInv /\ [Next]_vars =>
        /\ JoinedInv'
        /\ [\A c \in Crews : \A u \in ToSet(joined'[c]) \ Members(c) :
              \E r \in Requests :
                /\ req'[r] # req[r]
                /\ req[r].op = "adminAdd" \/ <<u, crews'[c].festival>> \in profiles \cup lapsed[r]]_vars
  BY NextJoins DEF Joins
<1> QED
  BY <1>1, InitJoined, PTL DEF Spec, MembersHaveJoined

-----------------------------------------------------------------------------
(* Endpoints that are served alone.                                        *)

Alone ==
  \A r, s \in Requests :
    r # s /\ req[r].at # None /\ req[s].at # None => req[r].op \notin scenario.exclusive

LEMMA StepAlone ==
  ASSUME CInv, Alone, UNCHANGED scenario, NEW r \in Requests, Step(r)
  PROVE  Alone'
<1>1. Others(r) /\ req[r].at # None
  BY StepEffect DEF Effect
<1>2. req'[r].at # None => req'[r].op = req[r].op
  BY SameRequest
<1>3. \A t \in Requests : req'[t].at # None => req[t].at # None /\ req'[t].op = req[t].op
  BY <1>1, <1>2 DEF Others
<1> QED
  BY <1>3 DEF Alone

LEMMA StartAlone ==
  ASSUME CInv, Alone, UNCHANGED scenario, NEW r \in Requests, start(r)
  PROVE  Alone'
<1>1. /\ Others(r)
      /\ req'[r].op \in scenario.exclusive => \A s \in Requests : ~Active(s)
      /\ \A s \in Requests : Active(s) => req[s].op \notin scenario.exclusive
  BY startMoves DEF CInv
<1>2. \A t \in Requests \ {r} : req'[t] = req[t]
  BY <1>1 DEF Others
<1> SUFFICES ASSUME NEW s \in Requests, NEW t \in Requests, s # t, req'[s].at # None, req'[t].at # None
             PROVE  req'[s].op \notin scenario.exclusive
  BY DEF Alone
<1>3. CASE s = r
  BY <1>1, <1>2, <1>3 DEF Active
<1>4. CASE s # r
  BY <1>1, <1>2, <1>4 DEF Active
<1> QED
  BY <1>3, <1>4

-----------------------------------------------------------------------------
(* How many may be in a crew.                                              *)

\* The situations in which the cap holds: nothing runs beside a PUT, which may lower the cap
\* that a join has read, or beside a reform, whose loop counts its crew's members once.
CapsAreStill ==
  \A op \in {"update", "reform"} : op \in scenario.ops => op \in scenario.exclusive

\* The cap that was read with the crew is the crew's, for as long as the crew exists.
RowMax ==
  \A r \in Requests :
    /\ req[r].at # None /\ req[r].op # "update" /\ NeedsRow(req[r].op, req[r].at)
    /\ crews[req[r].crew] # None
    => req[r].row.max = crews[req[r].crew].max

CapsPositive ==
  /\ \A c \in Crews : crews[c] # None => crews[c].max > 0
  /\ \A r \in Requests : req[r].at # None /\ NeedsRow(req[r].op, req[r].at) => req[r].row.max > 0

\* The places a reform's loop goes on with are there.
SlotsFree ==
  \A r \in Requests : req[r].op = "reform" /\ req[r].new \in Crews /\ crews[req[r].new] # None =>
    /\ req[r].at = "planRoster" => req[r].slots = crews[req[r].new].max
    /\ req[r].at = "autoAdd" =>
         \/ req[r].slots <= 0
         \/ req[r].slots + Len(joined[req[r].new]) <= crews[req[r].new].max

CapInv == CInv /\ CapsAreStill /\ Alone /\ RowMax /\ CapsPositive /\ SlotsFree

\* Of the crews that stay, only a PUT changes the cap.
LEMMA StepMax ==
  ASSUME CInv, UNCHANGED scenario, NEW r \in Requests, Step(r), ~Updates(r), NEW c \in Crews,
         crews'[c] # None, Creates(r) => c # r
  PROVE  crews'[c].max = crews[c].max
<1>1. CASE UNCHANGED tables \/ Inserts(r) \/ Removes(r) \/ Transfers(r) \/ Forgets(r)
  BY <1>1 DEF tables, Inserts, Removes, Transfers, Forgets
<1>2. CASE Creates(r)
  <2>1. crews \in [Crews -> Rows \cup {None}]
    BY DEF CInv, TInv, TablesType
  <2> QED
    BY <1>2, <2>1 DEF Creates
<1>3. CASE Deletes(r)
  BY <1>3 DEF Deletes
<1>4. CASE Inherits(r)
  BY <1>4 DEF Inherits, Inherited
<1> QED
  BY <1>1, <1>2, <1>3, <1>4, StepTables

\* A PUT, or a reform, meets no other request.
LEMMA Undisturbed ==
  ASSUME CapInv, NEW r \in Requests, req[r].at # None, req[r].op \in {"update", "reform"},
         NEW t \in Requests, t # r
  PROVE  req[t].at = None
<1>1. req[r].op \in scenario.ops
  BY ServedFacts DEF CapInv, CInv
<1> QED
  BY <1>1 DEF CapInv, CapsAreStill, Alone

LEMMA UpdatesAlone ==
  ASSUME CapInv, NEW r \in Requests, Updates(r)
  PROVE  req[r].op = "update" /\ req[r].at # None
BY ServedFacts, PathFacts, CrewAssumption DEF Updates, CapInv, CInv, Statements

LEMMA StepRowMax ==
  ASSUME CapInv, UNCHANGED scenario, NEW r \in Requests, Step(r)
  PROVE  RowMax'
<1>0. CInv
  BY DEF CapInv
<1> SUFFICES ASSUME NEW t \in Requests, req'[t].at # None, req'[t].op # "update",
                    NeedsRow(req'[t].op, req'[t].at), crews'[req'[t].crew] # None
             PROVE  req'[t].row.max = crews'[req'[t].crew].max
  BY DEF RowMax, NeedsRow
<1>1. Others(r)
  BY <1>0, StepEffect DEF Effect
<1>2. CASE t # r
  <2>1. req'[t] = req[t]
    BY <1>1, <1>2 DEF Others
  <2>2. ~Updates(r)
    BY <1>2, <2>1, UpdatesAlone, Undisturbed
  <2>3. /\ crews[req[t].crew] # None /\ req[t].crew \in Crews
        /\ Creates(r) => req[t].crew # r
    BY <1>0, <2>1, SameCrew
  <2>4. crews'[req[t].crew].max = crews[req[t].crew].max
    BY <1>0, <2>1, <2>2, <2>3, StepMax
  <2> QED
    BY <2>1, <2>3, <2>4 DEF CapInv, RowMax
<1>3. CASE t = r
  <2>1. req'[r].crew = req[r].crew /\ req[r].at # None /\ req'[r].op = req[r].op
    BY <1>0, <1>3, SameRequest
  <2>2. /\ crews[req[r].crew] # None /\ req[r].crew \in Crews
        /\ Creates(r) => req[r].crew # r
    BY <1>0, <1>3, <2>1, SameCrew
  <2>3. ~Updates(r)
    BY <1>3, <2>1, UpdatesAlone
  <2>4. crews'[req[r].crew].max = crews[req[r].crew].max
    BY <1>0, <1>3, <2>1, <2>2, <2>3, StepMax
  <2>5. CASE req'[r].row = crews[req[r].crew]
    BY <1>3, <2>1, <2>4, <2>5
  <2>6. CASE NeedsRow(req[r].op, req[r].at) /\ req'[r].row = req[r].row
    BY <1>3, <2>1, <2>2, <2>4, <2>6 DEF CapInv, RowMax
  <2> QED
    BY <1>0, <1>3, <2>5, <2>6, RowRead
<1> QED
  BY <1>2, <1>3

LEMMA StepCapsPositive ==
  ASSUME CapInv, UNCHANGED scenario, NEW r \in Requests, Step(r)
  PROVE  CapsPositive'
<1>0. CInv /\ TInv /\ ForeignKeys
  BY DEF CapInv, CInv
<1>1. Others(r) /\ Effect(r) /\ req[r].at # None
  BY <1>0, StepEffect DEF Effect
<1>2. ASSUME NEW c \in Crews, crews'[c] # None
      PROVE  crews'[c].max > 0
  <2>1. CASE Creates(r) /\ c = r
    <3>1. crews[r] = None /\ req[r].at = "persistCrew" /\ req[r].op \in {"create", "reform"}
      BY <1>0, <2>1, BeforeCreation, NewRowType DEF Creates
    <3>2. crews'[c] = NewRow(req[r])
      BY <1>0, <2>1, <3>1, CreatesTables
    <3>3. CASE req[r].op = "reform"
      <4>1. req[r].row.max > 0
        BY <1>1, <3>1, <3>3 DEF CapInv, CapsPositive, NeedsRow
      <4> QED
        BY <3>2, <3>3, <4>1 DEF NewRow, Row
    <3>4. CASE req[r].op = "create"
      BY <3>2, <3>4, CrewAssumption DEF NewRow, Row
    <3> QED
      BY <3>1, <3>3, <3>4
  <2>2. CASE Creates(r) => c # r
    <3>1. crews[c] # None
      <4>1. CASE Creates(r)
        <5>1. crews \in [Crews -> Rows \cup {None}]
          BY <1>0 DEF TInv, TablesType
        <5> QED
          BY <1>2, <2>2, <4>1, <5>1 DEF Creates
      <4>2. CASE ~Creates(r)
        BY <1>1, <1>2, <4>2 DEF Effect, RowsFate
      <4> QED
        BY <4>1, <4>2
    <3>2. crews[c].max > 0
      BY <3>1 DEF CapInv, CapsPositive
    <3>3. CASE ~Updates(r)
      BY <1>0, <1>2, <2>2, <3>2, <3>3, StepMax
    <3>4. CASE Updates(r)
      <4>1. req[r].op = "update" /\ req[r].at = "updateCrew" /\ req[r] \in ReqType
        BY <1>0, <1>1, <3>4, UpdatesAlone, ServedFacts DEF Updates
      <4>2. req[r].row.max > 0
        BY <1>1, <4>1 DEF CapInv, CapsPositive, NeedsRow
      <4>3. req[r].max \in Nat
        BY <4>1 DEF ReqType
      <4>4. crews'[c].max \in {crews[c].max, IF req[r].max = 0 THEN req[r].row.max ELSE req[r].max}
        BY <3>4 DEF Updates
      <4> QED
        BY <3>2, <4>2, <4>3, <4>4
    <3> QED
      BY <3>3, <3>4
  <2> QED
    BY <2>1, <2>2
<1>3. ASSUME NEW t \in Requests, req'[t].at # None, NeedsRow(req'[t].op, req'[t].at)
      PROVE  req'[t].row.max > 0
  <2>1. CASE t # r
    BY <1>1, <1>3, <2>1 DEF Others, CapInv, CapsPositive
  <2>2. CASE t = r
    <3>1. req[r].crew \in Crews
      BY <1>0 DEF TInv, RequestsType, ReqType
    <3>2. CASE crews[req[r].crew] # None /\ req'[r].row = crews[req[r].crew]
      BY <2>2, <3>1, <3>2 DEF CapInv, CapsPositive
    <3>3. CASE NeedsRow(req[r].op, req[r].at) /\ req'[r].row = req[r].row
      BY <1>1, <2>2, <3>3 DEF CapInv, CapsPositive
    <3> QED
      BY <1>0, <1>3, <2>2, <3>2, <3>3, RowRead
  <2> QED
    BY <2>1, <2>2
<1> QED
  BY <1>2, <1>3 DEF CapsPositive, NeedsRow

-----------------------------------------------------------------------------
(* The places of a reform's loop.                                          *)

\* The list that is added next is counted with the crew's members; a turn of the loop uses a
\* place up only if it adds someone.
LEMMA planRosterSlots ==
  ASSUME TInv, NEW r \in Requests, planRoster(r), UNCHANGED scenario
  PROVE  /\ req'[r].slots = req[r].slots - Len(joined[req[r].new]) /\ req'[r].new = req[r].new
         /\ req'[r].at = "autoAdd"
<1>0. req[r].at = "planRoster" /\ req[r].at # None /\ None \notin Statements /\ req[r].op = "reform"
  BY CrewAssumption, planRosterMoves DEF Statements
<1>1. req[r] \in ReqType /\ req[r].new \in Crews /\ req \in [Requests -> ReqType]
  BY <1>0, ServedFacts DEF NeedsNew, TInv, RequestsType
<1>2. Cardinality(Members(req[r].new)) = Len(joined[req[r].new])
  BY <1>1, RosterCount DEF TInv, TablesType, Members
<1> DEFINE e == planReformRoster(req[r].roster, req[r].user, req[r].eligible, Members(req[r].new))
<1> DEFINE p == [req[r] EXCEPT !.eligible = e, !.slots = req[r].slots - Cardinality(Members(req[r].new))]
<1>3. p.op = "reform" /\ p.at = "planRoster" /\ p.new = req[r].new
      /\ p.slots = req[r].slots - Cardinality(Members(req[r].new)) /\ DOMAIN p = DOMAIN req[r]
  BY <1>0, <1>1 DEF ReqType
<1>4. Proceed(r, p)
  BY DEF planRoster
<1> HIDE DEF p
<1>5. GoTo(r, "autoAdd", p)
  BY <1>3, <1>4, AfterReform DEF Proceed
<1>6. req' = [req EXCEPT ![r] = [p EXCEPT !.at = "autoAdd"]]
  BY <1>0, <1>5 DEF GoTo, Statements
<1>7. req'[r] = [p EXCEPT !.at = "autoAdd"]
  BY <1>1, <1>6
<1>8. "new" \in DOMAIN p /\ "at" \in DOMAIN p /\ "slots" \in DOMAIN p
  BY <1>1, <1>3 DEF ReqType
<1> QED
  BY <1>2, <1>3, <1>7, <1>8

LEMMA autoAddSlots ==
  ASSUME TInv, Planned, NEW r \in Requests, autoAdd(r), UNCHANGED scenario, req'[r].at # None
  PROVE  \/ /\ UNCHANGED tables
            /\ \/ req'[r].at = "readBack"
               \/ req'[r].at = "autoAdd" /\ req'[r].new = req[r].new /\ req'[r].slots = req[r].slots
         \/ Inserts(r)
<1>0. req[r].at = "autoAdd" /\ req[r].at # None /\ req[r].op = "reform"
  BY CrewAssumption, autoAddMoves DEF Statements
<1>1. req[r] \in ReqType /\ req \in [Requests -> ReqType]
  BY <1>0, ServedFacts DEF TInv, RequestsType
<1>2. CASE Inserts(r)
  BY <1>2
<1>3. CASE UNCHANGED tables
  <2>1. CASE req'[r] = Moved("readBack", req[r])
    <3>1. req'[r].at = "readBack"
      BY <1>1, <2>1, MovedFields
    <3> QED
      BY <1>3, <3>1
  <2>2. CASE req'[r] # Moved("readBack", req[r])
    <3> DEFINE q == [req[r] EXCEPT !.eligible = @ \ {NextToAdd(req[r])}]
    <3>1. UNCHANGED joined
      BY <1>3 DEF tables
    <3>2. ~Proceed(r, req[r])
      <4>1. SUFFICES ASSUME Proceed(r, req[r])
                     PROVE  req'[r] = Moved("readBack", req[r])
        BY <2>2
      <4>2. GoTo(r, "readBack", req[r])
        BY <1>0, <4>1, AfterReform DEF Proceed
      <4> QED
        BY <1>1, <4>2 DEF GoTo, Moved
    <3>3. ~\E c \in {req[r].new} : joined' = [joined EXCEPT ![c] = Append(@, NextToAdd(req[r]))]
                                    /\ CanInsert(c, NextToAdd(req[r]))
      <4>1. SUFFICES ASSUME joined' = [joined EXCEPT ![req[r].new] = Append(@, NextToAdd(req[r]))]
                     PROVE  FALSE
        OBVIOUS
      <4> DEFINE u == NextToAdd(req[r])
      <4> HIDE DEF u
      <4>2. req[r].new \in Crews /\ joined \in [Crews -> Seq(Users)]
        BY <1>0, ServedFacts DEF NeedsNew, TInv, TablesType
      <4>3. joined'[req[r].new] = Append(joined[req[r].new], u)
        BY <4>1, <4>2 DEF u
      <4>4. joined[req[r].new] = Append(joined[req[r].new], u) /\ joined[req[r].new] \in Seq(Users)
        BY <3>1, <4>2, <4>3
      <4>5. Len(Append(joined[req[r].new], u)) = Len(joined[req[r].new]) + 1 /\ Len(joined[req[r].new]) \in Nat
        BY <4>4
      <4> QED
        BY <4>4, <4>5
    <3>4. GoTo(r, "autoAdd", q)
      BY <3>2, <3>3 DEF autoAdd
    <3>5. q.slots = req[r].slots /\ q.new = req[r].new /\ DOMAIN q = DOMAIN req[r]
      BY <1>1 DEF ReqType
    <3> HIDE DEF q
    <3>6. req'[r] = [q EXCEPT !.at = "autoAdd"]
      BY <1>0, <1>1, <3>4 DEF GoTo
    <3>7. "at" \in DOMAIN q /\ "slots" \in DOMAIN q /\ "new" \in DOMAIN q
      BY <1>1, <3>5 DEF ReqType
    <3>8. req'[r].at = "autoAdd" /\ req'[r].slots = req[r].slots /\ req'[r].new = req[r].new
      BY <3>5, <3>6, <3>7
    <3> QED
      BY <1>3, <3>8
  <2> QED
    BY <2>1, <2>2
<1> QED
  BY <1>2, <1>3, autoAddInserts

\* How a reform comes to its loop, and what a turn leaves.
LEMMA ReformSlots ==
  ASSUME CInv, UNCHANGED scenario, NEW r \in Requests, Step(r), req'[r].op = "reform",
         req'[r].at \in {"planRoster", "autoAdd"}
  PROVE  \/ /\ req'[r].at = "planRoster" /\ UNCHANGED tables
            /\ req'[r].slots = crews[req'[r].new].max
         \/ /\ req[r].at = "planRoster" /\ req'[r].at = "autoAdd" /\ UNCHANGED tables
            /\ req'[r].new = req[r].new
            /\ req'[r].slots = req[r].slots - Len(joined[req[r].new])
         \/ /\ req[r].at = "autoAdd" /\ req'[r].at = "autoAdd" /\ UNCHANGED tables
            /\ req'[r].new = req[r].new /\ req'[r].slots = req[r].slots
         \/ Inserts(r) /\ req[r].at = "autoAdd"
<1>0. TInv /\ Planned /\ ReformKeysUnique(crews) /\ None \notin {"planRoster", "autoAdd"}
  BY CrewAssumption DEF CInv, Statements
<1>1. req[r].op = "reform" /\ OnPath(req[r].op, req[r].at) /\ req[r] \in ReqType /\ req[r].at # None
  BY <1>0, SameRequest
<1>2. CASE check(r)
  <2>1. req[r].at \in {"getById", "isMember", "hasProfile"}
    BY <1>1, <1>2 DEF check, Checks, OnPath
  <2>2. GoesOn(req[r], req'[r])
    BY <1>0, <1>2, checkGoesOn
  <2>3. req[r].at \in Checks /\ req'[r].at # None
    BY <1>0, <1>2 DEF check
  <2>4. req'[r].at = After("reform", req[r].at)
    BY <1>1, <2>2, <2>3 DEF GoesOn
  <2> QED
    BY <2>1, <2>4, AfterReform
<1>3. CASE \/ addMember(r) \/ removeMember(r) \/ transferOwnership(r) \/ updateCrew(r) \/ deleteCrew(r)
           \/ deleteProfiles(r) \/ hardDelete(r)
  <2>1. req[r].at \in {"addMember", "removeMember", "transferOwnership", "updateCrew", "deleteCrew",
                       "deleteProfiles", "hardDelete"}
    BY <1>3 DEF addMember, removeMember, transferOwnership, updateCrew, deleteCrew, deleteProfiles,
                hardDelete, At
  <2> QED
    BY <1>1, <2>1, PathFacts
<1>4. CASE persistCrew(r)
  <2>1. CASE req'[r] = Moved(After(req[r].op, "persistCrew"), [req[r] EXCEPT !.new = r])
    <3> DEFINE p == [req[r] EXCEPT !.new = r]
    <3>1. p \in ReqType
      <4>1. r \in Crews
        BY CrewAssumption DEF Requests, Crews
      <4> QED
        BY <1>1, <4>1 DEF ReqType
    <3> HIDE DEF p
    <3>2. req'[r] = Moved("readNew", p)
      BY <1>1, <2>1, AfterReform DEF p
    <3> QED
      BY <1>0, <3>1, <3>2, MovedFields
  <2>2. CASE req'[r] = [req[r] EXCEPT !.at = "reread"]
    BY <1>1, <2>2 DEF ReqType
  <2>3. CASE req'[r] = Answered(req[r], "error")
    BY <1>0, <1>1, <2>3, AnsweredFields DEF Results
  <2> QED
    BY <1>0, <1>4, <2>1, <2>2, <2>3, persistCrewMoves
<1>5. CASE readBack(r)
  BY <1>0, <1>1, <1>5, readBackMoves, AnsweredFields DEF Results
<1>6. CASE sourceMembers(r) \/ targetProfiles(r)
  <2>1. GoesOn(req[r], req'[r]) /\ req[r].at \in {"sourceMembers", "targetProfiles"}
    BY <1>6, StepGoesOn DEF sourceMembers, targetProfiles, At
  <2>2. CASE sourceMembers(r)
    <3> DEFINE p == [req[r] EXCEPT !.roster = joined[req[r].crew]]
    <3>1. p \in ReqType
      <4>1. req[r].crew \in Crews /\ joined[req[r].crew] \in Seq(Users)
        BY <1>0, <1>1 DEF ReqType, TInv, TablesType
      <4> QED
        BY <1>1, <4>1 DEF ReqType
    <3> HIDE DEF p
    <3>2. req'[r] = Moved("targetProfiles", p)
      BY <1>0, <2>2, sourceMembersMoves DEF p
    <3> QED
      BY <1>0, <3>1, <3>2, MovedFields
  <2>3. CASE targetProfiles(r)
    <3> DEFINE p == [req[r] EXCEPT !.eligible = HaveJoined(req[r].festival)]
    <3>1. p \in ReqType
      BY <1>1 DEF ReqType, HaveJoined
    <3> HIDE DEF p
    <3>2. req'[r] = Moved("findReformed", p)
      BY <1>0, <2>3, targetProfilesMoves DEF p
    <3> QED
      BY <1>0, <3>1, <3>2, MovedFields
  <2> QED
    BY <1>6, <2>2, <2>3
<1>7. CASE findReformed(r) \/ reread(r) \/ readNew(r)
  <2>1. req[r].at \notin Checks /\ UNCHANGED tables
    BY <1>0, <1>7, findReformedMoves, rereadMoves, readNewMoves DEF Checks
  <2>2. ASSUME NEW c, req'[r] = [Reuse(req[r], c) EXCEPT !.at = "planRoster"]
        PROVE  /\ req'[r].at = "planRoster" /\ UNCHANGED tables
               /\ req'[r].slots = crews[req'[r].new].max
    <3>1. req'[r].at = "planRoster" /\ req'[r].new = c /\ req'[r].slots = crews[c].max
      BY <1>1, <2>2 DEF Reuse, ReqType
    <3> QED
      BY <2>1, <3>1
  <2>3. req'[r] # Answered(req[r], "error") /\ req'[r] # Answered(req[r], "refused")
    BY <1>0, <1>1, AnsweredFields DEF Results
  <2>4. req'[r] # [req[r] EXCEPT !.at = "persistCrew"]
    BY <1>1 DEF ReqType
  <2>5. \E c : req'[r] = [Reuse(req[r], c) EXCEPT !.at = "planRoster"]
    BY <1>0, <1>7, <2>3, <2>4, findReformedMoves, rereadMoves, readNewMoves
  <2> QED
    BY <2>2, <2>5
<1>8. CASE planRoster(r)
  BY <1>0, <1>8, planRosterSlots, planRosterMoves
<1>9. CASE autoAdd(r)
  <2>1. req[r].at = "autoAdd"
    BY <1>9 DEF autoAdd, At
  <2> QED
    BY <1>0, <1>9, <2>1, autoAddSlots
<1> QED
  BY <1>2, <1>3, <1>4, <1>5, <1>6, <1>7, <1>8, <1>9 DEF Step

LEMMA StepSlotsFree ==
  ASSUME CapInv, UNCHANGED scenario, NEW r \in Requests, Step(r)
  PROVE  SlotsFree'
<1>0. CInv /\ TInv /\ Planned /\ None \notin {"planRoster", "autoAdd"}
  BY CrewAssumption DEF CapInv, CInv, Statements
<1>1. Effect(r) /\ Others(r) /\ req[r].at # None /\ ForeignKeys'
  BY <1>0, StepEffect DEF Effect
<1> SUFFICES ASSUME NEW t \in Requests, req'[t].op = "reform", req'[t].at \in {"planRoster", "autoAdd"},
                    req'[t].new \in Crews, crews'[req'[t].new] # None
             PROVE  /\ req'[t].at = "planRoster" => req'[t].slots = crews'[req'[t].new].max
                    /\ req'[t].at = "autoAdd" =>
                         \/ req'[t].slots <= 0
                         \/ req'[t].slots + Len(joined'[req'[t].new]) <= crews'[req'[t].new].max
  BY DEF SlotsFree
<1>2. CASE t # r
  <2>1. req[t].at # None /\ req[t].op = "reform"
    BY <1>0, <1>1, <1>2 DEF Others
  <2> QED
    BY <1>1, <1>2, <2>1, Undisturbed
<1>3. CASE t = r
  <2> DEFINE c == req'[r].new
  <2>1. c \in Crews /\ crews'[c] # None
    BY <1>3
  <2>2. req[r].op = "reform" /\ req[r] \in ReqType
    BY <1>0, <1>3, SameRequest
  <2>3. \A d \in Crews : Len(joined[d]) \in Nat
    BY <1>0 DEF TInv, TablesType
  <2>4. CASE /\ req'[r].at = "planRoster" /\ UNCHANGED tables
             /\ req'[r].slots = crews[req'[r].new].max
    BY <1>0, <1>3, <2>4 DEF tables
  <2>5. CASE /\ req[r].at = "planRoster" /\ req'[r].at = "autoAdd" /\ UNCHANGED tables
             /\ req'[r].new = req[r].new
             /\ req'[r].slots = req[r].slots - Len(joined[req[r].new])
    <3>1. UNCHANGED <<crews, joined>>
      BY <2>5 DEF tables
    <3>2. req[r].slots = crews[c].max
      BY <2>1, <2>2, <2>5, <3>1 DEF CapInv, SlotsFree
    <3>3. req'[r].slots = crews'[c].max - Len(joined'[c])
      BY <2>5, <3>1, <3>2
    <3>4. crews'[c].max \in Nat /\ Len(joined'[c]) \in Nat
      <4>1. crews'[c] \in Rows
        BY <1>1, <2>1 DEF Effect, TInv, TablesType
      <4> QED
        BY <2>1, <2>3, <3>1, <4>1 DEF Rows
    <3>5. req'[r].slots + Len(joined'[c]) <= crews'[c].max
      BY <3>3, <3>4
    <3> QED
      BY <1>0, <1>3, <2>5, <3>5
  <2>6. CASE /\ req[r].at = "autoAdd" /\ req'[r].at = "autoAdd" /\ UNCHANGED tables
             /\ req'[r].new = req[r].new /\ req'[r].slots = req[r].slots
    <3>1. UNCHANGED <<crews, joined>>
      BY <2>6 DEF tables
    <3>2. req[r].slots <= 0 \/ req[r].slots + Len(joined[c]) <= crews[c].max
      BY <2>1, <2>2, <2>6, <3>1 DEF CapInv, SlotsFree
    <3> QED
      BY <1>0, <1>3, <2>6, <3>1, <3>2
  <2>7. CASE Inserts(r) /\ req[r].at = "autoAdd"
    <3>1. PICK d \in Crews, u \in Users :
            /\ u \notin Members(d) /\ joined' = [joined EXCEPT ![d] = Append(@, u)]
            /\ UNCHANGED crews /\ d = req[r].new /\ req[r].slots > 0
            /\ req'[r] = Turned(req[r], u, req[r].slots - 1)
      BY <2>7 DEF Inserts
    <3>2. req'[r].at = "autoAdd" /\ c = d /\ req'[r].slots = req[r].slots - 1
      BY <2>2, <2>7, <3>1 DEF Turned, ReqType
    <3>3. joined'[d] = Append(joined[d], u) /\ Roster(joined[d])
      BY <1>0, <3>1 DEF TInv, TablesType
    <3>4. Len(joined'[d]) = Len(joined[d]) + 1
      BY <3>1, <3>3, AppendRoster DEF Members
    <3>5. req[r].slots + Len(joined[d]) <= crews[d].max
      <4>1. req[r].slots <= 0 \/ req[r].slots + Len(joined[d]) <= crews[d].max
        BY <2>1, <2>2, <2>7, <3>1, <3>2 DEF CapInv, SlotsFree
      <4> QED
        BY <2>2, <3>1, <4>1 DEF ReqType
    <3>6. req'[r].slots + Len(joined'[d]) <= crews'[d].max
      <4>1. req[r].slots \in Int /\ Len(joined[d]) \in Nat /\ crews'[d] = crews[d]
        BY <2>2, <2>3, <3>1 DEF ReqType
      <4> QED
        BY <3>2, <3>4, <3>5, <4>1
    <3> QED
      BY <1>0, <1>3, <3>2, <3>6
  <2> QED
    BY <1>0, <1>3, <2>4, <2>5, <2>6, <2>7, ReformSlots
<1> QED
  BY <1>2, <1>3

\* What adds members to a crew: a creation, a join under the cap it read, or a turn of a reform's
\* loop that has a place left.
LEMMA StepGrows ==
  ASSUME CInv, UNCHANGED scenario, NEW r \in Requests, Step(r), NEW c \in Crews,
         Len(joined'[c]) > Len(joined[c])
  PROVE  \/ Creates(r) /\ c = r /\ crews[r] = None
         \/ /\ UNCHANGED crews /\ crews[c] # None /\ Len(joined'[c]) = Len(joined[c]) + 1
            /\ \/ req[r].at = "addMember" /\ c = req[r].crew /\ Len(joined[c]) < req[r].row.max
               \/ req[r].at = "autoAdd" /\ c = req[r].new /\ req[r].slots > 0
<1>0. TInv /\ ForeignKeys /\ \A d \in Crews : Roster(joined[d])
  BY DEF CInv, TInv, TablesType
<1>1. joined \in [Crews -> Seq(Users)] /\ Len(<<>>) = 0 /\ \A d \in Crews : Len(joined[d]) \in Nat
  BY <1>0 DEF TInv, TablesType
<1>2. CASE Inserts(r)
  <2>1. PICK d \in Crews, u \in Users :
          /\ crews[d] # None /\ u \notin Members(d) /\ joined' = [joined EXCEPT ![d] = Append(@, u)]
          /\ UNCHANGED crews
          /\ \/ req[r].at = "addMember" /\ d = req[r].crew /\ Cardinality(Members(d)) < req[r].row.max
             \/ req[r].at = "autoAdd" /\ d = req[r].new /\ req[r].slots > 0
    BY <1>2 DEF Inserts
  <2>2. Len(Append(joined[d], u)) = Len(joined[d]) + 1 /\ Cardinality(Members(d)) = Len(joined[d])
    BY <1>0, <2>1, AppendRoster, RosterCount DEF Members
  <2>3. joined'[c] = IF c = d THEN Append(joined[d], u) ELSE joined[c]
    BY <1>1, <2>1
  <2>4. c = d
    BY <1>1, <2>3
  <2> QED
    BY <2>1, <2>2, <2>3, <2>4
<1>3. CASE Creates(r)
  <2>1. crews[r] = None
    BY <1>3, BeforeCreation DEF Creates
  <2>2. joined'[c] = IF c = r THEN <<req[r].user>> ELSE joined[c]
    BY <1>1, <1>3 DEF Creates
  <2> QED
    BY <1>1, <1>3, <2>1, <2>2
<1>4. CASE Removes(r)
  <2>1. joined'[c] = joined[c] \/ joined'[c] = RemoveFirst(joined[c], Subject(req[r]))
    BY <1>4 DEF Removes
  <2>2. Len(RemoveFirst(joined[c], Subject(req[r]))) <= Len(joined[c]) /\ Roster(RemoveFirst(joined[c], Subject(req[r])))
    BY <1>0, RemoveRoster
  <2>3. Len(RemoveFirst(joined[c], Subject(req[r]))) \in Nat
    BY <2>2 DEF Roster
  <2> QED
    BY <1>1, <2>1, <2>2, <2>3
<1>5. CASE Deletes(r)
  <2>1. crews'[c] = None \/ joined'[c] = joined[c]
    BY <1>5 DEF Deletes
  <2>2. ForeignKeys' /\ joined' \in [Crews -> Seq(Users)]
    BY StepEffect DEF Effect, TInv, TablesType
  <2>3. crews'[c] = None => joined'[c] = <<>>
    BY <2>2 DEF ForeignKeys
  <2> QED
    BY <1>1, <2>1, <2>3
<1>6. CASE Inherits(r)
  <2>1. joined'[c] \in {<<>>, RemoveFirst(joined[c], req[r].target)}
    BY <1>6 DEF Inherits, Inherited
  <2>2. Len(RemoveFirst(joined[c], req[r].target)) <= Len(joined[c]) /\ Roster(RemoveFirst(joined[c], req[r].target))
    BY <1>0, RemoveRoster
  <2>3. Len(RemoveFirst(joined[c], req[r].target)) \in Nat
    BY <2>2 DEF Roster
  <2> QED
    BY <1>1, <2>1, <2>2, <2>3
<1>7. CASE UNCHANGED tables \/ Transfers(r) \/ Updates(r) \/ Forgets(r)
  BY <1>1, <1>7 DEF tables, Transfers, Updates, Forgets
<1> QED
  BY <1>2, <1>3, <1>4, <1>5, <1>6, <1>7, StepTables

LEMMA StepKeepsCap ==
  ASSUME CapInv, UNCHANGED scenario, NEW r \in Requests, Step(r)
  PROVE  /\ CapInv'
         /\ \A c \in Crews : Len(joined'[c]) > Len(joined[c]) => Len(joined'[c]) <= crews'[c].max
<1>0. CInv /\ TInv /\ ForeignKeys /\ CapsAreStill
  BY DEF CapInv, CInv
<1>1. CInv'
  BY <1>0, StepEffect, StepKeepsInv
<1>2. RowMax' /\ CapsPositive' /\ SlotsFree' /\ Alone'
  BY <1>0, StepRowMax, StepCapsPositive, StepSlotsFree, StepAlone DEF CapInv
<1>3. CapInv'
  BY <1>0, <1>1, <1>2 DEF CapInv, CapsAreStill
<1>4. ASSUME NEW c \in Crews, Len(joined'[c]) > Len(joined[c])
      PROVE  Len(joined'[c]) <= crews'[c].max
  <2>1. Len(joined[c]) \in Nat /\ crews \in [Crews -> Rows \cup {None}] /\ crews' \in [Crews -> Rows \cup {None}]
    BY <1>0, <1>1 DEF CInv, TInv, TablesType
  <2>2. CASE Creates(r) /\ c = r /\ crews[r] = None
    <3>1. crews'[r] # None
      BY <1>0, <2>2, CreatesTables
    <3>2. crews'[r].max > 0
      BY <1>2, <2>2, <3>1 DEF CapsPositive
    <3>3. joined \in [Crews -> Seq(Users)]
      BY <1>0 DEF TInv, TablesType
    <3>4. joined'[r] = <<req[r].user>>
      BY <2>2, <3>3 DEF Creates
    <3>5. Len(joined'[r]) = 1
      BY <3>4
    <3>6. crews'[r].max \in Nat
      BY <2>1, <2>2, <3>1 DEF Rows
    <3> QED
      BY <2>2, <3>2, <3>5, <3>6
  <2>3. CASE /\ UNCHANGED crews /\ crews[c] # None /\ Len(joined'[c]) = Len(joined[c]) + 1
             /\ req[r].at = "addMember" /\ c = req[r].crew /\ Len(joined[c]) < req[r].row.max
    <3>1. req[r].at # None
      BY <2>3, CrewAssumption DEF Statements
    <3>2. req[r].op \in {"join", "adminAdd"}
      BY <1>0, <2>3, <3>1, ServedFacts, PathFacts
    <3>3. req[r].row.max = crews[c].max
      BY <2>3, <3>1, <3>2 DEF CapInv, RowMax, NeedsRow
    <3>4. crews[c].max \in Nat
      BY <2>1, <2>3 DEF Rows
    <3>5. Len(joined[c]) + 1 <= crews[c].max
      BY <2>1, <2>3, <3>3, <3>4
    <3> QED
      BY <2>3, <3>5
  <2>4. CASE /\ UNCHANGED crews /\ crews[c] # None /\ Len(joined'[c]) = Len(joined[c]) + 1
             /\ req[r].at = "autoAdd" /\ c = req[r].new /\ req[r].slots > 0
    <3>1. req[r].at # None
      BY <2>4, CrewAssumption DEF Statements
    <3>2. req[r].op = "reform" /\ req[r].slots \in Int
      BY <1>0, <2>4, <3>1, ServedFacts, PathFacts DEF ReqType
    <3>3. req[r].slots <= 0 \/ req[r].slots + Len(joined[c]) <= crews[c].max
      BY <2>4, <3>2 DEF CapInv, SlotsFree
    <3>4. crews[c].max \in Nat
      BY <2>1, <2>4 DEF Rows
    <3>5. Len(joined[c]) + 1 <= crews[c].max
      BY <2>1, <2>4, <3>2, <3>3, <3>4
    <3> QED
      BY <2>4, <3>5
  <2> QED
    BY <1>0, <1>4, <2>2, <2>3, <2>4, StepGrows
<1> QED
  BY <1>3, <1>4

LEMMA StartKeepsCap ==
  ASSUME CapInv, UNCHANGED scenario, NEW r \in Requests, start(r)
  PROVE  CapInv' /\ UNCHANGED joined
<1>0. CInv /\ TInv /\ CapsAreStill
  BY DEF CapInv, CInv
<1>1. /\ Others(r) /\ UNCHANGED tables /\ req'[r].new = None
      /\ req'[r].op \in Endpoints /\ req'[r].at = Handler[req'[r].op][1]
  BY <1>0, startMoves
<1>2. CInv' /\ Alone'
  BY <1>0, StartKeepsInv, StartAlone DEF CapInv
<1>3. UNCHANGED <<crews, joined>>
  BY <1>1 DEF tables
<1>4. ~NeedsRow(req'[r].op, req'[r].at)
  BY <1>1, FirstStatement
<1>5. \A t \in Requests : req'[t].at # None /\ NeedsRow(req'[t].op, req'[t].at) => req'[t] = req[t]
  BY <1>1, <1>4 DEF Others
<1>6. RowMax' /\ CapsPositive'
  <2>1. RowMax /\ CapsPositive
    BY DEF CapInv
  <2> QED
    BY <1>3, <1>5, <2>1 DEF RowMax, CapsPositive, NeedsRow
<1>7. SlotsFree'
  <2>1. None \notin Crews
    BY CrewAssumption
  <2>2. \A t \in Requests : req'[t].new \in Crews => req'[t] = req[t]
    BY <1>1, <2>1 DEF Others
  <2> QED
    BY <1>3, <2>2 DEF CapInv, SlotsFree
<1>8. CapsAreStill'
  BY <1>0 DEF CapsAreStill
<1> QED
  BY <1>2, <1>3, <1>6, <1>7, <1>8 DEF CapInv

LEMMA RestKeepsCap ==
  ASSUME CapInv, UNCHANGED scenario, CInv', UNCHANGED <<crews, joined, req>>
  PROVE  CapInv' /\ UNCHANGED joined
<1>1. CapsAreStill /\ Alone /\ RowMax /\ CapsPositive /\ SlotsFree
  BY DEF CapInv
<1>2. CapsAreStill' /\ Alone' /\ RowMax' /\ CapsPositive' /\ SlotsFree'
  BY <1>1 DEF CapsAreStill, Alone, RowMax, CapsPositive, SlotsFree, NeedsRow
<1> QED
  BY <1>2 DEF CapInv

LEMMA NextKeepsCap ==
  ASSUME CapInv, [Next]_vars
  PROVE  /\ CapInv'
         /\ \A c \in Crews : Len(joined'[c]) > Len(joined[c]) => Len(joined'[c]) <= crews'[c].max
<1>0. CInv /\ TInv /\ CInv'
  BY NextKeepsInv DEF CapInv, CInv
<1>1. \A c \in Crews : Len(joined[c]) \in Nat
  BY <1>0 DEF TInv, TablesType
<1>2. UNCHANGED joined => \A c \in Crews : ~(Len(joined'[c]) > Len(joined[c]))
  BY <1>1
<1>3. ASSUME NEW r \in Requests, start(r), UNCHANGED scenario
      PROVE  CapInv' /\ UNCHANGED joined
  BY <1>3, StartKeepsCap
<1>4. ASSUME NEW r \in Requests, Step(r), UNCHANGED scenario
      PROVE  /\ CapInv'
             /\ \A c \in Crews : Len(joined'[c]) > Len(joined[c]) => Len(joined'[c]) <= crews'[c].max
  BY <1>4, StepKeepsCap
<1>5. ASSUME ProfileStep, UNCHANGED scenario
      PROVE  CapInv' /\ UNCHANGED joined
  BY <1>0, <1>5, ProfileStepMoves, RestKeepsCap
<1>6. CASE UNCHANGED vars
  <2>1. UNCHANGED scenario /\ UNCHANGED <<crews, joined, req>>
    BY <1>6 DEF vars
  <2> QED
    BY <1>0, <1>2, <2>1, RestKeepsCap
<1> QED
  BY <1>2, <1>3, <1>4, <1>5, <1>6 DEF Next, ProfileStep

LEMMA InitCap == Init /\ CapsAreStill => CapInv
<1> SUFFICES ASSUME Init, CapsAreStill
             PROVE  CapInv
  OBVIOUS
<1>1. CInv /\ \A r \in Requests : req[r] = Idle
  BY InitInv DEF Init
<1>2. \A r \in Requests : req[r].at = None /\ req[r].new \notin Crews
  BY <1>1, IdleType, CrewAssumption
<1>3. Alone /\ RowMax /\ SlotsFree
  BY <1>2 DEF Alone, RowMax, SlotsFree
<1>4. CapsPositive
  <2>1. scenario.max \in Nat \ {0} /\ None = None
    BY CrewAssumption DEF Init, Starts
  <2>2. \A c \in Crews : crews[c] # None => crews[c] = Row(Home, scenario.roster[1], scenario.max, None)
    BY DEF Init
  <2> QED
    BY <1>2, <2>1, <2>2 DEF CapsPositive, Row
<1> QED
  BY <1>1, <1>3, <1>4 DEF CapInv

\* No crew is ever added to beyond its cap, whatever joins, reforms and removals do at once, if
\* nothing runs beside a PUT or a reform.
THEOREM CapKept == Spec /\ CapsAreStill => CapHolds
<1>1. CapInv /\ [Next]_vars =>
        [\A c \in Crews : Len(joined'[c]) > Len(joined[c]) => Len(joined'[c]) <= crews'[c].max]_vars
  BY NextKeepsCap
<1>2. CapInv /\ [Next]_vars => CapInv'
  BY NextKeepsCap
<1> QED
  BY <1>1, <1>2, InitCap, PTL DEF Spec, CapHolds

-----------------------------------------------------------------------------
(* Who owns a crew.                                                        *)

\* The situations in which a crew has one owner.  A member who is found to be no owner, and is then
\* removed, may have been made the owner in between: a transfer or a deletion of the owner's
\* account must not run beside it.  And the deletion promotes an heir of the user who created the
\* crew, which is its owner only where ownership is never transferred.
OwnersAreStill ==
  \/ /\ "deleteUser" \notin scenario.ops
     /\ "transfer" \in scenario.ops => "transfer" \in scenario.exclusive
  \/ /\ "transfer" \notin scenario.ops
     /\ "deleteUser" \in scenario.ops => "deleteUser" \in scenario.exclusive

OwnedByCreator ==
  "transfer" \notin scenario.ops =>
    \A c \in Crews : crews[c] # None => owners[c] \subseteq {crews[c].by}

\* What a request has found of the owners is still so when it is used.
FoundOwners ==
  \A r \in Requests :
    /\ req[r].op = "leave" /\ req[r].at = "removeMember" => req[r].user \notin owners[req[r].crew]
    /\ req[r].op = "kick" /\ req[r].at # None => req[r].target # req[r].user
    /\ req[r].op = "kick" /\ req[r].at \in {"isMember", "removeMember"} =>
         req[r].target \notin owners[req[r].crew]
    /\ req[r].op = "transfer" /\ req[r].at \in {"isMember", "transferOwnership"} =>
         owners[req[r].crew] = {req[r].user}
    /\ req[r].op = "transfer" /\ req[r].at = "transferOwnership" =>
         req[r].target \in Members(req[r].crew)

OwnInv == CInv /\ OwnersAreStill /\ Alone /\ OwnedByCreator /\ FoundOwners /\ OneOwner

\* Only a creation, a transfer and the deletion of a user make owners.
LEMMA StepOwners ==
  ASSUME CInv, UNCHANGED scenario, NEW r \in Requests, Step(r), ~Transfers(r), ~Inherits(r),
         NEW c \in Crews, Creates(r) => c # r
  PROVE  /\ owners'[c] \subseteq owners[c]
         /\ crews'[c] # None =>
              /\ crews[c] # None /\ crews'[c].by = crews[c].by
              /\ owners'[c] = owners[c] \/ (Removes(r) /\ c = req[r].crew)
<1>0. TInv /\ Effect(r)
  BY StepEffect DEF CInv
<1>1. /\ crews \in [Crews -> Rows \cup {None}] /\ owners \in [Crews -> SUBSET Users]
      /\ owners'[c] \subseteq ToSet(joined'[c])
      /\ crews'[c] = None => joined'[c] = <<>>
      /\ ToSet(<<>>) = {}
  BY <1>0 DEF Effect, TInv, TablesType, ForeignKeys, Members, ToSet
<1>2. CASE UNCHANGED tables \/ Inserts(r) \/ Forgets(r)
  BY <1>2 DEF tables, Inserts, Forgets
<1>3. CASE Creates(r)
  BY <1>1, <1>3 DEF Creates
<1>4. CASE Removes(r)
  BY <1>4 DEF Removes
<1>5. CASE Updates(r)
  BY <1>5 DEF Updates
<1>6. CASE Deletes(r)
  BY <1>1, <1>6 DEF Deletes
<1> QED
  BY <1>2, <1>3, <1>4, <1>5, <1>6, StepTables

\* A transfer, or the deletion of a user, meets no other request.
LEMMA PromotesAlone ==
  ASSUME OwnInv, NEW r \in Requests, req[r].at # None, req[r].op \in {"transfer", "deleteUser"},
         NEW t \in Requests, t # r
  PROVE  req[t].at = None
<1>1. req[r].op \in scenario.ops
  BY ServedFacts DEF OwnInv, CInv
<1> QED
  BY <1>1 DEF OwnInv, OwnersAreStill, Alone

LEMMA PromoterOp ==
  ASSUME CInv, NEW r \in Requests, Transfers(r) \/ Inherits(r)
  PROVE  /\ req[r].at # None /\ req[r].op \in {"transfer", "deleteUser"}
         /\ Transfers(r) => req[r].op = "transfer" /\ "transfer" \in scenario.ops
         /\ Inherits(r) => req[r].op = "deleteUser" /\ "deleteUser" \in scenario.ops
<1>1. req[r].at \in {"transferOwnership", "hardDelete"} /\ req[r].at # None
  BY CrewAssumption DEF Transfers, Inherits, Statements
<1>2. OnPath(req[r].op, req[r].at) /\ req[r].op \in scenario.ops
  BY <1>1, ServedFacts DEF CInv
<1> QED
  BY <1>1, <1>2, PathFacts DEF Transfers, Inherits

LEMMA StepOwnedByCreator ==
  ASSUME OwnInv, UNCHANGED scenario, NEW r \in Requests, Step(r)
  PROVE  OwnedByCreator'
<1>0. CInv /\ TInv /\ ForeignKeys
  BY DEF OwnInv, CInv
<1> SUFFICES ASSUME "transfer" \notin scenario.ops, NEW c \in Crews, crews'[c] # None
             PROVE  owners'[c] \subseteq {crews'[c].by}
  BY DEF OwnedByCreator
<1>1. ~Transfers(r)
  BY <1>0, PromoterOp
<1>2. CASE Creates(r) /\ c = r
  <2>1. crews[r] = None /\ req[r].at = "persistCrew"
    BY <1>0, <1>2, BeforeCreation DEF Creates
  <2>2. crews'[c] = NewRow(req[r]) /\ NewRow(req[r]).by = req[r].user
    BY <1>0, <1>2, <2>1, CreatesTables, NewRowType
  <2>3. owners'[c] = {req[r].user}
    BY <1>0, <1>2 DEF Creates, TInv, TablesType
  <2> QED
    BY <2>2, <2>3
<1>3. CASE Inherits(r)
  <2>1. PICK gone \in SUBSET Crews : Inherited(req[r].target, gone)
    BY <1>3 DEF Inherits
  <2>2. c \notin gone /\ crews[c] # None
    BY <2>1 DEF Inherited
  <2>3. owners[c] \subseteq {crews[c].by}
    BY <2>2 DEF OwnInv, OwnedByCreator
  <2>4. \/ crews'[c].by = crews[c].by /\ owners'[c] = owners[c] \ {req[r].target}
        \/ /\ crews[c].by = req[r].target
           /\ owners'[c] = (owners[c] \ {req[r].target}) \cup {crews'[c].by}
    BY <2>1, <2>2 DEF Inherited
  <2> QED
    BY <2>3, <2>4
<1>4. CASE ~Inherits(r) /\ (Creates(r) => c # r)
  <2>1. crews[c] # None /\ crews'[c].by = crews[c].by /\ owners'[c] \subseteq owners[c]
    BY <1>0, <1>1, <1>4, StepOwners
  <2> QED
    BY <2>1 DEF OwnInv, OwnedByCreator
<1> QED
  BY <1>2, <1>3, <1>4, <1>0, PromoterOp, BeforeCreation

\* Whose membership a removal is about.
LEMMA RemovedSubject ==
  ASSUME TInv, NEW r \in Requests, req[r].at # None
  PROVE  /\ req[r].op = "leave" => Subject(req[r]) = req[r].user
         /\ req[r].op \in {"kick", "transfer", "adminRemove"} =>
              Subject(req[r]) = req[r].target /\ req[r].target \in Users
<1>1. Asked(req[r])
  BY ServedFacts
<1>2. None \notin Users
  BY CrewAssumption
<1> QED
  BY <1>1, <1>2 DEF Asked, Subject, Targeted

LEMMA AdminRemoveKept ==
  ASSUME CInv, NEW r \in Requests, Effect(r), NEW t \in Requests, req[t].op = "adminRemove"
  PROVE  req'[t].op = "adminRemove" /\ req'[t].crew = req[t].crew
<1>1. CASE t # r
  BY <1>1 DEF Effect, Others
<1>2. CASE t = r
  <2>1. Kept(req[r], req'[r])
    BY DEF Effect
  <2>2. req'[r].op = "adminRemove"
    BY <1>2, <2>1 DEF Kept, Remembered
  <2> QED
    BY <1>2, <2>1, <2>2 DEF Kept
<1> QED
  BY <1>1, <1>2

LEMMA StepOneOwner ==
  ASSUME OwnInv, UNCHANGED scenario, NEW r \in Requests, Step(r)
  PROVE  OneOwner'
<1>0. CInv /\ TInv /\ ForeignKeys
  BY DEF OwnInv, CInv
<1>1. Effect(r) /\ TInv' /\ req[r].at # None
  BY <1>0, StepEffect DEF Effect
<1> DEFINE Removed(c) == \E t \in Requests : req'[t].op = "adminRemove" /\ req'[t].crew = c
<1> SUFFICES ASSUME NEW c \in Crews, crews'[c] # None
             PROVE  (\E u \in Users : owners'[c] = {u}) \/ (owners'[c] = {} /\ Removed(c))
  BY DEF OneOwner
<1>2. (\E t \in Requests : req[t].op = "adminRemove" /\ req[t].crew = c) => Removed(c)
  BY <1>0, <1>1, AdminRemoveKept
<1>3. crews[c] # None =>
        (\E u \in Users : owners[c] = {u}) \/ (owners[c] = {} /\ Removed(c))
  BY <1>2 DEF OwnInv, OneOwner
<1>4. crews[c] # None /\ owners'[c] = owners[c] =>
        (\E u \in Users : owners'[c] = {u}) \/ (owners'[c] = {} /\ Removed(c))
  BY <1>3
<1>5. CASE Creates(r) /\ c = r
  <2>1. req[r].at = "persistCrew" /\ owners'[c] = {req[r].user}
    BY <1>0, <1>5 DEF Creates, TInv, TablesType
  <2>2. req[r].user \in Users
    BY <1>0, <2>1, NewRowType
  <2> QED
    BY <2>1, <2>2
<1>6. CASE Transfers(r)
  <2>1. crews[c] # None
    BY <1>6 DEF Transfers
  <2>2. CASE c # req[r].crew
    <3>1. owners'[c] = owners[c]
      BY <1>6, <2>2 DEF Transfers
    <3> QED
      BY <1>4, <2>1, <3>1
  <2>3. CASE c = req[r].crew
    <3>1. req[r].op = "transfer" /\ req[r].at = "transferOwnership"
      BY <1>0, <1>6, PromoterOp DEF Transfers
    <3>2. owners[c] = {req[r].user} /\ req[r].target \in Members(c) /\ req[r].target \in Users
      BY <1>0, <1>1, <2>3, <3>1, RemovedSubject DEF OwnInv, FoundOwners
    <3>3. owners'[c] = (owners[c] \ {req[r].user}) \cup ({req[r].target} \cap Members(c))
      BY <1>6, <2>3 DEF Transfers
    <3>4. owners'[c] = {req[r].target}
      BY <3>2, <3>3
    <3> QED
      BY <3>2, <3>4
  <2> QED
    BY <2>2, <2>3
<1>7. CASE Inherits(r)
  <2>1. PICK gone \in SUBSET Crews : Inherited(req[r].target, gone)
    BY <1>7 DEF Inherits
  <2>2. c \notin gone /\ crews[c] # None
    BY <1>0, <2>1 DEF Inherited
  <2>3. "transfer" \notin scenario.ops
    BY <1>0, <1>7, PromoterOp DEF OwnInv, OwnersAreStill
  <2>4. owners[c] \subseteq {crews[c].by}
    BY <2>2, <2>3 DEF OwnInv, OwnedByCreator
  <2>5. CASE crews[c].by # req[r].target /\ owners'[c] = owners[c] \ {req[r].target}
    <3>1. owners'[c] = owners[c]
      BY <2>4, <2>5
    <3> QED
      BY <1>4, <2>2, <3>1
  <2>6. CASE /\ crews[c].by = req[r].target
             /\ owners'[c] = (owners[c] \ {req[r].target}) \cup {crews'[c].by}
    <3>1. owners'[c] = {crews'[c].by}
      BY <2>4, <2>6
    <3>2. crews'[c].by \in Users
      <4>1. crews'[c] \in Rows
        BY <1>1 DEF TInv, TablesType
      <4> QED
        BY <4>1 DEF Rows
    <3> QED
      BY <3>1, <3>2
  <2> QED
    BY <2>1, <2>2, <2>5, <2>6 DEF Inherited
<1>8. CASE Removes(r) /\ c = req[r].crew
  <2>1. crews[c] # None /\ req[r].at = "removeMember" /\ owners'[c] = owners[c] \ {Subject(req[r])}
    BY <1>8 DEF Removes
  <2>2. req[r].op \in {"leave", "kick", "adminRemove"}
    BY <1>0, <1>1, <2>1, ServedFacts, PathFacts
  <2>3. CASE req[r].op \in {"leave", "kick"}
    <3>1. Subject(req[r]) \notin owners[c]
      BY <1>0, <1>1, <1>8, <2>1, <2>3, RemovedSubject DEF OwnInv, FoundOwners
    <3>2. owners'[c] = owners[c]
      BY <2>1, <3>1
    <3> QED
      BY <1>4, <2>1, <3>2
  <2>4. CASE req[r].op = "adminRemove"
    <3>1. Removed(c)
      BY <1>2, <1>8, <2>4
    <3> HIDE DEF Removed
    <3> QED
      BY <1>3, <2>1, <3>1
  <2> QED
    BY <2>2, <2>3, <2>4
<1>9. CASE ~Transfers(r) /\ ~Inherits(r) /\ ~(Creates(r) /\ c = r) /\ ~(Removes(r) /\ c = req[r].crew)
  <2>1. crews[c] # None /\ owners'[c] = owners[c]
    BY <1>0, <1>9, StepOwners
  <2> QED
    BY <1>4, <2>1
<1> QED
  BY <1>5, <1>6, <1>7, <1>8, <1>9

\* An endpoint that ends with a change of owners comes to it from its checks.
LEMMA CameFromCheck ==
  ASSUME CInv, UNCHANGED scenario, NEW r \in Requests, Step(r), req'[r].at # None,
         req[r].op \in {"leave", "kick", "transfer"}
  PROVE  /\ req'[r].at = After(req[r].op, req[r].at) /\ req[r].at \in Checks
         /\ Holds(req[r].at, req[r]) /\ UNCHANGED tables
         /\ req'[r].at = "removeMember" =>
              req[r].at = IF req[r].op = "leave" THEN "isPlainMember" ELSE "isMember"
         /\ req'[r].at = "transferOwnership" => req[r].at = "isMember"
         /\ req'[r].at = "isMember" => req[r].at = "isOwner"
<1>1. GoesOn(req[r], req'[r]) /\ OnPath(req[r].op, req[r].at)
  BY StepGoesOn, SameRequest
<1>2. req[r].at \in Checks => Holds(req[r].at, req[r])
  BY <1>1 DEF GoesOn
<1>3. req'[r].at = After(req[r].op, req[r].at)
  BY <1>1 DEF GoesOn
<1>4. /\ req[r].op = "leave" => req[r].at \in {"getById", "isPlainMember", "removeMember"}
      /\ req[r].op = "kick" => req[r].at \in {"getById", "isOwner", "isMember", "removeMember"}
      /\ req[r].op = "transfer" =>
           req[r].at \in {"getById", "isOwner", "isMember", "transferOwnership"}
  BY <1>1 DEF OnPath
<1>5. req[r].at \in {"getById", "isPlainMember", "isOwner", "isMember"}
  BY <1>3, <1>4, AfterLeave, AfterKick, AfterTransfer
<1>6. req[r].at \in Checks
  BY <1>5 DEF Checks
<1>7. UNCHANGED tables
  BY <1>6, ChecksRead
<1>8. /\ req'[r].at = "removeMember" =>
           req[r].at = IF req[r].op = "leave" THEN "isPlainMember" ELSE "isMember"
      /\ req'[r].at = "transferOwnership" => req[r].at = "isMember"
      /\ req'[r].at = "isMember" => req[r].at = "isOwner"
  BY <1>3, <1>4, <1>5, AfterLeave, AfterKick, AfterTransfer
<1> QED
  BY <1>2, <1>3, <1>6, <1>7, <1>8

LEMMA StepFoundOwners ==
  ASSUME OwnInv, UNCHANGED scenario, NEW r \in Requests, Step(r)
  PROVE  FoundOwners'
<1>0. CInv /\ TInv /\ ForeignKeys
  BY DEF OwnInv, CInv
<1>1. Effect(r) /\ Others(r) /\ req[r].at # None
  BY <1>0, StepEffect DEF Effect
<1> DEFINE Found(q, own, in) ==
      /\ q.op = "leave" /\ q.at = "removeMember" => q.user \notin own[q.crew]
      /\ q.op = "kick" /\ q.at # None => q.target # q.user
      /\ q.op = "kick" /\ q.at \in {"isMember", "removeMember"} => q.target \notin own[q.crew]
      /\ q.op = "transfer" /\ q.at \in {"isMember", "transferOwnership"} => own[q.crew] = {q.user}
      /\ q.op = "transfer" /\ q.at = "transferOwnership" => q.target \in ToSet(in[q.crew])
<1>2. \A t \in Requests : Found(req[t], owners, joined)
  BY DEF OwnInv, FoundOwners, Members
<1>3. None \notin {"removeMember", "isMember", "transferOwnership"}
  BY CrewAssumption DEF Statements, Checks
<1> SUFFICES ASSUME NEW t \in Requests, req'[t].at # None,
                    req'[t].op \in {"leave", "kick", "transfer"}
             PROVE  Found(req'[t], owners', joined')
  <2>1. ASSUME NEW t \in Requests, ~(req'[t].at # None /\ req'[t].op \in {"leave", "kick", "transfer"})
        PROVE  Found(req'[t], owners', joined')
    BY <1>3, <2>1
  <2>2. \A t \in Requests : Found(req'[t], owners', joined')
    BY <2>1
  <2> QED
    BY <2>2 DEF FoundOwners, Members
<1>4. CASE t # r
  <2>1. req'[t] = req[t]
    BY <1>1, <1>4 DEF Others
  <2>2. ~Transfers(r) /\ ~Inherits(r)
    BY <1>0, <1>4, <2>1, PromoterOp, PromotesAlone
  <2>3. req[t].op # "transfer"
    BY <1>1, <1>4, <2>1, PromotesAlone
  <2>4. req[t].crew \in Crews
    BY <1>0 DEF TInv, RequestsType, ReqType
  <2>5. Creates(r) => req[t].crew # r
    BY <1>0, BeforeCreation DEF Creates
  <2>6. owners'[req[t].crew] \subseteq owners[req[t].crew]
    BY <1>0, <2>2, <2>4, <2>5, StepOwners
  <2> QED
    BY <1>2, <2>1, <2>3, <2>6
<1>5. CASE t = r
  <2>1. /\ req'[r].op = req[r].op /\ req'[r].crew = req[r].crew /\ req'[r].user = req[r].user
        /\ req'[r].target = req[r].target
    BY <1>0, <1>5, SameRequest
  <2>2. /\ UNCHANGED tables /\ Holds(req[r].at, req[r])
        /\ req'[r].at = "removeMember" =>
             req[r].at = IF req[r].op = "leave" THEN "isPlainMember" ELSE "isMember"
        /\ req'[r].at = "transferOwnership" => req[r].at = "isMember"
        /\ req'[r].at = "isMember" => req[r].at = "isOwner"
    BY <1>0, <1>5, <2>1, CameFromCheck
  <2>3. UNCHANGED <<owners, joined>> /\ req[r].crew \in Crews
    BY <1>0, <2>2 DEF tables, TInv, RequestsType, ReqType
  <2>4. req[r].at = "isPlainMember" => req[r].user \notin owners[req[r].crew]
    BY <2>2 DEF Holds
  <2>5. req[r].at = "isOwner" => owners[req[r].crew] = {req[r].user}
    <3> SUFFICES ASSUME req[r].at = "isOwner"
                 PROVE  owners[req[r].crew] = {req[r].user}
      OBVIOUS
    <3>1. req[r].user \in Members(req[r].crew) /\ req[r].user \in owners[req[r].crew]
      BY <2>2 DEF Holds
    <3>2. crews[req[r].crew] # None
      <4>1. ToSet(<<>>) = {}
        BY DEF ToSet
      <4> QED
        BY <1>0, <2>3, <3>1, <4>1 DEF ForeignKeys, Members
    <3>3. \E u \in Users : owners[req[r].crew] = {u}
      BY <2>3, <3>1, <3>2 DEF OwnInv, OneOwner
    <3> QED
      BY <3>1, <3>3
  <2>6. req[r].at = "isMember" /\ req[r].op = "transfer" => req[r].target \in ToSet(joined[req[r].crew])
    BY <1>0, <1>1, <2>2, RemovedSubject DEF Holds, Members
  <2>7. Found(req[r], owners, joined)
    BY <1>2
  <2>8. CASE req[r].op = "leave"
    BY <2>1, <2>2, <2>3, <2>4, <2>8, <1>5
  <2>9. CASE req[r].op = "kick"
    <3>1. req[r].target # req[r].user
      BY <1>1, <2>7, <2>9
    <3>2. req'[r].at \in {"isMember", "removeMember"} => req[r].target \notin owners[req[r].crew]
      BY <2>2, <2>5, <2>7, <2>9, <3>1
    <3> QED
      BY <1>5, <2>1, <2>3, <2>9, <3>1, <3>2
  <2>10. CASE req[r].op = "transfer"
    <3>1. req'[r].at \in {"isMember", "transferOwnership"} => owners[req[r].crew] = {req[r].user}
      BY <2>2, <2>5, <2>7, <2>10
    <3>2. req'[r].at = "transferOwnership" => req[r].target \in ToSet(joined[req[r].crew])
      BY <2>2, <2>6, <2>10
    <3> QED
      BY <1>5, <2>1, <2>3, <2>10, <3>1, <3>2
  <2> QED
    BY <1>5, <2>1, <2>8, <2>9, <2>10
<1> QED
  BY <1>4, <1>5

LEMMA StepKeepsOwner ==
  ASSUME OwnInv, UNCHANGED scenario, NEW r \in Requests, Step(r)
  PROVE  OwnInv'
<1>0. CInv /\ OwnersAreStill /\ Alone
  BY DEF OwnInv
<1>1. CInv'
  BY <1>0, StepEffect, StepKeepsInv
<1>2. OwnersAreStill'
  BY <1>0 DEF OwnersAreStill
<1> QED
  BY <1>0, <1>1, <1>2, StepAlone, StepOwnedByCreator, StepFoundOwners, StepOneOwner DEF OwnInv

LEMMA StartKeepsOwner ==
  ASSUME OwnInv, UNCHANGED scenario, NEW r \in Requests, start(r)
  PROVE  OwnInv'
<1>0. CInv /\ TInv /\ OwnersAreStill /\ Alone /\ OwnedByCreator /\ FoundOwners /\ OneOwner
  BY DEF OwnInv, CInv
<1>1. /\ Others(r) /\ UNCHANGED tables /\ req[r] = Idle
      /\ req'[r].op \in Endpoints /\ req'[r].at = Handler[req'[r].op][1]
      /\ req'[r].op \in {"kick", "transfer"} => req'[r].target # req'[r].user
  BY <1>0, startMoves
<1>2. CInv' /\ Alone' /\ OwnersAreStill'
  BY <1>0, StartKeepsInv, StartAlone DEF OwnersAreStill
<1>3. UNCHANGED <<crews, joined, owners>>
  BY <1>1 DEF tables
<1>4. OwnedByCreator'
  BY <1>0, <1>3 DEF OwnedByCreator
<1>5. OneOwner'
  <2>1. \A t \in Requests : req[t].op = "adminRemove" => req'[t] = req[t]
    BY <1>1, IdleType, CrewAssumption DEF Others, Endpoints
  <2> QED
    BY <1>0, <1>3, <2>1 DEF OneOwner
<1>6. FoundOwners'
  <2>1. req'[r].at \in {"getById", "hasProfile", "userExists", "isMember"}
    BY <1>1, FirstStatement
  <2>2. req'[r].op \in {"leave", "kick", "transfer"} => req'[r].at = "getById"
    BY <1>1 DEF Handler, leave, kick, transfer
  <2>3. \A t \in Requests \ {r} : req'[t] = req[t]
    BY <1>1 DEF Others
  <2> QED
    BY <1>0, <1>1, <1>3, <2>2, <2>3 DEF FoundOwners, Members
<1> QED
  BY <1>2, <1>4, <1>5, <1>6 DEF OwnInv

LEMMA NextKeepsOwner == OwnInv /\ [Next]_vars => OwnInv'
<1> SUFFICES ASSUME OwnInv, [Next]_vars
             PROVE  OwnInv'
  OBVIOUS
<1>0. CInv /\ TInv /\ CInv'
  BY NextKeepsInv DEF OwnInv, CInv
<1>1. ASSUME UNCHANGED <<scenario, crews, joined, owners, req>>
      PROVE  OwnInv'
  <2>1. OwnersAreStill /\ Alone /\ OwnedByCreator /\ FoundOwners /\ OneOwner
    BY DEF OwnInv
  <2>2. OwnersAreStill' /\ Alone' /\ OwnedByCreator' /\ FoundOwners' /\ OneOwner'
    BY <1>1, <2>1 DEF OwnersAreStill, Alone, OwnedByCreator, FoundOwners, OneOwner, Members
  <2> QED
    BY <1>0, <2>2 DEF OwnInv
<1>2. ASSUME ProfileStep, UNCHANGED scenario
      PROVE  OwnInv'
  BY <1>0, <1>1, <1>2, ProfileStepMoves
<1>3. CASE UNCHANGED vars
  BY <1>1, <1>3 DEF vars
<1> QED
  BY <1>2, <1>3, StartKeepsOwner, StepKeepsOwner DEF Next, ProfileStep

LEMMA InitOwner == Init /\ OwnersAreStill => OwnInv
<1> SUFFICES ASSUME Init, OwnersAreStill
             PROVE  OwnInv
  OBVIOUS
<1>1. CInv /\ \A r \in Requests : req[r] = Idle
  BY InitInv DEF Init
<1>2. \A r \in Requests : req[r].at = None /\ req[r].op = None
  BY <1>1, IdleType
<1>3. None \notin {"leave", "kick", "transfer"}
  BY CrewAssumption DEF Endpoints
<1>4. Alone /\ FoundOwners
  BY <1>2, <1>3 DEF Alone, FoundOwners
<1>5. \A c \in Crews : crews[c] # None =>
        crews[c].by = scenario.roster[1] /\ owners[c] = {scenario.roster[1]}
  BY DEF Init, Row
<1>6. scenario.roster[1] \in Users
  BY CrewAssumption DEF Init, Starts
<1> QED
  BY <1>1, <1>4, <1>5, <1>6 DEF OwnInv, OwnedByCreator, OneOwner

\* A crew that exists has one owner, whatever leaves, kicks and joins run at once, unless an admin
\* has removed a member: if a transfer of ownership runs beside nothing and nobody's account is
\* deleted, or an account is deleted beside nothing and ownership is never transferred.
THEOREM OneOwnerKept == Spec /\ OwnersAreStill => []OneOwner
<1>1. OwnInv => OneOwner
  BY DEF OwnInv
<1> QED
  BY <1>1, InitOwner, NextKeepsOwner, PTL DEF Spec

-----------------------------------------------------------------------------
(* What a reform finds.                                                    *)

\* The situations in which a reform finds what was made before: a crew is deleted beside nothing.
\* A user's deletion, which deletes the crews left empty, may run at any time.
DeletesAlone ==
  \A op \in {"remove", "adminDelete"} : op \in scenario.ops => op \in scenario.exclusive

\* The crew c, if there is one, that a reform asks for: whoever is in it.
Sought(c, q) ==
  /\ crews[c] # None /\ crews[c].festival = q.festival
  /\ crews[c].by = q.user /\ crews[c].from = q.crew

\* The crew a reform has found or made stays while its requester does.
NewStands ==
  \A r \in Requests :
    req[r].op = "reform" /\ NeedsNew(req[r].at) /\ req[r].user \in accounts =>
      crews[req[r].new] # None

\* Whoever lost on the index lost to a crew that is there.
LostToOne ==
  \A r \in Requests :
    /\ req[r].op = "reform" /\ req[r].at = "reread" /\ req[r].user \in accounts
    /\ crews[req[r].crew] # None
    => \E c \in Crews : Sought(c, req[r])

FindInv == CInv /\ DeletesAlone /\ Alone /\ NewStands /\ LostToOne

\* No crew is deleted while a reform is served.
LEMMA NothingDeleted ==
  ASSUME CInv, DeletesAlone, Alone, NEW r \in Requests, req[r].at # None, req[r].op = "reform",
         NEW t \in Requests
  PROVE  ~Deletes(t)
<1> SUFFICES ASSUME req[t].at = "deleteCrew"
             PROVE  FALSE
  BY DEF Deletes
<1>1. req[t].at # None
  BY CrewAssumption DEF Statements
<1>2. req[t].op \in {"remove", "adminDelete"} /\ req[t].op \in scenario.ops
  BY <1>1, ServedFacts, PathFacts DEF CInv
<1>3. req[t].op \in scenario.exclusive /\ t # r
  BY <1>2 DEF DeletesAlone
<1> QED
  BY <1>1, <1>3 DEF Alone

\* Unless a crew is deleted, a crew stays as long as its creator does, and so does what it was
\* reformed from, unless that is gone.
LEMMA CrewStays ==
  ASSUME CInv, UNCHANGED scenario, NEW t \in Requests, Step(t), ~Deletes(t), NEW c \in Crews,
         crews[c] # None, crews[c].by \in accounts'
  PROVE  /\ crews'[c] # None /\ crews'[c].by = crews[c].by
         /\ crews'[c].festival = crews[c].festival
         /\ \/ crews'[c].from = crews[c].from
            \/ crews[c].from \in Crews /\ crews'[crews[c].from] = None
<1>1. /\ Effect(t) /\ crews \in [Crews -> Rows \cup {None}]
  BY StepEffect DEF CInv, TInv, TablesType
<1>2. CASE Creates(t)
  <2>1. c # t
    BY <1>2, BeforeCreation DEF Creates
  <2>2. crews'[c] = crews[c]
    BY <1>1, <1>2, <2>1 DEF Creates
  <2> QED
    BY <2>2
<1>3. CASE ~Creates(t)
  <2>1. RowsFate
    BY <1>1, <1>3 DEF Effect
  <2>2. crews'[c] # None
    <3>1. CASE UNCHANGED tables \/ Inserts(t) \/ Removes(t) \/ Transfers(t) \/ Forgets(t)
      BY <3>1 DEF tables, Inserts, Removes, Transfers, Forgets
    <3>2. CASE Updates(t)
      BY <3>2 DEF Updates
    <3>3. CASE Inherits(t)
      <4>1. PICK gone \in SUBSET Crews : Inherited(req[t].target, gone)
        BY <3>3 DEF Inherits
      <4>2. c \notin gone
        BY <4>1 DEF Inherited
      <4> QED
        BY <4>1, <4>2 DEF Inherited
    <3> QED
      BY <1>3, <3>1, <3>2, <3>3, StepTables
  <2> QED
    BY <2>1, <2>2 DEF RowsFate
<1> QED
  BY <1>2, <1>3

\* What becomes of a reform that takes a step.
ReformOutcome(r) ==
  LET q == req[r]
      n == req'[r]
  IN  \/ n.result # "error" /\ ~NeedsNew(n.at) /\ n.at # "reread"
      \/ /\ n.result # "error" /\ NeedsNew(q.at) /\ n.new = q.new /\ n.at # "reread"
         /\ UNCHANGED <<crews, accounts>>
      \/ n.result # "error" /\ n.at = "planRoster" /\ n.new \in Reformed(q) /\ UNCHANGED tables
      \/ n.result # "error" /\ n.at = "readNew" /\ Creates(r)
      \/ /\ n.result # "error" /\ n.at = "reread" /\ q.at = "persistCrew" /\ CanCreate(q)
         /\ ~ReformKeysUnique(Created(r)) /\ UNCHANGED <<crews, accounts>>
      \/ /\ n.at = None /\ n.result = "error"
         /\ \/ q.at = "persistCrew" /\ ~CanCreate(q)
            \/ q.at = "reread" /\ Reformed(q) = {}
            \/ NeedsNew(q.at) /\ crews[q.new] = None

LEMMA ReformTurns ==
  ASSUME CInv, UNCHANGED scenario, NEW r \in Requests, Step(r), req[r].op = "reform"
  PROVE  ReformOutcome(r)
<1>0. /\ TInv /\ None \notin Statements /\ None \notin Results /\ req \in [Requests -> ReqType]
      /\ ReformKeysUnique(crews)
  BY CrewAssumption DEF CInv, TInv, RequestsType
<1>1. Effect(r) /\ req[r].at # None
  BY StepEffect DEF Effect
<1>2. /\ req[r] \in ReqType /\ OnPath("reform", req[r].at) /\ req[r].result = None
  BY <1>0, <1>1, ServedFacts DEF CInv, Answers
<1>3. ASSUME NEW v \in Results
      PROVE  /\ Answered(req[r], v).at = None /\ Answered(req[r], v).result = v
             /\ Answer(r, v) => req'[r] = Answered(req[r], v)
  <2>1. Answered(req[r], v).at = None /\ Answered(req[r], v).result = v
    BY <1>2, AnsweredFields DEF Remembered
  <2>2. Answer(r, v) => req'[r] = Answered(req[r], v)
    BY <1>0 DEF Answer
  <2> QED
    BY <2>1, <2>2
<1>4. "ok" \in Results /\ "refused" \in Results /\ "error" \in Results
  BY DEF Results
<1>5. ASSUME NEW s \in Statements, NEW p \in ReqType, p.result = None, GoTo(r, s, p)
      PROVE  /\ req'[r] = [p EXCEPT !.at = s] /\ req'[r].at = s /\ req'[r].result # "error"
             /\ req'[r].new = p.new
  <2>1. s # None /\ None # "error"
    BY <1>0, <1>4
  <2>2. req'[r] = [p EXCEPT !.at = s]
    BY <1>0, <1>5, <2>1 DEF GoTo
  <2> QED
    BY <1>5, <2>1, <2>2 DEF ReqType
<1>6. /\ {"isMember", "hasProfile", "sourceMembers", "targetProfiles", "findReformed",
          "persistCrew", "reread", "readNew", "planRoster", "autoAdd", "readBack"} \subseteq Statements
  BY DEF Statements, Checks
<1>7. ~NeedsNew(None) /\ None # "reread"
  BY <1>0 DEF NeedsNew, Statements
<1>8. CASE check(r)
  <2>1. req[r].at \in {"getById", "isMember", "hasProfile"}
    BY <1>2, <1>8 DEF check, Checks, OnPath
  <2>2. CASE Answer(r, "refused")
    BY <1>3, <1>4, <1>7, <2>2 DEF ReformOutcome
  <2>3. ASSUME NEW p \in ReqType, p.op = "reform", p.at = req[r].at, p.result = None, Proceed(r, p)
        PROVE  ReformOutcome(r)
    <3>1. PICK s \in {"isMember", "hasProfile", "sourceMembers"} : GoTo(r, s, p)
      BY <2>1, <2>3, AfterReform DEF Proceed
    <3>2. req'[r].at = s /\ req'[r].result # "error"
      BY <1>5, <1>6, <2>3, <3>1
    <3> QED
      BY <3>2 DEF ReformOutcome, NeedsNew
  <2>4. CASE Holds(req[r].at, req[r])
    <3> DEFINE p == IF At(r, "getById") THEN [req[r] EXCEPT !.row = crews[req[r].crew]] ELSE req[r]
    <3>1. p \in ReqType /\ p.op = "reform" /\ p.at = req[r].at /\ p.result = None
      <4>1. CASE At(r, "getById")
        <5>1. crews[req[r].crew] \in Rows
          BY <1>0, <1>2, <2>4, <4>1 DEF At, Holds, TInv, TablesType, ReqType
        <5> QED
          BY <1>2, <4>1, <5>1 DEF ReqType
      <4>2. CASE ~At(r, "getById")
        BY <1>2, <4>2
      <4> QED
        BY <4>1, <4>2
    <3>2. Proceed(r, p)
      BY <1>8, <2>4 DEF check
    <3> HIDE DEF p
    <3> QED
      BY <2>3, <3>1, <3>2
  <2> QED
    BY <1>8, <2>2, <2>4 DEF check
<1>9. CASE persistCrew(r)
  <2>0. req[r].at = "persistCrew" /\ UNCHANGED accounts
    BY <1>9 DEF persistCrew, At
  <2>1. CASE /\ CanCreate(req[r]) /\ createWithOwner(r, Created(r), req[r].user)
             /\ Proceed(r, [req[r] EXCEPT !.new = r])
    <3> DEFINE p == [req[r] EXCEPT !.new = r]
    <3>1. p \in ReqType /\ p.op = "reform" /\ p.at = "persistCrew" /\ p.result = None
      <4>1. r \in Crews
        BY CrewAssumption DEF Requests, Crews
      <4> QED
        BY <1>2, <2>0, <4>1 DEF ReqType
    <3>2. Proceed(r, p)
      BY <2>1
    <3> HIDE DEF p
    <3>3. GoTo(r, "readNew", p)
      BY <3>1, <3>2, AfterReform DEF Proceed
    <3>4. req'[r].at = "readNew" /\ req'[r].result # "error"
      BY <1>5, <1>6, <3>1, <3>3
    <3>5. Creates(r)
      <4>1. req'[r] = [p EXCEPT !.at = "readNew"]
        BY <1>5, <1>6, <3>1, <3>3
      <4>2. req'[r].new = r /\ req'[r].op = req[r].op
        <5>1. p.new = r
          BY <1>2 DEF p, ReqType
        <5> QED
          BY <3>1, <4>1, <5>1 DEF ReqType
      <4> QED
        BY <1>9, <2>0, <2>1, <4>2 DEF Creates, Created, createWithOwner, NewRow, persistCrew
    <3> QED
      BY <3>4, <3>5 DEF ReformOutcome
  <2>2. CASE /\ CanCreate(req[r]) /\ ~ReformKeysUnique(Created(r))
             /\ GoTo(r, "reread", req[r]) /\ UNCHANGED <<crews, joined, owners>>
    <3>1. req'[r].at = "reread" /\ req'[r].result # "error"
      BY <1>2, <1>5, <1>6, <2>2
    <3> QED
      BY <2>0, <2>2, <3>1 DEF ReformOutcome
  <2>3. CASE ~CanCreate(req[r]) /\ Answer(r, "error")
    BY <1>3, <1>4, <2>0, <2>3 DEF ReformOutcome
  <2> QED
    BY <1>9, <2>1, <2>2, <2>3 DEF persistCrew
<1>10. ASSUME NEW c \in Crews, GoTo(r, "planRoster", Reuse(req[r], c)), crews[c] # None
       PROVE  req'[r].at = "planRoster" /\ req'[r].result # "error" /\ req'[r].new = c
  <2>1. Reuse(req[r], c) \in ReqType /\ Reuse(req[r], c).result = None /\ Reuse(req[r], c).new = c
    <3>1. crews[c].max \in Int
      BY <1>0, <1>10 DEF TInv, TablesType, Rows
    <3> QED
      BY ZenonT(60), <1>2, <3>1 DEF Reuse, ReqType
  <2> QED
    BY <1>5, <1>6, <1>10, <2>1
<1>11. \A c \in Reformed(req[r]) : c \in Crews /\ crews[c] # None
  BY DEF Reformed, listByUserAndFestival
<1>12. CASE findReformed(r)
  <2>0. req[r].at = "findReformed" /\ UNCHANGED tables
    BY <1>12 DEF findReformed, At
  <2>1. ASSUME NEW c \in Reformed(req[r]), GoTo(r, "planRoster", Reuse(req[r], c))
        PROVE  ReformOutcome(r)
    BY <1>10, <1>11, <2>0, <2>1 DEF ReformOutcome
  <2>2. CASE Proceed(r, req[r])
    <3>1. GoTo(r, "persistCrew", req[r])
      BY <1>2, <2>0, <2>2, AfterReform DEF Proceed
    <3>2. req'[r].at = "persistCrew" /\ req'[r].result # "error"
      BY <1>2, <1>5, <1>6, <3>1
    <3> QED
      BY <3>2 DEF ReformOutcome, NeedsNew
  <2>3. CASE Answer(r, "refused")
    BY <1>3, <1>4, <1>7, <2>3 DEF ReformOutcome
  <2> QED
    BY <1>12, <2>1, <2>2, <2>3 DEF findReformed
<1>13. CASE reread(r)
  <2>0. req[r].at = "reread" /\ UNCHANGED tables
    BY <1>13 DEF reread, At
  <2>1. ASSUME NEW c \in Reformed(req[r]), GoTo(r, "planRoster", Reuse(req[r], c))
        PROVE  ReformOutcome(r)
    BY <1>10, <1>11, <2>0, <2>1 DEF ReformOutcome
  <2>2. CASE Reformed(req[r]) = {} /\ Answer(r, "error")
    BY <1>3, <1>4, <2>0, <2>2 DEF ReformOutcome
  <2> QED
    BY <1>13, <2>1, <2>2 DEF reread
<1>14. CASE readNew(r)
  <2>0. req[r].at = "readNew" /\ UNCHANGED tables /\ NeedsNew(req[r].at) /\ req[r].new \in Crews
    BY <1>0, <1>1, <1>14, ServedFacts DEF readNew, At, NeedsNew
  <2>1. CASE crews[req[r].new] # None /\ Proceed(r, Reuse(req[r], req[r].new))
    <3>1. Reuse(req[r], req[r].new).op = "reform" /\ Reuse(req[r], req[r].new).at = "readNew"
      BY <1>2, <2>0 DEF Reuse, ReqType
    <3>2. GoTo(r, "planRoster", Reuse(req[r], req[r].new))
      BY <2>1, <3>1, AfterReform DEF Proceed
    <3>3. req'[r].result # "error" /\ req'[r].new = req[r].new /\ req'[r].at # "reread"
      BY <1>10, <2>0, <2>1, <3>2
    <3> QED
      BY <2>0, <3>3 DEF ReformOutcome, tables
  <2>2. CASE crews[req[r].new] = None /\ Answer(r, "error")
    BY <1>3, <1>4, <2>0, <2>2 DEF ReformOutcome
  <2> QED
    BY <1>14, <2>1, <2>2 DEF readNew
<1>15. CASE readBack(r)
  <2>0. req[r].at = "readBack" /\ UNCHANGED tables /\ NeedsNew(req[r].at)
    BY <1>15 DEF readBack, At, NeedsNew
  <2>1. CASE Proceed(r, req[r])
    <3>1. req'[r] = Answered(req[r], "ok")
      BY <1>0, <1>2, <2>0, <2>1, AfterReform DEF Proceed, GoTo
    <3> QED
      BY <1>3, <1>4, <1>7, <3>1 DEF ReformOutcome
  <2>2. CASE crews[req[r].new] = None /\ Answer(r, "error")
    BY <1>3, <1>4, <2>0, <2>2 DEF ReformOutcome
  <2> QED
    BY <1>15, <2>1, <2>2 DEF readBack
<1>16. CASE sourceMembers(r) \/ targetProfiles(r)
  <2>1. PICK s \in {"targetProfiles", "findReformed"}, p \in ReqType : p.result = None /\ GoTo(r, s, p)
    <3>1. CASE sourceMembers(r)
      <4> DEFINE p == [req[r] EXCEPT !.roster = joined[req[r].crew]]
      <4>1. Proceed(r, p) /\ req[r].at = "sourceMembers" /\ joined[req[r].crew] \in Seq(Users)
        BY <1>0, <1>2, <3>1 DEF sourceMembers, At, ReqType, TInv, TablesType
      <4>2. p \in ReqType /\ p.op = "reform" /\ p.at = req[r].at /\ p.result = None
        BY ZenonT(60), <1>2, <4>1 DEF ReqType
      <4> HIDE DEF p
      <4>3. GoTo(r, "targetProfiles", p)
        BY <4>1, <4>2, AfterReform DEF Proceed
      <4> QED
        BY <4>2, <4>3
    <3>2. CASE targetProfiles(r)
      <4> DEFINE p == [req[r] EXCEPT !.eligible = {u \in Users : <<u, req[r].festival>> \in profiles}]
      <4>1. Proceed(r, p) /\ req[r].at = "targetProfiles"
        BY <3>2 DEF targetProfiles, At
      <4>2. p \in ReqType /\ p.op = "reform" /\ p.at = req[r].at /\ p.result = None
        BY ZenonT(60), <1>2 DEF ReqType
      <4> HIDE DEF p
      <4>3. GoTo(r, "findReformed", p)
        BY <4>1, <4>2, AfterReform DEF Proceed
      <4> QED
        BY <4>2, <4>3
    <3> QED
      BY <1>16, <3>1, <3>2
  <2>2. req'[r].at = s /\ req'[r].result # "error"
    BY <1>5, <1>6, <2>1
  <2> QED
    BY <2>2 DEF ReformOutcome, NeedsNew
<1>17. CASE planRoster(r) \/ autoAdd(r)
  <2>1. req[r].at \in {"planRoster", "autoAdd"} /\ UNCHANGED <<crews, accounts>>
    BY <1>17 DEF planRoster, autoAdd, At, tables
  <2>2. PICK s \in {"autoAdd", "readBack"}, p \in ReqType : p.result = None /\ p.new = req[r].new /\ GoTo(r, s, p)
    <3>1. CASE planRoster(r)
      <4> DEFINE e == planReformRoster(req[r].roster, req[r].user, req[r].eligible, Members(req[r].new))
      <4> DEFINE m == req[r].slots - Cardinality(Members(req[r].new))
      <4> DEFINE p == [req[r] EXCEPT !.eligible = e, !.slots = m]
      <4>1. e \in SUBSET Users
        BY <1>2 DEF planReformRoster, ReqType
      <4>2. m \in Int
        <5>1. req[r].new \in Crews /\ Roster(joined[req[r].new])
          BY <1>0, <1>1, <3>1, ServedFacts DEF planRoster, At, NeedsNew, TInv, TablesType
        <5>2. Cardinality(Members(req[r].new)) = Len(joined[req[r].new]) /\ Len(joined[req[r].new]) \in Nat
          BY <5>1, RosterCount DEF Members, Roster
        <5> QED
          BY <1>2, <5>2 DEF ReqType
      <4>3. Proceed(r, p)
        BY <1>2, <3>1 DEF planRoster, ReqType
      <4> HIDE DEF e, m
      <4>4. p \in ReqType /\ p.op = "reform" /\ p.at = req[r].at /\ p.result = None /\ p.new = req[r].new
        BY ZenonT(60), <1>2, <4>1, <4>2 DEF ReqType
      <4> HIDE DEF p
      <4>5. req[r].at = "planRoster"
        BY <3>1 DEF planRoster, At
      <4>6. GoTo(r, "autoAdd", p)
        BY <4>3, <4>4, <4>5, AfterReform DEF Proceed
      <4> QED
        BY <4>4, <4>6
    <3>2. CASE autoAdd(r)
      <4> DEFINE u == NextToAdd(req[r])
      <4>1. CASE Proceed(r, req[r])
        <5>1. GoTo(r, "readBack", req[r])
          BY <1>2, <3>2, <4>1, AfterReform DEF Proceed, autoAdd, At
        <5> QED
          BY <1>2, <5>1
      <4>2. CASE GoTo(r, "autoAdd", [req[r] EXCEPT !.eligible = @ \ {u}, !.slots = @ - 1])
        <5> DEFINE p == [req[r] EXCEPT !.eligible = @ \ {u}, !.slots = @ - 1]
        <5> HIDE DEF u
        <5>1. p = [req[r] EXCEPT !.eligible = req[r].eligible \ {u}, !.slots = req[r].slots - 1]
          BY <1>2 DEF ReqType
        <5>2. req[r].eligible \ {u} \in SUBSET Users /\ req[r].slots - 1 \in Int
          BY <1>2 DEF ReqType
        <5>3. p \in ReqType /\ p.result = None /\ p.new = req[r].new
          BY ZenonT(60), <1>2, <5>1, <5>2 DEF ReqType
        <5> QED
          BY <4>2, <5>3
      <4>3. CASE GoTo(r, "autoAdd", [req[r] EXCEPT !.eligible = @ \ {u}])
        <5> DEFINE p == [req[r] EXCEPT !.eligible = @ \ {u}]
        <5> HIDE DEF u
        <5>1. p \in ReqType /\ p.result = None /\ p.new = req[r].new
          BY <1>2 DEF ReqType
        <5> QED
          BY <4>3, <5>1
      <4> QED
        BY <3>2, <4>1, <4>2, <4>3 DEF autoAdd
    <3> QED
      BY <1>17, <3>1, <3>2
  <2>3. req'[r].result # "error" /\ req'[r].new = req[r].new /\ req'[r].at = s
    BY <1>5, <1>6, <2>2
  <2> QED
    BY <2>1, <2>3 DEF ReformOutcome, NeedsNew
<1>18. ~(\/ addMember(r) \/ removeMember(r) \/ transferOwnership(r) \/ updateCrew(r) \/ deleteCrew(r)
         \/ deleteProfiles(r) \/ hardDelete(r))
  BY <1>2 DEF addMember, removeMember, transferOwnership, updateCrew, deleteCrew, deleteProfiles,
              hardDelete, At, OnPath
<1> QED
  BY <1>8, <1>9, <1>12, <1>13, <1>14, <1>15, <1>16, <1>17, <1>18 DEF Step

LEMMA StepNewStands ==
  ASSUME FindInv, UNCHANGED scenario, NEW r \in Requests, Step(r)
  PROVE  NewStands'
<1>0. /\ CInv /\ DeletesAlone /\ Alone /\ NewStands /\ TInv /\ ~NeedsNew(None)
  BY CrewAssumption DEF FindInv, CInv, NeedsNew, Statements
<1>1. Effect(r) /\ Others(r) /\ req[r].at # None /\ accounts' \subseteq accounts
  BY <1>0, StepEffect DEF Effect
<1> SUFFICES ASSUME NEW t \in Requests, req'[t].op = "reform", NeedsNew(req'[t].at),
                    req'[t].user \in accounts'
             PROVE  crews'[req'[t].new] # None
  BY DEF NewStands, NeedsNew
<1>2. CASE t # r
  <2>1. req'[t] = req[t] /\ req[t].at # None
    BY <1>0, <1>1, <1>2 DEF Others
  <2>2. ~Deletes(r)
    BY <1>0, <2>1, NothingDeleted
  <2>3. crews[req[t].new] # None
    BY <1>0, <1>1, <2>1 DEF NewStands
  <2>4. req[t].new \in Crews /\ req[t].new # None
    BY <1>0, <2>1, ServedFacts, CrewAssumption
  <2>5. crews[req[t].new].by = req[t].user
    BY <1>0, <1>1, <2>1, <2>3, <2>4 DEF CInv, Reforms, Wanted
  <2> QED
    BY <1>0, <2>1, <2>2, <2>3, <2>4, <2>5, CrewStays
<1>3. CASE t = r
  <2>1. req[r].op = "reform" /\ req'[r].user = req[r].user
    BY <1>0, <1>3, SameRequest
  <2>2. CASE NeedsNew(req[r].at) /\ req'[r].new = req[r].new /\ UNCHANGED <<crews, accounts>>
    BY <1>0, <1>3, <2>1, <2>2 DEF NewStands
  <2>3. CASE req'[r].new \in Reformed(req[r]) /\ UNCHANGED tables
    BY <1>3, <2>3 DEF Reformed, listByUserAndFestival, tables
  <2>4. CASE Creates(r)
    <3>1. crews[r] = None /\ ForeignKeys
      BY <1>0, <2>4, BeforeCreation DEF Creates, CInv
    <3>2. crews'[r] # None
      BY <1>0, <2>4, <3>1, CreatesTables
    <3> QED
      BY <1>3, <2>4, <3>2 DEF Creates
  <2>5. req'[r].at # "reread"
    BY <1>3 DEF NeedsNew
  <2> QED
    BY <1>0, <1>3, <2>1, <2>2, <2>3, <2>4, <2>5, ReformTurns DEF ReformOutcome
<1> QED
  BY <1>2, <1>3

\* The crew the index refused a reform for is one that it asks for.
LEMMA RefusedByOne ==
  ASSUME CInv, NEW r \in Requests, req[r].op = "reform", req[r].at = "persistCrew",
         ~ReformKeysUnique(Created(r))
  PROVE  \E c \in Crews : Sought(c, req[r])
<1>0. TInv /\ ReformKeysUnique(crews) /\ crews[r] = None /\ req[r].at # None
  BY BeforeCreation DEF CInv
<1>1. /\ r \in Crews /\ crews \in [Crews -> Rows \cup {None}]
  BY <1>0, CrewAssumption DEF Requests, Crews, TInv, TablesType
<1> DEFINE row == NewRow(req[r])
<1>2. /\ row.festival = req[r].festival /\ row.by = req[r].user /\ row.from = req[r].crew
  BY DEF NewRow, Row
<1> HIDE DEF row
<1>3. Created(r) = [crews EXCEPT ![r] = row]
  BY DEF Created, NewRow, row
<1>4. PICK c \in Crews, d \in Crews :
        /\ c # d /\ Created(r)[c] # None /\ Created(r)[d] # None /\ Created(r)[c].from # None
        /\ Created(r)[c].by = Created(r)[d].by /\ Created(r)[c].festival = Created(r)[d].festival
        /\ Created(r)[c].from = Created(r)[d].from
  BY DEF ReformKeysUnique
<1>5. /\ Created(r)[r] = row
      /\ \A e \in Crews \ {r} : Created(r)[e] = crews[e]
  BY <1>1, <1>3
<1>6. c = r \/ d = r
  BY <1>0, <1>4, <1>5 DEF ReformKeysUnique
<1>7. CASE c = r
  BY <1>2, <1>4, <1>5, <1>7 DEF Sought
<1>8. CASE d = r
  BY <1>2, <1>4, <1>5, <1>8 DEF Sought
<1> QED
  BY <1>6, <1>7, <1>8

LEMMA StepLostToOne ==
  ASSUME FindInv, UNCHANGED scenario, NEW r \in Requests, Step(r)
  PROVE  LostToOne'
<1>0. /\ CInv /\ DeletesAlone /\ Alone /\ LostToOne /\ TInv /\ None # "reread"
  BY CrewAssumption DEF FindInv, CInv, Statements
<1>1. Effect(r) /\ Others(r) /\ req[r].at # None /\ accounts' \subseteq accounts
  BY <1>0, StepEffect DEF Effect
<1> SUFFICES ASSUME NEW t \in Requests, req'[t].op = "reform", req'[t].at = "reread",
                    req'[t].user \in accounts', crews'[req'[t].crew] # None
             PROVE  \E c \in Crews :
                      /\ crews'[c] # None /\ crews'[c].festival = req'[t].festival
                      /\ crews'[c].by = req'[t].user /\ crews'[c].from = req'[t].crew
  BY DEF LostToOne, Sought
<1>2. CASE t # r
  <2>1. req'[t] = req[t] /\ req[t].at # None
    BY <1>0, <1>1, <1>2 DEF Others
  <2>2. ~Deletes(r)
    BY <1>0, <2>1, NothingDeleted
  <2>3. crews[req[t].crew] # None
    BY <1>0, <2>1, SameCrew
  <2>4. PICK c \in Crews : Sought(c, req[t])
    BY <1>0, <1>1, <2>1, <2>3 DEF LostToOne
  <2>5. /\ crews[c] # None /\ crews[c].festival = req[t].festival
        /\ crews[c].by = req[t].user /\ crews[c].from = req[t].crew
    BY <2>4 DEF Sought
  <2>6. /\ crews'[c] # None /\ crews'[c].by = crews[c].by
        /\ crews'[c].festival = crews[c].festival
        /\ crews'[c].from = crews[c].from \/ crews'[crews[c].from] = None
    BY <1>0, <2>1, <2>2, <2>5, CrewStays
  <2> QED
    BY <2>1, <2>5, <2>6
<1>3. CASE t = r
  <2>1. /\ req[r].op = "reform" /\ req'[r].user = req[r].user /\ req'[r].crew = req[r].crew
        /\ req'[r].festival = req[r].festival
    BY <1>0, <1>3, SameRequest
  <2>2. ~NeedsNew("reread")
    BY DEF NeedsNew
  <2>3. CASE req[r].at = "persistCrew" /\ ~ReformKeysUnique(Created(r)) /\ UNCHANGED <<crews, accounts>>
    <3>1. PICK c \in Crews : Sought(c, req[r])
      BY <1>0, <2>1, <2>3, RefusedByOne
    <3> QED
      BY <1>3, <2>1, <2>3, <3>1 DEF Sought
  <2> QED
    BY <1>0, <1>3, <2>1, <2>2, <2>3, ReformTurns DEF ReformOutcome
<1> QED
  BY <1>2, <1>3

\* What a step must not do.
FailsRightly(r) ==
  req[r].op = "reform" /\ req[r].result # "error" /\ req'[r].result = "error" =>
    \/ req[r].user \notin accounts \/ crews[req[r].crew] = None
    \/ \E c \in Crews : Sought(c, req[r]) /\ req[r].user \notin Members(c)

LEMMA StepFailsRightly ==
  ASSUME FindInv, UNCHANGED scenario, NEW r \in Requests, Step(r), NEW t \in Requests
  PROVE  FailsRightly(t)
<1>0. CInv /\ TInv /\ NewStands /\ LostToOne
  BY DEF FindInv, CInv
<1>1. Others(r) /\ req[r].at # None
  BY <1>0, StepEffect DEF Effect
<1> SUFFICES ASSUME t = r, req[r].op = "reform", req'[r].result = "error",
                    req[r].user \in accounts, crews[req[r].crew] # None
             PROVE  \E c \in Crews : Sought(c, req[r]) /\ req[r].user \notin Members(c)
  BY <1>1 DEF FailsRightly, Others
<1>2. \/ req[r].at = "persistCrew" /\ ~CanCreate(req[r])
      \/ req[r].at = "reread" /\ Reformed(req[r]) = {}
      \/ NeedsNew(req[r].at) /\ crews[req[r].new] = None
  BY <1>0, ReformTurns DEF ReformOutcome
<1>3. ~(req[r].at = "persistCrew" /\ ~CanCreate(req[r]))
  BY DEF CanCreate
<1>4. ~(NeedsNew(req[r].at) /\ crews[req[r].new] = None)
  BY <1>0 DEF NewStands
<1>5. CASE req[r].at = "reread" /\ Reformed(req[r]) = {}
  <2>1. PICK c \in Crews : Sought(c, req[r])
    BY <1>0, <1>5 DEF LostToOne
  <2>2. c \notin Reformed(req[r])
    BY <1>5
  <2>3. req[r].user \notin Members(c)
    BY <2>1, <2>2 DEF Sought, Reformed, listByUserAndFestival
  <2> QED
    BY <2>1, <2>3
<1> QED
  BY <1>2, <1>3, <1>4, <1>5

LEMMA SameFailsRightly ==
  ASSUME UNCHANGED req
  PROVE  \A t \in Requests : FailsRightly(t)
BY DEF FailsRightly

LEMMA NextFinds ==
  ASSUME FindInv, [Next]_vars
  PROVE  FindInv' /\ \A t \in Requests : FailsRightly(t)
<1>0. CInv /\ DeletesAlone /\ Alone /\ NewStands /\ LostToOne /\ CInv'
  BY NextKeepsInv DEF FindInv
<1>1. UNCHANGED scenario => DeletesAlone'
  BY <1>0 DEF DeletesAlone
<1>2. ASSUME NEW r \in Requests, start(r), UNCHANGED scenario
      PROVE  FindInv' /\ \A t \in Requests : FailsRightly(t)
  <2>1. /\ Others(r) /\ UNCHANGED tables /\ req'[r].result = None /\ req'[r].op \in Endpoints
        /\ req'[r].at = Handler[req'[r].op][1]
    BY <1>0, <1>2, startMoves DEF CInv
  <2>2. Alone'
    BY <1>0, <1>2, StartAlone
  <2>3. req'[r].at \in {"getById", "hasProfile", "userExists", "isMember"}
    BY <2>1, FirstStatement
  <2>4. ~NeedsNew(req'[r].at) /\ req'[r].at # "reread"
    BY <2>3 DEF NeedsNew
  <2>5. UNCHANGED <<crews, accounts>> /\ \A t \in Requests \ {r} : req'[t] = req[t]
    BY <2>1 DEF tables, Others
  <2>6. NewStands' /\ LostToOne'
    BY <1>0, <2>4, <2>5 DEF NewStands, LostToOne, Sought, NeedsNew
  <2>7. None # "error"
    BY CrewAssumption DEF Results
  <2>8. \A t \in Requests : FailsRightly(t)
    BY <2>1, <2>5, <2>7 DEF FailsRightly
  <2> QED
    BY <1>0, <1>1, <1>2, <2>2, <2>6, <2>8 DEF FindInv
<1>3. ASSUME NEW r \in Requests, Step(r), UNCHANGED scenario
      PROVE  FindInv' /\ \A t \in Requests : FailsRightly(t)
  <2>1. Alone' /\ NewStands' /\ LostToOne'
    BY <1>0, <1>3, StepAlone, StepNewStands, StepLostToOne
  <2>2. \A t \in Requests : FailsRightly(t)
    BY <1>3, StepFailsRightly
  <2> QED
    BY <1>0, <1>1, <1>3, <2>1, <2>2 DEF FindInv
<1>4. ASSUME UNCHANGED <<scenario, crews, accounts, req>>
      PROVE  FindInv' /\ \A t \in Requests : FailsRightly(t)
  <2>1. Alone' /\ NewStands' /\ LostToOne'
    BY <1>0, <1>4 DEF Alone, NewStands, LostToOne, Sought, NeedsNew
  <2> QED
    BY <1>0, <1>1, <1>4, <2>1, SameFailsRightly DEF FindInv
<1>5. ASSUME ProfileStep, UNCHANGED scenario
      PROVE  FindInv' /\ \A t \in Requests : FailsRightly(t)
  BY <1>0, <1>4, <1>5, ProfileStepMoves DEF CInv
<1>6. CASE UNCHANGED vars
  BY <1>4, <1>6 DEF vars
<1> QED
  BY <1>2, <1>3, <1>5, <1>6 DEF Next, ProfileStep

LEMMA InitFinds == Init /\ DeletesAlone => FindInv
<1> SUFFICES ASSUME Init, DeletesAlone
             PROVE  FindInv
  OBVIOUS
<1>1. CInv /\ \A r \in Requests : req[r] = Idle
  BY InitInv DEF Init
<1>2. \A r \in Requests : req[r].at = None /\ req[r].op = None
  BY <1>1, IdleType
<1>3. None # "reform"
  BY CrewAssumption DEF Endpoints
<1>4. Alone /\ NewStands /\ LostToOne
  BY <1>2, <1>3 DEF Alone, NewStands, LostToOne
<1> QED
  BY <1>1, <1>4 DEF FindInv

\* A reform that loses the race on the unique index finds the crew it lost to, or was removed from
\* it; and one that has found or made its crew reads it back: whatever joins, kicks, transfers,
\* removals and account deletions do at once, if a crew is deleted beside nothing.
THEOREM ReformFinds == Spec /\ DeletesAlone => ReformFindsExisting
<1>1. FindInv /\ [Next]_vars =>
        FindInv' /\ [\A r \in Requests :
                       LET q == req[r]
                       IN  q.op = "reform" /\ q.result # "error" /\ req'[r].result = "error" =>
                             \/ q.user \notin accounts \/ crews[q.crew] = None
                             \/ \E c \in Crews :
                                  /\ crews[c] # None /\ crews[c].festival = q.festival
                                  /\ crews[c].by = q.user /\ crews[c].from = q.crew
                                  /\ q.user \notin Members(c)]_vars
  <2> SUFFICES ASSUME FindInv, [Next]_vars
               PROVE  FindInv' /\ \A r \in Requests : FailsRightly(r)
    BY DEF FailsRightly, Sought
  <2> QED
    BY NextFinds
<1> QED
  BY <1>1, InitFinds, PTL DEF Spec, ReformFindsExisting
=============================================================================
