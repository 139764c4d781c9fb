--------------------------- MODULE CredentialsProofs ---------------------------
(***************************************************************************)
(* Proofs about Credentials, for any addresses, any groups of endpoints,   *)
(* any maximum of sessions and any number of requests served at once.      *)
(***************************************************************************)
EXTENDS Credentials, TLAPS, FiniteSetTheorems

-----------------------------------------------------------------------------
(* The statement after a statement.                                        *)

LEMMA AfterAt ==
  ASSUME NEW op, DOMAIN Handler[op] = 1..Len(Handler[op]), IsInjective(Handler[op]),
         NEW i \in 1..Len(Handler[op])
  PROVE  After(op, Handler[op][i]) = IF i = Len(Handler[op]) THEN None ELSE Handler[op][i + 1]
<1> DEFINE h == Handler[op]
<1> DEFINE k == CHOOSE j \in DOMAIN h : h[j] = h[i]
<1>1. i \in DOMAIN h /\ \A a, b \in DOMAIN h : h[a] = h[b] => a = b
  BY DEF IsInjective
<1>2. After(op, h[i]) = IF k = Len(h) THEN None ELSE h[k + 1]
  BY DEF After
<1> HIDE DEF h
<1>3. k \in DOMAIN h /\ h[k] = h[i]
  BY <1>1
<1>4. k = i
  BY <1>1, <1>3
<1> QED
  BY <1>2, <1>4 DEF h

LEMMA AfterLogin ==
  /\ After("login", "readUser") = "insert" /\ After("login", "insert") = "commit"
  /\ After("login", "commit") = "issue" /\ After("login", "issue") = None
<1>1. /\ login[1] = "readUser" /\ login[2] = "insert" /\ login[3] = "commit" /\ login[4] = "issue"
  BY DEF login
<1>2. DOMAIN login = 1..4 /\ Len(login) = 4 /\ IsInjective(login)
  BY DEF login, IsInjective
<1>3. Handler["login"] = login
  BY DEF Handler
<1>4. \A i \in 1..4 : After("login", login[i]) = IF i = 4 THEN None ELSE login[i + 1]
  BY <1>2, <1>3, AfterAt
<1> QED
  BY <1>1, <1>4

LEMMA AfterLogout ==
  /\ After("logout", "deleteSession") = None
<1>1. /\ logout[1] = "deleteSession"
  BY DEF logout
<1>2. DOMAIN logout = 1..1 /\ Len(logout) = 1 /\ IsInjective(logout)
  BY DEF logout, IsInjective
<1>3. Handler["logout"] = logout
  BY DEF Handler
<1>4. \A i \in 1..1 : After("logout", logout[i]) = IF i = 1 THEN None ELSE logout[i + 1]
  BY <1>2, <1>3, AfterAt
<1> QED
  BY <1>1, <1>4

LEMMA AfterRefreshSession ==
  /\ After("refreshSession", "auth") = "deleteSession"
  /\ After("refreshSession", "deleteSession") = "insert"
  /\ After("refreshSession", "insert") = "commit" /\ After("refreshSession", "commit") = None
<1>1. /\ refreshSession[1] = "auth" /\ refreshSession[2] = "deleteSession"
      /\ refreshSession[3] = "insert" /\ refreshSession[4] = "commit"
  BY DEF refreshSession
<1>2. DOMAIN refreshSession = 1..4 /\ Len(refreshSession) = 4 /\ IsInjective(refreshSession)
  BY DEF refreshSession, IsInjective
<1>3. Handler["refreshSession"] = refreshSession
  BY DEF Handler
<1>4. \A i \in 1..4 :
        After("refreshSession", refreshSession[i]) = IF i = 4 THEN None ELSE refreshSession[i + 1]
  BY <1>2, <1>3, AfterAt
<1> QED
  BY <1>1, <1>4

LEMMA AfterRefreshToken ==
  /\ After("refreshToken", "validate") = "linked" /\ After("refreshToken", "linked") = "insert"
  /\ After("refreshToken", "insert") = "commit" /\ After("refreshToken", "commit") = "rotate"
  /\ After("refreshToken", "rotate") = None
<1>1. /\ refreshToken[1] = "validate" /\ refreshToken[2] = "linked" /\ refreshToken[3] = "insert"
      /\ refreshToken[4] = "commit" /\ refreshToken[5] = "rotate"
  BY DEF refreshToken
<1>2. DOMAIN refreshToken = 1..5 /\ Len(refreshToken) = 5 /\ IsInjective(refreshToken)
  BY DEF refreshToken, IsInjective
<1>3. Handler["refreshToken"] = refreshToken
  BY DEF Handler
<1>4. \A i \in 1..5 :
        After("refreshToken", refreshToken[i]) = IF i = 5 THEN None ELSE refreshToken[i + 1]
  BY <1>2, <1>3, AfterAt
<1> QED
  BY <1>1, <1>4

LEMMA AfterRevokeSession ==
  /\ After("revokeSession", "auth") = "deleteSession"
  /\ After("revokeSession", "deleteSession") = None
<1>1. /\ revokeSession[1] = "auth" /\ revokeSession[2] = "deleteSession"
  BY DEF revokeSession
<1>2. DOMAIN revokeSession = 1..2 /\ Len(revokeSession) = 2 /\ IsInjective(revokeSession)
  BY DEF revokeSession, IsInjective
<1>3. Handler["revokeSession"] = revokeSession
  BY DEF Handler
<1>4. \A i \in 1..2 :
        After("revokeSession", revokeSession[i]) = IF i = 2 THEN None ELSE revokeSession[i + 1]
  BY <1>2, <1>3, AfterAt
<1> QED
  BY <1>1, <1>4

LEMMA AfterRevokeOthers ==
  /\ After("revokeOthers", "auth") = "select" /\ After("revokeOthers", "select") = "delete"
  /\ After("revokeOthers", "delete") = None
<1>1. /\ revokeOthers[1] = "auth" /\ revokeOthers[2] = "select" /\ revokeOthers[3] = "delete"
  BY DEF revokeOthers
<1>2. DOMAIN revokeOthers = 1..3 /\ Len(revokeOthers) = 3 /\ IsInjective(revokeOthers)
  BY DEF revokeOthers, IsInjective
<1>3. Handler["revokeOthers"] = revokeOthers
  BY DEF Handler
<1>4. \A i \in 1..3 :
        After("revokeOthers", revokeOthers[i]) = IF i = 3 THEN None ELSE revokeOthers[i + 1]
  BY <1>2, <1>3, AfterAt
<1> QED
  BY <1>1, <1>4

LEMMA AfterChangePassword ==
  /\ After("changePassword", "auth") = "readUser" /\ After("changePassword", "readUser") = "update"
  /\ After("changePassword", "update") = "select" /\ After("changePassword", "select") = "delete"
  /\ After("changePassword", "delete") = "revokeAll"
  /\ After("changePassword", "revokeAll") = "cutChanges"
  /\ After("changePassword", "cutChanges") = "insert"
  /\ After("changePassword", "insert") = "commit" /\ After("changePassword", "commit") = None
<1>1. /\ changePassword[1] = "auth" /\ changePassword[2] = "readUser"
      /\ changePassword[3] = "update" /\ changePassword[4] = "select"
      /\ changePassword[5] = "delete" /\ changePassword[6] = "revokeAll"
      /\ changePassword[7] = "cutChanges" /\ changePassword[8] = "insert"
      /\ changePassword[9] = "commit"
  BY DEF changePassword
<1>2. DOMAIN changePassword = 1..9 /\ Len(changePassword) = 9 /\ IsInjective(changePassword)
  BY DEF changePassword, IsInjective
<1>3. Handler["changePassword"] = changePassword
  BY DEF Handler
<1>4. \A i \in 1..9 :
        After("changePassword", changePassword[i]) = IF i = 9 THEN None ELSE changePassword[i + 1]
  BY <1>2, <1>3, AfterAt
<1> QED
  BY <1>1, <1>4

LEMMA AfterAdminReset ==
  /\ After("adminReset", "update") = "select" /\ After("adminReset", "select") = "delete"
  /\ After("adminReset", "delete") = "revokeAll" /\ After("adminReset", "revokeAll") = None
<1>1. /\ adminReset[1] = "update" /\ adminReset[2] = "select" /\ adminReset[3] = "delete"
      /\ adminReset[4] = "revokeAll"
  BY DEF adminReset
<1>2. DOMAIN adminReset = 1..4 /\ Len(adminReset) = 4 /\ IsInjective(adminReset)
  BY DEF adminReset, IsInjective
<1>3. Handler["adminReset"] = adminReset
  BY DEF Handler
<1>4. \A i \in 1..4 : After("adminReset", adminReset[i]) = IF i = 4 THEN None ELSE adminReset[i + 1]
  BY <1>2, <1>3, AfterAt
<1> QED
  BY <1>1, <1>4

LEMMA AfterForgotPassword ==
  /\ After("forgotPassword", "invalidateResets") = "createReset"
  /\ After("forgotPassword", "createReset") = None
<1>1. /\ forgotPassword[1] = "invalidateResets" /\ forgotPassword[2] = "createReset"
  BY DEF forgotPassword
<1>2. DOMAIN forgotPassword = 1..2 /\ Len(forgotPassword) = 2 /\ IsInjective(forgotPassword)
  BY DEF forgotPassword, IsInjective
<1>3. Handler["forgotPassword"] = forgotPassword
  BY DEF Handler
<1>4. \A i \in 1..2 :
        After("forgotPassword", forgotPassword[i]) = IF i = 2 THEN None ELSE forgotPassword[i + 1]
  BY <1>2, <1>3, AfterAt
<1> QED
  BY <1>1, <1>4

LEMMA AfterResetLink ==
  /\ After("resetLink", "createReset") = "remember" /\ After("resetLink", "remember") = None
<1>1. /\ resetLink[1] = "createReset" /\ resetLink[2] = "remember"
  BY DEF resetLink
<1>2. DOMAIN resetLink = 1..2 /\ Len(resetLink) = 2 /\ IsInjective(resetLink)
  BY DEF resetLink, IsInjective
<1>3. Handler["resetLink"] = resetLink
  BY DEF Handler
<1>4. \A i \in 1..2 : After("resetLink", resetLink[i]) = IF i = 2 THEN None ELSE resetLink[i + 1]
  BY <1>2, <1>3, AfterAt
<1> QED
  BY <1>1, <1>4

LEMMA AfterResetPage ==
  /\ After("resetPage", "lookup") = "remember" /\ After("resetPage", "remember") = None
<1>1. /\ resetPage[1] = "lookup" /\ resetPage[2] = "remember"
  BY DEF resetPage
<1>2. DOMAIN resetPage = 1..2 /\ Len(resetPage) = 2 /\ IsInjective(resetPage)
  BY DEF resetPage, IsInjective
<1>3. Handler["resetPage"] = resetPage
  BY DEF Handler
<1>4. \A i \in 1..2 : After("resetPage", resetPage[i]) = IF i = 2 THEN None ELSE resetPage[i + 1]
  BY <1>2, <1>3, AfterAt
<1> QED
  BY <1>1, <1>4

LEMMA AfterResetPassword ==
  /\ After("resetPassword", "claimReset") = "readUser"
  /\ After("resetPassword", "readUser") = "update" /\ After("resetPassword", "update") = "select"
  /\ After("resetPassword", "select") = "delete" /\ After("resetPassword", "delete") = "revokeAll"
  /\ After("resetPassword", "revokeAll") = "cutChanges"
  /\ After("resetPassword", "cutChanges") = "forget" /\ After("resetPassword", "forget") = None
<1>1. /\ resetPassword[1] = "claimReset" /\ resetPassword[2] = "readUser"
      /\ resetPassword[3] = "update" /\ resetPassword[4] = "select" /\ resetPassword[5] = "delete"
      /\ resetPassword[6] = "revokeAll" /\ resetPassword[7] = "cutChanges"
      /\ resetPassword[8] = "forget"
  BY DEF resetPassword
<1>2. DOMAIN resetPassword = 1..8 /\ Len(resetPassword) = 8 /\ IsInjective(resetPassword)
  BY DEF resetPassword, IsInjective
<1>3. Handler["resetPassword"] = resetPassword
  BY DEF Handler
<1>4. \A i \in 1..8 :
        After("resetPassword", resetPassword[i]) = IF i = 8 THEN None ELSE resetPassword[i + 1]
  BY <1>2, <1>3, AfterAt
<1> QED
  BY <1>1, <1>4

LEMMA AfterChangeEmail ==
  /\ After("changeEmail", "auth") = "readUser" /\ After("changeEmail", "readUser") = "replaceChange"
  /\ After("changeEmail", "replaceChange") = None
<1>1. /\ changeEmail[1] = "auth" /\ changeEmail[2] = "readUser" /\ changeEmail[3] = "replaceChange"
  BY DEF changeEmail
<1>2. DOMAIN changeEmail = 1..3 /\ Len(changeEmail) = 3 /\ IsInjective(changeEmail)
  BY DEF changeEmail, IsInjective
<1>3. Handler["changeEmail"] = changeEmail
  BY DEF Handler
<1>4. \A i \in 1..3 :
        After("changeEmail", changeEmail[i]) = IF i = 3 THEN None ELSE changeEmail[i + 1]
  BY <1>2, <1>3, AfterAt
<1> QED
  BY <1>1, <1>4

LEMMA AfterResendVerification ==
  /\ After("resendVerification", "auth") = "readUser"
  /\ After("resendVerification", "readUser") = "invalidateChanges"
  /\ After("resendVerification", "invalidateChanges") = "createChange"
  /\ After("resendVerification", "createChange") = None
<1>1. /\ resendVerification[1] = "auth" /\ resendVerification[2] = "readUser"
      /\ resendVerification[3] = "invalidateChanges" /\ resendVerification[4] = "createChange"
  BY DEF resendVerification
<1>2. /\ DOMAIN resendVerification = 1..4 /\ Len(resendVerification) = 4
      /\ IsInjective(resendVerification)
  BY DEF resendVerification, IsInjective
<1>3. Handler["resendVerification"] = resendVerification
  BY DEF Handler
<1>4. \A i \in 1..4 :
        After("resendVerification", resendVerification[i]) =
          IF i = 4 THEN None ELSE resendVerification[i + 1]
  BY <1>2, <1>3, AfterAt
<1> QED
  BY <1>1, <1>4

LEMMA AfterVerifyEmail ==
  /\ After("verifyEmail", "claimChange") = "readAddress"
  /\ After("verifyEmail", "readAddress") = "updateEmail"
  /\ After("verifyEmail", "updateEmail") = "invalidateChanges"
  /\ After("verifyEmail", "invalidateChanges") = "select"
  /\ After("verifyEmail", "select") = "delete" /\ After("verifyEmail", "delete") = "revokeAll"
  /\ After("verifyEmail", "revokeAll") = None
<1>1. /\ verifyEmail[1] = "claimChange" /\ verifyEmail[2] = "readAddress"
      /\ verifyEmail[3] = "updateEmail" /\ verifyEmail[4] = "invalidateChanges"
      /\ verifyEmail[5] = "select" /\ verifyEmail[6] = "delete" /\ verifyEmail[7] = "revokeAll"
  BY DEF verifyEmail
<1>2. DOMAIN verifyEmail = 1..7 /\ Len(verifyEmail) = 7 /\ IsInjective(verifyEmail)
  BY DEF verifyEmail, IsInjective
<1>3. Handler["verifyEmail"] = verifyEmail
  BY DEF Handler
<1>4. \A i \in 1..7 :
        After("verifyEmail", verifyEmail[i]) = IF i = 7 THEN None ELSE verifyEmail[i + 1]
  BY <1>2, <1>3, AfterAt
<1> QED
  BY <1>1, <1>4

\* The statements of an endpoint.
OnPath(op, s) ==
  \/ op = "login" /\ s \in {"readUser", "insert", "commit", "issue"}
  \/ op = "logout" /\ s \in {"deleteSession"}
  \/ op = "refreshSession" /\ s \in {"auth", "deleteSession", "insert", "commit"}
  \/ op = "refreshToken" /\ s \in {"validate", "linked", "insert", "commit", "rotate"}
  \/ op = "revokeSession" /\ s \in {"auth", "deleteSession"}
  \/ op = "revokeOthers" /\ s \in {"auth", "select", "delete"}
  \/ op = "changePassword" /\ s \in {"auth", "readUser", "update", "select", "delete", "revokeAll",
                                     "cutChanges", "insert",
                                     "commit"}
  \/ op = "adminReset" /\ s \in {"update", "select", "delete", "revokeAll"}
  \/ op = "forgotPassword" /\ s \in {"invalidateResets", "createReset"}
  \/ op = "resetLink" /\ s \in {"createReset", "remember"}
  \/ op = "resetPage" /\ s \in {"lookup", "remember"}
  \/ op = "resetPassword" /\ s \in {"claimReset", "readUser", "update", "select", "delete",
                                    "revokeAll", "cutChanges",
                                    "forget"}
  \/ op = "changeEmail" /\ s \in {"auth", "readUser", "replaceChange"}
  \/ op = "resendVerification" /\ s \in {"auth", "readUser", "invalidateChanges", "createChange"}
  \/ op = "verifyEmail" /\ s \in {"claimChange", "readAddress", "updateEmail", "invalidateChanges",
                                  "select", "delete", "revokeAll"}

\* What follows a statement, by endpoint.
LEMMA Turns ==
  ASSUME NEW op, NEW s, OnPath(op, s)
  PROVE  LET n == After(op, s)
         IN  /\ op \in Endpoints /\ s \in Statements /\ s # None
             /\ IF n = None
                THEN s \in {"commit", "issue", "deleteSession", "rotate", "delete", "revokeAll",
                            "createReset", "remember", "forget", "replaceChange",
                            "createChange"}
                ELSE OnPath(op, n)
             /\ s = "readUser" =>
                  \/ op = "login" /\ n = "insert"
                  \/ op \in {"changePassword", "resetPassword"} /\ n = "update"
                  \/ op = "changeEmail" /\ n = "replaceChange"
                  \/ op = "resendVerification" /\ n = "invalidateChanges"
             /\ s = "insert" =>
                  /\ op \in {"login", "refreshSession", "refreshToken", "changePassword"}
                  /\ n = "commit"
             /\ s = "commit" =>
                  \/ op = "login" /\ n = "issue"
                  \/ op \in {"refreshSession", "changePassword"} /\ n = None
                  \/ op = "refreshToken" /\ n = "rotate"
             /\ s = "issue" => op = "login" /\ n = None
             /\ s = "deleteSession" =>
                  \/ op \in {"logout", "revokeSession"} /\ n = None
                  \/ op = "refreshSession" /\ n = "insert"
             /\ s = "auth" =>
                  \/ op \in {"refreshSession", "revokeSession"} /\ n = "deleteSession"
                  \/ op = "revokeOthers" /\ n = "select"
                  \/ /\ n = "readUser"
                     /\ op \in {"changePassword", "changeEmail", "resendVerification"}
             /\ s = "validate" => op = "refreshToken" /\ n = "linked"
             /\ s = "linked" => op = "refreshToken" /\ n = "insert"
             /\ s = "rotate" => op = "refreshToken" /\ n = None
             /\ s = "select" =>
                  /\ op \in {"revokeOthers", "changePassword", "adminReset", "resetPassword",
                             "verifyEmail"}
                  /\ n = "delete"
             /\ s = "delete" =>
                  \/ op = "revokeOthers" /\ n = None
                  \/ /\ n = "revokeAll"
                     /\ op \in {"changePassword", "adminReset", "resetPassword", "verifyEmail"}
             /\ s = "update" =>
                  /\ op \in {"changePassword", "adminReset", "resetPassword"}
                  /\ n = "select"
             /\ s = "revokeAll" =>
                  \/ op \in {"changePassword", "resetPassword"} /\ n = "cutChanges"
                  \/ op \in {"adminReset", "verifyEmail"} /\ n = None
             /\ s = "cutChanges" =>
                  \/ op = "changePassword" /\ n = "insert"
                  \/ op = "resetPassword" /\ n = "forget"
             /\ s = "invalidateResets" => op = "forgotPassword" /\ n = "createReset"
             /\ s = "createReset" =>
                  \/ op = "forgotPassword" /\ n = None
                  \/ op = "resetLink" /\ n = "remember"
             /\ s = "remember" => op \in {"resetLink", "resetPage"} /\ n = None
             /\ s = "lookup" => op = "resetPage" /\ n = "remember"
             /\ s = "claimReset" => op = "resetPassword" /\ n = "readUser"
             /\ s = "forget" => op = "resetPassword" /\ n = None
             /\ s = "replaceChange" => op = "changeEmail" /\ n = None
             /\ s = "invalidateChanges" =>
                  \/ op = "resendVerification" /\ n = "createChange"
                  \/ op = "verifyEmail" /\ n = "select"
             /\ s = "createChange" => op = "resendVerification" /\ n = None
             /\ s = "claimChange" => op = "verifyEmail" /\ n = "readAddress"
             /\ s = "readAddress" => op = "verifyEmail" /\ n = "updateEmail"
             /\ s = "updateEmail" => op = "verifyEmail" /\ n = "invalidateChanges"
<1>0. /\ None \notin Statements /\ None \notin Endpoints
  BY CredentialsAssumption
<1>1. CASE op = "login"
  BY <1>1, <1>0, AfterLogin, SMTT(60) DEF OnPath, Endpoints, Statements, Checks
<1>2. CASE op = "logout"
  BY <1>2, <1>0, AfterLogout, SMTT(60) DEF OnPath, Endpoints, Statements, Checks
<1>3. CASE op = "refreshSession"
  BY <1>3, <1>0, AfterRefreshSession, SMTT(60) DEF OnPath, Endpoints, Statements, Checks
<1>4. CASE op = "refreshToken"
  BY <1>4, <1>0, AfterRefreshToken, SMTT(60) DEF OnPath, Endpoints, Statements, Checks
<1>5. CASE op = "revokeSession"
  BY <1>5, <1>0, AfterRevokeSession, SMTT(60) DEF OnPath, Endpoints, Statements, Checks
<1>6. CASE op = "revokeOthers"
  BY <1>6, <1>0, AfterRevokeOthers, SMTT(60) DEF OnPath, Endpoints, Statements, Checks
<1>7. CASE op = "changePassword"
  BY <1>7, <1>0, AfterChangePassword, SMTT(60) DEF OnPath, Endpoints, Statements, Checks
<1>8. CASE op = "adminReset"
  BY <1>8, <1>0, AfterAdminReset, SMTT(60) DEF OnPath, Endpoints, Statements, Checks
<1>9. CASE op = "forgotPassword"
  BY <1>9, <1>0, AfterForgotPassword, SMTT(60) DEF OnPath, Endpoints, Statements, Checks
<1>10. CASE op = "resetLink"
  BY <1>10, <1>0, AfterResetLink, SMTT(60) DEF OnPath, Endpoints, Statements, Checks
<1>11. CASE op = "resetPage"
  BY <1>11, <1>0, AfterResetPage, SMTT(60) DEF OnPath, Endpoints, Statements, Checks
<1>12. CASE op = "resetPassword"
  BY <1>12, <1>0, AfterResetPassword, SMTT(60) DEF OnPath, Endpoints, Statements, Checks
<1>13. CASE op = "changeEmail"
  BY <1>13, <1>0, AfterChangeEmail, SMTT(60) DEF OnPath, Endpoints, Statements, Checks
<1>14. CASE op = "resendVerification"
  BY <1>14, <1>0, AfterResendVerification, SMTT(60) DEF OnPath, Endpoints, Statements, Checks
<1>15. CASE op = "verifyEmail"
  BY <1>15, <1>0, AfterVerifyEmail, SMTT(60) DEF OnPath, Endpoints, Statements, Checks
<1> QED
  BY <1>1, <1>2, <1>3, <1>4, <1>5, <1>6, <1>7, <1>8,
     <1>9, <1>10, <1>11, <1>12, <1>13, <1>14, <1>15 DEF OnPath

-----------------------------------------------------------------------------
(* Types, what a request has when it waits for a statement, and what still *)
(* depends on replaced credentials.                                        *)

ReqType ==
  [op : Endpoints \cup {None, "other"}, id : Ids, email : Emails \cup {None},
   keep : Emails \cup {None}, at : Statements \cup {None}, got : SUBSET Ids, moved : BOOLEAN,
   proof : Proofs, done : BOOLEAN]

Good == {"current", "raced"}

\* Where a request has proved what it mints a session or a link from: past its checks and, where a
\* password is asked for, past the comparison.
Proven(op, s) ==
  /\ op \in Proving /\ s \notin Checks
  /\ s = "readUser" => op = "resendVerification"

Served(q) ==
  q.at # None =>
    /\ OnPath(q.op, q.at) /\ q.email \in Emails /\ q.done = FALSE
    /\ q.op = "resetPage" => q.id \in Requests
    /\ q.at = "remember" => q.id \in Requests
    /\ q.at = "linked" => q.got = {q.id}
    /\ Proven(q.op, q.at) => q.proof \in Good

TablesType ==
  /\ email \in Emails
  /\ sessions \subseteq Ids /\ resets \subseteq Requests /\ remembered \subseteq Requests
  /\ refresh \in [Ids -> [state : {"none", "live", "revoked"}, session : Ids]]
  /\ changes \in [Ids -> Emails \cup {None}]
  /\ proof \in [Ids -> Proofs]

RequestsType ==
  /\ ops \in Situations
  /\ req \in [Requests -> ReqType]
  /\ \A r \in Requests : Served(req[r]) /\ req[r].op \in ops \cup {None, "other"}

\* A refresh token is linked to the session that was made with it.
Linked == \A i \in Ids : refresh[i].state = "live" => refresh[i].session = i

\* Request r has changed the credentials and will delete session s.
Cuts(r, s) ==
  /\ req[r].op \in {"changePassword", "adminReset", "resetPassword", "verifyEmail"}
  /\ \/ req[r].at \in {"invalidateChanges", "select"}
     \/ req[r].at = "delete" /\ s \in req[r].got

Cutting == \A s \in sessions : proof[s] \in Good \/ \E r \in Requests : Cuts(r, s)

CInv == TablesType /\ RequestsType /\ Linked /\ Cutting

\* A copy of the user's row that is in force has the address on file.
CopiesInv == copies \subseteq Rows /\ \A row \in copies : row.current => row.email = email

-----------------------------------------------------------------------------
(* One step of a request.                                                  *)

\* What is kept of a request that was answered.
LEMMA AnsweredFields ==
  ASSUME NEW q \in ReqType, RequestsType, q.op \in ops
  PROVE  LET n == Answered(q)
         IN  /\ n \in ReqType /\ Served(n) /\ n.at = None /\ n.op \in ops \cup {None, "other"}
             /\ n.done = TRUE
<1>1. /\ None \notin Ids /\ 0 \in Ids /\ Minting \subseteq Endpoints
      /\ "none" \in Proofs /\ {} \subseteq Ids
  BY CredentialsAssumption DEF Ids, Minting, Endpoints, Proofs
<1> DEFINE o == IF q.op \in Minting THEN q.op ELSE "other"
<1>2. o \in Endpoints \cup {None, "other"} /\ o \in ops \cup {None, "other"}
  BY <1>1 DEF ReqType
<1>3. Answered(q) = [Idle EXCEPT !.op = o, !.done = TRUE]
  BY DEF Answered
<1> HIDE DEF o
<1>4. Answered(q) = [op |-> o, id |-> 0, email |-> None, keep |-> None, at |-> None, got |-> {},
                     moved |-> FALSE, proof |-> "none", done |-> TRUE]
  BY <1>3 DEF Idle
<1> QED
  BY <1>1, <1>2, <1>4 DEF ReqType, Served

\* A request that goes on has what the next statement needs, when it has read it.
LEMMA GoesFields ==
  ASSUME NEW q \in ReqType, RequestsType, q.op \in ops, OnPath(q.op, q.at),
         q.email \in Emails, q.done = FALSE,
         q.op = "resetPage" => q.id \in Requests,
         NEW n, n = After(q.op, q.at),
         n = "remember" => q.id \in Requests,
         n = "linked" => q.got = {q.id},
         n # None /\ Proven(q.op, n) => q.proof \in Good
  PROVE  /\ Goes(q) \in ReqType /\ Served(Goes(q)) /\ Goes(q).op \in ops \cup {None, "other"}
         /\ Goes(q).at = n
         /\ n # None => Goes(q) = [q EXCEPT !.at = n]
<1>1. CASE n = None
  BY <1>1, AnsweredFields DEF Goes
<1>2. CASE n # None
  <2>1. Goes(q) = [q EXCEPT !.at = n]
    BY <1>2 DEF Goes, ReqType
  <2>2. OnPath(q.op, n)
    BY <1>2, Turns
  <2>3. n \in Statements
    BY SMTT(60), <2>2, Turns
  <2> DEFINE m == [q EXCEPT !.at = n]
  <2>4. /\ m \in ReqType /\ m.op = q.op /\ m.at = n /\ m.id = q.id /\ m.email = q.email
        /\ m.got = q.got /\ m.proof = q.proof /\ m.done = q.done
    BY <2>3 DEF ReqType
  <2> HIDE DEF m
  <2>5. Served(m)
    BY <1>2, <2>2, <2>4 DEF Served
  <2> QED
    BY <1>2, <2>1, <2>4, <2>5 DEF m
<1> QED
  BY <1>1, <1>2

\* The other requests stay where they are; when credentials are replaced they are marked.
Others(r) ==
  \A x \in Requests \ {r} :
    /\ req'[x].op = req[x].op /\ req'[x].at = req[x].at /\ req'[x].got = req[x].got
    /\ req'[x].id = req[x].id /\ req'[x].keep = req[x].keep /\ req'[x].done = req[x].done
    /\ req'[x].proof \in {req[x].proof, "raced"}

\* Request r is served statement s, and then waits for the next one or is answered.
Turn(r, s) ==
  /\ req[r].at = s /\ OnPath(req[r].op, s) /\ ops' = ops
  /\ Others(r)
  /\ req'[r].at \in {None, After(req[r].op, s)}
  /\ req'[r].at # None => req'[r].op = req[r].op

LEMMA MoveTypes ==
  ASSUME RequestsType, NEW r \in Requests, req[r].at # None, ops' = ops, NEW n \in ReqType,
         Served(n), n.op \in ops \cup {None, "other"},
         req' = [req EXCEPT ![r] = n]
  PROVE  RequestsType' /\ Others(r) /\ req'[r] = n
<1>1. req' \in [Requests -> ReqType] /\ req'[r] = n /\ \A x \in Requests \ {r} : req'[x] = req[x]
  BY DEF RequestsType
<1>2. ASSUME NEW x \in Requests
      PROVE  Served(req'[x]) /\ req'[x].op \in ops' \cup {None, "other"}
  <2>1. CASE x = r
    BY <1>1, <2>1
  <2>2. CASE x # r
    BY <1>1, <2>2 DEF RequestsType
  <2> QED
    BY <2>1, <2>2
<1> QED
  BY <1>1, <1>2 DEF RequestsType, Others

\* What the type invariant says of a request that waits for statement s.
LEMMA Waiting ==
  ASSUME RequestsType, NEW r \in Requests, req[r].at # None
  PROVE  /\ req[r] \in ReqType /\ req[r].op \in ops /\ req[r].op \in Endpoints
         /\ OnPath(req[r].op, req[r].at) /\ Served(req[r])
<1>1. req[r] \in ReqType /\ Served(req[r]) /\ req[r].op \in ops \cup {None, "other"}
  BY DEF RequestsType
<1>2. OnPath(req[r].op, req[r].at)
  BY <1>1 DEF Served
<1>3. req[r].op \in Endpoints
  BY <1>2, Turns
<1>4. req[r].op # None /\ req[r].op # "other"
  BY <1>3, CredentialsAssumption DEF Endpoints
<1> QED
  BY <1>1, <1>2, <1>3, <1>4

LEMMA ProceedMoves ==
  ASSUME RequestsType, NEW r \in Requests, req[r].at # None, ops' = ops,
         NEW q \in ReqType, q.op = req[r].op, q.at = req[r].at, q.email \in Emails, q.done = FALSE,
         q.op = "resetPage" => q.id \in Requests,
         After(q.op, q.at) = "remember" => q.id \in Requests,
         After(q.op, q.at) = "linked" => q.got = {q.id},
         After(q.op, q.at) # None /\ Proven(q.op, After(q.op, q.at)) => q.proof \in Good,
         Proceed(r, q)
  PROVE  /\ RequestsType' /\ Turn(r, req[r].at) /\ req'[r] = Goes(q)
         /\ req'[r].at = After(q.op, q.at)
<1> DEFINE n == After(q.op, q.at)
<1> HIDE DEF n
<1>1. OnPath(q.op, q.at) /\ q.op \in ops
  BY Waiting
<1>2. /\ Goes(q) \in ReqType /\ Served(Goes(q)) /\ Goes(q).op \in ops \cup {None, "other"}
      /\ Goes(q).at = n
      /\ n # None => Goes(q) = [q EXCEPT !.at = n]
  BY <1>1, GoesFields DEF n
<1>3. req' = [req EXCEPT ![r] = Goes(q)]
  BY DEF Proceed
<1> DEFINE g == Goes(q)
<1>4. RequestsType' /\ Others(r) /\ req'[r] = g
  <2> HIDE DEF g
  <2>1. /\ g \in ReqType /\ Served(g) /\ g.op \in ops \cup {None, "other"}
        /\ req' = [req EXCEPT ![r] = g]
    BY <1>2, <1>3 DEF g
  <2> QED
    BY <2>1, MoveTypes
<1>5. n # None => req'[r].op = req[r].op
  <2>1. ASSUME n # None PROVE req'[r].op = req[r].op
    <3>1. req'[r] = [q EXCEPT !.at = n]
      BY <1>2, <1>4, <2>1
    <3> QED
      BY <3>1 DEF ReqType
  <2> QED
    BY <2>1
<1> QED
  BY <1>1, <1>2, <1>4, <1>5 DEF Turn, n

LEMMA RefuseMoves ==
  ASSUME RequestsType, NEW r \in Requests, req[r].at # None, ops' = ops, Refuse(r)
  PROVE  RequestsType' /\ Turn(r, req[r].at) /\ req'[r].at = None
<1> DEFINE g == Answered(req[r])
<1>1. req[r] \in ReqType /\ req[r].op \in ops /\ OnPath(req[r].op, req[r].at)
  BY Waiting
<1>2. g \in ReqType /\ Served(g) /\ g.at = None /\ g.op \in ops \cup {None, "other"}
  BY <1>1, AnsweredFields
<1>3. req' = [req EXCEPT ![r] = g]
  BY DEF Refuse
<1>4. RequestsType' /\ Others(r) /\ req'[r] = g
  <2> HIDE DEF g
  <2> QED
    BY <1>2, <1>3, MoveTypes
<1> QED
  BY <1>1, <1>2, <1>4 DEF Turn

\* A request that only goes on, to a statement that needs nothing it has to read now.
LEMMA GoesOn ==
  ASSUME RequestsType, NEW r \in Requests, NEW s, req[r].at = s, s # None, ops' = ops,
         After(req[r].op, s) # "linked",
         After(req[r].op, s) = "remember" => req[r].id \in Requests,
         s \notin Checks /\ s # "readUser",
         Proceed(r, req[r])
  PROVE  RequestsType' /\ Turn(r, s) /\ req'[r].at = After(req[r].op, s)
<1> DEFINE n == After(req[r].op, s)
<1>1. req[r] \in ReqType /\ OnPath(req[r].op, s) /\ Served(req[r])
  BY Waiting
<1>2. n # None /\ Proven(req[r].op, n) => req[r].proof \in Good
  BY <1>1 DEF Served, Proven
<1>3. /\ req[r].email \in Emails /\ req[r].done = FALSE
      /\ req[r].op = "resetPage" => req[r].id \in Requests
  BY <1>1 DEF Served
<1>4. req[r].at # None
  OBVIOUS
<1> QED
  BY <1>1, <1>2, <1>3, <1>4, ProceedMoves

\* What is left of a change is still to be cut when another statement is served.
LEMMA CutKept ==
  ASSUME CInv, NEW r \in Requests, NEW s, Turn(r, s),
         \/ s \notin {"invalidateChanges", "select", "delete"}
         \/ req[r].op \notin {"changePassword", "adminReset", "resetPassword", "verifyEmail"},
         \A i \in sessions' : proof'[i] \in Good \/ (i \in sessions /\ proof'[i] = proof[i])
  PROVE  Cutting'
<1> SUFFICES ASSUME NEW i \in sessions', proof'[i] \notin Good
             PROVE  \E x \in Requests : Cuts(x, i)'
  BY DEF Cutting
<1>1. i \in sessions /\ proof[i] \notin Good
  OBVIOUS
<1>2. PICK x \in Requests : Cuts(x, i)
  BY <1>1 DEF CInv, Cutting
<1>3. x # r
  BY <1>2 DEF Cuts, Turn
<1>4. req'[x].op = req[x].op /\ req'[x].at = req[x].at /\ req'[x].got = req[x].got
  BY <1>3 DEF Turn, Others
<1>5. Cuts(x, i)'
  BY <1>2, <1>4 DEF Cuts
<1> QED
  BY <1>5

\* What is proved with a session that is there, while nothing is left to cut: it is one of the
\* credentials in force, or has raced with their change.
LEMMA PresentedIsGood ==
  ASSUME CInv, NEW i \in sessions
  PROVE  Presented(i) \in Good
<1>1. CASE Settled
  <2>1. proof[i] \in Good \/ \E r \in Requests : Cuts(r, i)
    BY DEF CInv, Cutting
  <2>2. ASSUME NEW r \in Requests, Cuts(r, i)
        PROVE  FALSE
    BY <1>1, <2>2 DEF Cuts, Settled, Changing
  <2> QED
    BY <1>1, <2>1, <2>2 DEF Presented
<1>2. CASE ~Settled
  BY <1>2 DEF Presented, Good
<1> QED
  BY <1>1, <1>2

\* A statement that leaves the tables alone.
LEMMA ReadMoves ==
  ASSUME CInv, NEW r \in Requests, NEW s, RequestsType', Turn(r, s), UNCHANGED tables,
         \/ s \notin {"invalidateChanges", "select", "delete"}
         \/ req[r].op \notin {"changePassword", "adminReset", "resetPassword", "verifyEmail"}
  PROVE  CInv'
<1>1. TablesType' /\ Linked'
  BY DEF CInv, TablesType, Linked, tables
<1>2. \A i \in sessions' : proof'[i] \in Good \/ (i \in sessions /\ proof'[i] = proof[i])
  BY DEF tables
<1>3. Cutting'
  BY <1>2, CutKept
<1> QED
  BY <1>1, <1>3 DEF CInv

LEMMA authMoves ==
  ASSUME CInv, ops' = ops, NEW r \in Requests, auth(r)
  PROVE  CInv' /\ Turn(r, "auth")
<1>0. RequestsType /\ req[r].at = "auth" /\ req[r].at # None
  BY CredentialsAssumption DEF CInv, auth, At, Statements, Checks
<1> DEFINE n == After(req[r].op, "auth")
<1>1. /\ req[r] \in ReqType /\ OnPath(req[r].op, "auth") /\ Served(req[r])
  BY <1>0, Waiting
<1>2. /\ n \in {"deleteSession", "select", "readUser"}
      /\ n = "select" => req[r].op = "revokeOthers"
  BY <1>1, Turns
<1>3. RequestsType' /\ Turn(r, "auth")
  <2>1. CASE req[r].id \in sessions
    <3> DEFINE p == IF req[r].op \in Proving THEN Presented(req[r].id) ELSE req[r].proof
    <3> DEFINE q == [req[r] EXCEPT !.proof = p]
    <3>1. Presented(req[r].id) \in Good
      BY <2>1, PresentedIsGood
    <3>2. p \in Proofs /\ (req[r].op \in Proving => p \in Good)
      BY <1>1, <3>1 DEF ReqType, Good, Proofs
    <3>3. Proceed(r, q)
      BY <1>0, <2>1 DEF auth
    <3> HIDE DEF p
    <3>4. /\ q \in ReqType /\ q.op = req[r].op /\ q.at = req[r].at /\ q.email = req[r].email
          /\ q.done = req[r].done /\ q.id = req[r].id /\ q.proof = p
      BY <1>1, <3>2 DEF ReqType
    <3> HIDE DEF q
    <3>5. /\ q.email \in Emails /\ q.done = FALSE
          /\ (q.op = "resetPage" => q.id \in Requests)
      BY <1>0, <1>1, <3>4 DEF Served
    <3>6. q.op \in Proving => q.proof \in Good
      BY <3>2, <3>4
    <3>7. /\ After(q.op, q.at) # "remember" /\ After(q.op, q.at) # "linked"
          /\ (Proven(q.op, After(q.op, q.at)) => q.proof \in Good)
      BY <1>0, <1>2, <3>4, <3>6 DEF Proven
    <3>8. RequestsType' /\ Turn(r, req[r].at)
      BY <1>0, <3>3, <3>4, <3>5, <3>7, ProceedMoves
    <3> QED
      BY <1>0, <3>8
  <2>2. CASE req[r].id \notin sessions
    <3>1. Refuse(r)
      BY <2>2 DEF auth
    <3> QED
      BY <1>0, <3>1, RefuseMoves
  <2> QED
    BY <2>1, <2>2
<1>4. UNCHANGED tables
  BY DEF auth
<1> QED
  BY <1>3, <1>4, ReadMoves

LEMMA readUserMoves ==
  ASSUME CInv, CopiesInv, ops' = ops, NEW r \in Requests, readUser(r)
  PROVE  /\ CInv' /\ Turn(r, "readUser")
         /\ req'[r].proof = "current" => req'[r].keep = email
<1>0. RequestsType /\ req[r].at = "readUser" /\ req[r].at # None /\ email \in Emails
  BY CredentialsAssumption DEF CInv, TablesType, readUser, At, Statements
<1>a. PICK row \in UserRows(req[r].op) :
        Proceed(r, [req[r] EXCEPT !.keep = row.email,
                                  !.proof = Shown(req[r].op, req[r].proof, row)])
  BY DEF readUser
<1>b. row.email \in Emails /\ row.current \in BOOLEAN /\ (row.current => row.email = email)
  <2>1. Row.email = email /\ Row.current = TRUE
    BY DEF Row
  <2>2. row = Row \/ row \in copies
    BY DEF UserRows
  <2> QED
    BY <1>0, <2>1, <2>2 DEF CopiesInv, Rows
<1> DEFINE n == After(req[r].op, "readUser")
<1>1. /\ req[r] \in ReqType /\ OnPath(req[r].op, "readUser") /\ Served(req[r])
  BY <1>0, Waiting
<1>2. /\ n \in {"insert", "update", "replaceChange", "invalidateChanges"}
      /\ req[r].op \in {"login", "changePassword", "resetPassword", "changeEmail",
                        "resendVerification"}
  BY <1>1, Turns
<1> DEFINE p == Shown(req[r].op, req[r].proof, row)
<1> DEFINE q == [req[r] EXCEPT !.keep = row.email, !.proof = p]
<1>3. /\ p \in Proofs
      /\ req[r].op \in Proving => p \in Good
      /\ p = "current" => row.email = email
  BY <1>0, <1>1, <1>2, <1>b DEF ReqType, Good, Proofs, Proving, Served, Proven, Checks, Shown
<1>4. Proceed(r, q)
  BY <1>a
<1> HIDE DEF p
<1>5. /\ q \in ReqType /\ q.op = req[r].op /\ q.at = req[r].at /\ q.email = req[r].email
      /\ q.done = req[r].done /\ q.id = req[r].id /\ q.proof = p /\ q.keep = row.email
  BY <1>0, <1>1, <1>3, <1>b DEF ReqType
<1> HIDE DEF q
<1>6. /\ q.email \in Emails /\ q.done = FALSE
      /\ (q.op = "resetPage" => q.id \in Requests)
  BY <1>0, <1>1, <1>5 DEF Served
<1>7. /\ After(q.op, q.at) # "remember" /\ After(q.op, q.at) # "linked"
      /\ (Proven(q.op, After(q.op, q.at)) => q.proof \in Good)
  BY <1>0, <1>2, <1>3, <1>5 DEF Proven
<1>8. RequestsType' /\ Turn(r, "readUser") /\ req'[r] = Goes(q)
  BY <1>0, <1>4, <1>5, <1>6, <1>7, ProceedMoves
<1>9. UNCHANGED tables
  BY DEF readUser
<1>10. After(q.op, q.at) # None
  BY <1>0, <1>2, <1>5, CredentialsAssumption DEF Statements
<1>11. req'[r].keep = row.email /\ req'[r].proof = p
  BY <1>5, <1>8, <1>10 DEF Goes, ReqType
<1> QED
  BY <1>0, <1>1, <1>3, <1>8, <1>9, <1>11, ReadMoves

\* A request that has passed its checks and goes on with something it has read.
LEMMA PassedOn ==
  ASSUME RequestsType, NEW r \in Requests, req[r].at # None, ops' = ops,
         NEW q \in ReqType, q.op = req[r].op, q.at = req[r].at, q.email = req[r].email,
         q.done = req[r].done, q.proof = req[r].proof, q.id = req[r].id \/ q.id \in Requests,
         After(q.op, q.at) = "remember" => q.id \in Requests,
         After(q.op, q.at) # "linked",
         q.at \notin Checks, q.at # "readUser",
         Proceed(r, q)
  PROVE  /\ RequestsType' /\ Turn(r, req[r].at) /\ req'[r] = Goes(q)
         /\ req'[r].at = After(q.op, q.at)
<1>1. Served(req[r])
  BY Waiting
<1>2. /\ q.email \in Emails /\ q.done = FALSE
      /\ (q.op = "resetPage" => q.id \in Requests)
  BY <1>1 DEF Served
<1>3. Proven(q.op, After(q.op, q.at)) => q.proof \in Good
  BY <1>1 DEF Served, Proven
<1> QED
  BY <1>2, <1>3, ProceedMoves

LEMMA insertMoves ==
  ASSUME CInv, ops' = ops, NEW r \in Requests, insertSession(r)
  PROVE  /\ CInv' /\ Turn(r, "insert") /\ UNCHANGED sessions
         /\ req'[r].at = "commit" /\ req'[r].got = sessions
<1>0. RequestsType /\ req[r].at = "insert" /\ req[r].at # None /\ sessions \subseteq Ids
  BY CredentialsAssumption DEF CInv, TablesType, insertSession, At, Statements
<1>1. req[r] \in ReqType /\ OnPath(req[r].op, "insert") /\ Served(req[r])
  BY <1>0, Waiting
<1>2. After(req[r].op, "insert") = "commit" /\ "commit" # None
  BY <1>1, Turns, CredentialsAssumption DEF Statements
<1> DEFINE q == [req[r] EXCEPT !.got = sessions]
<1>3. Proceed(r, q)
  BY DEF insertSession
<1>4. /\ q \in ReqType /\ q.op = req[r].op /\ q.at = req[r].at /\ q.email = req[r].email
      /\ q.done = req[r].done /\ q.id = req[r].id /\ q.proof = req[r].proof /\ q.got = sessions
  BY <1>0, <1>1 DEF ReqType
<1> HIDE DEF q
<1>5. After(q.op, q.at) = "commit" /\ q.at \notin Checks
  BY <1>0, <1>2, <1>4 DEF Checks
<1>6. RequestsType' /\ Turn(r, req[r].at) /\ req'[r] = Goes(q)
  BY <1>0, <1>3, <1>4, <1>5, PassedOn
<1>7. req'[r].at = "commit" /\ req'[r].got = sessions
  BY <1>2, <1>4, <1>5, <1>6 DEF Goes, ReqType
<1>8. UNCHANGED tables
  BY DEF insertSession
<1>9. CInv'
  <2>1. Turn(r, "insert")
    BY <1>0, <1>6
  <2> QED
    BY <1>6, <1>8, <2>1, ReadMoves
<1> QED
  BY <1>0, <1>6, <1>7, <1>8, <1>9 DEF tables

LEMMA EvictionsAreSessions ==
  ASSUME NEW r \in Requests, NEW gone \in Evictions(r), sessions \subseteq Ids
  PROVE  gone \subseteq req[r].got \cap sessions
BY DEF Evictions, kSubset

LEMMA commitMoves ==
  ASSUME CInv, ops' = ops, NEW r \in Requests, commitSession(r)
  PROVE  CInv' /\ Turn(r, "commit") /\ req'[r].at # "commit"
<1>0. /\ RequestsType /\ TablesType /\ req[r].at = "commit" /\ req[r].at # None
      /\ sessions \subseteq Ids /\ r \in Ids
  BY CredentialsAssumption DEF CInv, TablesType, commitSession, At, Statements, Requests, Ids
<1>1. req[r] \in ReqType /\ OnPath(req[r].op, "commit") /\ Served(req[r])
  BY <1>0, Waiting
<1>2. /\ After(req[r].op, "commit") \in {None, "issue", "rotate"} /\ None # "commit"
      /\ req[r].op \in {"login", "refreshSession", "refreshToken", "changePassword"}
  BY <1>1, Turns, CredentialsAssumption DEF Statements
<1> DEFINE q == [req[r] EXCEPT !.got = {}]
<1>3. Proceed(r, q)
  BY DEF commitSession
<1>4. /\ q \in ReqType /\ q.op = req[r].op /\ q.at = req[r].at /\ q.email = req[r].email
      /\ q.done = req[r].done /\ q.id = req[r].id /\ q.proof = req[r].proof
  BY <1>0, <1>1 DEF ReqType
<1> HIDE DEF q
<1>5. /\ After(q.op, q.at) # "remember" /\ After(q.op, q.at) # "linked" /\ q.at \notin Checks
  BY <1>0, <1>2, <1>4, CredentialsAssumption DEF Checks, Statements
<1>6. RequestsType' /\ Turn(r, req[r].at) /\ req'[r].at = After(q.op, q.at)
  BY <1>0, <1>3, <1>4, <1>5, PassedOn
<1>7. req[r].proof \in Good /\ req[r].proof \in Proofs
  BY <1>0, <1>1, <1>2 DEF Served, Proven, Proving, Checks, ReqType
<1>8. PICK gone \in Evictions(r) : sessions' = (sessions \ gone) \cup {r}
  BY DEF commitSession
<1>9. proof' = [proof EXCEPT ![r] = req[r].proof]
  BY DEF commitSession
<1>10. TablesType'
  BY <1>0, <1>7, <1>8, <1>9 DEF TablesType, commitSession
<1>11. Linked'
  BY DEF CInv, Linked, commitSession
<1>12. Cutting'
  <2>1. \A i \in sessions' : proof'[i] \in Good \/ (i \in sessions /\ proof'[i] = proof[i])
    BY <1>0, <1>7, <1>8, <1>9 DEF TablesType
  <2>2. Turn(r, "commit")
    BY <1>0, <1>6
  <2> QED
    BY <2>1, <2>2, CutKept
<1>13. req'[r].at # "commit"
  BY <1>0, <1>2, <1>4, <1>6
<1> QED
  BY <1>0, <1>6, <1>10, <1>11, <1>12, <1>13 DEF CInv

LEMMA deleteSessionMoves ==
  ASSUME CInv, ops' = ops, NEW r \in Requests, deleteUserSession(r)
  PROVE  CInv' /\ Turn(r, "deleteSession") /\ sessions' \subseteq sessions
<1>0. RequestsType /\ req[r].at = "deleteSession" /\ "deleteSession" # None
  BY CredentialsAssumption DEF CInv, deleteUserSession, At, Statements
<1>1. OnPath(req[r].op, "deleteSession")
  BY <1>0, Waiting
<1>2. After(req[r].op, "deleteSession") \in {None, "insert"}
  BY <1>1, Turns
<1>3. Proceed(r, req[r])
  BY DEF deleteUserSession
<1>4. RequestsType' /\ Turn(r, "deleteSession")
  BY <1>0, <1>2, <1>3, GoesOn, CredentialsAssumption DEF Checks, Statements
<1>5. sessions' \subseteq sessions
  BY DEF deleteUserSession
<1>6. TablesType' /\ Linked'
  BY <1>5 DEF CInv, TablesType, Linked, deleteUserSession
<1>7. Cutting'
  <2>1. \A i \in sessions' : proof'[i] \in Good \/ (i \in sessions /\ proof'[i] = proof[i])
    BY <1>5 DEF deleteUserSession
  <2> QED
    BY <1>4, <2>1, CutKept
<1> QED
  BY <1>4, <1>5, <1>6, <1>7 DEF CInv

LEMMA notFoundMoves ==
  ASSUME CInv, ops' = ops, NEW r \in Requests, notFound(r)
  PROVE  CInv' /\ Turn(r, "deleteSession")
<1>0. RequestsType /\ req[r].at = "deleteSession" /\ req[r].at # None
  BY CredentialsAssumption DEF CInv, notFound, At, Statements
<1>1. RequestsType' /\ Turn(r, "deleteSession")
  BY <1>0, RefuseMoves DEF notFound
<1>2. UNCHANGED tables
  BY DEF notFound
<1> QED
  BY <1>1, <1>2, ReadMoves

LEMMA selectMoves ==
  ASSUME CInv, ops' = ops, NEW r \in Requests, selectSessions(r)
  PROVE  CInv' /\ Turn(r, "select") /\ UNCHANGED sessions /\ req'[r].at = "delete"
<1>0. RequestsType /\ req[r].at = "select" /\ req[r].at # None /\ sessions \subseteq Ids
  BY CredentialsAssumption DEF CInv, TablesType, selectSessions, At, Statements
<1>1. req[r] \in ReqType /\ OnPath(req[r].op, "select") /\ Served(req[r])
  BY <1>0, Waiting
<1>2. /\ After(req[r].op, "select") = "delete" /\ "delete" # None
      /\ req[r].op \in {"revokeOthers", "changePassword", "adminReset", "resetPassword",
                        "verifyEmail"}
  BY <1>1, Turns, CredentialsAssumption DEF Statements
<1> DEFINE g == IF req[r].op = "revokeOthers" THEN sessions \ {req[r].id} ELSE sessions
<1> DEFINE q == [req[r] EXCEPT !.got = g]
<1>3. Proceed(r, q)
  BY DEF selectSessions
<1>4. g \subseteq Ids
  BY <1>0
<1>5. req[r].op # "revokeOthers" => g = sessions
  OBVIOUS
<1> HIDE DEF g
<1>6. /\ q \in ReqType /\ q.op = req[r].op /\ q.at = req[r].at /\ q.email = req[r].email
      /\ q.done = req[r].done /\ q.id = req[r].id /\ q.proof = req[r].proof /\ q.got = g
  BY <1>0, <1>1, <1>4 DEF ReqType
<1> HIDE DEF q
<1>7. After(q.op, q.at) = "delete" /\ q.at \notin Checks
  BY <1>0, <1>2, <1>6 DEF Checks
<1>8. RequestsType' /\ Turn(r, req[r].at) /\ req'[r] = Goes(q)
  BY <1>0, <1>3, <1>6, <1>7, PassedOn
<1>9. req'[r].at = "delete" /\ req'[r].got = g /\ req'[r].op = req[r].op
  BY <1>2, <1>6, <1>7, <1>8 DEF Goes, ReqType
<1>10. UNCHANGED tables
  BY DEF selectSessions
<1>11. Turn(r, "select")
  BY <1>0, <1>8
<1>12. CInv'
  <2>1. CASE req[r].op = "revokeOthers"
    BY <1>8, <1>10, <1>11, <2>1, ReadMoves
  <2>2. CASE req[r].op # "revokeOthers"
    <3>1. \A i \in sessions : Cuts(r, i)'
      BY <1>2, <1>5, <1>9, <2>2 DEF Cuts
    <3>2. Cutting'
      BY <1>10, <3>1 DEF Cutting, tables
    <3>3. TablesType' /\ Linked'
      BY <1>10 DEF CInv, TablesType, Linked, tables
    <3> QED
      BY <1>8, <3>2, <3>3 DEF CInv
  <2> QED
    BY <2>1, <2>2
<1> QED
  BY <1>9, <1>10, <1>11, <1>12 DEF tables

LEMMA deleteSessionsMoves ==
  ASSUME CInv, ops' = ops, NEW r \in Requests, deleteUserSessions(r)
  PROVE  /\ CInv' /\ Turn(r, "delete") /\ sessions' \subseteq sessions
         /\ req'[r].at = After(req[r].op, "delete")
<1>0. RequestsType /\ req[r].at = "delete" /\ req[r].at # None /\ sessions \subseteq Ids
  BY CredentialsAssumption DEF CInv, TablesType, deleteUserSessions, At, Statements
<1>1. req[r] \in ReqType /\ OnPath(req[r].op, "delete")
  BY <1>0, Waiting
<1>2. After(req[r].op, "delete") \in {None, "revokeAll"}
  BY <1>1, Turns
<1> DEFINE q == [req[r] EXCEPT !.got = {}]
<1>3. Proceed(r, q)
  BY DEF deleteUserSessions
<1>4. /\ q \in ReqType /\ q.op = req[r].op /\ q.at = req[r].at /\ q.email = req[r].email
      /\ q.done = req[r].done /\ q.id = req[r].id /\ q.proof = req[r].proof
  BY <1>0, <1>1 DEF ReqType
<1> HIDE DEF q
<1>5. After(q.op, q.at) # "remember" /\ After(q.op, q.at) # "linked" /\ q.at \notin Checks
  BY <1>0, <1>2, <1>4, CredentialsAssumption DEF Checks, Statements
<1>6. RequestsType' /\ Turn(r, req[r].at) /\ req'[r].at = After(q.op, q.at)
  BY <1>0, <1>3, <1>4, <1>5, PassedOn
<1>7. sessions' = sessions \ req[r].got /\ proof' = proof
  BY DEF deleteUserSessions
<1>8. TablesType' /\ Linked'
  BY <1>7 DEF CInv, TablesType, Linked, deleteUserSessions
<1>9. Cutting'
  <2> SUFFICES ASSUME NEW i \in sessions', proof'[i] \notin Good
               PROVE  \E x \in Requests : Cuts(x, i)'
    BY DEF Cutting
  <2>1. i \in sessions /\ i \notin req[r].got /\ proof[i] \notin Good
    BY <1>7
  <2>2. PICK x \in Requests : Cuts(x, i)
    BY <2>1 DEF CInv, Cutting
  <2>3. x # r
    BY <1>0, <2>1, <2>2 DEF Cuts
  <2>4. req'[x].op = req[x].op /\ req'[x].at = req[x].at /\ req'[x].got = req[x].got
    BY <1>6, <2>3 DEF Turn, Others
  <2>5. Cuts(x, i)'
    BY <2>2, <2>4 DEF Cuts
  <2> QED
    BY <2>5
<1> QED
  BY <1>0, <1>4, <1>6, <1>7, <1>8, <1>9 DEF CInv

-----------------------------------------------------------------------------
(* Refresh tokens.                                                         *)

RefreshType == [Ids -> [state : {"none", "live", "revoked"}, session : Ids]]

\* A statement that changes refresh tokens only.
LEMMA TokenMoves ==
  ASSUME CInv, NEW r \in Requests, NEW s, RequestsType', Turn(r, s),
         s \notin {"invalidateChanges", "select", "delete"},
         refresh' \in RefreshType, Linked',
         UNCHANGED <<email, sessions, resets, remembered, changes, proof>>
  PROVE  CInv'
<1>1. TablesType'
  BY DEF CInv, TablesType, RefreshType
<1>2. Cutting'
  <2>1. \A i \in sessions' : proof'[i] \in Good \/ (i \in sessions /\ proof'[i] = proof[i])
    OBVIOUS
  <2> QED
    BY <2>1, CutKept
<1> QED
  BY <1>1, <1>2 DEF CInv

\* Rows that go, are revoked, or are minted by a request with its own session.
LEMMA TokensLinked ==
  ASSUME refresh \in RefreshType, Linked, refresh' \in RefreshType,
         \A i \in Ids : \/ refresh'[i] = refresh[i] \/ refresh'[i].state # "live"
                        \/ refresh'[i].session = i
  PROVE  Linked'
BY DEF Linked, RefreshType

LEMMA NoTokenType == NoToken \in [state : {"none", "live", "revoked"}, session : Ids]
                     /\ NoToken.state = "none"
BY CredentialsAssumption DEF NoToken, Ids

LEMMA issueMoves ==
  ASSUME CInv, ops' = ops, NEW r \in Requests, issueRefreshToken(r)
  PROVE  CInv' /\ Turn(r, "issue") /\ UNCHANGED sessions
<1>0. /\ RequestsType /\ req[r].at = "issue" /\ "issue" # None /\ refresh \in RefreshType /\ Linked
      /\ r \in Ids
  BY CredentialsAssumption
     DEF CInv, TablesType, RefreshType, issueRefreshToken, At, Statements, Requests, Ids
<1>1. OnPath(req[r].op, "issue")
  BY <1>0, Waiting
<1>2. After(req[r].op, "issue") = None
  BY <1>1, Turns
<1>3. RequestsType' /\ Turn(r, "issue")
  BY <1>0, <1>2, GoesOn, CredentialsAssumption DEF Checks, Statements, issueRefreshToken
<1> DEFINE row == [state |-> "live", session |-> r]
<1>4. row \in [state : {"none", "live", "revoked"}, session : Ids] /\ row.session = r
  BY <1>0
<1>5. refresh' = [refresh EXCEPT ![r] = row]
  BY DEF issueRefreshToken
<1> HIDE DEF row
<1>6. /\ refresh' \in RefreshType
      /\ \A i \in Ids : refresh'[i] = refresh[i] \/ refresh'[i].session = i
  BY <1>0, <1>4, <1>5 DEF RefreshType
<1>7. Linked'
  BY <1>0, <1>6, TokensLinked
<1> QED
  BY <1>3, <1>6, <1>7, TokenMoves DEF issueRefreshToken

LEMMA validateMoves ==
  ASSUME CInv, ops' = ops, NEW r \in Requests, validateToken(r)
  PROVE  CInv' /\ Turn(r, "validate") /\ UNCHANGED sessions
<1>0. /\ RequestsType /\ req[r].at = "validate" /\ req[r].at # None
      /\ refresh \in RefreshType /\ Linked
  BY CredentialsAssumption DEF CInv, TablesType, RefreshType, validateToken, At, Statements, Checks
<1>1. /\ req[r] \in ReqType /\ OnPath(req[r].op, "validate") /\ Served(req[r]) /\ req[r].id \in Ids
  BY <1>0, Waiting DEF ReqType
<1>2. After(req[r].op, "validate") = "linked" /\ req[r].op = "refreshToken"
  BY <1>1, Turns
<1> DEFINE i == req[r].id
<1>3. CASE refresh[i].state = "live"
  <2>1. refresh[i].session = i
    BY <1>0, <1>1, <1>3 DEF Linked
  <2> DEFINE q == [req[r] EXCEPT !.got = {i}]
  <2>2. Proceed(r, q) /\ refresh' = refresh
    BY <1>3, <2>1 DEF validateToken
  <2>3. /\ q \in ReqType /\ q.op = req[r].op /\ q.at = req[r].at /\ q.email = req[r].email
        /\ q.done = req[r].done /\ q.id = req[r].id /\ q.got = {q.id}
    BY <1>0, <1>1 DEF ReqType
  <2> HIDE DEF q
  <2>4. /\ q.email \in Emails /\ q.done = FALSE
        /\ (q.op = "resetPage" => q.id \in Requests)
    BY <1>0, <1>1, <2>3 DEF Served
  <2>5. /\ After(q.op, q.at) = "linked"
        /\ ~Proven(q.op, "linked")
    BY <1>0, <1>2, <2>3 DEF Proven, Checks
  <2>6. RequestsType' /\ Turn(r, "validate")
    BY <1>0, <2>2, <2>3, <2>4, <2>5, ProceedMoves
  <2>7. UNCHANGED tables
    BY <2>2 DEF validateToken, tables
  <2> QED
    BY <2>6, <2>7, ReadMoves DEF tables
<1>4. CASE refresh[i].state # "live"
  <2>1. Refuse(r) /\ refresh' = [refresh EXCEPT ![i] = NoToken]
    BY <1>4 DEF validateToken
  <2>2. RequestsType' /\ Turn(r, "validate")
    BY <1>0, <2>1, RefuseMoves
  <2>3. /\ refresh' \in RefreshType
        /\ \A j \in Ids : refresh'[j] = refresh[j] \/ refresh'[j].state # "live"
    BY <1>0, <1>1, <2>1, NoTokenType DEF RefreshType
  <2>4. Linked'
    BY <1>0, <2>3, TokensLinked
  <2> QED
    BY <2>2, <2>3, <2>4, TokenMoves DEF validateToken
<1> QED
  BY <1>3, <1>4

LEMMA linkedMoves ==
  ASSUME CInv, ops' = ops, NEW r \in Requests, validateLinked(r)
  PROVE  CInv' /\ Turn(r, "linked") /\ UNCHANGED sessions
<1>0. /\ RequestsType /\ req[r].at = "linked" /\ req[r].at # None
      /\ refresh \in RefreshType /\ Linked
  BY CredentialsAssumption DEF CInv, TablesType, RefreshType, validateLinked, At, Statements, Checks
<1>1. /\ req[r] \in ReqType /\ OnPath(req[r].op, "linked") /\ Served(req[r]) /\ req[r].id \in Ids
  BY <1>0, Waiting DEF ReqType
<1>2. After(req[r].op, "linked") = "insert" /\ req[r].op = "refreshToken"
  BY <1>1, Turns
<1> DEFINE i == req[r].id
<1>3. CASE req[r].got \subseteq sessions
  <2>1. req[r].got = {i} /\ i \in sessions
    BY <1>0, <1>1, <1>3 DEF Served
  <2> DEFINE p == Presented(i)
  <2>2. p \in Good /\ p \in Proofs
    BY <2>1, PresentedIsGood DEF Good, Proofs
  <2> DEFINE q == [req[r] EXCEPT !.proof = p, !.got = {}]
  <2>3. Proceed(r, q) /\ refresh' = refresh
    BY <1>3 DEF validateLinked
  <2> HIDE DEF p
  <2>4. /\ q \in ReqType /\ q.op = req[r].op /\ q.at = req[r].at /\ q.email = req[r].email
        /\ q.done = req[r].done /\ q.id = req[r].id /\ q.proof \in Good
    BY <1>0, <1>1, <2>2 DEF ReqType
  <2> HIDE DEF q
  <2>5. /\ q.email \in Emails /\ q.done = FALSE
        /\ (q.op = "resetPage" => q.id \in Requests)
    BY <1>0, <1>1, <2>4 DEF Served
  <2>6. After(q.op, q.at) = "insert"
    BY <1>0, <1>2, <2>4
  <2>7. RequestsType' /\ Turn(r, "linked")
    BY <1>0, <2>3, <2>4, <2>5, <2>6, ProceedMoves
  <2>8. UNCHANGED tables
    BY <2>3 DEF validateLinked, tables
  <2> QED
    BY <2>7, <2>8, ReadMoves DEF tables
<1>4. CASE ~(req[r].got \subseteq sessions)
  <2>1. Refuse(r) /\ refresh' = [refresh EXCEPT ![i] = NoToken]
    BY <1>4 DEF validateLinked
  <2>2. RequestsType' /\ Turn(r, "linked")
    BY <1>0, <2>1, RefuseMoves
  <2>3. /\ refresh' \in RefreshType
        /\ \A j \in Ids : refresh'[j] = refresh[j] \/ refresh'[j].state # "live"
    BY <1>0, <1>1, <2>1, NoTokenType DEF RefreshType
  <2>4. Linked'
    BY <1>0, <2>3, TokensLinked
  <2> QED
    BY <2>2, <2>3, <2>4, TokenMoves DEF validateLinked
<1> QED
  BY <1>3, <1>4

LEMMA rotateMoves ==
  ASSUME CInv, ops' = ops, NEW r \in Requests, rotate(r)
  PROVE  CInv' /\ Turn(r, "rotate") /\ UNCHANGED sessions
<1>0. /\ RequestsType /\ req[r].at = "rotate" /\ "rotate" # None
      /\ refresh \in RefreshType /\ Linked
      /\ r \in Ids
  BY CredentialsAssumption
     DEF CInv, TablesType, RefreshType, rotate, At, Statements, Requests, Ids
<1>1. OnPath(req[r].op, "rotate") /\ req[r].id \in Ids
  BY <1>0, Waiting DEF ReqType
<1>2. After(req[r].op, "rotate") = None
  BY <1>1, Turns
<1>3. RequestsType' /\ Turn(r, "rotate")
  BY <1>0, <1>2, GoesOn, CredentialsAssumption DEF Checks, Statements, rotate
<1>4. /\ refresh' \in RefreshType
      /\ \A i \in Ids : \/ refresh'[i] = refresh[i] \/ refresh'[i].state # "live"
                        \/ refresh'[i].session = i
  <2> DEFINE i == req[r].id
  <2> DEFINE row == [state |-> "live", session |-> r]
  <2> DEFINE old == [refresh[i] EXCEPT !.state = "revoked"]
  <2>1. /\ row \in [state : {"none", "live", "revoked"}, session : Ids] /\ row.session = r
        /\ old \in [state : {"none", "live", "revoked"}, session : Ids] /\ old.state = "revoked"
    BY <1>0, <1>1 DEF RefreshType
  <2>2. \/ refresh' = refresh
        \/ refresh' = [refresh EXCEPT ![i] = old, ![r] = row]
    BY DEF rotate
  <2> HIDE DEF row, old, i
  <2>3. CASE refresh' = [refresh EXCEPT ![i] = old, ![r] = row]
    <3> DEFINE f == [refresh EXCEPT ![i] = old]
    <3>1. f \in RefreshType /\ \A j \in Ids : f[j] = refresh[j] \/ f[j] = old
      BY <1>0, <1>1, <2>1 DEF RefreshType
    <3>2. refresh' = [f EXCEPT ![r] = row]
      BY <2>3
    <3> HIDE DEF f
    <3>3. /\ refresh' \in RefreshType
          /\ \A j \in Ids : refresh'[j] = f[j] \/ (refresh'[j] = row /\ j = r)
      BY <1>0, <2>1, <3>1, <3>2 DEF RefreshType
    <3> QED
      BY <2>1, <3>1, <3>3
  <2> QED
    BY <1>0, <2>2, <2>3
<1>5. Linked'
  BY <1>0, <1>4, TokensLinked
<1> QED
  BY <1>3, <1>4, <1>5, TokenMoves DEF rotate

LEMMA revokeAllMoves ==
  ASSUME CInv, ops' = ops, NEW r \in Requests, revokeAll(r)
  PROVE  /\ CInv' /\ Turn(r, "revokeAll") /\ UNCHANGED sessions
         /\ req'[r].at = After(req[r].op, "revokeAll")
<1>0. /\ RequestsType /\ req[r].at = "revokeAll" /\ "revokeAll" # None
      /\ refresh \in RefreshType /\ Linked
  BY CredentialsAssumption
     DEF CInv, TablesType, RefreshType, revokeAll, At, Statements
<1>1. OnPath(req[r].op, "revokeAll")
  BY <1>0, Waiting
<1>2. After(req[r].op, "revokeAll") \in {"cutChanges", None}
  BY <1>1, Turns
<1>3. RequestsType' /\ Turn(r, "revokeAll") /\ req'[r].at = After(req[r].op, "revokeAll")
  BY <1>0, <1>2, GoesOn, CredentialsAssumption DEF Checks, Statements, revokeAll
<1>4. /\ refresh' \in RefreshType
      /\ \A i \in Ids : refresh'[i] = refresh[i] \/ refresh'[i].state # "live"
  <2>1. ASSUME NEW i \in Ids
        PROVE  LET row == IF refresh[i].state = "live"
                          THEN [refresh[i] EXCEPT !.state = "revoked"] ELSE refresh[i]
               IN  /\ row \in [state : {"none", "live", "revoked"}, session : Ids]
                   /\ row = refresh[i] \/ row.state # "live"
    BY <1>0 DEF RefreshType
  <2> QED
    BY <2>1 DEF revokeAll, RefreshType
<1>5. Linked'
  BY <1>0, <1>4, TokensLinked
<1> QED
  BY <1>3, <1>4, <1>5, TokenMoves DEF revokeAll

LEMMA deleteExpiredMoves ==
  ASSUME CInv, ops' = ops, deleteExpired
  PROVE  CInv' /\ UNCHANGED <<sessions, req>>
<1>0. refresh \in RefreshType /\ Linked
  BY DEF CInv, TablesType, RefreshType
<1>1. /\ refresh' \in RefreshType
      /\ \A i \in Ids : refresh'[i] = refresh[i] \/ refresh'[i].state # "live"
  BY <1>0, NoTokenType DEF deleteExpired, RefreshType
<1>2. Linked'
  BY <1>0, <1>1, TokensLinked
<1>3. TablesType'
  BY <1>1 DEF CInv, TablesType, RefreshType, deleteExpired
<1>4. RequestsType' /\ Cutting'
  BY DEF CInv, RequestsType, Cutting, Cuts, deleteExpired
<1> QED
  BY <1>2, <1>3, <1>4 DEF CInv, deleteExpired

-----------------------------------------------------------------------------
(* A change of the credentials.                                            *)

LEMMA AgedType ==
  ASSUME proof \in [Ids -> Proofs], NEW r
  PROVE  Aged(r) \in [Ids -> Proofs]
BY DEF Aged, Proofs

\* The others stay where they are; one that has proved something has raced with the change.
LEMMA RacedMoves ==
  ASSUME RequestsType, NEW r \in Requests, req[r].at # None, ops' = ops,
         NEW g \in ReqType, Served(g), g.op \in ops \cup {None, "other"},
         g.at \in {None, After(req[r].op, req[r].at)}, g.at # None => g.op = req[r].op,
         req' = Raced(r, g)
  PROVE  RequestsType' /\ Turn(r, req[r].at) /\ req'[r] = g
<1>1. OnPath(req[r].op, req[r].at)
  BY Waiting
<1>2. ASSUME NEW x \in Requests \ {r}
      PROVE  LET m == [req[x] EXCEPT !.proof = "raced"]
             IN  /\ m \in ReqType /\ Served(m) /\ m.op = req[x].op /\ m.at = req[x].at
                 /\ m.got = req[x].got /\ m.id = req[x].id /\ m.keep = req[x].keep
                 /\ m.done = req[x].done /\ m.proof = "raced"
  <2> DEFINE m == [req[x] EXCEPT !.proof = "raced"]
  <2>1. /\ req[x] \in ReqType /\ "raced" \in Proofs /\ "raced" \in Good /\ Served(req[x])
    BY DEF RequestsType, Proofs, Good
  <2>2. /\ m \in ReqType /\ m.op = req[x].op /\ m.at = req[x].at /\ m.got = req[x].got
        /\ m.id = req[x].id /\ m.email = req[x].email /\ m.done = req[x].done /\ m.proof = "raced"
        /\ m.keep = req[x].keep
    BY <2>1 DEF ReqType
  <2> HIDE DEF m
  <2>3. Served(m)
    BY <2>1, <2>2 DEF Served
  <2> QED
    BY <2>2, <2>3 DEF m
<1>3. /\ DOMAIN req' = Requests /\ req'[r] = g
      /\ \A x \in Requests \ {r} : \/ req'[x] = req[x]
                                   \/ req'[x] = [req[x] EXCEPT !.proof = "raced"]
  BY DEF Raced
<1>4. ASSUME NEW x \in Requests \ {r}
      PROVE  /\ req'[x] \in ReqType /\ Served(req'[x]) /\ req'[x].op = req[x].op
             /\ req'[x].at = req[x].at /\ req'[x].got = req[x].got /\ req'[x].id = req[x].id
             /\ req'[x].keep = req[x].keep /\ req'[x].done = req[x].done
             /\ req'[x].proof \in {req[x].proof, "raced"}
             /\ req'[x].op \in ops \cup {None, "other"}
  <2>1. CASE req'[x] = req[x]
    BY <2>1 DEF RequestsType
  <2>2. CASE req'[x] = [req[x] EXCEPT !.proof = "raced"]
    BY <2>2, <1>2 DEF RequestsType
  <2> QED
    BY <1>3, <2>1, <2>2
<1>5. req' \in [Requests -> ReqType]
  <2>1. \A x \in Requests : req'[x] \in ReqType
    BY <1>3, <1>4
  <2>2. req' = [x \in Requests |-> req'[x]]
    BY DEF Raced
  <2> QED
    BY <2>1, <2>2
<1>6. RequestsType'
  <2>1. \A x \in Requests : Served(req'[x]) /\ req'[x].op \in ops \cup {None, "other"}
    BY <1>3, <1>4
  <2> QED
    BY <1>5, <2>1 DEF RequestsType
<1>7. Others(r)
  BY <1>4 DEF Others
<1> QED
  BY <1>1, <1>3, <1>6, <1>7 DEF Turn

\* The request that has replaced the credentials goes on.
LEMMA RacedGoes ==
  ASSUME RequestsType, NEW r \in Requests, req[r].at # None, ops' = ops,
         NEW q \in ReqType, q.op = req[r].op, q.at = req[r].at, q.email = req[r].email,
         q.done = req[r].done, q.id = req[r].id,
         After(q.op, q.at) # None, After(q.op, q.at) # "remember", After(q.op, q.at) # "linked",
         Proven(q.op, After(q.op, q.at)) => q.proof \in Good,
         req' = Raced(r, Goes(q))
  PROVE  /\ RequestsType' /\ Turn(r, req[r].at)
         /\ req'[r].at = After(q.op, q.at) /\ req'[r].op = req[r].op
<1>1. OnPath(q.op, q.at) /\ q.op \in ops /\ Served(req[r])
  BY Waiting
<1>2. /\ q.email \in Emails /\ q.done = FALSE
      /\ (q.op = "resetPage" => q.id \in Requests)
  BY <1>1 DEF Served
<1> DEFINE n == After(q.op, q.at)
<1> DEFINE g == Goes(q)
<1>3. /\ g \in ReqType /\ Served(g) /\ g.op \in ops \cup {None, "other"} /\ g.at = n
      /\ g.op = req[r].op
  <2>1. /\ Goes(q) \in ReqType /\ Served(Goes(q)) /\ Goes(q).op \in ops \cup {None, "other"}
        /\ Goes(q).at = n /\ Goes(q) = [q EXCEPT !.at = n]
    BY <1>1, <1>2, GoesFields
  <2> QED
    BY <2>1 DEF ReqType
<1>4. n = After(req[r].op, req[r].at) /\ req' = Raced(r, g)
  OBVIOUS
<1> HIDE DEF g, n
<1>5. RequestsType' /\ Turn(r, req[r].at) /\ req'[r] = g
  BY <1>3, <1>4, RacedMoves
<1> QED
  BY <1>3, <1>5 DEF n

LEMMA updateMoves ==
  ASSUME CInv, ops' = ops, NEW r \in Requests, updatePassword(r)
  PROVE  CInv' /\ Turn(r, "update") /\ UNCHANGED sessions /\ req'[r].at = "select"
<1>0. RequestsType /\ req[r].at = "update" /\ req[r].at # None /\ proof \in [Ids -> Proofs]
  BY CredentialsAssumption DEF CInv, TablesType, updatePassword, At, Statements
<1>1. /\ req[r] \in ReqType /\ OnPath(req[r].op, "update") /\ Served(req[r])
  BY <1>0, Waiting
<1>2. /\ After(req[r].op, "update") = "select" /\ "select" # None
      /\ req[r].op \in {"changePassword", "adminReset", "resetPassword"}
  BY <1>1, Turns, CredentialsAssumption DEF Statements
<1> DEFINE q == [req[r] EXCEPT !.proof = "current"]
<1>3. req' = Raced(r, Goes(q))
  BY DEF updatePassword
<1>4. /\ q \in ReqType /\ q.op = req[r].op /\ q.at = req[r].at /\ q.email = req[r].email
      /\ q.done = req[r].done /\ q.id = req[r].id /\ q.proof \in Good
  BY <1>0, <1>1 DEF ReqType, Proofs, Good
<1> HIDE DEF q
<1>5. After(q.op, q.at) = "select"
  BY <1>0, <1>2, <1>4
<1>6. RequestsType' /\ Turn(r, req[r].at) /\ req'[r].at = "select"
  BY <1>0, <1>2, <1>3, <1>4, <1>5, RacedGoes
<1>7. req'[r].op = req[r].op
  BY <1>2, <1>6 DEF Turn
<1>8. TablesType' /\ Linked'
  BY <1>0, AgedType DEF CInv, TablesType, Linked, updatePassword
<1>9. Cutting'
  BY <1>2, <1>6, <1>7 DEF Cutting, Cuts
<1> QED
  BY <1>0, <1>6, <1>8, <1>9 DEF CInv, updatePassword

LEMMA updateEmailMoves ==
  ASSUME CInv, ops' = ops, NEW r \in Requests, updateUserEmail(r)
  PROVE  /\ CInv' /\ Turn(r, "updateEmail") /\ UNCHANGED sessions
         /\ req[r].moved => req'[r].op = "verifyEmail" /\ req'[r].at = "invalidateChanges"
<1>0. RequestsType /\ req[r].at = "updateEmail" /\ req[r].at # None /\ proof \in [Ids -> Proofs]
  BY CredentialsAssumption DEF CInv, TablesType, updateUserEmail, At, Statements
<1>1. /\ req[r] \in ReqType /\ OnPath(req[r].op, "updateEmail") /\ Served(req[r])
      /\ req[r].email \in Emails
  BY <1>0, Waiting DEF Served
<1>2. /\ After(req[r].op, "updateEmail") = "invalidateChanges" /\ "invalidateChanges" # None
      /\ req[r].op = "verifyEmail"
  BY <1>1, Turns, CredentialsAssumption DEF Statements
<1>3. CASE req[r].moved
  <2>1. req' = Raced(r, Goes(req[r])) /\ proof' = Aged(r)
    BY <1>3 DEF updateUserEmail
  <2>2. ~Proven(req[r].op, "invalidateChanges")
    BY <1>2 DEF Proven, Proving
  <2>3. RequestsType' /\ Turn(r, req[r].at) /\ req'[r].at = "invalidateChanges"
    <3> DEFINE q == req[r]
    <3>1. /\ q \in ReqType /\ q.op = req[r].op /\ q.at = req[r].at /\ q.email = req[r].email
          /\ q.done = req[r].done /\ q.id = req[r].id
          /\ After(q.op, q.at) = "invalidateChanges" /\ ~Proven(q.op, "invalidateChanges")
      BY <1>0, <1>1, <1>2, <2>2
    <3> QED
      BY <1>0, <1>2, <2>1, <3>1, RacedGoes
  <2>4. req'[r].op = req[r].op
    BY <1>2, <2>3 DEF Turn
  <2>5. TablesType' /\ Linked'
    BY <1>0, <1>1, <2>1, AgedType DEF CInv, TablesType, Linked, updateUserEmail
  <2>6. Cutting'
    BY <1>2, <2>3, <2>4 DEF Cutting, Cuts
  <2> QED
    BY <1>0, <1>2, <2>3, <2>4, <2>5, <2>6 DEF CInv, updateUserEmail
<1>4. CASE ~req[r].moved /\ email = req[r].email
  <2>1. Refuse(r) /\ proof' = proof
    BY <1>4 DEF updateUserEmail
  <2>2. RequestsType' /\ Turn(r, "updateEmail")
    BY <1>0, <2>1, RefuseMoves
  <2>3. TablesType' /\ Linked'
    BY <1>1, <2>1 DEF CInv, TablesType, Linked, updateUserEmail
  <2>4. Cutting'
    <3>1. \A i \in sessions' : proof'[i] \in Good \/ (i \in sessions /\ proof'[i] = proof[i])
      BY <2>1 DEF updateUserEmail
    <3> QED
      BY <2>2, <3>1, CutKept
  <2> QED
    BY <1>4, <2>2, <2>3, <2>4 DEF CInv, updateUserEmail
<1>5. CASE ~req[r].moved /\ email # req[r].email
  <2> DEFINE g == Answered(req[r])
  <2>1. req' = Raced(r, g) /\ proof' = Excused
    BY <1>5 DEF updateUserEmail
  <2>2. g \in ReqType /\ Served(g) /\ g.at = None /\ g.op \in ops \cup {None, "other"}
    BY <1>0, <1>1, Waiting, AnsweredFields
  <2>3. RequestsType' /\ Turn(r, "updateEmail")
    <3> HIDE DEF g
    <3>1. RequestsType' /\ Turn(r, req[r].at)
      BY <1>0, <2>1, <2>2, RacedMoves
    <3> QED
      BY <1>0, <3>1
  <2>4. /\ proof' \in [Ids -> Proofs]
        /\ \A i \in Ids : proof'[i] \in Good \/ proof'[i] = proof[i]
    BY <1>0, <2>1 DEF Excused, Proofs, Good
  <2>5. TablesType' /\ Linked'
    BY <1>1, <2>4 DEF CInv, TablesType, Linked, updateUserEmail
  <2>6. Cutting'
    <3>1. sessions' = sessions /\ sessions \subseteq Ids
      BY DEF CInv, TablesType, updateUserEmail
    <3>2. \A i \in sessions' : proof'[i] \in Good \/ (i \in sessions /\ proof'[i] = proof[i])
      BY <2>4, <3>1
    <3> QED
      BY <2>3, <3>2, CutKept
  <2> QED
    BY <1>5, <2>3, <2>5, <2>6 DEF CInv, updateUserEmail
<1> QED
  BY <1>3, <1>4, <1>5

-----------------------------------------------------------------------------
(* Links.                                                                  *)

\* A statement that leaves sessions and tokens alone, and marks nothing as replaced.
LEMMA LinkMoves ==
  ASSUME CInv, NEW r \in Requests, NEW s, RequestsType', Turn(r, s), TablesType',
         \/ s \notin {"invalidateChanges", "select", "delete"}
         \/ req[r].op \notin {"changePassword", "adminReset", "resetPassword", "verifyEmail"},
         UNCHANGED <<sessions, refresh>>,
         \A i \in sessions : proof'[i] \in Good \/ proof'[i] = proof[i]
  PROVE  CInv'
<1>1. Linked'
  BY DEF CInv, Linked
<1>2. Cutting'
  BY CutKept
<1> QED
  BY <1>1, <1>2 DEF CInv

LEMMA invalidateResetsMoves ==
  ASSUME CInv, ops' = ops, NEW r \in Requests, invalidateResetTokens(r)
  PROVE  CInv' /\ Turn(r, "invalidateResets") /\ UNCHANGED sessions
<1>0. RequestsType /\ req[r].at = "invalidateResets" /\ "invalidateResets" # None
  BY CredentialsAssumption DEF CInv, invalidateResetTokens, At, Statements
<1>1. OnPath(req[r].op, "invalidateResets")
  BY <1>0, Waiting
<1>2. After(req[r].op, "invalidateResets") = "createReset"
  BY <1>1, Turns
<1>3. RequestsType' /\ Turn(r, "invalidateResets")
  BY <1>0, <1>2, GoesOn DEF Checks, invalidateResetTokens
<1>4. TablesType'
  BY DEF CInv, TablesType, invalidateResetTokens
<1> QED
  BY <1>3, <1>4, LinkMoves DEF invalidateResetTokens

LEMMA createResetMoves ==
  ASSUME CInv, ops' = ops, NEW r \in Requests, createResetToken(r)
  PROVE  CInv' /\ Turn(r, "createReset") /\ UNCHANGED sessions
<1>0. RequestsType /\ req[r].at = "createReset" /\ req[r].at # None /\ r \in Ids
  BY CredentialsAssumption DEF CInv, createResetToken, At, Statements, Requests, Ids
<1>1. req[r] \in ReqType /\ OnPath(req[r].op, "createReset")
  BY <1>0, Waiting
<1>2. After(req[r].op, "createReset") \in {"remember", None}
  BY <1>1, Turns
<1> DEFINE q == [req[r] EXCEPT !.id = r]
<1>3. Proceed(r, q)
  BY DEF createResetToken
<1>4. /\ q \in ReqType /\ q.op = req[r].op /\ q.at = req[r].at /\ q.email = req[r].email
      /\ q.done = req[r].done /\ q.id = r /\ q.proof = req[r].proof
  BY <1>0, <1>1 DEF ReqType
<1> HIDE DEF q
<1>5. After(q.op, q.at) # "linked" /\ q.at \notin Checks /\ q.at # "readUser" /\ q.id \in Requests
  BY <1>0, <1>2, <1>4, CredentialsAssumption DEF Checks, Statements
<1>6. RequestsType' /\ Turn(r, req[r].at)
  BY <1>0, <1>3, <1>4, <1>5, PassedOn
<1>7. Turn(r, "createReset")
  BY <1>0, <1>6
<1>8. TablesType'
  BY DEF CInv, TablesType, createResetToken
<1> QED
  BY <1>6, <1>7, <1>8, LinkMoves DEF createResetToken

LEMMA lookupMoves ==
  ASSUME CInv, ops' = ops, NEW r \in Requests, lookupReset(r)
  PROVE  CInv' /\ Turn(r, "lookup") /\ UNCHANGED sessions
<1>0. RequestsType /\ req[r].at = "lookup" /\ req[r].at # None /\ resets \subseteq Requests
  BY CredentialsAssumption DEF CInv, TablesType, lookupReset, At, Statements
<1>1. OnPath(req[r].op, "lookup")
  BY <1>0, Waiting
<1>2. After(req[r].op, "lookup") = "remember"
  BY <1>1, Turns
<1>3. RequestsType' /\ Turn(r, "lookup")
  <2>1. CASE req[r].id \in resets \ remembered
    <3>1. Proceed(r, req[r]) /\ req[r].id \in Requests
      BY <1>0, <2>1 DEF lookupReset
    <3> QED
      BY <1>0, <1>2, <3>1, GoesOn, CredentialsAssumption DEF Checks, Statements
  <2>2. CASE req[r].id \notin resets \ remembered
    <3>1. Refuse(r)
      BY <2>2 DEF lookupReset
    <3> QED
      BY <1>0, <3>1, RefuseMoves
  <2> QED
    BY <2>1, <2>2
<1>4. UNCHANGED tables
  BY DEF lookupReset
<1> QED
  BY <1>3, <1>4, ReadMoves DEF tables

LEMMA rememberMoves ==
  ASSUME CInv, ops' = ops, NEW r \in Requests, rememberReset(r)
  PROVE  CInv' /\ Turn(r, "remember") /\ UNCHANGED sessions
<1>0. RequestsType /\ req[r].at = "remember" /\ "remember" # None
  BY CredentialsAssumption DEF CInv, rememberReset, At, Statements
<1>1. OnPath(req[r].op, "remember") /\ Served(req[r])
  BY <1>0, Waiting
<1>2. After(req[r].op, "remember") = None /\ req[r].id \in Requests
  BY <1>0, <1>1, Turns DEF Served
<1>3. RequestsType' /\ Turn(r, "remember")
  BY <1>0, <1>2, GoesOn, CredentialsAssumption DEF Checks, Statements, rememberReset
<1>4. TablesType'
  BY <1>2 DEF CInv, TablesType, rememberReset
<1> QED
  BY <1>3, <1>4, LinkMoves DEF rememberReset

LEMMA forgetMoves ==
  ASSUME CInv, ops' = ops, NEW r \in Requests, forgetReset(r)
  PROVE  CInv' /\ Turn(r, "forget") /\ UNCHANGED sessions
<1>0. RequestsType /\ req[r].at = "forget" /\ "forget" # None
  BY CredentialsAssumption DEF CInv, forgetReset, At, Statements
<1>1. OnPath(req[r].op, "forget")
  BY <1>0, Waiting
<1>2. After(req[r].op, "forget") = None
  BY <1>1, Turns
<1>3. RequestsType' /\ Turn(r, "forget")
  BY <1>0, <1>2, GoesOn, CredentialsAssumption DEF Checks, Statements, forgetReset
<1>4. TablesType'
  BY DEF CInv, TablesType, forgetReset
<1> QED
  BY <1>3, <1>4, LinkMoves DEF forgetReset

LEMMA claimResetMoves ==
  ASSUME CInv, ops' = ops, NEW r \in Requests, claimReset(r)
  PROVE  CInv' /\ Turn(r, "claimReset") /\ UNCHANGED sessions
<1>0. RequestsType /\ req[r].at = "claimReset" /\ req[r].at # None
  BY CredentialsAssumption DEF CInv, claimReset, At, Statements, Checks
<1>1. req[r] \in ReqType /\ OnPath(req[r].op, "claimReset") /\ Served(req[r])
  BY <1>0, Waiting
<1>2. After(req[r].op, "claimReset") = "readUser" /\ req[r].op = "resetPassword"
  BY <1>1, Turns
<1>3. \/ Proceed(r, req[r]) \/ Refuse(r)
  BY DEF claimReset
<1>4. resets' \subseteq resets
  BY DEF claimReset, ClaimReset
<1>5. RequestsType' /\ Turn(r, "claimReset")
  <2>1. CASE Proceed(r, req[r])
    <3>1. /\ req[r].email \in Emails /\ req[r].done = FALSE
          /\ (req[r].op = "resetPage" => req[r].id \in Requests)
          /\ ~Proven(req[r].op, "readUser")
      BY <1>0, <1>1, <1>2 DEF Served, Proven
    <3> QED
      BY <1>0, <1>1, <1>2, <2>1, <3>1, ProceedMoves
  <2>2. CASE Refuse(r)
    BY <1>0, <2>2, RefuseMoves
  <2> QED
    BY <1>3, <2>1, <2>2
<1>6. TablesType'
  BY <1>4 DEF CInv, TablesType, claimReset
<1> QED
  BY <1>5, <1>6, LinkMoves DEF claimReset

LEMMA SupersededType ==
  ASSUME changes \in [Ids -> Emails \cup {None}], NEW keep
  PROVE  Superseded(keep) \in [Ids -> Emails \cup {None}]
BY DEF Superseded

LEMMA cutChangesMoves ==
  ASSUME CInv, ops' = ops, NEW r \in Requests, cutChanges(r)
  PROVE  CInv' /\ Turn(r, "cutChanges") /\ UNCHANGED sessions
<1>0. /\ RequestsType /\ req[r].at = "cutChanges" /\ "cutChanges" # None
      /\ changes \in [Ids -> Emails \cup {None}] /\ proof \in [Ids -> Proofs]
      /\ sessions \subseteq Ids
  BY CredentialsAssumption DEF CInv, TablesType, cutChanges, At, Statements
<1>1. OnPath(req[r].op, "cutChanges")
  BY <1>0, Waiting
<1>2. After(req[r].op, "cutChanges") \in {"insert", "forget"}
  BY <1>1, Turns
<1>3. RequestsType' /\ Turn(r, "cutChanges")
  BY <1>0, <1>2, GoesOn DEF Checks, cutChanges
<1>4. /\ proof' \in [Ids -> Proofs]
      /\ \A i \in Ids : proof'[i] \in Good \/ proof'[i] = proof[i]
  BY <1>0 DEF cutChanges, Proofs, Good
<1>5. TablesType'
  BY <1>0, <1>4, SupersededType DEF CInv, TablesType, cutChanges
<1>6. \A i \in sessions : proof'[i] \in Good \/ proof'[i] = proof[i]
  BY <1>0, <1>4
<1> QED
  BY <1>3, <1>5, <1>6, LinkMoves DEF cutChanges

\* A link is minted with what the request has proved.
LEMMA LinkProof ==
  ASSUME CInv, NEW r \in Requests, req[r].at \in {"replaceChange", "createChange"},
         proof' = [proof EXCEPT ![r] = req[r].proof]
  PROVE  /\ proof' \in [Ids -> Proofs]
         /\ \A i \in sessions : proof'[i] \in Good \/ proof'[i] = proof[i]
<1>1. /\ RequestsType /\ proof \in [Ids -> Proofs] /\ sessions \subseteq Ids
      /\ req[r].at # None /\ r \in Ids
  BY CredentialsAssumption DEF CInv, TablesType, Requests, Ids, Statements
<1>2. req[r] \in ReqType /\ OnPath(req[r].op, req[r].at) /\ Served(req[r])
  BY <1>1, Waiting
<1>3. req[r].op \in {"changeEmail", "resendVerification"}
  <2>1. CASE req[r].at = "replaceChange"
    <3>1. OnPath(req[r].op, "replaceChange")
      BY <1>2, <2>1
    <3> QED
      BY <3>1, Turns
  <2>2. CASE req[r].at = "createChange"
    <3>1. OnPath(req[r].op, "createChange")
      BY <1>2, <2>2
    <3> QED
      BY <3>1, Turns
  <2> QED
    BY <2>1, <2>2
<1>4. Proven(req[r].op, req[r].at)
  BY <1>3 DEF Proven, Proving, Checks
<1>5. req[r].proof \in Good /\ req[r].proof \in Proofs
  BY <1>1, <1>2, <1>4 DEF Served, ReqType
<1> QED
  BY <1>1, <1>5

LEMMA replaceChangeMoves ==
  ASSUME CInv, ops' = ops, NEW r \in Requests, replaceChange(r)
  PROVE  /\ CInv' /\ Turn(r, "replaceChange") /\ UNCHANGED sessions
         /\ req'[r].at = None /\ req'[r].done = TRUE
<1>0. /\ RequestsType /\ req[r].at = "replaceChange" /\ "replaceChange" # None
      /\ changes \in [Ids -> Emails \cup {None}]
  BY CredentialsAssumption DEF CInv, TablesType, replaceChange, At, Statements
<1>1. OnPath(req[r].op, "replaceChange") /\ Served(req[r])
  BY <1>0, Waiting
<1>2. After(req[r].op, "replaceChange") = None /\ req[r].email \in Emails
  BY <1>0, <1>1, Turns DEF Served
<1>3. /\ RequestsType' /\ Turn(r, "replaceChange")
      /\ req'[r].at = None /\ req'[r].done = TRUE
  <2>1. RequestsType' /\ Turn(r, "replaceChange") /\ req'[r].at = None
    BY <1>0, <1>2, GoesOn, CredentialsAssumption DEF Checks, Statements, replaceChange
  <2>2. req' = [req EXCEPT ![r] = Answered(req[r])]
    BY <1>0, <1>2 DEF replaceChange, Proceed, Goes
  <2>3. Answered(req[r]).done = TRUE
    BY <1>0, Waiting, AnsweredFields
  <2>4. req'[r] = Answered(req[r])
    BY <1>0, <2>2 DEF RequestsType
  <2> QED
    BY <2>1, <2>3, <2>4
<1>4. changes' \in [Ids -> Emails \cup {None}]
  <2> DEFINE f == Superseded(req[r].keep)
  <2>1. f \in [Ids -> Emails \cup {None}] /\ changes' = [f EXCEPT ![r] = req[r].email]
    BY <1>0, SupersededType DEF replaceChange
  <2> HIDE DEF f
  <2> QED
    BY <1>2, <2>1
<1>5. /\ proof' \in [Ids -> Proofs]
      /\ \A i \in sessions : proof'[i] \in Good \/ proof'[i] = proof[i]
  BY <1>0, LinkProof DEF replaceChange
<1>6. TablesType'
  BY <1>4, <1>5 DEF CInv, TablesType, replaceChange
<1> QED
  BY <1>3, <1>5, <1>6, LinkMoves DEF replaceChange

LEMMA createChangeMoves ==
  ASSUME CInv, ops' = ops, NEW r \in Requests, createChange(r)
  PROVE  /\ CInv' /\ Turn(r, "createChange") /\ UNCHANGED sessions
         /\ req'[r].at = None /\ req'[r].done = TRUE
<1>0. /\ RequestsType /\ req[r].at = "createChange" /\ "createChange" # None
      /\ changes \in [Ids -> Emails \cup {None}]
  BY CredentialsAssumption DEF CInv, TablesType, createChange, At, Statements
<1>1. OnPath(req[r].op, "createChange") /\ req[r].keep \in Emails \cup {None}
  BY <1>0, Waiting DEF ReqType
<1>2. After(req[r].op, "createChange") = None
  BY <1>0, <1>1, Turns
<1>3. /\ RequestsType' /\ Turn(r, "createChange")
      /\ req'[r].at = None /\ req'[r].done = TRUE
  <2>1. RequestsType' /\ Turn(r, "createChange") /\ req'[r].at = None
    BY <1>0, <1>2, GoesOn, CredentialsAssumption DEF Checks, Statements, createChange
  <2>2. req' = [req EXCEPT ![r] = Answered(req[r])]
    BY <1>0, <1>2 DEF createChange, Proceed, Goes
  <2>3. Answered(req[r]).done = TRUE
    BY <1>0, Waiting, AnsweredFields
  <2>4. req'[r] = Answered(req[r])
    BY <1>0, <2>2 DEF RequestsType
  <2> QED
    BY <2>1, <2>3, <2>4
<1>4. changes' \in [Ids -> Emails \cup {None}]
  BY <1>0, <1>1 DEF createChange
<1>5. /\ proof' \in [Ids -> Proofs]
      /\ \A i \in sessions : proof'[i] \in Good \/ proof'[i] = proof[i]
  BY <1>0, LinkProof DEF createChange
<1>6. TablesType'
  BY <1>4, <1>5 DEF CInv, TablesType, createChange
<1> QED
  BY <1>3, <1>5, <1>6, LinkMoves DEF createChange

LEMMA invalidateChangesMoves ==
  ASSUME CInv, ops' = ops, NEW r \in Requests, invalidateVerificationTokens(r)
  PROVE  /\ CInv' /\ Turn(r, "invalidateChanges") /\ UNCHANGED sessions
         /\ req[r].op = "resendVerification" =>
              req'[r].keep = req[r].keep /\ req'[r].proof = req[r].proof
<1>0. RequestsType /\ req[r].at = "invalidateChanges" /\ "invalidateChanges" # None
  BY CredentialsAssumption DEF CInv, invalidateVerificationTokens, At, Statements
<1>1. req[r] \in ReqType /\ OnPath(req[r].op, "invalidateChanges")
  BY <1>0, Waiting
<1>2. \/ req[r].op = "resendVerification" /\ After(req[r].op, "invalidateChanges") = "createChange"
      \/ req[r].op = "verifyEmail" /\ After(req[r].op, "invalidateChanges") = "select"
  BY <1>1, Turns
<1>3. /\ RequestsType' /\ Turn(r, "invalidateChanges")
      /\ req'[r].at = After(req[r].op, "invalidateChanges")
  BY <1>0, <1>2, GoesOn DEF Checks, invalidateVerificationTokens
<1>4. TablesType' /\ Linked'
  BY DEF CInv, TablesType, Linked, invalidateVerificationTokens
<1>5. CASE req[r].op = "resendVerification"
  <2>1. After(req[r].op, req[r].at) = "createChange" /\ "createChange" # None
    BY <1>0, <1>2, <1>5, CredentialsAssumption DEF Statements
  <2>2. req' = [req EXCEPT ![r] = [req[r] EXCEPT !.at = "createChange"]]
    BY <2>1 DEF invalidateVerificationTokens, Proceed, Goes
  <2>3. req'[r].keep = req[r].keep /\ req'[r].proof = req[r].proof
    BY <1>0, <1>1, <2>2 DEF RequestsType, ReqType
  <2> QED
    BY <1>3, <1>4, <1>5, <2>3, LinkMoves DEF invalidateVerificationTokens
<1>6. CASE req[r].op = "verifyEmail"
  <2>1. "select" # None
    BY CredentialsAssumption DEF Statements
  <2>2. req'[r].at = "select" /\ req'[r].op = "verifyEmail"
    BY <1>2, <1>3, <1>6, <2>1 DEF Turn
  <2>3. Cutting'
    BY <2>2 DEF Cutting, Cuts
  <2> QED
    BY <1>3, <1>4, <1>6, <2>3 DEF CInv, invalidateVerificationTokens
<1> QED
  BY <1>2, <1>5, <1>6

LEMMA claimChangeMoves ==
  ASSUME CInv, ops' = ops, NEW r \in Requests, claimChange(r)
  PROVE  CInv' /\ Turn(r, "claimChange") /\ UNCHANGED sessions
<1>0. /\ RequestsType /\ req[r].at = "claimChange" /\ req[r].at # None
      /\ changes \in [Ids -> Emails \cup {None}]
  BY CredentialsAssumption DEF CInv, TablesType, claimChange, At, Statements, Checks
<1>1. req[r] \in ReqType /\ OnPath(req[r].op, "claimChange") /\ Served(req[r]) /\ req[r].id \in Ids
  BY <1>0, Waiting DEF ReqType
<1>2. After(req[r].op, "claimChange") = "readAddress" /\ req[r].op = "verifyEmail"
  BY <1>1, Turns
<1> DEFINE l == req[r].id
<1>3. RequestsType' /\ Turn(r, "claimChange")
  <2>1. CASE changes[l] # None
    <3> DEFINE q == [req[r] EXCEPT !.email = changes[l]]
    <3>1. Proceed(r, q)
      BY <2>1 DEF claimChange
    <3>2. changes[l] \in Emails
      BY <1>0, <1>1, <2>1
    <3>3. /\ q \in ReqType /\ q.op = req[r].op /\ q.at = req[r].at /\ q.email \in Emails
          /\ q.done = req[r].done /\ q.id = req[r].id /\ q.proof = req[r].proof
      BY <1>0, <1>1, <3>2 DEF ReqType
    <3> HIDE DEF q, l
    <3>4. /\ q.done = FALSE
          /\ (q.op = "resetPage" => q.id \in Requests)
      BY <1>0, <1>1, <3>3 DEF Served
    <3>5. After(q.op, q.at) = "readAddress" /\ ~Proven(q.op, "readAddress")
      BY <1>0, <1>2, <3>3 DEF Proven, Proving
    <3> QED
      BY <1>0, <3>1, <3>3, <3>4, <3>5, ProceedMoves
  <2>2. CASE ~(changes[l] # None)
    <3>1. Refuse(r)
      BY <2>2 DEF claimChange
    <3> QED
      BY <1>0, <3>1, RefuseMoves
  <2> QED
    BY <2>1, <2>2
<1>4. changes' \in [Ids -> Emails \cup {None}]
  BY <1>0, <1>1 DEF claimChange, ClaimChange
<1>5. TablesType'
  BY <1>4 DEF CInv, TablesType, claimChange
<1> QED
  BY <1>3, <1>5, LinkMoves DEF claimChange

LEMMA readAddressMoves ==
  ASSUME CInv, ops' = ops, NEW r \in Requests, readAddress(r)
  PROVE  CInv' /\ Turn(r, "readAddress") /\ UNCHANGED sessions
<1>0. RequestsType /\ req[r].at = "readAddress" /\ req[r].at # None
  BY CredentialsAssumption DEF CInv, readAddress, At, Statements
<1>1. req[r] \in ReqType /\ OnPath(req[r].op, "readAddress")
  BY <1>0, Waiting
<1>2. After(req[r].op, "readAddress") = "updateEmail"
  BY <1>1, Turns
<1>a. PICK row \in copies : Proceed(r, [req[r] EXCEPT !.moved = row.email # req[r].email])
  BY DEF readAddress
<1> DEFINE m == row.email # req[r].email
<1> DEFINE q == [req[r] EXCEPT !.moved = m]
<1>3. Proceed(r, q)
  BY <1>a
<1>4. m \in BOOLEAN
  OBVIOUS
<1> HIDE DEF m
<1>5. /\ q \in ReqType /\ q.op = req[r].op /\ q.at = req[r].at /\ q.email = req[r].email
      /\ q.done = req[r].done /\ q.id = req[r].id /\ q.proof = req[r].proof
  BY <1>0, <1>1, <1>4 DEF ReqType
<1> HIDE DEF q
<1>6. After(q.op, q.at) = "updateEmail" /\ q.at \notin Checks /\ q.at # "readUser"
  BY <1>0, <1>2, <1>5 DEF Checks
<1>7. RequestsType' /\ Turn(r, req[r].at)
  BY <1>0, <1>3, <1>5, <1>6, PassedOn
<1>8. UNCHANGED tables
  BY DEF readAddress
<1>9. Turn(r, "readAddress")
  BY <1>0, <1>7
<1> QED
  BY <1>7, <1>8, <1>9, ReadMoves DEF tables

-----------------------------------------------------------------------------
(* Every step.                                                             *)

\* Where a handler starts.
LEMMA FirstStatement ==
  ASSUME NEW op \in Endpoints
  PROVE  LET s == Head(Handler[op])
         IN  /\ OnPath(op, s) /\ s # "remember" /\ s # "linked" /\ s # "commit"
             /\ ~Proven(op, s)
             /\ s \notin {"invalidateChanges", "select", "delete"}
<1>1. CASE op = "login"
  <2>1. Head(Handler[op]) = "readUser"
    BY <1>1 DEF Handler, login
  <2> QED
    BY <1>1, <2>1 DEF OnPath, Proven, Proving, Checks
<1>2. CASE op = "logout"
  <2>1. Head(Handler[op]) = "deleteSession"
    BY <1>2 DEF Handler, logout
  <2> QED
    BY <1>2, <2>1 DEF OnPath, Proven, Proving, Checks
<1>3. CASE op = "refreshSession"
  <2>1. Head(Handler[op]) = "auth"
    BY <1>3 DEF Handler, refreshSession
  <2> QED
    BY <1>3, <2>1 DEF OnPath, Proven, Proving, Checks
<1>4. CASE op = "refreshToken"
  <2>1. Head(Handler[op]) = "validate"
    BY <1>4 DEF Handler, refreshToken
  <2> QED
    BY <1>4, <2>1 DEF OnPath, Proven, Proving, Checks
<1>5. CASE op = "revokeSession"
  <2>1. Head(Handler[op]) = "auth"
    BY <1>5 DEF Handler, revokeSession
  <2> QED
    BY <1>5, <2>1 DEF OnPath, Proven, Proving, Checks
<1>6. CASE op = "revokeOthers"
  <2>1. Head(Handler[op]) = "auth"
    BY <1>6 DEF Handler, revokeOthers
  <2> QED
    BY <1>6, <2>1 DEF OnPath, Proven, Proving, Checks
<1>7. CASE op = "changePassword"
  <2>1. Head(Handler[op]) = "auth"
    BY <1>7 DEF Handler, changePassword
  <2> QED
    BY <1>7, <2>1 DEF OnPath, Proven, Proving, Checks
<1>8. CASE op = "adminReset"
  <2>1. Head(Handler[op]) = "update"
    BY <1>8 DEF Handler, adminReset
  <2> QED
    BY <1>8, <2>1 DEF OnPath, Proven, Proving, Checks
<1>9. CASE op = "forgotPassword"
  <2>1. Head(Handler[op]) = "invalidateResets"
    BY <1>9 DEF Handler, forgotPassword
  <2> QED
    BY <1>9, <2>1 DEF OnPath, Proven, Proving, Checks
<1>10. CASE op = "resetLink"
  <2>1. Head(Handler[op]) = "createReset"
    BY <1>10 DEF Handler, resetLink
  <2> QED
    BY <1>10, <2>1 DEF OnPath, Proven, Proving, Checks
<1>11. CASE op = "resetPage"
  <2>1. Head(Handler[op]) = "lookup"
    BY <1>11 DEF Handler, resetPage
  <2> QED
    BY <1>11, <2>1 DEF OnPath, Proven, Proving, Checks
<1>12. CASE op = "resetPassword"
  <2>1. Head(Handler[op]) = "claimReset"
    BY <1>12 DEF Handler, resetPassword
  <2> QED
    BY <1>12, <2>1 DEF OnPath, Proven, Proving, Checks
<1>13. CASE op = "changeEmail"
  <2>1. Head(Handler[op]) = "auth"
    BY <1>13 DEF Handler, changeEmail
  <2> QED
    BY <1>13, <2>1 DEF OnPath, Proven, Proving, Checks
<1>14. CASE op = "resendVerification"
  <2>1. Head(Handler[op]) = "auth"
    BY <1>14 DEF Handler, resendVerification
  <2> QED
    BY <1>14, <2>1 DEF OnPath, Proven, Proving, Checks
<1>15. CASE op = "verifyEmail"
  <2>1. Head(Handler[op]) = "claimChange"
    BY <1>15 DEF Handler, verifyEmail
  <2> QED
    BY <1>15, <2>1 DEF OnPath, Proven, Proving, Checks
<1> QED
  BY <1>1, <1>2, <1>3, <1>4, <1>5, <1>6, <1>7, <1>8,
     <1>9, <1>10, <1>11, <1>12, <1>13, <1>14, <1>15 DEF Endpoints

LEMMA PresentableIds ==
  ASSUME CInv, NEW op \in Endpoints
  PROVE  Presentable(op) \subseteq Ids /\ (op = "resetPage" => Presentable(op) \subseteq Requests)
<1>1. Requests \subseteq Ids /\ 0 \in Ids /\ sessions \subseteq Ids
  BY CredentialsAssumption DEF CInv, TablesType, Requests, Ids
<1>2. \A kinds : LinksOf(kinds) \subseteq Requests
  BY DEF LinksOf
<1>3. CASE op \in {"login", "adminReset", "forgotPassword", "resetLink"}
  BY <1>1, <1>3 DEF Presentable
<1>4. CASE op = "refreshToken"
  BY <1>4 DEF Presentable
<1>5. CASE op = "resetPage"
  BY <1>1, <1>2, <1>5 DEF Presentable
<1>6. CASE op = "resetPassword"
  BY <1>1, <1>2, <1>6 DEF Presentable
<1>7. CASE op = "verifyEmail"
  BY <1>1, <1>2, <1>7 DEF Presentable
<1>8. CASE op \notin {"login", "adminReset", "forgotPassword", "resetLink", "refreshToken",
                     "resetPage", "resetPassword", "verifyEmail"}
  BY <1>1, <1>8 DEF Presentable
<1> QED
  BY <1>3, <1>4, <1>5, <1>6, <1>7, <1>8

LEMMA startMoves ==
  ASSUME CInv, ops' = ops, NEW r \in Requests, start(r)
  PROVE  /\ CInv' /\ UNCHANGED sessions
         /\ req[r].at = None /\ Others(r) /\ req'[r].at # "commit"
         /\ ~Proven(req'[r].op, req'[r].at)
         /\ Cardinality({x \in Requests : Active(x)}) < MaxInflight
<1>0. PICK op \in ops :
        \E i \in Presentable(op), e \in IF op = "changeEmail" THEN Emails ELSE {Home} :
        req' = [req EXCEPT ![r] = [Idle EXCEPT !.op = op, !.id = i, !.email = e,
                                               !.at = Head(Handler[op])]]
  BY DEF start
<1>1. PICK i \in Presentable(op), e \in Emails :
        req' = [req EXCEPT ![r] = [Idle EXCEPT !.op = op, !.id = i, !.email = e,
                                               !.at = Head(Handler[op])]]
  BY <1>0, CredentialsAssumption
<1>2. RequestsType /\ TablesType /\ op \in Endpoints /\ "none" \in Proofs
  BY CredentialsAssumption DEF CInv, RequestsType, Proofs
<1> DEFINE s == Head(Handler[op])
<1>3. /\ OnPath(op, s) /\ s # "remember" /\ s # "linked" /\ s # "commit" /\ ~Proven(op, s)
      /\ s \notin {"invalidateChanges", "select", "delete"}
  BY <1>2, FirstStatement
<1> HIDE DEF s
<1>4. s \in Statements /\ s # None
  BY <1>3, Turns
<1>5. i \in Ids /\ (op = "resetPage" => i \in Requests)
  BY <1>2, PresentableIds
<1> DEFINE n == [Idle EXCEPT !.op = op, !.id = i, !.email = e, !.at = s]
<1>6. Idle \in [op : {None}, id : Ids, email : {None}, keep : {None}, at : {None}, got : {{}},
                moved : BOOLEAN, proof : {"none"}, done : {FALSE}]
  BY CredentialsAssumption DEF Idle, Ids
<1>7. req' = [req EXCEPT ![r] = n]
  BY <1>1 DEF s
<1>8. /\ n \in ReqType /\ n.op = op /\ n.at = s /\ n.email = e /\ n.done = FALSE /\ n.id = i
  BY <1>2, <1>4, <1>5, <1>6 DEF ReqType
<1> HIDE DEF n
<1>9. Served(n)
  BY <1>3, <1>4, <1>5, <1>8 DEF Served
<1>10. /\ req' \in [Requests -> ReqType] /\ req'[r] = n
       /\ \A x \in Requests \ {r} : req'[x] = req[x]
  BY <1>2, <1>7, <1>8 DEF RequestsType
<1>11. RequestsType'
  <2>1. \A x \in Requests : Served(req'[x]) /\ req'[x].op \in ops' \cup {None, "other"}
    BY <1>2, <1>8, <1>9, <1>10 DEF RequestsType
  <2> QED
    BY <1>2, <1>10, <2>1 DEF RequestsType
<1>12. UNCHANGED tables /\ req[r].at = None
  BY DEF start, Active
<1>13. TablesType' /\ Linked'
  BY <1>12 DEF CInv, TablesType, Linked, tables
<1>14. Cutting'
  <2> SUFFICES ASSUME NEW j \in sessions', proof'[j] \notin Good
               PROVE  \E x \in Requests : Cuts(x, j)'
    BY DEF Cutting
  <2>1. j \in sessions /\ proof[j] \notin Good
    BY <1>12 DEF tables
  <2>2. PICK x \in Requests : Cuts(x, j)
    BY <2>1 DEF CInv, Cutting
  <2>3. x # r
    BY <1>12, <2>2, CredentialsAssumption DEF Cuts, Statements
  <2>4. req'[x] = req[x]
    BY <1>10, <2>3
  <2>5. Cuts(x, j)'
    BY <2>2, <2>4 DEF Cuts
  <2> QED
    BY <2>5
<1>15. Others(r)
  BY <1>10 DEF Others
<1> QED
  BY <1>3, <1>8, <1>10, <1>11, <1>12, <1>13, <1>14, <1>15 DEF CInv, tables, start

LEMMA InitCInv == Init => CInv
<1> SUFFICES ASSUME Init PROVE CInv
  OBVIOUS
<1>1. 0 \in Ids /\ "none" \in Proofs /\ "current" \in Proofs /\ "current" \in Good
  BY CredentialsAssumption DEF Ids, Proofs, Good
<1>2. Idle \in ReqType /\ Idle.at = None /\ Idle.op = None
  BY <1>1 DEF Idle, ReqType
<1>3. /\ [NoToken EXCEPT !.state = "live"] \in [state : {"none", "live", "revoked"}, session : Ids]
      /\ [NoToken EXCEPT !.state = "live"].session = 0
  <2>1. NoToken \in [state : {"none"}, session : {0}]
    BY DEF NoToken
  <2> QED
    BY <1>1, <2>1
<1>4. TablesType
  BY <1>1, <1>3, NoTokenType, CredentialsAssumption DEF Init, TablesType
<1>5. RequestsType
  BY <1>2 DEF Init, RequestsType, Served
<1>6. Linked
  BY <1>1, <1>3, NoTokenType DEF Init, Linked
<1>7. Cutting
  BY <1>1 DEF Init, Cutting
<1> QED
  BY <1>4, <1>5, <1>6, <1>7 DEF CInv

\* A statement that makes no session: those that there are stay or go.
Quiet(r) == \E s \in Statements \ {"insert", "commit"} : Turn(r, s) /\ sessions' \subseteq sessions

LEMMA StepMoves ==
  ASSUME CInv, CopiesInv, ops' = ops, NEW r \in Requests, Step(r)
  PROVE  CInv' /\ (start(r) \/ insertSession(r) \/ commitSession(r) \/ Quiet(r))
<1>1. CASE start(r)
  BY <1>1, startMoves
<1>2. CASE auth(r)
  BY <1>2, authMoves DEF auth, tables, Quiet, Statements, Checks
<1>3. CASE readUser(r)
  BY <1>3, readUserMoves DEF readUser, tables, Quiet, Statements, Checks
<1>4. CASE insertSession(r)
  BY <1>4, insertMoves
<1>5. CASE commitSession(r)
  BY <1>5, commitMoves
<1>6. CASE deleteUserSession(r)
  BY <1>6, deleteSessionMoves DEF Quiet, Statements, Checks
<1>7. CASE notFound(r)
  BY <1>7, notFoundMoves DEF notFound, tables, Quiet, Statements, Checks
<1>8. CASE selectSessions(r)
  BY <1>8, selectMoves DEF Quiet, Statements, Checks
<1>9. CASE deleteUserSessions(r)
  BY <1>9, deleteSessionsMoves DEF Quiet, Statements, Checks
<1>10. CASE issueRefreshToken(r)
  BY <1>10, issueMoves DEF Quiet, Statements, Checks
<1>11. CASE validateToken(r)
  BY <1>11, validateMoves DEF Quiet, Statements, Checks
<1>12. CASE validateLinked(r)
  BY <1>12, linkedMoves DEF Quiet, Statements, Checks
<1>13. CASE rotate(r)
  BY <1>13, rotateMoves DEF Quiet, Statements, Checks
<1>14. CASE revokeAll(r)
  BY <1>14, revokeAllMoves DEF Quiet, Statements, Checks
<1>16. CASE invalidateResetTokens(r)
  BY <1>16, invalidateResetsMoves DEF Quiet, Statements, Checks
<1>17. CASE createResetToken(r)
  BY <1>17, createResetMoves DEF Quiet, Statements, Checks
<1>18. CASE lookupReset(r)
  BY <1>18, lookupMoves DEF Quiet, Statements, Checks
<1>19. CASE rememberReset(r)
  BY <1>19, rememberMoves DEF Quiet, Statements, Checks
<1>20. CASE claimReset(r)
  BY <1>20, claimResetMoves DEF Quiet, Statements, Checks
<1>21. CASE forgetReset(r)
  BY <1>21, forgetMoves DEF Quiet, Statements, Checks
<1>22. CASE cutChanges(r)
  BY <1>22, cutChangesMoves DEF Quiet, Statements, Checks
<1>23. CASE replaceChange(r)
  BY <1>23, replaceChangeMoves DEF Quiet, Statements, Checks
<1>24. CASE invalidateVerificationTokens(r)
  BY <1>24, invalidateChangesMoves DEF Quiet, Statements, Checks
<1>25. CASE createChange(r)
  BY <1>25, createChangeMoves DEF Quiet, Statements, Checks
<1>26. CASE claimChange(r)
  BY <1>26, claimChangeMoves DEF Quiet, Statements, Checks
<1>27. CASE readAddress(r)
  BY <1>27, readAddressMoves DEF Quiet, Statements, Checks
<1> QED
  BY <1>1, <1>2, <1>3, <1>4, <1>5, <1>6, <1>7, <1>8, <1>9, <1>10,
     <1>11, <1>12, <1>13, <1>14, <1>16, <1>17, <1>18, <1>19, <1>20,
     <1>21, <1>22, <1>23, <1>24, <1>25, <1>26, <1>27 DEF Step

\* The statements that write the user's row.
Change(r) == updatePassword(r) \/ updateUserEmail(r)

LEMMA ChangeMoves ==
  ASSUME CInv, ops' = ops, NEW r \in Requests, Change(r)
  PROVE  CInv' /\ Quiet(r)
<1>1. CASE updatePassword(r)
  BY <1>1, updateMoves DEF Quiet, Statements, Checks
<1>2. CASE updateUserEmail(r)
  BY <1>2, updateEmailMoves DEF Quiet, Statements, Checks
<1> QED
  BY <1>1, <1>2 DEF Change

\* What a step is: only the statements that write the row, and getUsers, touch the copies.
LEMMA NextCases ==
  ASSUME [Next]_vars
  PROVE  \/ ops' = ops /\ \E r \in Requests : Step(r) /\ UNCHANGED copies
         \/ ops' = ops /\ \E r \in Requests : Change(r)
         \/ ops' = ops /\ deleteExpired /\ UNCHANGED copies
         \/ ops' = ops /\ getUsers
         \/ UNCHANGED vars
BY DEF Next, Change

LEMMA NextCInv == CInv /\ CopiesInv /\ [Next]_vars => CInv'
<1> SUFFICES ASSUME CInv, CopiesInv, [Next]_vars PROVE CInv'
  OBVIOUS
<1>1. ASSUME ops' = ops, NEW r \in Requests, Step(r)
      PROVE  CInv'
  BY <1>1, StepMoves
<1>2. CASE deleteExpired /\ ops' = ops
  BY <1>2, deleteExpiredMoves
<1>3. ASSUME UNCHANGED <<ops, tables, req>>
      PROVE  CInv'
  BY <1>3 DEF tables, CInv, TablesType, RequestsType, Linked, Cutting, Cuts
<1>4. CASE getUsers /\ ops' = ops
  BY <1>3, <1>4 DEF getUsers
<1>5. CASE UNCHANGED vars
  BY <1>3, <1>5 DEF vars, tables
<1>6. ASSUME ops' = ops, NEW r \in Requests, Change(r)
      PROVE  CInv'
  BY <1>6, ChangeMoves
<1> QED
  BY <1>1, <1>2, <1>4, <1>5, <1>6, NextCases

\* The address is written by a confirmed link only.
LEMMA StepEmail ==
  ASSUME NEW r \in Requests, Step(r)
  PROVE  email' = email
<1>1. \/ UNCHANGED tables
      \/ email' = email
  BY DEF Step, start, auth, readUser, insertSession, commitSession, deleteUserSession, notFound,
         selectSessions, deleteUserSessions, issueRefreshToken, validateToken, validateLinked,
         rotate, revokeAll, invalidateResetTokens, createResetToken, lookupReset, rememberReset,
         claimReset, forgetReset, cutChanges, replaceChange, invalidateVerificationTokens,
         createChange, claimChange, readAddress
<1> QED
  BY <1>1 DEF tables

\* A write to the row leaves no copy in force, unless it writes what was there.
LEMMA InvalidatedCopies ==
  ASSUME CopiesInv, email' \in Emails, NEW changed \in BOOLEAN, invalidateUserCache(changed),
         changed \/ email' = email
  PROVE  CopiesInv'
<1>1. CASE changed
  <2>1. copies' = {[row EXCEPT !.current = FALSE] : row \in copies}
    BY <1>1 DEF invalidateUserCache
  <2>2. \A row \in copies : /\ [row EXCEPT !.current = FALSE] \in Rows
                            /\ [row EXCEPT !.current = FALSE].current = FALSE
    BY DEF CopiesInv, Rows
  <2> QED
    BY <2>1, <2>2 DEF CopiesInv
<1>2. CASE ~changed
  BY <1>2 DEF invalidateUserCache, CopiesInv
<1> QED
  BY <1>1, <1>2

LEMMA NextCopies == CInv /\ CopiesInv /\ [Next]_vars => CopiesInv'
<1> SUFFICES ASSUME CInv, CopiesInv, [Next]_vars PROVE CopiesInv'
  OBVIOUS
<1>0. CInv'
  BY NextCInv
<1>1. ASSUME NEW r \in Requests, Step(r), UNCHANGED copies
      PROVE  CopiesInv'
  BY <1>1, StepEmail DEF CopiesInv
<1>2. ASSUME NEW r \in Requests, updatePassword(r)
      PROVE  CopiesInv'
  <2>1. invalidateUserCache(TRUE) /\ email' = email
    BY <1>2 DEF updatePassword
  <2> QED
    BY <1>0, <2>1, InvalidatedCopies DEF CInv, TablesType
<1>3. ASSUME NEW r \in Requests, updateUserEmail(r)
      PROVE  CopiesInv'
  <2>1. invalidateUserCache(email # req[r].email) /\ email' = req[r].email
    BY <1>3 DEF updateUserEmail
  <2> QED
    BY <1>0, <2>1, InvalidatedCopies DEF CInv, TablesType
<1>4. CASE getUsers
  <2>1. copies' = copies \cup {Row} /\ email' = email
    BY <1>4 DEF getUsers, tables
  <2>2. Row \in Rows /\ Row.email = email
    BY DEF Row, Rows, CInv, TablesType
  <2> QED
    BY <2>1, <2>2 DEF CopiesInv
<1>5. CASE deleteExpired /\ UNCHANGED copies
  BY <1>5 DEF deleteExpired, CopiesInv
<1>6. CASE UNCHANGED vars
  BY <1>6 DEF vars, CopiesInv
<1> QED
  BY <1>1, <1>2, <1>3, <1>4, <1>5, <1>6, NextCases DEF Change

LEMMA CInvAlways == Spec => [](CInv /\ CopiesInv)
<1>1. Init => CopiesInv
  BY DEF Init, CopiesInv
<1> QED
  BY <1>1, InitCInv, NextCInv, NextCopies, PTL DEF Spec

\* Every variable has its type: no request gets to a statement without what the statement uses.
THEOREM TypeCorrect == Spec => []TypeOK
<1>1. CInv /\ CopiesInv => TypeOK
  BY DEF CInv, CopiesInv, TablesType, RequestsType, TypeOK
<1> QED
  BY <1>1, CInvAlways, PTL

\* change-password, both resets and a confirmed change of address: when none of them is being
\* carried out, every session was obtained with the credentials in force, or by a request that
\* had passed its check before they were replaced or that looked at an older copy of the row.
THEOREM StaleAreCut == Spec => []StaleAreRaced
<1>1. CInv => StaleAreRaced
  <2> SUFFICES ASSUME CInv, Settled, NEW i \in sessions
               PROVE  proof[i] \in {"current", "raced"}
    BY DEF StaleAreRaced
  <2>1. Presented(i) \in Good
    BY PresentedIsGood
  <2> QED
    BY <2>1 DEF Presented, Good
<1> QED
  BY <1>1, CInvAlways, PTL

-----------------------------------------------------------------------------
(* How far concurrent sign-ins exceed the maximum.                         *)

LEMMA OneMore ==
  ASSUME NEW S, IsFiniteSet(S), NEW x
  PROVE  /\ IsFiniteSet(S \cup {x}) /\ Cardinality(S \cup {x}) \in Nat /\ Cardinality(S) \in Nat
         /\ Cardinality(S \cup {x}) <= Cardinality(S) + 1
<1>1. /\ IsFiniteSet(S \cup {x})
      /\ Cardinality(S \cup {x}) = IF x \in S THEN Cardinality(S) ELSE Cardinality(S) + 1
  BY FS_AddElement
<1>2. Cardinality(S \cup {x}) \in Nat /\ Cardinality(S) \in Nat
  BY <1>1, FS_CardinalityType
<1> QED
  BY <1>1, <1>2

\* The sessions after a commit: as many as before and one, and no more than the maximum and those
\* that the transaction has not seen.
LEMMA CommitCount ==
  ASSUME NEW S, IsFiniteSet(S), NEW got, NEW r,
         NEW gone \in kSubset(IF Cardinality(got \cap S) + 1 - MaxSessions > 0
                              THEN Cardinality(got \cap S) + 1 - MaxSessions ELSE 0, got \cap S),
         NEW T, T = (S \ gone) \cup {r}
  PROVE  /\ Cardinality(T) <= Cardinality(S) + 1
         /\ Cardinality(T) <= Cardinality(S \ got) + MaxSessions
         /\ \A g : Cardinality(T \ g) <= Cardinality(S \ g) + 1
<1> DEFINE seen == got \cap S
<1> DEFINE k == IF Cardinality(seen) + 1 - MaxSessions > 0
                THEN Cardinality(seen) + 1 - MaxSessions ELSE 0
<1>0. MaxSessions \in Nat \ {0}
  BY CredentialsAssumption
<1>1. gone \subseteq seen /\ Cardinality(gone) = k
  BY DEF kSubset
<1>2. IsFiniteSet(seen) /\ IsFiniteSet(gone) /\ Cardinality(seen) \in Nat /\ Cardinality(S) \in Nat
  <2>1. seen \subseteq S
    OBVIOUS
  <2>2. IsFiniteSet(seen)
    BY <2>1, FS_Subset
  <2>3. IsFiniteSet(gone)
    BY <1>1, <2>2, FS_Subset
  <2> QED
    BY <2>2, <2>3, FS_CardinalityType
<1>3. /\ IsFiniteSet(S \ got) /\ Cardinality(S \ got) = Cardinality(S) - Cardinality(seen)
      /\ Cardinality(S \ got) \in Nat
  <2>1. S \cap got = seen
    OBVIOUS
  <2>2. IsFiniteSet(S \ got) /\ Cardinality(S \ got) = Cardinality(S) - Cardinality(S \cap got)
    BY FS_Difference
  <2> QED
    BY <2>1, <2>2, FS_CardinalityType
<1>4. /\ IsFiniteSet(S \ gone) /\ Cardinality(S \ gone) = Cardinality(S) - Cardinality(gone)
      /\ Cardinality(S \ gone) \in Nat
  <2>1. S \cap gone = gone
    BY <1>1
  <2>2. IsFiniteSet(S \ gone) /\ Cardinality(S \ gone) = Cardinality(S) - Cardinality(S \cap gone)
    BY FS_Difference
  <2> QED
    BY <2>1, <2>2, FS_CardinalityType
<1>5. /\ IsFiniteSet(T) /\ Cardinality(T) \in Nat
      /\ Cardinality(T) <= Cardinality(S \ gone) + 1
  BY <1>4, OneMore
<1>6. k \in Nat /\ Cardinality(seen) + 1 - k <= MaxSessions
  BY <1>0, <1>2
<1>7. Cardinality(T) <= Cardinality(S) + 1 /\ Cardinality(T) <= Cardinality(S \ got) + MaxSessions
  <2> HIDE DEF k, seen
  <2> QED
    BY <1>0, <1>1, <1>2, <1>3, <1>4, <1>5, <1>6
<1>8. ASSUME NEW g
      PROVE  Cardinality(T \ g) <= Cardinality(S \ g) + 1
  <2>1. IsFiniteSet(S \ g) /\ Cardinality(S \ g) \in Nat
    BY FS_Difference, FS_CardinalityType
  <2>2. /\ IsFiniteSet((S \ g) \cup {r}) /\ Cardinality((S \ g) \cup {r}) <= Cardinality(S \ g) + 1
        /\ Cardinality((S \ g) \cup {r}) \in Nat
    BY <2>1, OneMore
  <2>3. T \ g \subseteq (S \ g) \cup {r}
    OBVIOUS
  <2>4. Cardinality(T \ g) <= Cardinality((S \ g) \cup {r}) /\ IsFiniteSet(T \ g)
    BY <2>2, <2>3, FS_Subset
  <2>5. Cardinality(T \ g) \in Nat
    BY <2>4, FS_CardinalityType
  <2> QED
    BY <2>1, <2>2, <2>4, <2>5
<1> QED
  BY <1>7, <1>8

\* The transactions that have read and not committed, W, in the order in which they read: those
\* that read before a transaction, and itself.
InOrder(f, W) ==
  /\ f \in [W -> SUBSET W]
  /\ \A y \in W : y \in f[y]
  /\ \A x, y \in W : x \notin f[y] => f[y] \cup {x} \subseteq f[x]

\* There is room for the transactions that read before one that saw the sessions got: either there
\* are few sessions, or it has overlooked few of them.
Fits(S, got, k) ==
  \/ Cardinality(S) + k <= MaxSessions + MaxInflight - 1
  \/ Cardinality(S \ got) + k <= MaxInflight

LEMMA FitsFewer ==
  ASSUME NEW S, IsFiniteSet(S), NEW T, T \subseteq S, NEW got, NEW k \in Nat, Fits(S, got, k)
  PROVE  Fits(T, got, k)
<1>0. MaxSessions \in Nat /\ MaxInflight \in Nat
  BY CredentialsAssumption
<1>1. /\ IsFiniteSet(T) /\ Cardinality(T) <= Cardinality(S) /\ Cardinality(S) \in Nat
      /\ Cardinality(T) \in Nat
  BY FS_Subset, FS_CardinalityType
<1>2. IsFiniteSet(S \ got) /\ T \ got \subseteq S \ got
  BY FS_Difference
<1>3. Cardinality(T \ got) <= Cardinality(S \ got) /\ IsFiniteSet(T \ got)
  BY <1>2, FS_Subset
<1>4. Cardinality(S \ got) \in Nat /\ Cardinality(T \ got) \in Nat
  BY <1>2, <1>3, FS_CardinalityType
<1> QED
  BY <1>0, <1>1, <1>3, <1>4 DEF Fits

\* The transactions that read and have not committed, and the requests that are served.
Committing == {x \in Requests : req[x].at = "commit"}
Serving == {x \in Requests : Active(x)}

OInv ==
  /\ Cardinality(Serving) <= MaxInflight
  /\ Cardinality(sessions) <= MaxSessions + MaxInflight - 1
  /\ \E f \in [Committing -> SUBSET Committing] :
       /\ InOrder(f, Committing)
       /\ \A y \in Committing : Fits(sessions, req[y].got, Cardinality(f[y]))

LEMMA FiniteRequests ==
  /\ IsFiniteSet(Requests) /\ IsFiniteSet(Ids)
  /\ \A W \in SUBSET Requests : IsFiniteSet(W) /\ Cardinality(W) \in Nat
<1>1. IsFiniteSet(Requests) /\ IsFiniteSet(Ids)
  BY CredentialsAssumption, FS_Interval DEF Requests, Ids
<1> QED
  BY <1>1, FS_Subset, FS_CardinalityType

LEMMA CommitFollowsInsert ==
  ASSUME NEW op, NEW s, OnPath(op, s), After(op, s) = "commit"
  PROVE  s = "insert"
<1>0. None # "commit"
  BY CredentialsAssumption DEF Statements
<1>1. CASE op = "login"
  BY <1>0, <1>1, AfterLogin DEF OnPath
<1>2. CASE op = "logout"
  BY <1>0, <1>2, AfterLogout DEF OnPath
<1>3. CASE op = "refreshSession"
  BY <1>0, <1>3, AfterRefreshSession DEF OnPath
<1>4. CASE op = "refreshToken"
  BY <1>0, <1>4, AfterRefreshToken DEF OnPath
<1>5. CASE op = "revokeSession"
  BY <1>0, <1>5, AfterRevokeSession DEF OnPath
<1>6. CASE op = "revokeOthers"
  BY <1>0, <1>6, AfterRevokeOthers DEF OnPath
<1>7. CASE op = "changePassword"
  BY <1>0, <1>7, AfterChangePassword DEF OnPath
<1>8. CASE op = "adminReset"
  BY <1>0, <1>8, AfterAdminReset DEF OnPath
<1>9. CASE op = "forgotPassword"
  BY <1>0, <1>9, AfterForgotPassword DEF OnPath
<1>10. CASE op = "resetLink"
  BY <1>0, <1>10, AfterResetLink DEF OnPath
<1>11. CASE op = "resetPage"
  BY <1>0, <1>11, AfterResetPage DEF OnPath
<1>12. CASE op = "resetPassword"
  BY <1>0, <1>12, AfterResetPassword DEF OnPath
<1>13. CASE op = "changeEmail"
  BY <1>0, <1>13, AfterChangeEmail DEF OnPath
<1>14. CASE op = "resendVerification"
  BY <1>0, <1>14, AfterResendVerification DEF OnPath
<1>15. CASE op = "verifyEmail"
  BY <1>0, <1>15, AfterVerifyEmail DEF OnPath
<1> QED
  BY <1>1, <1>2, <1>3, <1>4, <1>5, <1>6, <1>7, <1>8,
     <1>9, <1>10, <1>11, <1>12, <1>13, <1>14, <1>15 DEF OnPath

\* Who waits to commit, with what it saw, and who is served, after a step of request r.
LEMMA ServingAfter ==
  ASSUME RequestsType, NEW r \in Requests, NEW s, s # None, Turn(r, s)
  PROVE  /\ Serving' \subseteq Serving /\ r \in Serving
         /\ Committing' \ {r} = Committing \ {r}
         /\ \A y \in Committing' \ {r} : req'[y].got = req[y].got
         /\ r \in Committing' => s = "insert"
<1>1. req[r].at = s /\ OnPath(req[r].op, s) /\ req'[r].at \in {None, After(req[r].op, s)}
  BY DEF Turn
<1>2. \A x \in Requests \ {r} : req'[x].at = req[x].at /\ req'[x].got = req[x].got
  BY DEF Turn, Others
<1>3. r \in Serving
  BY <1>1 DEF Serving, Active
<1>4. Serving' \subseteq Serving
  BY <1>2, <1>3 DEF Serving, Active
<1>5. Committing' \ {r} = Committing \ {r}
  BY <1>2 DEF Committing
<1>6. \A y \in Committing' \ {r} : req'[y].got = req[y].got
  BY <1>2 DEF Committing
<1>7. r \in Committing' => s = "insert"
  BY <1>1, CommitFollowsInsert, CredentialsAssumption DEF Committing, Statements
<1> QED
  BY <1>3, <1>4, <1>5, <1>6, <1>7

\* The bounds hold on when nobody starts to wait, and sessions only go.
LEMMA FewerKeep ==
  ASSUME OInv, sessions \subseteq Ids, sessions' \subseteq sessions, Committing' = Committing,
         \A y \in Committing : req'[y].got = req[y].got,
         Cardinality(Serving') <= MaxInflight
  PROVE  OInv'
<1>0. MaxSessions \in Nat /\ MaxInflight \in Nat
  BY CredentialsAssumption
<1>1. IsFiniteSet(sessions) /\ Cardinality(sessions) \in Nat
  BY FiniteRequests, FS_Subset, FS_CardinalityType
<1>2. Cardinality(sessions') <= Cardinality(sessions) /\ Cardinality(sessions') \in Nat
  BY <1>1, FS_Subset, FS_CardinalityType
<1>3. PICK f \in [Committing -> SUBSET Committing] :
        /\ InOrder(f, Committing)
        /\ \A y \in Committing : Fits(sessions, req[y].got, Cardinality(f[y]))
  BY DEF OInv
<1>4. ASSUME NEW y \in Committing
      PROVE  Fits(sessions', req'[y].got, Cardinality(f[y]))
  <2>1. f[y] \subseteq Requests
    BY DEF Committing
  <2>2. Cardinality(f[y]) \in Nat
    BY <2>1, FiniteRequests
  <2>3. Fits(sessions', req[y].got, Cardinality(f[y]))
    BY <1>1, <1>3, <2>2, FitsFewer
  <2> QED
    BY <2>3
<1>5. Cardinality(sessions') <= MaxSessions + MaxInflight - 1
  BY <1>0, <1>1, <1>2 DEF OInv
<1>6. /\ f \in [Committing' -> SUBSET Committing'] /\ InOrder(f, Committing')
      /\ \A y \in Committing' : Fits(sessions', req'[y].got, Cardinality(f[y]))
  BY <1>3, <1>4
<1> QED
  BY <1>5, <1>6 DEF OInv

LEMMA ServingBound ==
  ASSUME OInv, Serving' \subseteq Serving
  PROVE  Cardinality(Serving') <= MaxInflight
<1>1. Serving \subseteq Requests
  BY DEF Serving
<1>2. IsFiniteSet(Serving) /\ Cardinality(Serving) \in Nat
  BY <1>1, FiniteRequests
<1>3. Cardinality(Serving') <= Cardinality(Serving) /\ Cardinality(Serving') \in Nat
  BY <1>2, FS_Subset, FS_CardinalityType
<1> QED
  BY <1>2, <1>3, CredentialsAssumption DEF OInv

LEMMA quietKeeps ==
  ASSUME RequestsType, OInv, sessions \subseteq Ids, NEW r \in Requests, Quiet(r)
  PROVE  OInv'
<1>1. PICK s \in Statements \ {"insert", "commit"} : Turn(r, s) /\ sessions' \subseteq sessions
  BY DEF Quiet
<1>2. s # None
  BY CredentialsAssumption
<1>3. /\ Serving' \subseteq Serving /\ Committing' \ {r} = Committing \ {r}
      /\ \A y \in Committing' \ {r} : req'[y].got = req[y].got
      /\ r \notin Committing'
  BY <1>1, <1>2, ServingAfter
<1>4. r \notin Committing
  BY <1>1 DEF Turn, Committing
<1>5. Committing' = Committing /\ \A y \in Committing : req'[y].got = req[y].got
  BY <1>3, <1>4
<1>6. Cardinality(Serving') <= MaxInflight
  BY <1>3, ServingBound
<1> QED
  BY <1>1, <1>5, <1>6, FewerKeep

LEMMA startKeeps ==
  ASSUME CInv, OInv, ops' = ops, NEW r \in Requests, start(r)
  PROVE  OInv'
<1>1. /\ UNCHANGED sessions /\ req[r].at = None /\ Others(r) /\ req'[r].at # "commit"
      /\ Cardinality(Serving) < MaxInflight
  BY startMoves DEF Serving
<1>2. \A x \in Requests \ {r} : req'[x].at = req[x].at /\ req'[x].got = req[x].got
  BY <1>1 DEF Others
<1>3. Committing' = Committing /\ \A y \in Committing : req'[y].got = req[y].got
  BY <1>1, <1>2, CredentialsAssumption DEF Committing, Statements
<1>4. Serving' \subseteq Serving \cup {r}
  BY <1>2 DEF Serving, Active
<1>5. Cardinality(Serving') <= MaxInflight
  <2>1. IsFiniteSet(Serving)
    <3>1. Serving \subseteq Requests
      BY DEF Serving
    <3> QED
      BY <3>1, FiniteRequests
  <2>2. /\ IsFiniteSet(Serving \cup {r}) /\ Cardinality(Serving \cup {r}) \in Nat
        /\ Cardinality(Serving) \in Nat
        /\ Cardinality(Serving \cup {r}) <= Cardinality(Serving) + 1
    BY <2>1, OneMore
  <2>3. Cardinality(Serving') <= Cardinality(Serving \cup {r}) /\ Cardinality(Serving') \in Nat
    BY <1>4, <2>2, FS_Subset, FS_CardinalityType
  <2> QED
    BY <1>1, <2>2, <2>3, CredentialsAssumption
<1>6. sessions \subseteq Ids /\ sessions' \subseteq sessions
  BY <1>1 DEF CInv, TablesType
<1> QED
  BY <1>3, <1>5, <1>6, FewerKeep

\* A transaction that starts comes after those that have read.
LEMMA OrderJoin ==
  ASSUME NEW W, NEW f, InOrder(f, W), NEW r, r \notin W
  PROVE  LET V == W \cup {r}
             g == [y \in V |-> IF y = r THEN V ELSE f[y]]
         IN  g \in [V -> SUBSET V] /\ InOrder(g, V) /\ g[r] = V /\ \A y \in W : g[y] = f[y]
<1> DEFINE V == W \cup {r}
<1> DEFINE g == [y \in V |-> IF y = r THEN V ELSE f[y]]
<1>1. /\ f \in [W -> SUBSET W] /\ \A y \in W : y \in f[y]
      /\ \A x, y \in W : x \notin f[y] => f[y] \cup {x} \subseteq f[x]
  BY DEF InOrder
<1>2. g \in [V -> SUBSET V] /\ g[r] = V /\ \A y \in W : g[y] = f[y]
  BY <1>1
<1> HIDE DEF g
<1>3. \A y \in V : y \in g[y]
  BY <1>1, <1>2
<1>4. ASSUME NEW x \in V, NEW y \in V, x \notin g[y]
      PROVE  g[y] \cup {x} \subseteq g[x]
  <2>1. y \in W /\ g[y] = f[y] /\ f[y] \subseteq W
    BY <1>1, <1>2, <1>4
  <2>2. CASE x = r
    BY <1>2, <2>1, <2>2
  <2>3. CASE x # r
    BY <1>1, <1>2, <1>4, <2>1, <2>3
  <2> QED
    BY <2>2, <2>3
<1> QED
  BY <1>2, <1>3, <1>4 DEF InOrder, g

\* One that has committed leaves the order.
LEMMA OrderLeave ==
  ASSUME NEW W, NEW f, InOrder(f, W), NEW r
  PROVE  LET V == W \ {r}
             g == [y \in V |-> f[y] \ {r}]
         IN  g \in [V -> SUBSET V] /\ InOrder(g, V) /\ \A y \in V : g[y] = f[y] \ {r}
<1> DEFINE V == W \ {r}
<1> DEFINE g == [y \in V |-> f[y] \ {r}]
<1>1. /\ f \in [W -> SUBSET W] /\ \A y \in W : y \in f[y]
      /\ \A x, y \in W : x \notin f[y] => f[y] \cup {x} \subseteq f[x]
  BY DEF InOrder
<1>2. g \in [V -> SUBSET V] /\ \A y \in V : g[y] = f[y] \ {r}
  BY <1>1
<1> HIDE DEF g
<1>3. \A y \in V : y \in g[y]
  BY <1>1, <1>2
<1>4. ASSUME NEW x \in V, NEW y \in V, x \notin g[y]
      PROVE  g[y] \cup {x} \subseteq g[x]
  <2>1. x \notin f[y] /\ x \in W /\ y \in W
    BY <1>2, <1>4
  <2>2. f[y] \cup {x} \subseteq f[x]
    BY <1>1, <2>1
  <2> QED
    BY <1>2, <2>2
<1> QED
  BY <1>2, <1>3, <1>4 DEF InOrder, g

LEMMA insertKeeps ==
  ASSUME CInv, OInv, ops' = ops, NEW r \in Requests, insertSession(r)
  PROVE  OInv'
<1>0. /\ MaxSessions \in Nat /\ MaxInflight \in Nat /\ RequestsType /\ sessions \subseteq Ids
      /\ "insert" # None /\ "insert" # "commit"
  BY CredentialsAssumption DEF CInv, TablesType, Statements
<1>1. /\ Turn(r, "insert") /\ UNCHANGED sessions
      /\ req'[r].at = "commit" /\ req'[r].got = sessions
  BY insertMoves
<1>2. /\ Serving' \subseteq Serving /\ Committing' \ {r} = Committing \ {r}
      /\ \A y \in Committing' \ {r} : req'[y].got = req[y].got
  BY <1>0, <1>1, ServingAfter
<1>3. r \notin Committing /\ r \in Committing'
  BY <1>1 DEF Turn, Committing
<1>4. Committing' = Committing \cup {r}
  BY <1>2, <1>3
<1>5. Cardinality(Serving') <= MaxInflight
  BY <1>2, ServingBound
<1>6. Cardinality(Committing') <= MaxInflight /\ Cardinality(Committing') \in Nat
  <2>1. Committing' \subseteq Serving' /\ Serving' \subseteq Requests
    BY CredentialsAssumption DEF Committing, Serving, Active, Statements
  <2>2. /\ IsFiniteSet(Serving') /\ Cardinality(Serving') \in Nat
    BY <2>1, FiniteRequests
  <2>3. Cardinality(Committing') <= Cardinality(Serving') /\ Cardinality(Committing') \in Nat
    BY <2>1, <2>2, FS_Subset, FS_CardinalityType
  <2> QED
    BY <1>0, <1>5, <2>2, <2>3
<1>7. PICK f \in [Committing -> SUBSET Committing] :
        /\ InOrder(f, Committing)
        /\ \A y \in Committing : Fits(sessions, req[y].got, Cardinality(f[y]))
  BY DEF OInv
<1> DEFINE V == Committing \cup {r}
<1> DEFINE g == [y \in V |-> IF y = r THEN V ELSE f[y]]
<1>8. g \in [V -> SUBSET V] /\ InOrder(g, V) /\ g[r] = V /\ \A y \in Committing : g[y] = f[y]
  BY ZenonT(60), <1>3, <1>7, OrderJoin
<1> HIDE DEF g
<1>9. ASSUME NEW y \in V
      PROVE  Fits(sessions', req'[y].got, Cardinality(g[y]))
  <2>1. CASE y = r
    <3>1. sessions' \ req'[r].got = {} /\ g[y] = Committing'
      BY <1>1, <1>4, <1>8, <2>1
    <3>2. Cardinality({}) = 0
      BY FS_EmptySet
    <3>3. Cardinality(sessions' \ req'[r].got) = 0 /\ Cardinality(g[y]) = Cardinality(Committing')
      BY <3>1, <3>2
    <3>4. Cardinality(sessions' \ req'[r].got) + Cardinality(g[y]) <= MaxInflight
      BY <1>0, <1>6, <3>3
    <3> QED
      BY <2>1, <3>4 DEF Fits
  <2>2. CASE y # r
    <3>1. y \in Committing /\ req'[y].got = req[y].got /\ g[y] = f[y]
      BY <1>2, <1>4, <1>8, <2>2
    <3> QED
      BY <1>1, <1>7, <3>1
  <2> QED
    BY <2>1, <2>2
<1>10. Cardinality(sessions') <= MaxSessions + MaxInflight - 1
  BY <1>1 DEF OInv
<1>11. /\ g \in [Committing' -> SUBSET Committing'] /\ InOrder(g, Committing')
       /\ \A y \in Committing' : Fits(sessions', req'[y].got, Cardinality(g[y]))
  BY <1>4, <1>8, <1>9
<1> QED
  BY <1>5, <1>10, <1>11 DEF OInv

LEMMA commitKeeps ==
  ASSUME CInv, OInv, ops' = ops, NEW r \in Requests, commitSession(r)
  PROVE  OInv'
<1>0. /\ MaxSessions \in Nat \ {0} /\ MaxInflight \in Nat /\ RequestsType /\ sessions \subseteq Ids
      /\ "commit" # None /\ "insert" # "commit" /\ req[r].at = "commit"
  BY CredentialsAssumption DEF CInv, TablesType, Statements, commitSession, At
<1>1. Turn(r, "commit") /\ req'[r].at # "commit"
  BY commitMoves
<1>2. /\ Serving' \subseteq Serving /\ Committing' \ {r} = Committing \ {r}
      /\ \A y \in Committing' \ {r} : req'[y].got = req[y].got
  BY <1>0, <1>1, ServingAfter
<1>3. r \in Committing /\ r \notin Committing'
  BY <1>0, <1>1 DEF Committing
<1>4. Committing' = Committing \ {r} /\ \A y \in Committing' : req'[y].got = req[y].got
  BY <1>2, <1>3
<1>5. Cardinality(Serving') <= MaxInflight
  BY <1>2, ServingBound
<1>6. PICK f \in [Committing -> SUBSET Committing] :
        /\ InOrder(f, Committing)
        /\ \A y \in Committing : Fits(sessions, req[y].got, Cardinality(f[y]))
  BY DEF OInv
<1> DEFINE V == Committing \ {r}
<1> DEFINE g == [y \in V |-> f[y] \ {r}]
<1>7. g \in [V -> SUBSET V] /\ InOrder(g, V) /\ \A y \in V : g[y] = f[y] \ {r}
  BY <1>6, OrderLeave
<1> HIDE DEF g
<1> DEFINE S == sessions
<1> DEFINE T == sessions'
<1>8. IsFiniteSet(S) /\ IsFiniteSet(T) /\ Cardinality(S) \in Nat /\ Cardinality(T) \in Nat
  <2>1. sessions' \subseteq Ids
    BY commitMoves DEF CInv, TablesType
  <2> QED
    BY <1>0, <2>1, FiniteRequests, FS_Subset, FS_CardinalityType
<1>9. /\ Cardinality(T) <= Cardinality(S) + 1
      /\ Cardinality(T) <= Cardinality(S \ req[r].got) + MaxSessions
      /\ \A h : Cardinality(T \ h) <= Cardinality(S \ h) + 1
  <2>1. PICK gone \in Evictions(r) : sessions' = (sessions \ gone) \cup {r}
    BY DEF commitSession
  <2>2. gone \in kSubset(IF Cardinality(req[r].got \cap S) + 1 - MaxSessions > 0
                         THEN Cardinality(req[r].got \cap S) + 1 - MaxSessions ELSE 0,
                         req[r].got \cap S)
    BY DEF Evictions
  <2> DEFINE got == req[r].got
  <2> HIDE DEF got, T, S
  <2>3. IsFiniteSet(S) /\ T = (S \ gone) \cup {r}
    BY <1>8, <2>1 DEF S, T
  <2>4. gone \in kSubset(IF Cardinality(got \cap S) + 1 - MaxSessions > 0
                         THEN Cardinality(got \cap S) + 1 - MaxSessions ELSE 0, got \cap S)
    BY <2>2 DEF got
  <2>5. /\ Cardinality(T) <= Cardinality(S) + 1
        /\ Cardinality(T) <= Cardinality(S \ got) + MaxSessions
        /\ \A h : Cardinality(T \ h) <= Cardinality(S \ h) + 1
    BY <2>3, <2>4, CommitCount
  <2> QED
    BY <2>5 DEF got
<1> HIDE DEF S, T
<1>10. \A h : Cardinality(S \ h) \in Nat /\ Cardinality(T \ h) \in Nat
  BY <1>8, FS_Difference, FS_CardinalityType
<1>11. \A y \in Committing : /\ IsFiniteSet(f[y]) /\ Cardinality(f[y]) \in Nat
                             /\ Fits(S, req[y].got, Cardinality(f[y]))
  <2>1. \A y \in Committing : f[y] \in SUBSET Requests
    BY DEF Committing
  <2> QED
    BY <1>6, <2>1, FiniteRequests DEF S
\* The transaction itself is in its order: there was room for one more session.
<1>12. r \in f[r] /\ Cardinality(f[r]) >= 1
  <2>1. r \in f[r]
    BY <1>3, <1>6 DEF InOrder
  <2>2. f[r] # {} /\ IsFiniteSet(f[r]) /\ Cardinality(f[r]) \in Nat
    BY <1>3, <1>11, <2>1
  <2>3. Cardinality(f[r]) # 0
    BY <2>2, FS_EmptySet
  <2> QED
    BY <2>1, <2>2, <2>3
<1>13. Cardinality(T) + Cardinality(f[r]) - 1 <= MaxSessions + MaxInflight - 1
  <2>1. Fits(S, req[r].got, Cardinality(f[r])) /\ Cardinality(f[r]) \in Nat
    BY <1>3, <1>11
  <2>2. Cardinality(S \ req[r].got) \in Nat
    BY <1>10
  <2>3. CASE Cardinality(S) + Cardinality(f[r]) <= MaxSessions + MaxInflight - 1
    BY <1>0, <1>8, <1>9, <2>1, <2>3
  <2>4. CASE Cardinality(S \ req[r].got) + Cardinality(f[r]) <= MaxInflight
    BY <1>0, <1>8, <1>9, <2>1, <2>2, <2>4
  <2> QED
    BY <2>1, <2>3, <2>4 DEF Fits
<1>14. Cardinality(T) <= MaxSessions + MaxInflight - 1
  <2>1. Cardinality(f[r]) \in Nat
    BY <1>3, <1>11
  <2> QED
    BY <1>0, <1>8, <1>12, <1>13, <2>1
<1>15. ASSUME NEW y \in V
       PROVE  Fits(T, req[y].got, Cardinality(g[y]))
  <2>0. /\ Cardinality(f[y]) \in Nat /\ IsFiniteSet(f[y]) /\ Fits(S, req[y].got, Cardinality(f[y]))
        /\ Cardinality(f[r]) \in Nat /\ IsFiniteSet(f[r])
    BY <1>3, <1>11
  <2>1. CASE r \in f[y]
    <3>1. Cardinality(g[y]) = Cardinality(f[y]) - 1
      BY <1>7, <2>0, <2>1, FS_RemoveElement
    <3>2. /\ Cardinality(T) <= Cardinality(S) + 1
          /\ Cardinality(T \ req[y].got) <= Cardinality(S \ req[y].got) + 1
          /\ Cardinality(S \ req[y].got) \in Nat /\ Cardinality(T \ req[y].got) \in Nat
      BY <1>9, <1>10
    <3> QED
      BY <1>0, <1>8, <2>0, <3>1, <3>2 DEF Fits
  <2>2. CASE r \notin f[y]
    <3>1. g[y] = f[y]
      <4>1. g[y] = f[y] \ {r}
        BY <1>7
      <4>2. f[y] \ {r} = f[y]
        BY <2>2
      <4> QED
        BY <4>1, <4>2
    <3>2. f[y] \cup {r} \subseteq f[r]
      BY <1>3, <1>6, <2>2 DEF InOrder
    <3>3. Cardinality(f[y] \cup {r}) = Cardinality(f[y]) + 1 /\ IsFiniteSet(f[y] \cup {r})
      BY <2>0, <2>2, FS_AddElement
    <3>4. Cardinality(f[y] \cup {r}) <= Cardinality(f[r])
      BY <2>0, <3>2, FS_Subset
    <3>5. Cardinality(T) + Cardinality(g[y]) <= MaxSessions + MaxInflight - 1
      BY <1>0, <1>8, <1>13, <2>0, <3>1, <3>3, <3>4
    <3> QED
      BY <3>5 DEF Fits
  <2> QED
    BY <2>1, <2>2
<1>16. /\ g \in [Committing' -> SUBSET Committing'] /\ InOrder(g, Committing')
       /\ \A y \in Committing' : Fits(sessions', req'[y].got, Cardinality(g[y]))
  BY <1>4, <1>7, <1>15 DEF T
<1> QED
  BY <1>5, <1>14, <1>16 DEF OInv, T

LEMMA InitOInv == Init => OInv
<1> SUFFICES ASSUME Init PROVE OInv
  OBVIOUS
<1>1. \A r \in Requests : req[r].at = None
  BY DEF Init, Idle
<1>2. Serving = {} /\ Committing = {}
  BY <1>1, CredentialsAssumption DEF Serving, Committing, Active, Statements
<1>3. Cardinality(Serving) = 0 /\ Cardinality(sessions) = 1
  BY <1>2, FS_EmptySet, FS_Singleton DEF Init
<1>4. [y \in {} |-> {}] \in [{} -> SUBSET {}] /\ InOrder([y \in {} |-> {}], {})
  BY DEF InOrder
<1>5. \E f \in [Committing -> SUBSET Committing] :
        /\ InOrder(f, Committing)
        /\ \A y \in Committing : Fits(sessions, req[y].got, Cardinality(f[y]))
  BY <1>2, <1>4
<1>6. 0 <= MaxInflight /\ 1 <= MaxSessions + MaxInflight - 1
  BY CredentialsAssumption
<1> QED
  BY <1>3, <1>5, <1>6 DEF OInv

LEMMA NextOInv == CInv /\ CopiesInv /\ OInv /\ [Next]_vars => OInv'
<1> SUFFICES ASSUME CInv, CopiesInv, OInv, [Next]_vars PROVE OInv'
  OBVIOUS
<1>0. RequestsType /\ sessions \subseteq Ids
  BY DEF CInv, TablesType
<1>1. ASSUME ops' = ops, NEW r \in Requests, Step(r)
      PROVE  OInv'
  <2>1. start(r) \/ insertSession(r) \/ commitSession(r) \/ Quiet(r)
    BY <1>1, StepMoves
  <2>2. CASE start(r)
    BY <1>1, <2>2, startKeeps
  <2>3. CASE insertSession(r)
    BY <1>1, <2>3, insertKeeps
  <2>4. CASE commitSession(r)
    BY <1>1, <2>4, commitKeeps
  <2>5. CASE Quiet(r)
    BY <1>0, <2>5, quietKeeps
  <2> QED
    BY <2>1, <2>2, <2>3, <2>4, <2>5
<1>2. ASSUME UNCHANGED <<sessions, req>>
      PROVE  OInv'
  BY <1>2 DEF OInv, Serving, Committing, Active
<1>3. CASE deleteExpired /\ ops' = ops
  BY <1>2, <1>3, deleteExpiredMoves
<1>4. CASE UNCHANGED vars
  BY <1>2, <1>4 DEF vars
<1>5. ASSUME ops' = ops, NEW r \in Requests, Change(r)
      PROVE  OInv'
  BY <1>0, <1>5, ChangeMoves, quietKeeps
<1>6. CASE getUsers
  BY <1>2, <1>6 DEF getUsers, tables
<1> QED
  BY <1>1, <1>3, <1>4, <1>5, <1>6, NextCases

\* createUserSession counts under READ COMMITTED, so that each of several concurrent sign-ins may
\* overlook the others' sessions: however many follow each other, an account never has more sessions
\* than the maximum and the other requests that are served at the same time.
THEOREM OverflowBounded == Spec => []SessionOverflowIsBounded
<1>1. Init => OInv
  BY InitOInv
<1>2. CInv /\ CopiesInv /\ OInv /\ [Next]_vars => OInv'
  BY NextOInv
<1>3. OInv => SessionOverflowIsBounded
  BY DEF OInv, SessionOverflowIsBounded
<1> QED
  BY <1>1, <1>2, <1>3, CInvAlways, PTL DEF Spec

-----------------------------------------------------------------------------
(* The links that change the address.                                      *)

\* Request r has replaced credentials and will cut the links.
WillCut(r) ==
  \/ req[r].op = "verifyEmail" /\ req[r].at = "invalidateChanges"
  \/ /\ req[r].op \in {"changePassword", "resetPassword"}
     /\ req[r].at \in {"select", "delete", "revokeAll", "cutChanges"}

\* Request r has read the address and is going to mint a link.
WillMint(r) ==
  \/ req[r].op = "changeEmail" /\ req[r].at = "replaceChange"
  \/ req[r].op = "resendVerification" /\ req[r].at \in {"invalidateChanges", "createChange"}

LeftAreCut ==
  \A i \in Ids : changes[i] \notin {None, email} =>
                   proof[i] \in Good \/ \E r \in Requests : WillCut(r)

OneCurrent ==
  \A i, j \in Ids :
    /\ changes[i] \notin {None, email} /\ proof[i] = "current"
    /\ changes[j] \notin {None, email} /\ proof[j] = "current"
    => i = j

\* One that proves the credentials in force has read the address on file.
KeptIsOnFile == \A r \in Requests : WillMint(r) /\ req[r].proof = "current" => req[r].keep = email

\* A request mints its link with its last statement.
UnansweredHaveNone == \A r \in Requests : req[r].at # None \/ ~req[r].done => changes[r] = None

LInv == LeftAreCut /\ OneCurrent /\ KeptIsOnFile /\ UnansweredHaveNone

LEMMA RequestIds == Requests \subseteq Ids
BY CredentialsAssumption DEF Requests, Ids

\* A request that mints a link gets there from the statement that reads the address.
LEMMA MintFollows ==
  ASSUME NEW r \in Requests, NEW s, Turn(r, s), WillMint(r)'
  PROVE  \/ s = "readUser"
         \/ s = "invalidateChanges" /\ req[r].op = "resendVerification"
<1>1. /\ req'[r].at # None /\ req'[r].at = After(req[r].op, s) /\ req'[r].op = req[r].op
      /\ OnPath(req[r].op, s)
  BY CredentialsAssumption DEF Turn, WillMint, Statements
<1>0. "replaceChange" # None /\ "invalidateChanges" # None /\ "createChange" # None
  BY CredentialsAssumption DEF Statements
<1>2. CASE req[r].op = "changeEmail"
  <2>1. After("changeEmail", s) = "replaceChange" /\ OnPath("changeEmail", s)
    BY <1>1, <1>2 DEF WillMint
  <2> QED
    BY <1>0, <2>1, AfterChangeEmail DEF OnPath
<1>3. CASE req[r].op = "resendVerification"
  <2>1. /\ After("resendVerification", s) \in {"invalidateChanges", "createChange"}
        /\ OnPath("resendVerification", s)
    BY <1>1, <1>3 DEF WillMint
  <2> QED
    BY <1>0, <1>3, <2>1, AfterResendVerification DEF OnPath
<1> QED
  BY <1>1, <1>2, <1>3 DEF WillMint

\* No link is minted or marked: what is left is still to be cut.
LEMMA LinksKept ==
  ASSUME LInv, NEW r \in Requests, NEW s, s # None, Turn(r, s), email' = email,
         \A i \in Ids : changes'[i] = None \/ (changes'[i] = changes[i] /\ proof'[i] = proof[i]),
         WillCut(r) => WillCut(r)',
         WillMint(r)' /\ req'[r].proof = "current" => req'[r].keep = email
  PROVE  LInv'
<1>1. \A x \in Requests \ {r} :
        /\ req'[x].op = req[x].op /\ req'[x].at = req[x].at /\ req'[x].keep = req[x].keep
        /\ req'[x].done = req[x].done /\ req'[x].proof \in {req[x].proof, "raced"}
  BY DEF Turn, Others
<1>2. LeftAreCut'
  <2> SUFFICES ASSUME NEW i \in Ids, changes'[i] \notin {None, email'}, proof'[i] \notin Good
               PROVE  \E x \in Requests : WillCut(x)'
    BY DEF LeftAreCut
  <2>1. changes[i] \notin {None, email} /\ proof[i] \notin Good
    OBVIOUS
  <2>2. PICK x \in Requests : WillCut(x)
    BY <2>1 DEF LInv, LeftAreCut
  <2>3. CASE x = r
    BY <2>2, <2>3
  <2>4. CASE x # r
    <3>1. req'[x].op = req[x].op /\ req'[x].at = req[x].at
      BY <1>1, <2>4
    <3>2. WillCut(x)'
      BY <2>2, <3>1 DEF WillCut
    <3> QED
      BY <3>2
  <2> QED
    BY <2>3, <2>4
<1>3. OneCurrent'
  BY DEF LInv, OneCurrent
<1>4. KeptIsOnFile'
  <2> SUFFICES ASSUME NEW x \in Requests, WillMint(x)', req'[x].proof = "current"
               PROVE  req'[x].keep = email'
    BY DEF KeptIsOnFile
  <2>1. CASE x = r
    BY <2>1
  <2>2. CASE x # r
    <3>1. WillMint(x) /\ req[x].proof = "current" /\ req'[x].keep = req[x].keep
      BY <1>1, <2>2 DEF WillMint
    <3> QED
      BY <3>1 DEF LInv, KeptIsOnFile
  <2> QED
    BY <2>1, <2>2
<1>5. UnansweredHaveNone'
  <2> SUFFICES ASSUME NEW x \in Requests, req'[x].at # None \/ ~req'[x].done
               PROVE  changes'[x] = None
    BY DEF UnansweredHaveNone
  <2>1. x = r => req[x].at # None
    BY DEF Turn
  <2>2. req[x].at # None \/ ~req[x].done
    BY <1>1, <2>1
  <2>3. changes[x] = None /\ x \in Ids
    BY <2>2, RequestIds DEF LInv, UnansweredHaveNone
  <2> QED
    BY <2>3
<1> QED
  BY <1>2, <1>3, <1>4, <1>5 DEF LInv

\* A statement that has nothing to do with the links.
LEMMA LinksAlone ==
  ASSUME LInv, NEW r \in Requests, NEW s \in Statements, Turn(r, s), UNCHANGED <<email, changes>>,
         s \notin {"readUser", "invalidateChanges", "select", "delete", "revokeAll", "cutChanges"},
         \A i \in Ids \ {r} : proof'[i] = proof[i]
  PROVE  LInv'
<1>1. s # None
  BY CredentialsAssumption
<1>2. ~WillMint(r)'
  BY MintFollows
<1>3. ~WillCut(r)
  BY DEF WillCut, Turn
<1>4. changes[r] = None
  BY <1>1 DEF LInv, UnansweredHaveNone, Turn
<1>5. \A i \in Ids : changes'[i] = None \/ (changes'[i] = changes[i] /\ proof'[i] = proof[i])
  BY <1>4
<1> QED
  BY <1>1, <1>2, <1>3, <1>5, LinksKept

LEMMA readUserLinks ==
  ASSUME CInv, CopiesInv, LInv, ops' = ops, NEW r \in Requests, readUser(r)
  PROVE  LInv'
<1>1. /\ Turn(r, "readUser") /\ UNCHANGED <<email, changes, proof>>
      /\ req'[r].proof = "current" => req'[r].keep = email
  BY readUserMoves DEF readUser, tables
<1>2. "readUser" # None /\ ~WillCut(r)
  BY <1>1, CredentialsAssumption DEF Statements, WillCut, Turn
<1> QED
  BY <1>1, <1>2, LinksKept

\* The statements of a change between the one that replaces the credentials and the one that cuts.
LEMMA cuttingLinks ==
  ASSUME CInv, LInv, ops' = ops, NEW r \in Requests,
         selectSessions(r) \/ deleteUserSessions(r) \/ revokeAll(r)
  PROVE  LInv'
<1> DEFINE s == req[r].at
<1>1. /\ s \in {"select", "delete", "revokeAll"} /\ s # None /\ Turn(r, s)
      /\ req'[r].at = IF s = "select" THEN "delete" ELSE After(req[r].op, s)
      /\ UNCHANGED <<email, changes, proof>>
  <2>1. CASE selectSessions(r)
    BY <2>1, selectMoves, CredentialsAssumption DEF selectSessions, tables, At, Statements
  <2>2. CASE deleteUserSessions(r)
    BY <2>2, deleteSessionsMoves, CredentialsAssumption DEF deleteUserSessions, At, Statements
  <2>3. CASE revokeAll(r)
    BY <2>3, revokeAllMoves, CredentialsAssumption DEF revokeAll, At, Statements
  <2> QED
    BY <2>1, <2>2, <2>3
<1> HIDE DEF s
<1>2. ~WillMint(r)'
  BY <1>1, MintFollows
<1>3. WillCut(r) => WillCut(r)'
  <2> SUFFICES ASSUME WillCut(r) PROVE WillCut(r)'
    OBVIOUS
  <2>1. req[r].op \in {"changePassword", "resetPassword"}
    BY <1>1 DEF WillCut, s
  <2>2. req'[r].at \in {"delete", "revokeAll", "cutChanges"}
    BY <1>1, <2>1, AfterChangePassword, AfterResetPassword
  <2>3. req'[r].op = req[r].op
    BY <1>1, <2>2, CredentialsAssumption DEF Turn, Statements
  <2> QED
    BY <2>1, <2>2, <2>3 DEF WillCut
<1> QED
  BY <1>1, <1>2, <1>3, LinksKept

LEMMA claimChangeLinks ==
  ASSUME CInv, LInv, ops' = ops, NEW r \in Requests, claimChange(r)
  PROVE  LInv'
<1>1. Turn(r, "claimChange") /\ UNCHANGED <<email, proof>> /\ "claimChange" # None
  BY claimChangeMoves, CredentialsAssumption DEF claimChange, Statements, Checks
<1>2. \A i \in Ids : changes'[i] = None \/ changes'[i] = changes[i]
  BY DEF CInv, TablesType, claimChange, ClaimChange
<1>3. ~WillMint(r)'
  BY <1>1, MintFollows
<1>4. ~WillCut(r)
  BY <1>1 DEF WillCut, Turn
<1> QED
  BY <1>1, <1>2, <1>3, <1>4, LinksKept

\* Every link is used: what is read before does not matter, but for a request that resends one.
LEMMA invalidateLinks ==
  ASSUME CInv, LInv, ops' = ops, NEW r \in Requests, invalidateVerificationTokens(r)
  PROVE  LInv'
<1>1. /\ Turn(r, "invalidateChanges") /\ "invalidateChanges" # None /\ UNCHANGED <<email, proof>>
      /\ \A i \in Ids : changes'[i] = None
      /\ req[r].op = "resendVerification" =>
           req'[r].keep = req[r].keep /\ req'[r].proof = req[r].proof
  BY invalidateChangesMoves, CredentialsAssumption DEF invalidateVerificationTokens, Statements
<1>2. LeftAreCut' /\ OneCurrent' /\ UnansweredHaveNone'
  BY <1>1, RequestIds DEF LeftAreCut, OneCurrent, UnansweredHaveNone
<1>3. KeptIsOnFile'
  <2> SUFFICES ASSUME NEW x \in Requests, WillMint(x)', req'[x].proof = "current"
               PROVE  req'[x].keep = email'
    BY DEF KeptIsOnFile
  <2>1. CASE x = r
    <3>1. req[r].op = "resendVerification" /\ req[r].at = "invalidateChanges"
      BY <1>1, <2>1, MintFollows DEF Turn
    <3>2. WillMint(r) /\ req[r].proof = "current"
      BY <1>1, <2>1, <3>1 DEF WillMint
    <3> QED
      BY <1>1, <2>1, <3>1, <3>2 DEF LInv, KeptIsOnFile
  <2>2. CASE x # r
    <3>1. WillMint(x) /\ req[x].proof = "current" /\ req'[x].keep = req[x].keep
      BY <1>1, <2>2 DEF WillMint, Turn, Others
    <3> QED
      BY <1>1, <3>1 DEF LInv, KeptIsOnFile
  <2> QED
    BY <2>1, <2>2
<1> QED
  BY <1>2, <1>3 DEF LInv

\* The links to the address that was kept stay; they are to the one on file, or are excused.
LEMMA cutChangesLinks ==
  ASSUME CInv, LInv, ops' = ops, NEW r \in Requests, cutChanges(r)
  PROVE  LInv'
<1>0. Turn(r, "cutChanges") /\ email' = email /\ "cutChanges" # None
  BY cutChangesMoves, CredentialsAssumption DEF cutChanges, Statements
<1>1. \A i \in Ids : /\ changes'[i] \in {None, changes[i]}
                     /\ changes'[i] # None => changes[i] = req[r].keep
                     /\ proof'[i] = IF changes[i] = req[r].keep /\ req[r].keep # email
                                    THEN "raced" ELSE proof[i]
  BY DEF cutChanges, Superseded
<1>2. LeftAreCut'
  BY <1>0, <1>1 DEF LeftAreCut, Good
<1>3. OneCurrent'
  BY <1>0, <1>1 DEF OneCurrent
<1>4. KeptIsOnFile'
  <2> SUFFICES ASSUME NEW x \in Requests, WillMint(x)', req'[x].proof = "current"
               PROVE  req'[x].keep = email'
    BY DEF KeptIsOnFile
  <2>1. x # r
    BY <1>0, MintFollows
  <2>2. WillMint(x) /\ req[x].proof = "current" /\ req'[x].keep = req[x].keep
    BY <1>0, <2>1 DEF WillMint, Turn, Others
  <2> QED
    BY <1>0, <2>2 DEF LInv, KeptIsOnFile
<1>5. UnansweredHaveNone'
  <2> SUFFICES ASSUME NEW x \in Requests, req'[x].at # None \/ ~req'[x].done
               PROVE  changes'[x] = None
    BY DEF UnansweredHaveNone
  <2>1. req[x].at # None \/ ~req[x].done
    BY <1>0 DEF Turn, Others
  <2>2. changes[x] = None /\ x \in Ids
    BY <2>1, RequestIds DEF LInv, UnansweredHaveNone
  <2> QED
    BY <1>1, <2>2
<1> QED
  BY <1>2, <1>3, <1>4, <1>5 DEF LInv

\* The link that request r mints, beside some of those that there were: it is to the address on
\* file, or replaces those to another address, when it proves the credentials in force.
LEMMA LinkMinted ==
  ASSUME CInv, LInv, NEW r \in Requests, NEW s, s \in {"replaceChange", "createChange"}, Turn(r, s),
         req[r].at = s, email' = email, req'[r].at = None, req'[r].done = TRUE,
         \A i \in Ids \ {r} : changes'[i] \in {None, changes[i]},
         proof' = [proof EXCEPT ![r] = req[r].proof],
         req[r].proof = "current" =>
           \/ changes'[r] = email
           \/ \A i \in Ids \ {r} : changes'[i] \in {None, email}
  PROVE  LInv'
<1>0. /\ "replaceChange" # None /\ "createChange" # None /\ r \in Ids
      /\ proof \in [Ids -> Proofs] /\ RequestsType
  BY RequestIds, CredentialsAssumption DEF Statements, CInv, TablesType
<1>1. req[r].proof \in Good
  <2>1. OnPath(req[r].op, s) /\ Served(req[r]) /\ req[r].at # None
    BY <1>0, Waiting
  <2>2. req[r].op \in {"changeEmail", "resendVerification"}
    BY <2>1 DEF OnPath
  <2>3. Proven(req[r].op, req[r].at)
    BY <2>2 DEF Proven, Proving, Checks
  <2> QED
    BY <2>1, <2>3 DEF Served
<1>2. proof'[r] = req[r].proof /\ \A i \in Ids \ {r} : proof'[i] = proof[i]
  BY <1>0
<1>3. \A x \in Requests \ {r} :
        /\ req'[x].op = req[x].op /\ req'[x].at = req[x].at /\ req'[x].keep = req[x].keep
        /\ req'[x].done = req[x].done /\ req'[x].proof \in {req[x].proof, "raced"}
  BY DEF Turn, Others
<1>4. LeftAreCut'
  <2> SUFFICES ASSUME NEW i \in Ids, changes'[i] \notin {None, email'}, proof'[i] \notin Good
               PROVE  \E x \in Requests : WillCut(x)'
    BY DEF LeftAreCut
  <2>1. i # r
    BY <1>1, <1>2
  <2>2. changes[i] \notin {None, email} /\ proof[i] \notin Good
    BY <1>2, <2>1
  <2>3. PICK x \in Requests : WillCut(x)
    BY <2>2 DEF LInv, LeftAreCut
  <2>4. x # r
    BY <2>3 DEF WillCut
  <2>5. WillCut(x)'
    BY <1>3, <2>3, <2>4 DEF WillCut
  <2> QED
    BY <2>5
<1>5. OneCurrent'
  <2> SUFFICES ASSUME NEW i \in Ids, NEW j \in Ids,
                      changes'[i] \notin {None, email'}, proof'[i] = "current",
                      changes'[j] \notin {None, email'}, proof'[j] = "current"
               PROVE  i = j
    BY DEF OneCurrent
  <2>1. CASE i # r /\ j # r
    BY <1>2, <2>1 DEF LInv, OneCurrent
  <2>2. CASE i = r \/ j = r
    BY <1>2, <2>2
  <2> QED
    BY <2>1, <2>2
<1>6. KeptIsOnFile'
  <2> SUFFICES ASSUME NEW x \in Requests, WillMint(x)', req'[x].proof = "current"
               PROVE  req'[x].keep = email'
    BY DEF KeptIsOnFile
  <2>1. x # r
    BY <1>0, CredentialsAssumption DEF WillMint, Statements
  <2>2. WillMint(x) /\ req[x].proof = "current" /\ req'[x].keep = req[x].keep
    BY <1>3, <2>1 DEF WillMint
  <2> QED
    BY <2>2 DEF LInv, KeptIsOnFile
<1>7. UnansweredHaveNone'
  <2> SUFFICES ASSUME NEW x \in Requests, req'[x].at # None \/ ~req'[x].done
               PROVE  changes'[x] = None
    BY DEF UnansweredHaveNone
  <2>1. x # r
    OBVIOUS
  <2>2. changes[x] = None /\ x \in Ids
    BY <1>3, <2>1, RequestIds DEF LInv, UnansweredHaveNone
  <2> QED
    BY <2>1, <2>2
<1> QED
  BY <1>4, <1>5, <1>6, <1>7 DEF LInv

LEMMA replaceChangeLinks ==
  ASSUME CInv, LInv, ops' = ops, NEW r \in Requests, replaceChange(r)
  PROVE  LInv'
<1>1. /\ Turn(r, "replaceChange") /\ req[r].at = "replaceChange" /\ email' = email
      /\ req'[r].at = None /\ req'[r].done = TRUE
      /\ proof' = [proof EXCEPT ![r] = req[r].proof]
  BY replaceChangeMoves DEF replaceChange, At
<1>2. r \in Ids /\ changes \in [Ids -> Emails \cup {None}] /\ RequestsType
  BY RequestIds DEF CInv, TablesType
<1>3. \A i \in Ids \ {r} : /\ changes'[i] \in {None, changes[i]}
                           /\ changes'[i] # None => changes[i] = req[r].keep
  BY <1>2 DEF replaceChange, Superseded
<1>4. req[r].op = "changeEmail"
  <2>1. OnPath(req[r].op, "replaceChange")
    BY <1>1 DEF Turn
  <2> QED
    BY <2>1 DEF OnPath
<1>5. req[r].proof = "current" => req[r].keep = email
  BY <1>1, <1>4 DEF LInv, KeptIsOnFile, WillMint
<1>6. req[r].proof = "current" => \A i \in Ids \ {r} : changes'[i] \in {None, email}
  BY <1>3, <1>5
<1> QED
  BY <1>1, <1>3, <1>6, LinkMinted

LEMMA createChangeLinks ==
  ASSUME CInv, LInv, ops' = ops, NEW r \in Requests, createChange(r)
  PROVE  LInv'
<1>1. /\ Turn(r, "createChange") /\ req[r].at = "createChange" /\ email' = email
      /\ req'[r].at = None /\ req'[r].done = TRUE
      /\ proof' = [proof EXCEPT ![r] = req[r].proof]
  BY createChangeMoves DEF createChange, At
<1>2. r \in Ids /\ changes \in [Ids -> Emails \cup {None}] /\ RequestsType
  BY RequestIds DEF CInv, TablesType
<1>3. changes'[r] = req[r].keep /\ \A i \in Ids \ {r} : changes'[i] = changes[i]
  BY <1>2 DEF createChange
<1>4. req[r].op = "resendVerification"
  <2>1. OnPath(req[r].op, "createChange")
    BY <1>1 DEF Turn
  <2> QED
    BY <2>1 DEF OnPath
<1>5. req[r].proof = "current" => req[r].keep = email
  BY <1>1, <1>4 DEF LInv, KeptIsOnFile, WillMint
<1>6. \A i \in Ids \ {r} : changes'[i] \in {None, changes[i]}
  BY <1>3
<1>7. req[r].proof = "current" => changes'[r] = email
  BY <1>3, <1>5
<1> QED
  BY <1>1, <1>6, <1>7, LinkMinted

\* Nothing that there is proves the credentials in force any more.
LEMMA updateLinks ==
  ASSUME CInv, LInv, ops' = ops, NEW r \in Requests, updatePassword(r)
  PROVE  LInv'
<1>1. /\ Turn(r, "update") /\ req'[r].at = "select" /\ "select" # None /\ "update" # None
      /\ UNCHANGED <<email, changes>> /\ proof' = Aged(r)
  BY updateMoves, CredentialsAssumption DEF updatePassword, Statements
<1>2. req[r].op \in {"changePassword", "adminReset", "resetPassword"} /\ req'[r].op = req[r].op
  <2>1. OnPath(req[r].op, "update")
    BY <1>1 DEF Turn
  <2> QED
    BY <1>1, <2>1, Turns DEF Turn
<1>3. LeftAreCut'
  <2>1. CASE req[r].op = "adminReset"
    <3>1. \A i \in Ids : changes[i] # None => proof'[i] = "raced"
      BY <1>1, <2>1 DEF Aged
    <3> QED
      BY <1>1, <3>1 DEF LeftAreCut, Good
  <2>2. CASE req[r].op # "adminReset"
    <3>1. WillCut(r)'
      BY <1>1, <1>2, <2>2 DEF WillCut
    <3> QED
      BY <3>1 DEF LeftAreCut
  <2> QED
    BY <2>1, <2>2
<1>4. \A i \in Ids : proof'[i] # "current"
  BY <1>1 DEF Aged
<1>5. OneCurrent'
  BY <1>4 DEF OneCurrent
<1>6. KeptIsOnFile'
  <2> SUFFICES ASSUME NEW x \in Requests, WillMint(x)', req'[x].proof = "current"
               PROVE  req'[x].keep = email'
    BY DEF KeptIsOnFile
  <2>1. x # r
    BY <1>1, MintFollows
  <2>2. WillMint(x) /\ req[x].proof = "current" /\ req'[x].keep = req[x].keep
    BY <1>1, <2>1 DEF WillMint, Turn, Others
  <2> QED
    BY <1>1, <2>2 DEF LInv, KeptIsOnFile
<1>7. UnansweredHaveNone'
  <2> SUFFICES ASSUME NEW x \in Requests, req'[x].at # None \/ ~req'[x].done
               PROVE  changes'[x] = None
    BY DEF UnansweredHaveNone
  <2>1. req[x].at # None \/ ~req[x].done
    BY <1>1 DEF Turn, Others
  <2> QED
    BY <1>1, <2>1 DEF LInv, UnansweredHaveNone
<1> QED
  BY <1>3, <1>5, <1>6, <1>7 DEF LInv

\* A confirmed address: what there is is cut by this request, or is excused.
LEMMA updateEmailLinks ==
  ASSUME CInv, LInv, ops' = ops, NEW r \in Requests, updateUserEmail(r)
  PROVE  LInv'
<1>1. /\ Turn(r, "updateEmail") /\ req[r].at = "updateEmail" /\ UNCHANGED changes
      /\ req[r].moved => req'[r].op = "verifyEmail" /\ req'[r].at = "invalidateChanges"
      /\ email' = req[r].email /\ "updateEmail" # None /\ RequestsType
  BY updateEmailMoves, CredentialsAssumption DEF updateUserEmail, Statements, At, CInv
<1>2. CASE ~req[r].moved /\ email = req[r].email
  <2>1. proof' = proof /\ email' = email
    BY <1>1, <1>2 DEF updateUserEmail
  <2>2. ~WillMint(r)'
    BY <1>1, MintFollows
  <2>3. ~WillCut(r)
    BY <1>1 DEF WillCut
  <2> QED
    BY <1>1, <2>1, <2>2, <2>3, LinksKept
<1>3. CASE req[r].moved \/ email # req[r].email
  <2>1. \/ req[r].moved /\ proof' = Aged(r) /\ req' = Raced(r, Goes(req[r]))
        \/ ~req[r].moved /\ proof' = Excused /\ req' = Raced(r, Answered(req[r]))
    BY <1>3 DEF updateUserEmail
  <2>2. LeftAreCut'
    <3>1. CASE req[r].moved
      <4>1. WillCut(r)'
        BY <1>1, <3>1 DEF WillCut
      <4> QED
        BY <4>1 DEF LeftAreCut
    <3>2. CASE ~req[r].moved
      <4>1. \A i \in Ids : changes[i] # None => proof'[i] = "raced"
        BY <2>1, <3>2 DEF Excused
      <4> QED
        BY <1>1, <4>1 DEF LeftAreCut, Good
    <3> QED
      BY <3>1, <3>2
  <2>3. \A i \in Ids : proof'[i] # "current"
    BY <2>1 DEF Aged, Excused
  <2>4. OneCurrent'
    BY <2>3 DEF OneCurrent
  <2>5. KeptIsOnFile'
    <3> SUFFICES ASSUME NEW x \in Requests, WillMint(x)'
                 PROVE  req'[x].proof # "current"
      BY DEF KeptIsOnFile
    <3>1. x # r
      BY <1>1, MintFollows
    <3>2. WillMint(x)
      BY <1>1, <3>1 DEF WillMint, Turn, Others
    <3>3. /\ Active(x) /\ req[x].op \in Proving /\ req[x].at \notin Checks \cup {"readUser"}
      BY <3>2, CredentialsAssumption DEF WillMint, Active, Proving, Checks, Statements
    <3>4. req'[x] = [req[x] EXCEPT !.proof = "raced"]
      BY <2>1, <3>1, <3>3 DEF Raced
    <3> QED
      BY <1>1, <3>4 DEF RequestsType, ReqType
  <2>6. UnansweredHaveNone'
    <3> SUFFICES ASSUME NEW x \in Requests, req'[x].at # None \/ ~req'[x].done
                 PROVE  changes'[x] = None
      BY DEF UnansweredHaveNone
    <3>1. req[x].at # None \/ ~req[x].done
      BY <1>1 DEF Turn, Others
    <3> QED
      BY <1>1, <3>1 DEF LInv, UnansweredHaveNone
  <2> QED
    BY <2>2, <2>4, <2>5, <2>6 DEF LInv
<1> QED
  BY <1>2, <1>3

LEMMA startLinks ==
  ASSUME CInv, LInv, ops' = ops, NEW r \in Requests, start(r)
  PROVE  LInv'
<1>1. /\ Others(r) /\ req[r].at = None /\ ~req[r].done /\ UNCHANGED <<email, changes, proof>>
  BY startMoves DEF start, tables
<1>2. ~WillMint(r)'
  BY startMoves DEF WillMint, Proven, Proving, Checks
<1>3. LeftAreCut'
  <2> SUFFICES ASSUME NEW i \in Ids, changes'[i] \notin {None, email'}, proof'[i] \notin Good
               PROVE  \E x \in Requests : WillCut(x)'
    BY DEF LeftAreCut
  <2>1. PICK x \in Requests : WillCut(x)
    BY <1>1 DEF LInv, LeftAreCut
  <2>2. x # r
    BY <1>1, <2>1, CredentialsAssumption DEF WillCut, Statements
  <2>3. WillCut(x)'
    BY <1>1, <2>1, <2>2 DEF WillCut, Others
  <2> QED
    BY <2>3
<1>4. OneCurrent'
  BY <1>1 DEF LInv, OneCurrent
<1>5. KeptIsOnFile'
  <2> SUFFICES ASSUME NEW x \in Requests, WillMint(x)', req'[x].proof = "current"
               PROVE  req'[x].keep = email'
    BY DEF KeptIsOnFile
  <2>1. x # r
    BY <1>2
  <2>2. WillMint(x) /\ req[x].proof = "current" /\ req'[x].keep = req[x].keep
    BY <1>1, <2>1 DEF WillMint, Others
  <2> QED
    BY <1>1, <2>2 DEF LInv, KeptIsOnFile
<1>6. UnansweredHaveNone'
  <2> SUFFICES ASSUME NEW x \in Requests, req'[x].at # None \/ ~req'[x].done
               PROVE  changes'[x] = None
    BY DEF UnansweredHaveNone
  <2>1. req[x].at # None \/ ~req[x].done
    BY <1>1 DEF Others
  <2> QED
    BY <1>1, <2>1 DEF LInv, UnansweredHaveNone
<1> QED
  BY <1>3, <1>4, <1>5, <1>6 DEF LInv

LEMMA StepLinks ==
  ASSUME CInv, CopiesInv, LInv, ops' = ops, NEW r \in Requests, Step(r)
  PROVE  LInv'
<1>1. CASE start(r)
  BY <1>1, startLinks
<1>2. CASE auth(r)
  BY <1>2, authMoves, LinksAlone DEF auth, tables, Statements, Checks
<1>3. CASE readUser(r)
  BY <1>3, readUserLinks
<1>4. CASE insertSession(r)
  BY <1>4, insertMoves, LinksAlone DEF insertSession, tables, Statements, Checks
<1>5. CASE commitSession(r)
  BY <1>5, commitMoves, LinksAlone DEF commitSession, Statements, Checks, CInv, TablesType
<1>6. CASE deleteUserSession(r)
  BY <1>6, deleteSessionMoves, LinksAlone DEF deleteUserSession, Statements, Checks
<1>7. CASE notFound(r)
  BY <1>7, notFoundMoves, LinksAlone DEF notFound, tables, Statements, Checks
<1>8. CASE selectSessions(r) \/ deleteUserSessions(r) \/ revokeAll(r)
  BY <1>8, cuttingLinks
<1>9. CASE issueRefreshToken(r)
  BY <1>9, issueMoves, LinksAlone DEF issueRefreshToken, Statements, Checks
<1>10. CASE validateToken(r)
  BY <1>10, validateMoves, LinksAlone DEF validateToken, Statements, Checks
<1>11. CASE validateLinked(r)
  BY <1>11, linkedMoves, LinksAlone DEF validateLinked, Statements, Checks
<1>12. CASE rotate(r)
  BY <1>12, rotateMoves, LinksAlone DEF rotate, Statements, Checks
<1>14. CASE invalidateResetTokens(r)
  BY <1>14, invalidateResetsMoves, LinksAlone DEF invalidateResetTokens, Statements, Checks
<1>15. CASE createResetToken(r)
  BY <1>15, createResetMoves, LinksAlone DEF createResetToken, Statements, Checks
<1>16. CASE lookupReset(r)
  BY <1>16, lookupMoves, LinksAlone DEF lookupReset, tables, Statements, Checks
<1>17. CASE rememberReset(r)
  BY <1>17, rememberMoves, LinksAlone DEF rememberReset, Statements, Checks
<1>18. CASE claimReset(r)
  BY <1>18, claimResetMoves, LinksAlone DEF claimReset, Statements, Checks
<1>19. CASE forgetReset(r)
  BY <1>19, forgetMoves, LinksAlone DEF forgetReset, Statements, Checks
<1>20. CASE cutChanges(r)
  BY <1>20, cutChangesLinks
<1>21. CASE replaceChange(r)
  BY <1>21, replaceChangeLinks
<1>22. CASE invalidateVerificationTokens(r)
  BY <1>22, invalidateLinks
<1>23. CASE createChange(r)
  BY <1>23, createChangeLinks
<1>24. CASE claimChange(r)
  BY <1>24, claimChangeLinks
<1>25. CASE readAddress(r)
  BY <1>25, readAddressMoves, LinksAlone DEF readAddress, tables, Statements, Checks
<1> QED
  BY <1>1, <1>2, <1>3, <1>4, <1>5, <1>6, <1>7, <1>8, <1>9, <1>10, <1>11, <1>12, <1>14,
     <1>15, <1>16, <1>17, <1>18, <1>19, <1>20, <1>21, <1>22, <1>23, <1>24, <1>25 DEF Step

LEMMA InitLInv == Init => LInv
<1> SUFFICES ASSUME Init PROVE LInv
  OBVIOUS
<1>1. \A i \in Ids : changes[i] = None
  BY DEF Init
<1>2. \A r \in Requests : req[r].at = None
  BY DEF Init, Idle
<1>3. LeftAreCut /\ OneCurrent /\ UnansweredHaveNone
  BY <1>1, RequestIds DEF LeftAreCut, OneCurrent, UnansweredHaveNone
<1>4. KeptIsOnFile
  BY <1>2, CredentialsAssumption DEF KeptIsOnFile, WillMint, Statements
<1> QED
  BY <1>3, <1>4 DEF LInv

LEMMA NextLInv == CInv /\ CopiesInv /\ LInv /\ [Next]_vars => LInv'
<1> SUFFICES ASSUME CInv, CopiesInv, LInv, [Next]_vars PROVE LInv'
  OBVIOUS
<1>1. ASSUME ops' = ops, NEW r \in Requests, Step(r)
      PROVE  LInv'
  BY <1>1, StepLinks
<1>2. ASSUME UNCHANGED <<email, changes, proof, req>>
      PROVE  LInv'
  BY <1>2 DEF LInv, LeftAreCut, OneCurrent, KeptIsOnFile, UnansweredHaveNone, WillCut, WillMint
<1>3. CASE deleteExpired
  BY <1>2, <1>3 DEF deleteExpired
<1>4. CASE UNCHANGED vars
  BY <1>2, <1>4 DEF vars
<1>5. ASSUME ops' = ops, NEW r \in Requests, Change(r)
      PROVE  LInv'
  BY <1>5, updateLinks, updateEmailLinks DEF Change
<1>6. CASE getUsers
  BY <1>2, <1>6 DEF getUsers, tables
<1> QED
  BY <1>1, <1>3, <1>4, <1>5, <1>6, NextCases

\* A change or a reset of the password cuts the pending change of address, and a request for one
\* replaces those before it: at most one link to another address that was asked for with the
\* credentials in force is pending, and none that was asked for with replaced ones, but for
\* requests that raced with the change or looked at a copy of the user's row that was no longer in
\* force, and for an administrator's reset.
THEOREM ChangesCut == Spec => []ChangeLinksAreCut
<1>1. Init => LInv
  BY InitLInv
<1>2. CInv /\ CopiesInv /\ LInv /\ [Next]_vars => LInv'
  BY NextLInv
<1>3. LInv => ChangeLinksAreCut
  <2> SUFFICES ASSUME LInv, Settled
               PROVE  /\ \A i \in Ids : changes[i] \notin {None, email} =>
                                          proof[i] \in {"current", "raced"}
                      /\ OneCurrent
    BY DEF ChangeLinksAreCut, OneCurrent
  <2>1. \A r \in Requests : ~WillCut(r)
    BY DEF Settled, Changing, WillCut
  <2> QED
    BY <2>1 DEF LInv, LeftAreCut, Good
<1> QED
  BY <1>1, <1>2, <1>3, CInvAlways, PTL DEF Spec
=============================================================================
