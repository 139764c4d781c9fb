----------------------------- MODULE Credentials -----------------------------
(***************************************************************************)
(* What proves who a user is, for one account: its password and address,   *)
(* the sessions and refresh tokens obtained with them, and the links sent  *)
(* by mail or handed out by an administrator that change them.             *)
(*                                                                         *)
(* As in CrewMembership, a handler is the list of the statements it        *)
(* awaits; other handlers run between any two of them.  A session, token   *)
(* or link remembers whether the password and address it was obtained with *)
(* are still in force.                                                     *)
(***************************************************************************)
EXTENDS Integers, FiniteSets, Sequences, FiniteSetsExt

CONSTANTS
  Emails,        \* addresses
  Home,          \* the address on file at the start
  Situations,    \* the sets of endpoints that are called together
  MaxSessions,   \* USER_SESSION_MAX
  MaxRequests,   \* bound: requests in a behaviour
  MaxInflight,   \* bound: requests served at the same time
  None

\* Request r mints session r, refresh token r and link r, at most; session 0 and refresh
\* token 0 exist at the start.
Requests == 1..MaxRequests
Ids == 0..MaxRequests

Endpoints == {"login", "logout", "refreshSession", "refreshToken", "revokeSession", "revokeOthers",
              "changePassword", "adminReset", "forgotPassword", "resetLink", "resetPage",
              "resetPassword", "changeEmail", "resendVerification", "verifyEmail"}

\* The statements of the handlers: those that look at the credential a request presents first.
Checks == {"auth", "validate", "linked", "claimReset", "claimChange"}

Statements ==
  Checks \cup {"readUser", "insert", "commit", "issue", "deleteSession", "rotate", "select", "delete",
              "update", "revokeAll", "cutChanges", "invalidateResets", "createReset", "remember",
              "lookup", "forget", "replaceChange", "invalidateChanges", "createChange",
              "readAddress", "updateEmail"}

ASSUME CredentialsAssumption ==
  /\ Home \in Emails /\ \A s \in Situations : s \subseteq Endpoints
  /\ MaxSessions \in Nat \ {0} /\ MaxRequests \in Nat /\ MaxInflight \in Nat \ {0}
  /\ None \notin Emails /\ None \notin Ids
  /\ None \notin Endpoints \cup {"other"} \cup Statements

VARIABLES
  ops,        \* the endpoints called in this behaviour
  email,      \* users.email
  sessions,   \* user_sessions
  refresh,    \* refresh_tokens: their state and the session they are linked to
  resets,     \* password_reset_tokens that are not used
  remembered, \* state._adminResetTokens
  changes,    \* email_verification_tokens that are not used: the address, by link
  copies,     \* the copies of the user's row that requests have read for the map of users
  proof,      \* history: how a session or token, and a change link, was obtained
  req         \* the requests: what was asked, the statement they are at, what they have read

vars == <<ops, email, sessions, refresh, resets, remembered, changes, copies, proof, req>>
tables == <<email, sessions, refresh, resets, remembered, changes, proof>>

\* A copy of the user's row: the address in it, and whether that address and the password are
\* still in force.
Rows == [email : Emails, current : BOOLEAN]

\* The row as the table has it.
Row == [email |-> email, current |-> TRUE]

NoToken == [state |-> "none", session |-> 0]

\* What a session, token or link was obtained with: the credentials in force, replaced ones, or
\* a check that the request had passed when they were replaced, or that looked at a copy of the
\* user's row in which they were not.
Proofs == {"none", "current", "replaced", "raced"}

Idle == [op |-> None, id |-> 0, email |-> None, keep |-> None, at |-> None, got |-> {}, moved |-> FALSE,
         proof |-> "none", done |-> FALSE]

Init ==
  /\ ops \in Situations
  /\ email = Home
  /\ sessions = {0}
  /\ refresh = [i \in Ids |-> IF i = 0 THEN [NoToken EXCEPT !.state = "live"] ELSE NoToken]
  /\ resets = {} /\ remembered = {}
  /\ changes = [i \in Ids |-> None]
  /\ copies = {}
  /\ proof = [i \in Ids |-> IF i = 0 THEN "current" ELSE "none"]
  /\ req = [r \in Requests |-> Idle]

-----------------------------------------------------------------------------
(* The handlers, as the statements they await.                             *)

login == <<"readUser", "insert", "commit", "issue">>
logout == <<"deleteSession">>
refreshSession == <<"auth", "deleteSession", "insert", "commit">>
refreshToken == <<"validate", "linked", "insert", "commit", "rotate">>
revokeSession == <<"auth", "deleteSession">>
revokeOthers == <<"auth", "select", "delete">>
changePassword == <<"auth", "readUser", "update", "select", "delete", "revokeAll", "cutChanges",
                    "insert", "commit">>
adminReset == <<"update", "select", "delete", "revokeAll">>
forgotPassword == <<"invalidateResets", "createReset">>
resetLink == <<"createReset", "remember">>
resetPage == <<"lookup", "remember">>
resetPassword == <<"claimReset", "readUser", "update", "select", "delete", "revokeAll", "cutChanges",
                   "forget">>
changeEmail == <<"auth", "readUser", "replaceChange">>
resendVerification == <<"auth", "readUser", "invalidateChanges", "createChange">>
verifyEmail == <<"claimChange", "readAddress", "updateEmail", "invalidateChanges", "select",
                 "delete", "revokeAll">>

Handler ==
  [login |-> login, logout |-> logout, refreshSession |-> refreshSession,
   refreshToken |-> refreshToken, revokeSession |-> revokeSession, revokeOthers |-> revokeOthers,
   changePassword |-> changePassword, adminReset |-> adminReset, forgotPassword |-> forgotPassword,
   resetLink |-> resetLink, resetPage |-> resetPage, resetPassword |-> resetPassword,
   changeEmail |-> changeEmail, resendVerification |-> resendVerification,
   verifyEmail |-> verifyEmail]

After(op, s) ==
  LET h == Handler[op]
      i == CHOOSE j \in DOMAIN h : h[j] = s
  IN  IF i = Len(h) THEN None ELSE h[i + 1]

Active(r) == req[r].at # None
At(r, s) == req[r].at = s

\* The requests that mint a link.
Minting == {"forgotPassword", "resetLink", "changeEmail", "resendVerification"}

\* An answered request; only the kind of link it has minted matters from now on.
Answered(q) == [Idle EXCEPT !.op = IF q.op \in Minting THEN q.op ELSE "other", !.done = TRUE]

Goes(q) ==
  LET s == After(q.op, q.at) IN IF s = None THEN Answered(q) ELSE [q EXCEPT !.at = s]

Proceed(r, q) == req' = [req EXCEPT ![r] = Goes(q)]
Refuse(r) == req' = [req EXCEPT ![r] = Answered(@)]

\* The requests for a link, of the given kinds, that have been made.
LinksOf(kinds) == {x \in Requests : req[x].op \in kinds}

\* What a request may present: a session or refresh token that it was once given and that is
\* still good, a link, or nothing.
Presentable(op) ==
  CASE op \in {"login", "adminReset", "forgotPassword", "resetLink"} -> {0}
    [] op = "refreshToken" -> {i \in Ids : refresh[i].state = "live"}
    [] op = "resetPage" -> LinksOf({"resetLink"})
    [] op = "resetPassword" -> LinksOf({"forgotPassword", "resetLink"})
    [] op = "verifyEmail" -> LinksOf({"changeEmail", "resendVerification"})
    [] OTHER -> sessions

start(r) ==
  /\ ~req[r].done /\ ~Active(r) /\ (r > 1 => req[r - 1].op # None)
  /\ Cardinality({x \in Requests : Active(x)}) < MaxInflight
  /\ \E op \in ops : \E i \in Presentable(op), e \in IF op = "changeEmail" THEN Emails ELSE {Home} :
       req' = [req EXCEPT ![r] = [Idle EXCEPT !.op = op, !.id = i, !.email = e,
                                              !.at = Head(Handler[op])]]
  /\ UNCHANGED tables

\* Request r has changed the credentials and has not cut all that depends on them.
Changing(r) ==
  /\ req[r].op \in {"changePassword", "adminReset", "resetPassword", "verifyEmail"}
  /\ req[r].at \in {"invalidateChanges", "select", "delete", "revokeAll", "cutChanges"}

Settled == \A r \in Requests : ~Changing(r)

\* The requests that mint a session or a link from what they prove.
Proving == {"login", "refreshSession", "refreshToken", "changePassword", "changeEmail",
            "resendVerification"}

\* What a request proves with credential i; while a change is being carried out it races.
Presented(i) == IF Settled THEN proof[i] ELSE "raced"

-----------------------------------------------------------------------------
(* The users in memory, which all handlers but login read them from.       *)

\* getUserMap, for any user's request, finds no map of the current version that is less than a
\* minute old: it reads the table.
getUsers ==
  /\ Row \notin copies
  /\ copies' = copies \cup {Row}
  /\ UNCHANGED tables /\ UNCHANGED req

\* invalidateUserCache, after a write to the row: no copy has what is written.  The map is read
\* again; but a request that had read the old row before stores it, however late, as the map of
\* the version of then.  So the copies stay.
invalidateUserCache(changed) ==
  copies' = IF changed THEN {[row EXCEPT !.current = FALSE] : row \in copies} ELSE copies

-----------------------------------------------------------------------------
(* Sessions.                                                               *)

\* userAuth: the session is looked up.
auth(r) ==
  LET q == req[r]
  IN  /\ At(r, "auth")
      /\ IF q.id \in sessions
         THEN Proceed(r, [q EXCEPT !.proof = IF q.op \in Proving THEN Presented(q.id) ELSE @])
         ELSE Refuse(r)
      /\ UNCHANGED tables

\* What a request that has proof p and reads the row for operation op proves from then on: a
\* password is compared with the one in the row.
Shown(op, p, row) ==
  CASE ~row.current -> "raced"
    [] row.current /\ op \in {"login", "changePassword", "changeEmail"} -> "current"
    [] OTHER -> p

\* The row a handler gets: login reads the table; getUserById, for the others, has it from the
\* map of now or from what is read and stored next.
UserRows(op) == IF op = "login" THEN {Row} ELSE copies

\* The user's row, which a password is compared with; the address in it is kept for later.
readUser(r) ==
  LET q == req[r]
  IN  /\ At(r, "readUser")
      /\ \E row \in UserRows(q.op) :
           Proceed(r, [q EXCEPT !.keep = row.email, !.proof = Shown(q.op, q.proof, row)])
      /\ UNCHANGED tables

\* createUserSession, up to its SELECT ... FOR UPDATE: it sees the sessions committed now.
insertSession(r) ==
  /\ At(r, "insert")
  /\ Proceed(r, [req[r] EXCEPT !.got = sessions])
  /\ UNCHANGED tables

\* Mutant: the sessions over the maximum are not evicted.
Evictions_None(r) == {{}}

\* The sessions it evicts: the least recently used of those it saw that are still there.
Evictions(r) ==
  LET seen == req[r].got \cap sessions
      over == Cardinality(seen) + 1 - MaxSessions
  IN  kSubset(IF over > 0 THEN over ELSE 0, seen)

\* Its rows are locked, the rest is evicted, and the transaction commits.
commitSession(r) ==
  /\ At(r, "commit")
  /\ \E gone \in Evictions(r) : sessions' = (sessions \ gone) \cup {r}
  /\ proof' = [proof EXCEPT ![r] = req[r].proof]
  /\ Proceed(r, [req[r] EXCEPT !.got = {}])
  /\ UNCHANGED <<email, refresh, resets, remembered, changes>>

deleteUserSession(r) ==
  /\ At(r, "deleteSession")
  /\ \E s \in IF req[r].op = "revokeSession" THEN sessions \ {req[r].id} ELSE {req[r].id} :
       sessions' = sessions \ {s}
  /\ Proceed(r, req[r])
  /\ UNCHANGED <<email, refresh, resets, remembered, changes, proof>>

\* DELETE /sessions/:id of a session that is not there.
notFound(r) ==
  /\ At(r, "deleteSession") /\ req[r].op = "revokeSession"
  /\ Refuse(r)
  /\ UNCHANGED tables

\* deleteUserSessions reads the tokens, without the one it spares, and then deletes those.
selectSessions(r) ==
  /\ At(r, "select")
  /\ Proceed(r, [req[r] EXCEPT !.got =
                   IF req[r].op = "revokeOthers" THEN sessions \ {req[r].id} ELSE sessions])
  /\ UNCHANGED tables

\* Mutant: the sessions stay.
deleteUserSessions_Keeps(r) ==
  /\ At(r, "delete")
  /\ Proceed(r, req[r])
  /\ UNCHANGED tables

deleteUserSessions(r) ==
  /\ At(r, "delete")
  /\ sessions' = sessions \ req[r].got
  /\ Proceed(r, [req[r] EXCEPT !.got = {}])
  /\ UNCHANGED <<email, refresh, resets, remembered, changes, proof>>

-----------------------------------------------------------------------------
(* Refresh tokens.                                                         *)

\* Mutant: the token is not linked to the session.
issueRefreshToken_Unlinked(r) ==
  /\ At(r, "issue")
  /\ refresh' = [refresh EXCEPT ![r] = [state |-> "live", session |-> None]]
  /\ Proceed(r, req[r])
  /\ UNCHANGED <<email, sessions, resets, remembered, changes, proof>>

issueRefreshToken(r) ==
  /\ At(r, "issue")
  /\ refresh' = [refresh EXCEPT ![r] = [state |-> "live", session |-> r]]
  /\ Proceed(r, req[r])
  /\ UNCHANGED <<email, sessions, resets, remembered, changes, proof>>

\* A revoked token's row is deleted; of a live one, the session it is linked to is looked up next.
validateToken(r) ==
  LET i == req[r].id
  IN  /\ At(r, "validate")
      /\ IF refresh[i].state = "live"
         THEN /\ Proceed(r, [req[r] EXCEPT !.got = {refresh[i].session}])
              /\ UNCHANGED refresh
         ELSE refresh' = [refresh EXCEPT ![i] = NoToken] /\ Refuse(r)
      /\ UNCHANGED <<email, sessions, resets, remembered, changes, proof>>

\* The row of a token whose session is gone is deleted, too.
validateLinked(r) ==
  LET i == req[r].id
  IN  /\ At(r, "linked")
      /\ IF req[r].got \subseteq sessions
         THEN Proceed(r, [req[r] EXCEPT !.proof = Presented(i), !.got = {}]) /\ UNCHANGED refresh
         ELSE refresh' = [refresh EXCEPT ![i] = NoToken] /\ Refuse(r)
      /\ UNCHANGED <<email, sessions, resets, remembered, changes, proof>>

\* rotate looks for the old row, revoked or not; without it the handler fails, and the
\* session it has made stays.
rotate(r) ==
  LET i == req[r].id
  IN  /\ At(r, "rotate")
      /\ IF refresh[i].state # "none"
         THEN refresh' = [refresh EXCEPT ![i].state = "revoked",
                                         ![r] = [state |-> "live", session |-> r]]
         ELSE UNCHANGED refresh
      /\ Proceed(r, req[r])
      /\ UNCHANGED <<email, sessions, resets, remembered, changes, proof>>

revokeAll(r) ==
  /\ At(r, "revokeAll")
  /\ refresh' = [i \in Ids |-> IF refresh[i].state = "live"
                               THEN [refresh[i] EXCEPT !.state = "revoked"] ELSE refresh[i]]
  /\ Proceed(r, req[r])
  /\ UNCHANGED <<email, sessions, resets, remembered, changes, proof>>

\* deleteExpired, on a timer: the rows of revoked tokens go.
deleteExpired ==
  /\ \E i \in Ids : refresh[i].state = "revoked"
  /\ refresh' = [i \in Ids |-> IF refresh[i].state = "revoked"
                               THEN NoToken ELSE refresh[i]]
  /\ UNCHANGED <<email, sessions, resets, remembered, changes, proof, req>>

-----------------------------------------------------------------------------
(* A change of the credentials.                                            *)

\* The requests after r has replaced the credentials and become q: the others past their check
\* raced with it.
Raced(r, q) ==
  [x \in Requests |->
     IF x = r THEN q
     ELSE IF Active(x) /\ req[x].op \in Proving /\ req[x].at \notin Checks \cup {"readUser"}
     THEN [req[x] EXCEPT !.proof = "raced"] ELSE req[x]]

\* An administrator's reset cuts no change links: those in force are excused.
Aged(r) ==
  [i \in Ids |-> IF req[r].op = "adminReset" /\ changes[i] # None THEN "raced"
                 ELSE IF proof[i] = "current" THEN "replaced" ELSE proof[i]]

updatePassword(r) ==
  /\ At(r, "update")
  /\ req' = Raced(r, Goes([req[r] EXCEPT !.proof = "current"]))
  /\ proof' = Aged(r)
  /\ invalidateUserCache(TRUE)
  /\ UNCHANGED <<email, sessions, refresh, resets, remembered, changes>>

-----------------------------------------------------------------------------
(* Links that reset the password.                                          *)

invalidateResetTokens(r) ==
  /\ At(r, "invalidateResets")
  /\ resets' = {}
  /\ Proceed(r, req[r])
  /\ UNCHANGED <<email, sessions, refresh, remembered, changes, proof>>

createResetToken(r) ==
  /\ At(r, "createReset")
  /\ resets' = resets \cup {r}
  /\ Proceed(r, [req[r] EXCEPT !.id = r])
  /\ UNCHANGED <<email, sessions, refresh, remembered, changes, proof>>

\* GET /reset/:token: a token that is not in memory is looked up.
lookupReset(r) ==
  /\ At(r, "lookup")
  /\ IF req[r].id \in resets \ remembered THEN Proceed(r, req[r]) ELSE Refuse(r)
  /\ UNCHANGED tables

\* state._adminResetTokens.set.
rememberReset(r) ==
  /\ At(r, "remember")
  /\ remembered' = remembered \cup {req[r].id}
  /\ Proceed(r, req[r])
  /\ UNCHANGED <<email, sessions, refresh, resets, changes, proof>>

\* UPDATE ... RETURNING: the row is used.
ClaimReset(l) == resets \ {l}

\* resolveResetToken: a token in memory is accepted as it is; the row is not looked at.
claimReset(r) ==
  LET l == req[r].id
  IN  /\ At(r, "claimReset")
      /\ CASE l \in remembered -> Proceed(r, req[r]) /\ UNCHANGED resets
           [] l \in resets \ remembered -> Proceed(r, req[r]) /\ resets' = ClaimReset(l)
           [] l \notin resets \cup remembered -> Refuse(r) /\ UNCHANGED resets
      /\ UNCHANGED <<email, sessions, refresh, remembered, changes, proof>>

\* state._adminResetTokens.delete.
forgetReset(r) ==
  /\ At(r, "forget")
  /\ remembered' = remembered \ {req[r].id}
  /\ Proceed(r, req[r])
  /\ UNCHANGED <<email, sessions, refresh, resets, changes, proof>>

-----------------------------------------------------------------------------
(* Links that confirm an address.                                          *)

\* SUPERSEDE_PENDING_CHANGES: the links to another address than the one kept are used.
Superseded(keep) == [i \in Ids |-> IF changes[i] # keep THEN None ELSE changes[i]]

\* Mutant: a rotation of the password leaves the pending change of address.
cutChanges_Forgotten(r) ==
  /\ At(r, "cutChanges")
  /\ Proceed(r, req[r])
  /\ UNCHANGED tables

\* invalidatePendingEmailChanges, with the address read before the update: when the address has
\* moved since, it leaves the links to the one it has read, which are excused.
cutChanges(r) ==
  /\ At(r, "cutChanges")
  /\ changes' = Superseded(req[r].keep)
  /\ proof' = [i \in Ids |-> IF changes[i] = req[r].keep /\ req[r].keep # email
                             THEN "raced" ELSE proof[i]]
  /\ Proceed(r, req[r])
  /\ UNCHANGED <<email, sessions, refresh, resets, remembered>>

\* replaceVerificationToken, a transaction under the lock of the user's row.
replaceChange(r) ==
  /\ At(r, "replaceChange")
  /\ changes' = [Superseded(req[r].keep) EXCEPT ![r] = req[r].email]
  /\ proof' = [proof EXCEPT ![r] = req[r].proof]
  /\ Proceed(r, req[r])
  /\ UNCHANGED <<email, sessions, refresh, resets, remembered>>

invalidateVerificationTokens(r) ==
  /\ At(r, "invalidateChanges")
  /\ changes' = [i \in Ids |-> None]
  /\ Proceed(r, req[r])
  /\ UNCHANGED <<email, sessions, refresh, resets, remembered, proof>>

\* resend-verification: a link to the address it has read.
createChange(r) ==
  /\ At(r, "createChange")
  /\ changes' = [changes EXCEPT ![r] = req[r].keep]
  /\ proof' = [proof EXCEPT ![r] = req[r].proof]
  /\ Proceed(r, req[r])
  /\ UNCHANGED <<email, sessions, refresh, resets, remembered>>

\* consumeVerificationToken: UPDATE ... RETURNING.
ClaimChange(l) == [changes EXCEPT ![l] = None]

claimChange(r) ==
  LET l == req[r].id
  IN  /\ At(r, "claimChange")
      /\ IF changes[l] # None
         THEN /\ changes' = ClaimChange(l)
              /\ Proceed(r, [req[r] EXCEPT !.email = changes[l]])
         ELSE Refuse(r) /\ UNCHANGED changes
      /\ UNCHANGED <<email, sessions, refresh, resets, remembered, proof>>

\* identityMoved compares the link's address with the one on file, as getUserById has it.
readAddress(r) ==
  /\ At(r, "readAddress")
  /\ \E row \in copies : Proceed(r, [req[r] EXCEPT !.moved = row.email # req[r].email])
  /\ UNCHANGED tables

\* What is in force when a confirmation that has read an older address, from a copy or before
\* another's write, cuts nothing: excused.
Excused == [i \in Ids |-> IF proof[i] = "current" \/ changes[i] # None THEN "raced" ELSE proof[i]]

\* The address is written; when the identity moves, every session and token is cut next.
updateUserEmail(r) ==
  LET q == req[r]
  IN  /\ At(r, "updateEmail")
      /\ email' = q.email
      /\ invalidateUserCache(email # q.email)
      /\ CASE q.moved -> proof' = Aged(r) /\ req' = Raced(r, Goes(q))
           [] ~q.moved /\ email = q.email -> Refuse(r) /\ UNCHANGED proof
           [] ~q.moved /\ email # q.email -> proof' = Excused /\ req' = Raced(r, Answered(q))
      /\ UNCHANGED <<sessions, refresh, resets, remembered, changes>>

-----------------------------------------------------------------------------
\* The statements that leave the user's row alone.
Step(r) ==
  \/ start(r) \/ auth(r) \/ readUser(r)
  \/ insertSession(r) \/ commitSession(r) \/ deleteUserSession(r) \/ notFound(r)
  \/ selectSessions(r) \/ deleteUserSessions(r)
  \/ issueRefreshToken(r) \/ validateToken(r) \/ validateLinked(r) \/ rotate(r) \/ revokeAll(r)
  \/ invalidateResetTokens(r) \/ createResetToken(r) \/ lookupReset(r) \/ rememberReset(r)
  \/ claimReset(r) \/ forgetReset(r)
  \/ cutChanges(r) \/ replaceChange(r) \/ invalidateVerificationTokens(r) \/ createChange(r)
  \/ claimChange(r) \/ readAddress(r)

Next ==
  /\ \/ (\E r \in Requests : Step(r)) /\ UNCHANGED copies
     \/ \E r \in Requests : updatePassword(r) \/ updateUserEmail(r)
     \/ deleteExpired /\ UNCHANGED copies
     \/ getUsers
  /\ UNCHANGED ops

Spec == Init /\ [][Next]_vars

-----------------------------------------------------------------------------
\* Every variable has its type.
TypeOK ==
  /\ email \in Emails /\ copies \subseteq Rows
  /\ sessions \subseteq Ids /\ resets \subseteq Requests /\ remembered \subseteq Requests
  /\ refresh \in [Ids -> [state : {"none", "live", "revoked"}, session : Ids]]
  /\ changes \in [Ids -> Emails \cup {None}]
  /\ proof \in [Ids -> Proofs]
  /\ \A r \in Requests : req[r].op \in ops \cup {None, "other"}

\* createUserSession counts under READ COMMITTED: concurrent sign-ins may each overlook the
\* others' new session, but the excess does not add up over time.
SessionOverflowIsBounded == Cardinality(sessions) <= MaxSessions + MaxInflight - 1

\* change-password, both resets and a confirmed change of address: afterwards no session
\* obtained with the old credentials is left, and no refresh token obtained with them yields
\* one, but for requests that passed their check before the change was carried out, those that
\* looked at a copy of the user's row from before it (a confirmation then cuts nothing), and what
\* descends from them.
StaleAreRaced == Settled => \A i \in sessions : proof[i] \in {"current", "raced"}

\* At most one link to another address that was asked for with the credentials in force is
\* pending, and a change or a reset of the password cuts it, but for requests in flight, those
\* that looked at a copy of the user's row which was no longer in force, and an administrator's
\* reset.
ChangeLinksAreCut ==
  LET Pending == {i \in Ids : changes[i] \notin {None, email}}
  IN  Settled => /\ \A i \in Pending : proof[i] \in {"current", "raced"}
                 /\ \A i, j \in Pending : proof[i] = "current" /\ proof[j] = "current" => i = j

=============================================================================
