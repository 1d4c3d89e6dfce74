----------------------------- MODULE AuthSessions -----------------------------
(***************************************************************************)
(* Accounts and refresh sessions (app/services/auth_service.py,            *)
(* app/repositories/refresh_session_repository.py, email_token_service.py, *)
(* app/api/v1/auth.py, admin_moderation_service.py).  A request reads the  *)
(* rows it needs, and commits its changes in a later transaction: between  *)
(* the two, other requests of the same user may rotate, revoke, suspend or *)
(* delete what it has read.  A request may also die between two commits.   *)
(***************************************************************************)
EXTENDS Naturals, FiniteSets

CONSTANTS
    Users,           \* the accounts
    Sids,            \* the rows of refresh_sessions, each with its own token, numbered
    NoSid,
    AuthRequests,
    Mails,           \* the one-time tokens mailed to reset a password
    MaxAuthRequests,     \* bound: the requests that are begun
    MaxWrites        \* bound: the passwords ever written

ASSUME UserAssumption == Users # {}
ASSUME SidAssumption == Sids \subseteq Nat /\ NoSid \notin Sids
ASSUME AuthAssumption == MaxAuthRequests \in Nat /\ MaxWrites \in Nat

VARIABLES
    users,       \* the rows of users
    sessions,    \* the rows of refresh_sessions
    mails,       \* Redis: what each mailed token stands for
    reqs,        \* the requests under way
    begun,       \* the requests begun so far
    writes,      \* the passwords written so far: a password is named by its number
    reset,       \* per user, the password of the last reset
    halfReset    \* the users whose last reset died before it revoked their sessions

authVars == <<users, sessions, mails, reqs, begun, writes, reset, halfReset>>

Reasons == {"no", "rotated", "logout", "logout_all", "family_invalidated"}

\* What was committed between a request's read and its own commit.
Overtakings == {"rotated", "revoked", "cut", "suspended", "password"}

User == [exists : BOOLEAN, active : BOOLEAN, password : Nat]

\* password and saw are history: the password the family was opened with, and
\* what overtook the requests that inserted the row and its ancestors.
Session == [status : {"none", "stored", "deleted"}, user : Users, family : Sids, from : Sids \cup {NoSid},
            reason : Reasons, expired : BOOLEAN, password : Nat, saw : SUBSET Overtakings]

Request == [op : {"idle", "login", "refresh", "refresh_user", "logout", "logout_all", "change", "delete",
                  "forgot", "reset", "revoke"},
            user : Users, sid : Sids \cup {NoSid}, password : Nat, given : Nat, saw : SUBSET Overtakings]

SomeUser == CHOOSE u \in Users : TRUE
AuthIdle == [op |-> "idle", user |-> SomeUser, sid |-> NoSid, password |-> 0, given |-> 0, saw |-> {}]
NoSession(s) == [status |-> "none", user |-> SomeUser, family |-> s, from |-> NoSid, reason |-> "no",
                 expired |-> FALSE, password |-> 0, saw |-> {}]
NotMailed == [kind |-> "none", user |-> SomeUser]

AuthInit ==
    /\ users \in [Users -> [exists : {TRUE}, active : {TRUE}, password : {0, 1}]]
    /\ sessions = [s \in Sids |-> NoSession(s)]
    /\ mails = [m \in Mails |-> NotMailed]
    /\ reqs = [r \in AuthRequests |-> AuthIdle]
    /\ begun = 0
    /\ writes = 1
    /\ reset = [u \in Users |-> 0]
    /\ halfReset = {}

-----------------------------------------------------------------------------
LiveSession(s) == sessions[s].status = "stored" /\ sessions[s].reason = "no" /\ ~ sessions[s].expired
UnrevokedOf(family) == {s \in Sids : /\ sessions[s].status = "stored"
                                     /\ sessions[s].family = family
                                     /\ sessions[s].reason = "no"}
LiveOf(u) == {s \in Sids : sessions[s].user = u /\ LiveSession(s)}

\* Rows are named in the order in which they are inserted.
Fresh(s) == sessions[s].status = "none" /\ \A t \in Sids : t < s => sessions[t].status # "none"

Revoke(S, reason) == [s \in Sids |-> IF s \in S THEN [sessions[s] EXCEPT !.reason = reason] ELSE sessions[s]]

\* The history of the requests R: they are overtaken by `what'.
Overtake(R, what, requests) ==
    [r \in AuthRequests |-> IF r \in R THEN [requests[r] EXCEPT !.saw = @ \cup {what}] ELSE requests[r]]
Using(S) == {r \in AuthRequests : reqs[r].op # "idle" /\ reqs[r].sid \in S}
Of(u) == {r \in AuthRequests : reqs[r].op # "idle" /\ reqs[r].user = u}

Begin(r, request) ==
    /\ reqs[r].op = "idle" /\ begun < MaxAuthRequests
    /\ reqs' = [reqs EXCEPT ![r] = request]
    /\ begun' = begun + 1

Done(r) == [reqs EXCEPT ![r] = AuthIdle]

\* The request is refused or fails, and what it has not committed is lost; a
\* process that stops in the middle of a password reset leaves it half done.
AuthFail(r) ==
    /\ reqs[r].op # "idle"
    /\ reqs' = Done(r)
    /\ halfReset' = IF reqs[r].op = "revoke" THEN halfReset \cup {reqs[r].user} ELSE halfReset
    /\ UNCHANGED <<users, sessions, mails, begun, writes, reset>>

-----------------------------------------------------------------------------
\* The user is read by e-mail and proves the password in force, or a provider
\* vouches for an account of its own; the account is active.
SignIn(r, u, by) ==
    /\ users[u].exists /\ users[u].active
    /\ by = "password" => users[u].password > 0
    /\ Begin(r, [AuthIdle EXCEPT !.op = "login", !.user = u, !.password = users[u].password])
    /\ UNCHANGED <<users, sessions, mails, writes, reset, halfReset>>

\* Insert a row of a new family.  The foreign key refuses the row of a deleted user.
CreateSession(r, s) ==
    LET q == reqs[r]
    IN  /\ q.op = "login" /\ Fresh(s)
        /\ users[q.user].exists
        /\ sessions' = [sessions EXCEPT ![s] = [NoSession(s) EXCEPT !.status = "stored", !.user = q.user,
                                                    !.password = q.password, !.saw = q.saw]]
        /\ reqs' = Done(r)
        /\ UNCHANGED <<users, mails, begun, writes, reset, halfReset>>

\* Mutant: a revoked session may be exchanged unless it was rotated.
MayRotateUnlessRotated(s) == /\ sessions[s].status = "stored" /\ ~ sessions[s].expired
                             /\ sessions[s].reason # "rotated"

\* The token of s may be exchanged: its row is there, unexpired and not revoked.
MayRotate(s) == sessions[s].status = "stored" /\ ~ sessions[s].expired /\ sessions[s].reason = "no"

RefreshRead(r, s) ==
    /\ MayRotate(s)
    /\ Begin(r, [AuthIdle EXCEPT !.op = "refresh", !.user = sessions[s].user, !.sid = s])
    /\ UNCHANGED <<users, sessions, mails, writes, reset, halfReset>>

\* The sessions a reuse of s revokes.
Family(s) == UnrevokedOf(sessions[s].family)

\* The token of a rotated session is presented again: its family is revoked.
RefreshReuse(s) ==
    /\ sessions[s].status = "stored" /\ ~ sessions[s].expired
    /\ sessions[s].reason = "rotated" /\ begun < MaxAuthRequests
    /\ sessions' = Revoke(Family(s), "family_invalidated")
    /\ reqs' = Overtake(Using(Family(s)), "revoked", reqs)
    /\ begun' = begun + 1
    /\ UNCHANGED <<users, mails, writes, reset, halfReset>>

AccountUsable(u) == users[u].exists /\ users[u].active

\* The user of the session is read after the session.
RefreshUser(r) ==
    /\ reqs[r].op = "refresh" /\ AccountUsable(reqs[r].user)
    /\ reqs' = [reqs EXCEPT ![r].op = "refresh_user"]
    /\ UNCHANGED <<users, sessions, mails, begun, writes, reset, halfReset>>

\* The row inserted for the new token.
Successor(r, s) ==
    [NoSession(s) EXCEPT !.status = "stored", !.user = reqs[r].user, !.from = reqs[r].sid,
        !.family = sessions[reqs[r].sid].family,
        !.password = sessions[reqs[r].sid].password, !.saw = reqs[r].saw \cup sessions[reqs[r].sid].saw]

\* Mutant: the presented session stays as it is.
RotateLeaves(old) == sessions

\* UPDATE by the row's id, whatever has become of the row.
Rotate(old) == Revoke({old}, "rotated")

\* The old row is revoked by its id, whatever has become of it, and the
\* successor inserted, in one transaction.
RefreshCommit(r, s) ==
    LET old == reqs[r].sid
    IN  /\ reqs[r].op = "refresh_user" /\ Fresh(s)
        /\ users[reqs[r].user].exists
        /\ sessions' = [Rotate(old) EXCEPT ![s] = Successor(r, s)]
        /\ reqs' = Overtake(Using({old}) \ {r}, "rotated", Done(r))
        /\ UNCHANGED <<users, mails, begun, writes, reset, halfReset>>

\* A revoked session is left as it is.
LogoutRead(r, s) ==
    /\ sessions[s].status = "stored" /\ ~ sessions[s].expired /\ sessions[s].reason = "no"
    /\ Begin(r, [AuthIdle EXCEPT !.op = "logout", !.user = sessions[s].user, !.sid = s])
    /\ UNCHANGED <<users, sessions, mails, writes, reset, halfReset>>

LogoutCommit(r) ==
    LET s == reqs[r].sid
    IN  /\ reqs[r].op = "logout"
        /\ sessions' = IF sessions[s].status = "stored" THEN Revoke({s}, "logout") ELSE sessions
        /\ reqs' = Overtake(Using({s}) \ {r}, "revoked", Done(r))
        /\ UNCHANGED <<users, mails, begun, writes, reset, halfReset>>

-----------------------------------------------------------------------------
\* A request with an access token: the user is read, whatever the sessions are.
\* To change the password the client gives one this account has or has had.
Admit(r, u, op, given) ==
    /\ AccountUsable(u) /\ given <= writes
    /\ Begin(r, [AuthIdle EXCEPT !.op = op, !.user = u, !.password = users[u].password, !.given = given])
    /\ UNCHANGED <<users, sessions, mails, writes, reset, halfReset>>

\* Revoke all sessions of the user that are neither revoked nor expired.
LogoutAll(r) ==
    LET u == reqs[r].user
    IN  /\ reqs[r].op = "logout_all"
        /\ sessions' = Revoke(LiveOf(u), "logout_all")
        /\ reqs' = Overtake(Of(u) \ {r}, "cut", Done(r))
        /\ halfReset' = halfReset \ {u}
        /\ UNCHANGED <<users, mails, begun, writes, reset>>

\* The row of user u gets a new password.
WritePassword(u) ==
    /\ writes < MaxWrites
    /\ writes' = writes + 1
    /\ users' = [users EXCEPT ![u].password = writes + 1]

\* Mutant: the current password is not compared.
VerifiesNothing(r) == reqs[r].password > 0

\* The password given is compared with the user object read on admission.
Verifies(r) == reqs[r].password > 0 /\ reqs[r].given = reqs[r].password

\* The sessions stay as they are.
ChangePassword(r) ==
    LET u == reqs[r].user
    IN  /\ reqs[r].op = "change" /\ users[u].exists
        /\ Verifies(r)
        /\ WritePassword(u)
        /\ reqs' = Overtake(Of(u) \ {r}, "password", Done(r))
        /\ UNCHANGED <<sessions, mails, begun, reset, halfReset>>

Cascade(u) == {s \in Sids : sessions[s].status = "stored" /\ sessions[s].user = u}

\* The user's row goes, and by the foreign keys every row that hangs on it.
DeleteAccount(r) ==
    LET u == reqs[r].user
    IN  /\ reqs[r].op = "delete"
        /\ users' = [users EXCEPT ![u].exists = FALSE]
        /\ sessions' = [s \in Sids |-> IF s \in Cascade(u)
                                       THEN [sessions[s] EXCEPT !.status = "deleted"] ELSE sessions[s]]
        /\ reqs' = Done(r)
        /\ UNCHANGED <<mails, begun, writes, reset, halfReset>>

-----------------------------------------------------------------------------
\* A new token is stored for the user, under a key of its own.
StoreToken(u, m) ==
    /\ mails[m].kind = "none"
    /\ mails' = [mails EXCEPT ![m] = [kind |-> "stored", user |-> u]]

\* GETDEL: a token is found once.
ConsumeToken(m) ==
    /\ mails[m].kind = "stored"
    /\ mails' = [mails EXCEPT ![m].kind = "spent"]

\* A mail goes only to an active account that has a password.
ForgotPassword(u, m) ==
    /\ AccountUsable(u) /\ users[u].password > 0
    /\ StoreToken(u, m)
    /\ UNCHANGED <<users, sessions, reqs, begun, writes, reset, halfReset>>

\* The token is taken even if the account has been suspended or deleted since.
ResetStart(r, m) ==
    /\ ConsumeToken(m)
    /\ IF AccountUsable(mails[m].user)
       THEN Begin(r, [AuthIdle EXCEPT !.op = "reset", !.user = mails[m].user])
       ELSE UNCHANGED <<reqs, begun>>
    /\ UNCHANGED <<users, sessions, writes, reset, halfReset>>

\* First transaction: the password.
ResetPassword(r) ==
    LET u == reqs[r].user
    IN  /\ reqs[r].op = "reset" /\ users[u].exists
        /\ WritePassword(u)
        /\ reset' = [reset EXCEPT ![u] = writes + 1]
        /\ reqs' = [Overtake(Of(u) \ {r}, "password", reqs) EXCEPT ![r].op = "revoke"]
        /\ UNCHANGED <<sessions, mails, begun, halfReset>>

\* Mutant: the sessions opened by a rotation are forgotten.
ResetRevokesRoots(u) == {s \in LiveOf(u) : sessions[s].from = NoSid}

ResetRevokes(u) == LiveOf(u)

\* Second transaction: the sessions.
ResetRevoke(r) ==
    LET u == reqs[r].user
    IN  /\ reqs[r].op = "revoke"
        /\ sessions' = Revoke(ResetRevokes(u), "logout_all")
        /\ reqs' = Overtake(Of(u) \ {r}, "cut", Done(r))
        /\ halfReset' = halfReset \ {u}
        /\ UNCHANGED <<users, mails, begun, writes, reset>>

-----------------------------------------------------------------------------
\* A bulk action suspends or reactivates the account; its sessions stay.  (The
\* endpoint for one user never commits: AdminOffice.)
SuspendUser(u) ==
    /\ users[u].exists /\ users[u].active
    /\ users' = [users EXCEPT ![u].active = FALSE]
    /\ reqs' = Overtake(Of(u), "suspended", reqs)
    /\ UNCHANGED <<sessions, mails, begun, writes, reset, halfReset>>

ActivateUser(u) ==
    /\ users[u].exists /\ ~ users[u].active
    /\ users' = [users EXCEPT ![u].active = TRUE]
    /\ UNCHANGED <<sessions, mails, reqs, begun, writes, reset, halfReset>>

\* Time passes: the refresh token of s expires.
Expire(s) ==
    /\ sessions[s].status = "stored" /\ ~ sessions[s].expired
    /\ sessions' = [sessions EXCEPT ![s].expired = TRUE]
    /\ reqs' = Overtake(Using({s}), "revoked", reqs)
    /\ UNCHANGED <<users, mails, begun, writes, reset, halfReset>>

AuthNext ==
    \/ \E r \in AuthRequests, u \in Users, by \in {"password", "provider"} : SignIn(r, u, by)
    \/ \E r \in AuthRequests, u \in Users, op \in {"logout_all", "delete"} : Admit(r, u, op, 0)
    \/ \E r \in AuthRequests, u \in Users, given \in 0 .. MaxWrites : Admit(r, u, "change", given)
    \/ \E r \in AuthRequests, s \in Sids : CreateSession(r, s) \/ RefreshRead(r, s) \/ RefreshCommit(r, s) \/ LogoutRead(r, s)
    \/ \E r \in AuthRequests : RefreshUser(r) \/ LogoutCommit(r) \/ LogoutAll(r) \/ ChangePassword(r) \/ DeleteAccount(r)
    \/ \E r \in AuthRequests : ResetPassword(r) \/ ResetRevoke(r) \/ AuthFail(r)
    \/ \E r \in AuthRequests, m \in Mails : ResetStart(r, m)
    \/ \E u \in Users, m \in Mails : ForgotPassword(u, m)
    \/ \E s \in Sids : RefreshReuse(s) \/ Expire(s)
    \/ \E u \in Users : SuspendUser(u) \/ ActivateUser(u)

AuthSpec == AuthInit /\ [][AuthNext]_authVars

-----------------------------------------------------------------------------
AuthTypeOK ==
    /\ users \in [Users -> User]
    /\ sessions \in [Sids -> Session]
    /\ mails \in [Mails -> [kind : {"none", "stored", "spent"}, user : Users]]
    /\ reqs \in [AuthRequests -> Request]
    /\ begun \in 0 .. MaxAuthRequests
    /\ writes \in Nat
    /\ reset \in [Users -> Nat]
    /\ halfReset \in SUBSET Users
    /\ \A s \in Sids : sessions[s].status = "stored" => users[sessions[s].user].exists

\* A family has one live session at a time: two only when the token of one
\* session was exchanged twice at once (AuthService.refresh).
OneLivePerFamily ==
    \A s, t \in Sids :
        LiveSession(s) /\ LiveSession(t) /\ s # t /\ sessions[s].family = sessions[t].family
        => "rotated" \in sessions[s].saw \cup sessions[t].saw

\* After a password reset no session opened with an older password is live,
\* unless the request that inserted it, or an ancestor, was under way when the
\* sessions were revoked, or the reset has not got so far (reset_password).
ResetEndsOldSessions ==
    \A s \in Sids : LET u == sessions[s].user IN
        LiveSession(s) /\ sessions[s].password < reset[u]
        => \/ "cut" \in sessions[s].saw
           \/ u \in halfReset
           \/ \E r \in AuthRequests : reqs[r].op = "revoke" /\ reqs[r].user = u

\* What no revocation may leave behind: a second live session of a family, or a live
\* session older than the password (revoke_session, revoke_all_for_user).
SessionsHold == OneLivePerFamily /\ ResetEndsOldSessions

Inserted(s) == sessions[s].status = "none" /\ sessions'[s].status = "stored"

\* A family whose sessions are all revoked or expired gets a live one only from a
\* refresh that had read its session before (logout, logout-all, reuse, reset).
EndedFamilyStaysEnded ==
    [][\A s \in Sids :
        /\ Inserted(s) /\ sessions'[s].from # NoSid
        /\ \A t \in Sids : sessions[t].family = sessions'[s].family => ~ LiveSession(t)
        => {"rotated", "revoked", "cut"} \cap sessions'[s].saw # {}]_authVars

\* Nobody gets a session for a suspended account, unless the suspension came
\* while the request was under way (create_session_for_user, refresh).
SuspendedGetsNoSession ==
    [][\A s \in Sids :
        Inserted(s) /\ ~ users[sessions'[s].user].active
        => \E r \in AuthRequests : /\ reqs[r].user = sessions'[s].user /\ "suspended" \in reqs[r].saw
                               /\ reqs[r].op \in {"login", "refresh_user"} /\ reqs'[r].op = "idle"]_authVars

\* A revoked session keeps its reason, on which the detection of a reuse rests,
\* unless a refresh or a logout that had read it as live rewrites it (revoke_session).
ReasonIsKept ==
    [][\A s \in Sids :
        sessions[s].reason # "no" /\ sessions'[s].reason # sessions[s].reason
        => \E r \in AuthRequests : /\ reqs[r].sid = s /\ reqs[r].op \in {"refresh_user", "logout"}
                               /\ reqs[r].saw # {} /\ reqs'[r].op = "idle"]_authVars

\* A password is replaced by a reset, or by a client that gave the one in force,
\* unless the password was written while that request was under way (change_password).
PasswordIsProved ==
    [][\A u \in Users :
        users'[u].password # users[u].password
        => \E r \in AuthRequests :
            /\ reqs[r].user = u
            /\ \/ reqs[r].op = "reset"
               \/ /\ reqs[r].op = "change"
                  /\ reqs[r].given = users[u].password \/ "password" \in reqs[r].saw]_authVars

\* What revokes a session, bars its owner or replaces a password is undone only by a
\* request that had looked before (AuthService.refresh, logout, change_password).
AccessHolds == EndedFamilyStaysEnded /\ SuspendedGetsNoSession /\ ReasonIsKept /\ PasswordIsProved

-----------------------------------------------------------------------------
\* The inductive strengthening that the proofs use.
Refreshing(r) == reqs[r].op \in {"refresh", "refresh_user"}
Presenting(r) == Refreshing(r) \/ reqs[r].op = "logout"

\* What overtook the request and the ancestors of the row it would insert.
Seen(r) == reqs[r].saw \cup sessions[reqs[r].sid].saw

\* A reset of u is between its two commits, or stopped there.
Cutting(u) == u \in halfReset \/ \E r \in AuthRequests : reqs[r].op = "revoke" /\ reqs[r].user = u

RowsAreLinked ==
    \A s \in Sids :
        /\ sessions[s].status = "none" => sessions[s].reason = "no" /\ sessions[s].family = s
        /\ sessions[s].status # "none" => sessions[sessions[s].family].status # "none"
        /\ sessions[s].status = "deleted" => ~ users[sessions[s].user].exists

TokenHasRow ==
    \A r \in AuthRequests :
        Presenting(r) => /\ reqs[r].sid \in Sids
                         /\ sessions[reqs[r].sid].status # "none"
                         /\ sessions[reqs[r].sid].user = reqs[r].user

\* A refresh counts as the live session it may insert.
OneHolderPerFamily ==
    /\ \A r \in AuthRequests, t \in Sids :
        /\ Refreshing(r) /\ LiveSession(t) /\ reqs[r].sid # t
        /\ sessions[t].family = sessions[reqs[r].sid].family
        => "rotated" \in Seen(r) \cup sessions[t].saw
    /\ \A r, q \in AuthRequests :
        /\ Refreshing(r) /\ Refreshing(q) /\ reqs[r].sid # reqs[q].sid
        /\ sessions[reqs[r].sid].family = sessions[reqs[q].sid].family
        => "rotated" \in Seen(r) \cup Seen(q)

ResetIsPassword == \A u \in Users : reset[u] <= users[u].password /\ users[u].password <= writes

OldRequestsAreCut ==
    \A r \in AuthRequests : LET u == reqs[r].user IN
        /\ reqs[r].op = "login" /\ reqs[r].password < reset[u] => "cut" \in reqs[r].saw \/ Cutting(u)
        /\ Refreshing(r) /\ sessions[reqs[r].sid].password < reset[u] => "cut" \in Seen(r) \/ Cutting(u)

RevocationIsSeen ==
    \A r \in AuthRequests : LET s == sessions[reqs[r].sid] IN
        /\ Refreshing(r) /\ ~ LiveSession(reqs[r].sid)
            => s.status = "deleted" \/ {"rotated", "revoked", "cut"} \cap reqs[r].saw # {}
        /\ Presenting(r) /\ s.reason # "no" => reqs[r].saw # {}

UserIsSeen ==
    \A r \in AuthRequests : LET u == users[reqs[r].user] IN
        /\ reqs[r].op \in {"login", "refresh_user"} => u.active \/ "suspended" \in reqs[r].saw
        /\ reqs[r].op = "change" => reqs[r].password = u.password \/ "password" \in reqs[r].saw

AuthInv ==
    /\ RowsAreLinked
    /\ TokenHasRow
    /\ OneLivePerFamily
    /\ OneHolderPerFamily
    /\ ResetIsPassword
    /\ ResetEndsOldSessions
    /\ OldRequestsAreCut
    /\ RevocationIsSeen
    /\ UserIsSeen
=============================================================================
