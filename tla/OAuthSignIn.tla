------------------------------ MODULE OAuthSignIn ------------------------------
(***************************************************************************)
(* Which account a sign-in reaches (app/services/oauth_resolution.py,      *)
(* google_oauth_service.py, github_oauth_service.py, the registration and  *)
(* e-mail verification of auth_service.py, app/repositories/               *)
(* user_repository.py).  Two unique keys of the database decide between    *)
(* requests that run at once: the e-mail of an account, and the identity   *)
(* (provider, id at the provider) of a link.                               *)
(***************************************************************************)
EXTENDS Naturals, FiniteSets

CONSTANTS
    Accounts,        \* rows of users, each used once
    Nobody,
    Emails,
    Providers, Ids,  \* an identity is a provider and an id there
    Logins,          \* the requests
    MaxLogins,       \* bound: the requests that are begun
    MaxAdmin         \* bound: the deletions and suspensions

ASSUME NobodyAssumption == Nobody \notin Accounts
ASSUME SomeIdentityAssumption == Emails # {} /\ Providers # {} /\ Ids # {}
ASSUME LoginBoundAssumption == MaxLogins \in Nat /\ MaxAdmin \in Nat

Identities == Providers \X Ids

VARIABLES
    accounts,    \* the rows of users
    links,       \* the rows of oauth_accounts: whose identity it is
    logins,      \* the requests under way
    verifyMails, \* Redis: the accounts for which a verification token is stored
    loginsBegun,
    adminActs

signInVars == <<accounts, links, logins, verifyMails, loginsBegun, adminActs>>

Account == [status : {"none", "stored", "deleted"}, email : Emails, password : BOOLEAN, active : BOOLEAN,
            verified : BOOLEAN]
Login == [at : {"idle", "register", "find", "by_email", "link", "create", "session"},
          email : Emails, identity : Identities, account : Accounts \cup {Nobody}, active : BOOLEAN,
          seen : SUBSET Identities]

LoginIdle == [at |-> "idle", email |-> CHOOSE e \in Emails : TRUE, identity |-> CHOOSE i \in Identities : TRUE,
              account |-> Nobody, active |-> TRUE, seen |-> {}]

SignInInit ==
    /\ accounts = [a \in Accounts |-> [status |-> "none", email |-> CHOOSE e \in Emails : TRUE,
                                       password |-> FALSE, active |-> TRUE, verified |-> FALSE]]
    /\ links = [i \in Identities |-> Nobody]
    /\ logins = [l \in Logins |-> LoginIdle]
    /\ verifyMails = {}
    /\ loginsBegun = 0
    /\ adminActs = 0

Stored(a) == a \in Accounts /\ accounts[a].status = "stored"
WithEmail(e) == {a \in Accounts : Stored(a) /\ accounts[a].email = e}
LinksOf(a) == {i \in Identities : links[i] = a}

Go(l, at) == logins' = [logins EXCEPT ![l].at = at]
Answered(l) == logins' = [logins EXCEPT ![l] = LoginIdle]

BeginLogin(l, login) ==
    /\ logins[l].at = "idle" /\ loginsBegun < MaxLogins
    /\ logins' = [logins EXCEPT ![l] = login]
    /\ loginsBegun' = loginsBegun + 1

\* The row of a new account; the unique key admits one account per e-mail.
InsertAccount(a, e, password, verified) ==
    /\ accounts[a].status = "none"
    /\ WithEmail(e) = {}
    /\ accounts' = [accounts EXCEPT ![a] = [status |-> "stored", email |-> e, password |-> password,
                                            active |-> TRUE, verified |-> verified]]

-----------------------------------------------------------------------------
Register(l, e) ==
    /\ WithEmail(e) = {}
    /\ BeginLogin(l, [LoginIdle EXCEPT !.at = "register", !.email = e])
    /\ UNCHANGED <<accounts, links, verifyMails, adminActs>>

\* The account and its session are one transaction; the mail follows and may fail.
RegisterCommit(l, a, mailed) ==
    /\ logins[l].at = "register"
    /\ InsertAccount(a, logins[l].email, TRUE, FALSE)
    /\ verifyMails' = IF mailed THEN verifyMails \cup {a} ELSE verifyMails
    /\ Answered(l)
    /\ UNCHANGED <<links, loginsBegun, adminActs>>

\* Another account has the e-mail by now: a conflict.
RegisterConflict(l) ==
    /\ logins[l].at = "register" /\ WithEmail(logins[l].email) # {}
    /\ Answered(l)
    /\ UNCHANGED <<accounts, links, verifyMails, loginsBegun, adminActs>>

\* Sent again on request of an account that is not verified.
ResendVerification(a) ==
    /\ Stored(a) /\ accounts[a].active /\ ~ accounts[a].verified
    /\ verifyMails' = verifyMails \cup {a}
    /\ UNCHANGED <<accounts, links, logins, loginsBegun, adminActs>>

\* GETDEL finds the token of the account.
TokenFound(a) == a \in verifyMails

\* The token goes first; the account it names may be gone.
VerifyEmail(a) ==
    /\ TokenFound(a)
    /\ verifyMails' = verifyMails \ {a}
    /\ accounts' = IF Stored(a) THEN [accounts EXCEPT ![a].verified = TRUE] ELSE accounts
    /\ UNCHANGED <<links, logins, loginsBegun, adminActs>>

-----------------------------------------------------------------------------
\* The provider's profile has an id and a verified e-mail; the state, the code and
\* the profile have been checked.
Callback(l, i, e) ==
    /\ BeginLogin(l, [LoginIdle EXCEPT !.at = "find", !.identity = i, !.email = e])
    /\ UNCHANGED <<accounts, links, verifyMails, adminActs>>

\* The account that has the identity, if it is active.
FindByIdentity(l) ==
    LET q == logins[l]  owner == links[q.identity]
    IN  /\ q.at = "find"
        /\ IF owner = Nobody THEN Go(l, "by_email")
           ELSE IF accounts[owner].active
           THEN logins' = [logins EXCEPT ![l].at = "session", ![l].account = owner]
           ELSE Answered(l)
        /\ UNCHANGED <<accounts, links, verifyMails, loginsBegun, adminActs>>

\* Mutant: suspended accounts are not found.
CandidatesActive(e) == {a \in WithEmail(e) : accounts[a].active}

\* The account with the e-mail, if there is one.
Candidates(e) == WithEmail(e)

\* Mutant: another identity of the provider is no obstacle.
ConflictsNever(a, i) == FALSE

\* The account has another identity of the same provider.
Conflicts(a, i) == \E j \in LinksOf(a) : j[1] = i[1] /\ j # i

\* The account with the e-mail and its links are read.
FindByEmail(l) ==
    LET q == logins[l]
    IN  /\ q.at = "by_email"
        /\ \/ Candidates(q.email) = {} /\ Go(l, "create")
           \/ \E a \in Candidates(q.email) :
                IF Conflicts(a, q.identity) THEN Answered(l)
                ELSE IF q.identity \in LinksOf(a) /\ ~ accounts[a].active THEN Answered(l)
                ELSE logins' = [logins EXCEPT ![l].at = IF q.identity \in LinksOf(a) THEN "session" ELSE "link",
                                              ![l].account = a, ![l].active = accounts[a].active,
                                              ![l].seen = LinksOf(a)]
        /\ UNCHANGED <<accounts, links, verifyMails, loginsBegun, adminActs>>

\* Whom the sign-in reaches when the identity was linked meanwhile.
Target(l, owner) == owner

\* The link is inserted unless the identity has an owner by now; an inactive
\* account is refused after that, and the transaction rolled back.
LinkIdentity(l) ==
    LET q == logins[l]  owner == links[q.identity]
    IN  /\ q.at = "link"
        /\ \/ /\ owner = Nobody /\ Stored(q.account) /\ q.active
              /\ links' = [links EXCEPT ![q.identity] = q.account]
              /\ Answered(l)
           \/ /\ owner = Nobody /\ ~ (Stored(q.account) /\ q.active)
              /\ Answered(l) /\ UNCHANGED links
           \/ /\ owner # Nobody
              /\ IF accounts[owner].active
                 THEN logins' = [logins EXCEPT ![l].at = "session", ![l].account = Target(l, owner)]
                 ELSE Answered(l)
              /\ UNCHANGED links
        /\ UNCHANGED <<accounts, verifyMails, loginsBegun, adminActs>>

\* The unique key admits the identity.
LinkFree(i) == links[i] = Nobody

\* The account, its link and its session are one transaction.
CreateAccount(l, a) ==
    LET q == logins[l]
    IN  /\ q.at = "create" /\ LinkFree(q.identity)
        /\ InsertAccount(a, q.email, FALSE, TRUE)
        /\ links' = IF links[q.identity] = Nobody THEN [links EXCEPT ![q.identity] = a] ELSE links
        /\ Answered(l)
        /\ UNCHANGED <<verifyMails, loginsBegun, adminActs>>

\* The e-mail or the identity is taken by now: the resolution starts again.
CreateConflict(l) ==
    /\ logins[l].at = "create"
    /\ WithEmail(logins[l].email) # {} \/ ~ LinkFree(logins[l].identity)
    /\ Go(l, "find")
    /\ UNCHANGED <<accounts, links, verifyMails, loginsBegun, adminActs>>

\* The session is inserted, unless the account was deleted meanwhile.
OpenSession(l) ==
    /\ logins[l].at = "session"
    /\ Answered(l)
    /\ UNCHANGED <<accounts, links, verifyMails, loginsBegun, adminActs>>

-----------------------------------------------------------------------------
\* The links of a deleted account go with it.
LinksWithout(a) == [i \in Identities |-> IF links[i] = a THEN Nobody ELSE links[i]]

RemoveAccount(a) ==
    /\ Stored(a) /\ adminActs < MaxAdmin
    /\ accounts' = [accounts EXCEPT ![a].status = "deleted"]
    /\ links' = LinksWithout(a)
    /\ adminActs' = adminActs + 1
    /\ UNCHANGED <<logins, verifyMails, loginsBegun>>

SetActive(a, active) ==
    /\ Stored(a) /\ accounts[a].active # active /\ adminActs < MaxAdmin
    /\ accounts' = [accounts EXCEPT ![a].active = active]
    /\ adminActs' = adminActs + 1
    /\ UNCHANGED <<links, logins, verifyMails, loginsBegun>>

Serve(l) ==
    \/ RegisterConflict(l) \/ FindByIdentity(l) \/ FindByEmail(l) \/ LinkIdentity(l)
    \/ CreateConflict(l) \/ OpenSession(l)
    \/ \E a \in Accounts : CreateAccount(l, a) \/ \E mailed \in BOOLEAN : RegisterCommit(l, a, mailed)

SignInNext ==
    \/ \E l \in Logins : Serve(l)
    \/ \E l \in Logins, e \in Emails : Register(l, e) \/ \E i \in Identities : Callback(l, i, e)
    \/ \E a \in Accounts : \/ ResendVerification(a) \/ VerifyEmail(a) \/ RemoveAccount(a)
                           \/ \E active \in BOOLEAN : SetActive(a, active)

\* The server goes on with every request it has begun.
SignInFairness == \A l \in Logins : WF_signInVars(Serve(l))

SignInSpec == SignInInit /\ [][SignInNext]_signInVars /\ SignInFairness

-----------------------------------------------------------------------------
SignInTypeOK ==
    /\ accounts \in [Accounts -> Account]
    /\ links \in [Identities -> Accounts \cup {Nobody}]
    /\ logins \in [Logins -> Login]
    /\ verifyMails \subseteq Accounts
    /\ loginsBegun \in 0 .. MaxLogins
    /\ adminActs \in 0 .. MaxAdmin
    /\ \A i \in Identities : links[i] # Nobody => Stored(links[i])

\* An account that has no password has an identity with which its owner can come
\* back (create_oauth_user: account and link are one transaction).
EveryAccountReachable == \A a \in Accounts : Stored(a) /\ ~ accounts[a].password => LinksOf(a) # {}

\* An account gets a second identity of one provider only from a request that had
\* read its links before another one was added (_link_oauth_to_existing_user).
OneIdentityPerProvider ==
    [][\A a \in Accounts : \A i \in LinksOf(a)' \ LinksOf(a) :
        (\E j \in LinksOf(a) : j[1] = i[1])
        => \E l \in Logins : logins[l].at = "link" /\ logins[l].account = a /\ logins[l].seen # LinksOf(a)]_signInVars

\* A sign-in opens a session of the account its identity is linked to, whatever
\* was linked while it ran (resolve_oauth_login); or the account has been deleted.
SessionOfTheIdentity ==
    \A l \in Logins : logins[l].at = "session"
        => links[logins[l].identity] = logins[l].account \/ ~ Stored(logins[l].account)

\* Every callback is answered: a collision sends it back to the start, where it
\* finds the row it collided with (resolve_oauth_login calls itself).
EveryLoginAnswered == \A l \in Logins : logins[l].at # "idle" ~> logins[l].at = "idle"

\* Identities and accounts stay together, whatever is registered, linked or deleted
\* meanwhile (resolve_oauth_login, create_oauth_user, link_oauth_account).
AccountsAreSound == []EveryAccountReachable /\ []SessionOfTheIdentity /\ OneIdentityPerProvider

-----------------------------------------------------------------------------
\* The inductive invariant behind AccountsAreSound.  A request that is about to link its
\* identity has read no other identity of the provider with the account, and one that is
\* about to open a session has an account that was stored once.
LinkWasFree ==
    \A l \in Logins : logins[l].at = "link" => \A j \in logins[l].seen : j[1] # logins[l].identity[1]

SessionHasAccount ==
    \A l \in Logins : logins[l].at = "session" =>
        logins[l].account \in Accounts /\ accounts[logins[l].account].status # "none"

SignInInv == EveryAccountReachable /\ SessionOfTheIdentity /\ LinkWasFree /\ SessionHasAccount
=============================================================================
