---------------------------- MODULE BrowserSessions ----------------------------
(***************************************************************************)
(* The browser's side of a session: tabs that share one local storage (or  *)
(* one cookie jar), the access token that expires, its exchange and the    *)
(* repeated call, log-out and reload (app/api/v1/auth.py, auth_http.py,    *)
(* auth_csrf.py, core/auth_cookies.py, app/api/deps.py; the client is      *)
(* frontend/src/lib/api/client.ts and contexts/auth-context.tsx).  The     *)
(* access token, the refresh token and the CSRF value of one answer travel *)
(* together: they are one pair.  What the server does with its rows is     *)
(* AuthSessions' topic; here each request is handled at once.              *)
(***************************************************************************)
EXTENDS Naturals

CONSTANTS
    Tabs,
    Pairs, NoPair,       \* what one sign-in or exchange hands out, numbered
    MaxTabCalls          \* bound: the calls that are begun

ASSUME BrowserAssumption == Pairs \subseteq Nat /\ NoPair \notin Pairs /\ MaxTabCalls \in Nat

VARIABLES
    mode,        \* bearer tokens, cookies, or cookies with tokens in the bodies as well
    issued,      \* the server: the pairs it has handed out, with their refresh sessions
    kept,        \* the pair in the local storage, or in the cookies, of the browser
    tabs,        \* the React state of each tab
    tabCalls,    \* the call of each tab
    exchangeRaced,       \* history: the families of which a token was exchanged twice at once, or an answer lost
    tabCallsBegun

browserVars == <<mode, issued, kept, tabs, tabCalls, exchangeRaced, tabCallsBegun>>

Cookies == mode # "bearer"

Quiet == [op |-> "none", then |-> "none", access |-> NoPair, token |-> NoPair, csrf |-> NoPair, jar |-> NoPair,
          stage |-> "sent", status |-> 0, pair |-> NoPair]
SignedOut == [user |-> FALSE, access |-> NoPair, csrf |-> NoPair]

BrowserInit ==
    /\ mode \in {"bearer", "cookie", "cookie_and_body"}
    /\ issued = [p \in Pairs |-> [row |-> "none", family |-> p, fresh |-> FALSE]]
    /\ kept = NoPair
    /\ tabs = [t \in Tabs |-> SignedOut] /\ tabCalls = [t \in Tabs |-> Quiet]
    /\ exchangeRaced = {} /\ tabCallsBegun = 0

FreshPair(p) == issued[p].row = "none" /\ \A q \in Pairs : q < p => issued[q].row # "none"
LivePair(p) == p # NoPair /\ issued[p].row = "live"
Under(t) == tabCalls[t].op # "none"

-----------------------------------------------------------------------------
(* The client. *)

\* A call of tab t: the token of its header and the CSRF value it knows; the browser adds the cookies.
Sent(t, op, then, access, token) ==
    [Quiet EXCEPT !.op = op, !.then = then, !.access = access, !.token = token,
                  !.csrf = IF Cookies THEN tabs[t].csrf ELSE NoPair, !.jar = IF Cookies THEN kept ELSE NoPair]

BeginTabCall(t, call) ==
    /\ ~ Under(t) /\ tabCallsBegun < MaxTabCalls
    /\ tabCalls' = [tabCalls EXCEPT ![t] = call]
    /\ tabCallsBegun' = tabCallsBegun + 1

SubmitLogin(t) ==
    /\ ~ tabs[t].user
    /\ BeginTabCall(t, Sent(t, "login", "none", NoPair, NoPair))
    /\ UNCHANGED <<mode, issued, kept, tabs, exchangeRaced>>

\* The stored token is preferred to that of the React state.
FreshAccessToken(t) == IF ~ Cookies /\ kept # NoPair THEN kept ELSE tabs[t].access

\* An authenticated call: a read, or "log out everywhere".
CallWithAuth(t, op) ==
    /\ tabs[t].user
    /\ BeginTabCall(t, Sent(t, op, "none", FreshAccessToken(t), NoPair))
    /\ UNCHANGED <<mode, issued, kept, tabs, exchangeRaced>>

\* Mutant: the log-out leaves the storage to the call it makes.
LeftByLogOutAll == kept

\* What a log-out leaves in the storage; it cannot reach the cookies.
LeftByLogOut == IF Cookies THEN kept ELSE NoPair

\* A log-out forgets the state and the CSRF value, then calls the server with what is
\* left, and loads the page anew; an answer still under way is not waited for.
LogOutTab(t) ==
    LET token == IF Cookies THEN NoPair ELSE tabs[t].access
    IN  /\ tabs' = [tabs EXCEPT ![t] = SignedOut]
        /\ kept' = LeftByLogOut
        /\ tabCalls' = [tabCalls EXCEPT ![t] = [Sent(t, "logout", "none", token, NoPair) EXCEPT !.csrf = NoPair]]

ClickLogOut(t) ==
    /\ tabs[t].user /\ tabCallsBegun < MaxTabCalls
    /\ Under(t) => tabCalls[t].stage = "answered"
    /\ LogOutTab(t) /\ tabCallsBegun' = tabCallsBegun + 1
    /\ UNCHANGED <<mode, issued, exchangeRaced>>

\* A page is loaded: from the storage, or by the answer of bootstrap to the cookies.
LoadPage(t) ==
    /\ ~ Under(t)
    /\ tabs' = [tabs EXCEPT ![t] =
          IF kept = NoPair \/ (Cookies /\ ~ issued[kept].fresh) THEN SignedOut
          ELSE [user |-> TRUE, access |-> IF Cookies THEN NoPair ELSE kept, csrf |-> IF Cookies THEN kept ELSE NoPair]]
    /\ UNCHANGED <<mode, issued, kept, tabCalls, exchangeRaced, tabCallsBegun>>

-----------------------------------------------------------------------------
(* The server. *)

AnswerTab(t, status, pair) ==
    tabCalls' = [tabCalls EXCEPT ![t] = [@ EXCEPT !.stage = "answered", !.status = status, !.pair = pair]]

InsertPair(rows, p, family) == [rows EXCEPT ![p] = [row |-> "live", family |-> family, fresh |-> TRUE]]

\* The bearer token wins over the cookie (get_access_token_optional).
AccessTokenOf(c) == IF c.access # NoPair THEN c.access ELSE c.jar
Authenticated(c) == LET p == AccessTokenOf(c) IN p # NoPair /\ issued[p].fresh

\* With a cookie the header has to repeat the value of the CSRF cookie.
CsrfPasses(c) == c.jar = NoPair \/ c.csrf = c.jar

ServeLogin(t, p) ==
    /\ tabCalls[t].op = "login" /\ tabCalls[t].stage = "sent" /\ FreshPair(p)
    /\ issued' = InsertPair(issued, p, p) /\ AnswerTab(t, 200, p)
    /\ UNCHANGED <<mode, kept, tabs, exchangeRaced, tabCallsBegun>>

\* A wrong password.
RefuseLogin(t) ==
    /\ tabCalls[t].op = "login" /\ tabCalls[t].stage = "sent"
    /\ AnswerTab(t, 401, NoPair)
    /\ UNCHANGED <<mode, issued, kept, tabs, exchangeRaced, tabCallsBegun>>

ServeRead(t) ==
    /\ tabCalls[t].op = "read" /\ tabCalls[t].stage = "sent"
    /\ AnswerTab(t, IF Authenticated(tabCalls[t]) THEN 200 ELSE 401, NoPair)
    /\ UNCHANGED <<mode, issued, kept, tabs, exchangeRaced, tabCallsBegun>>

EndedPairs(S, reason) == [p \in Pairs |-> IF p \in S /\ LivePair(p) THEN [issued[p] EXCEPT !.row = reason] ELSE issued[p]]

ServeLogoutAll(t) ==
    LET c == tabCalls[t]
    IN  /\ c.op = "logout_all" /\ c.stage = "sent"
        /\ IF ~ Authenticated(c) THEN AnswerTab(t, 401, NoPair) /\ UNCHANGED issued
           ELSE IF ~ CsrfPasses(c) THEN AnswerTab(t, 403, NoPair) /\ UNCHANGED issued
           ELSE AnswerTab(t, 204, NoPair) /\ issued' = EndedPairs(Pairs, "logout_all")
        /\ UNCHANGED <<mode, kept, tabs, exchangeRaced, tabCallsBegun>>

\* Log-out clears the cookies and leaves the rows alone.
ServeLogout(t) ==
    /\ tabCalls[t].op = "logout" /\ tabCalls[t].stage = "sent"
    /\ AnswerTab(t, IF CsrfPasses(tabCalls[t]) THEN 204 ELSE 403, NoPair)
    /\ UNCHANGED <<mode, issued, kept, tabs, exchangeRaced, tabCallsBegun>>

\* An exchange: a live token is replaced, one that was replaced ends its family.
ServeRefresh(t, p) ==
    LET old == tabCalls[t].token
        family == {q \in Pairs : issued[q].family = issued[old].family}
    IN  /\ tabCalls[t].op = "refresh" /\ tabCalls[t].stage = "sent"
        /\ CASE issued[old].row = "live" ->
                  /\ FreshPair(p) /\ AnswerTab(t, 200, p)
                  /\ issued' = InsertPair([issued EXCEPT ![old].row = "rotated"], p, issued[old].family)
             [] issued[old].row = "rotated" -> AnswerTab(t, 401, NoPair) /\ issued' = EndedPairs(family, "family_invalidated")
             [] OTHER -> AnswerTab(t, 401, NoPair) /\ UNCHANGED issued
        /\ UNCHANGED <<mode, kept, tabs, exchangeRaced, tabCallsBegun>>

\* The limiter refuses an exchange, or the server cannot serve it.
RefuseRefresh(t) ==
    /\ tabCalls[t].op = "refresh" /\ tabCalls[t].stage = "sent"
    /\ AnswerTab(t, 429, NoPair)
    /\ UNCHANGED <<mode, issued, kept, tabs, exchangeRaced, tabCallsBegun>>

-----------------------------------------------------------------------------
(* The client, when the answer is there. *)

Hang(t) == tabCalls' = [tabCalls EXCEPT ![t] = Quiet]
HasAnswer(t, op) == tabCalls[t].op = op /\ tabCalls[t].stage = "answered"

ReceiveLogin(t) ==
    LET p == tabCalls[t].pair
    IN  /\ HasAnswer(t, "login") /\ tabCalls[t].status = 200
        /\ kept' = p
        /\ tabs' = [tabs EXCEPT ![t] = [user |-> TRUE, access |-> IF mode = "cookie" THEN NoPair ELSE p,
                                        csrf |-> IF Cookies THEN p ELSE NoPair]]
        /\ Hang(t)
        /\ UNCHANGED <<mode, issued, exchangeRaced, tabCallsBegun>>

\* Another tab is exchanging the same token, and has not stored the answer.
Exchanging(t, token) == \E u \in Tabs \ {t} : tabCalls[u].op = "refresh" /\ tabCalls[u].token = token

\* Unauthorized: with bearer tokens the stored token is exchanged, by one call of this tab.
Receive401(t, op) ==
    /\ HasAnswer(t, op) /\ op \in {"read", "logout_all"} /\ tabCalls[t].status = 401
    /\ IF Cookies \/ kept = NoPair \/ tabCalls[t].then = "give_up" THEN Hang(t) /\ UNCHANGED exchangeRaced
       ELSE /\ tabCalls' = [tabCalls EXCEPT ![t] = Sent(t, "refresh", op, NoPair, kept)]
            /\ exchangeRaced' = IF Exchanging(t, kept) THEN exchangeRaced \cup {issued[kept].family} ELSE exchangeRaced
    /\ UNCHANGED <<mode, issued, kept, tabs, tabCallsBegun>>

\* What the others answer; the answer to "log out everywhere" logs this tab out.
ReceiveOther(t) ==
    LET c == tabCalls[t]
    IN  /\ c.stage = "answered"
        /\ \/ c.op \in {"read", "logout", "logout_all"} /\ c.status # 401
           \/ c.op = "login" /\ c.status = 401
        /\ IF c.op = "logout_all" /\ c.status = 204
           THEN /\ tabs' = [tabs EXCEPT ![t] = SignedOut] /\ kept' = NoPair
                /\ tabCalls' = [tabCalls EXCEPT ![t] = [Sent(t, "logout", "none", IF Cookies THEN NoPair ELSE tabs[t].access, NoPair)
                                                          EXCEPT !.csrf = NoPair, !.jar = NoPair]]
           ELSE /\ kept' = IF c.op = "logout" /\ c.status = 204 /\ Cookies THEN NoPair ELSE kept
                /\ Hang(t) /\ UNCHANGED tabs
        /\ UNCHANGED <<mode, issued, exchangeRaced, tabCallsBegun>>

\* The tokens of the answer are stored and the call is repeated, once; any other answer
\* empties the storage.
ReceiveRefresh(t) ==
    LET c == tabCalls[t]
    IN  /\ HasAnswer(t, "refresh")
        /\ IF c.status = 200
           THEN /\ kept' = c.pair
                /\ tabCalls' = [tabCalls EXCEPT ![t] = Sent(t, c.then, "give_up", c.pair, NoPair)]
           ELSE kept' = NoPair /\ Hang(t)
        /\ UNCHANGED <<mode, issued, tabs, exchangeRaced, tabCallsBegun>>

\* The answer does not arrive: the call fails, and the storage is left as it is.
LoseAnswer(t) ==
    /\ Under(t) /\ tabCalls[t].stage = "answered"
    /\ exchangeRaced' = IF tabCalls[t].op = "refresh" THEN exchangeRaced \cup {issued[tabCalls[t].token].family} ELSE exchangeRaced
    /\ Hang(t)
    /\ UNCHANGED <<mode, issued, kept, tabs, tabCallsBegun>>

-----------------------------------------------------------------------------
\* An access token expires; another device, or a new password, ends the sessions.
AccessExpires(p) ==
    /\ issued[p].fresh /\ issued' = [issued EXCEPT ![p].fresh = FALSE]
    /\ UNCHANGED <<mode, kept, tabs, tabCalls, exchangeRaced, tabCallsBegun>>

EndElsewhere ==
    /\ \E p \in Pairs : LivePair(p)
    /\ issued' = EndedPairs(Pairs, "logout_all")
    /\ UNCHANGED <<mode, kept, tabs, tabCalls, exchangeRaced, tabCallsBegun>>

Serves(t) ==
    \/ RefuseLogin(t) \/ ServeRead(t) \/ ServeLogout(t) \/ ServeLogoutAll(t) \/ RefuseRefresh(t)
    \/ \E p \in Pairs : ServeLogin(t, p) \/ ServeRefresh(t, p)

Receives(t) ==
    \/ ReceiveLogin(t) \/ ReceiveOther(t) \/ ReceiveRefresh(t)
    \/ \E op \in {"read", "logout_all"} : Receive401(t, op)

BrowserNext ==
    \/ \E t \in Tabs : SubmitLogin(t) \/ ClickLogOut(t) \/ LoadPage(t) \/ Serves(t) \/ Receives(t) \/ LoseAnswer(t)
    \/ \E t \in Tabs, op \in {"read", "logout_all"} : CallWithAuth(t, op)
    \/ \E p \in Pairs : AccessExpires(p)
    \/ EndElsewhere

BrowserSpec == BrowserInit /\ [][BrowserNext]_browserVars

-----------------------------------------------------------------------------
\* The server takes a token for stolen only after two tabs have exchanged it at once, or
\* an answer was lost: within a tab the calls share one exchange (_tryRefreshAccessToken).
ReuseIsRaced == \A p \in Pairs : issued[p].row = "family_invalidated" => issued[p].family \in exchangeRaced

AllOut == \A t \in Tabs : ~ tabs[t].user /\ ~ Under(t)

\* When every tab has logged out, the storage is empty, whatever exchanges were under way
\* (logout of auth-context.tsx); for cookies LogOutClearsCookies fails.
LogOutClearsStorage == mode = "bearer" /\ AllOut => kept = NoPair

\* The browser throws a live session away only by a log-out, because an exchange was
\* refused for its rate, or because another sign-in has replaced the token it sent.
GivesUpDead ==
    [][\A t \in Tabs :
        HasAnswer(t, "refresh") /\ tabCalls'[t] = Quiet /\ LivePair(kept) /\ kept' = NoPair
        => tabCalls[t].status = 429 \/ tabCalls[t].token # kept]_browserVars

\* What the browser holds agrees with what it was told (client.ts, auth-context.tsx).
BrowserHolds == [](ReuseIsRaced /\ LogOutClearsStorage) /\ GivesUpDead

\* Cookie mode: once a log-out is answered no cookie is left (POST /auth/logout).
LogOutClearsCookies ==
    [][\A t \in Tabs : Cookies /\ tabCalls[t].op = "logout" /\ ReceiveOther(t) => kept' = NoPair]_browserVars
-----------------------------------------------------------------------------
BearerOrJar == {"bearer", "cookie", "cookie_and_body"}
MaybePair == Pairs \cup {NoPair}
TabCall == [op : {"none", "login", "read", "logout_all", "logout", "refresh"}, then : {"none", "give_up", "read", "logout_all"},
            access : MaybePair, token : MaybePair, csrf : MaybePair, jar : MaybePair, stage : {"sent", "answered"},
            status : {0, 200, 204, 401, 403, 429}, pair : MaybePair]
PairRow == [row : {"none", "live", "rotated", "logout_all", "family_invalidated"}, family : Pairs, fresh : BOOLEAN]
TabState == [user : BOOLEAN, access : MaybePair, csrf : MaybePair]

BrowserTypeOK ==
    /\ mode \in BearerOrJar /\ issued \in [Pairs -> PairRow] /\ kept \in MaybePair
    /\ tabs \in [Tabs -> TabState] /\ tabCalls \in [Tabs -> TabCall]
    /\ exchangeRaced \subseteq Pairs /\ tabCallsBegun \in Nat

\* The strengthening that makes BrowserHolds inductive.  A call that needs a user has
\* one, and an exchange is of a pair that was handed out; the pair of an answer under
\* way is nobody else's; what an unraced exchange has replaced is in the storage only
\* until its answer arrives; and an exchange is refused because its token is dead.
Exchanges(t, p) == tabCalls[t].op = "refresh" /\ tabCalls[t].token = p

CallFits(t) ==
    LET c == tabCalls[t]
    IN  /\ c.op \in {"read", "logout_all", "refresh"} => tabs[t].user
        /\ c.op = "refresh" => /\ mode = "bearer" /\ c.then \in {"read", "logout_all"}
                               /\ c.token \in Pairs /\ issued[c.token].row # "none"
        /\ c.stage = "sent" => c.status = 0
        /\ c.op = "refresh" /\ c.stage = "answered" => c.status \in {200, 401, 429}
        /\ c.pair # NoPair <=> c.op \in {"login", "refresh"} /\ c.status = 200

AnswerIsOwn(t) ==
    LET p == tabCalls[t].pair
    IN  p # NoPair => /\ issued[p].row \notin {"none", "rotated"} /\ kept # p
                      /\ \A u \in Tabs : ~ Exchanges(u, p) /\ (u # t => tabCalls[u].pair # p)

Raced(p) == issued[p].family \in exchangeRaced
ExchangesAlone(p) == \A t, u \in Tabs : Exchanges(t, p) /\ Exchanges(u, p) /\ t # u => Raced(p)
RotatedIsLeft(p) ==
    issued[p].row = "rotated" /\ ~ Raced(p) =>
        /\ \A t \in Tabs : Exchanges(t, p) => tabCalls[t].stage = "answered" /\ tabCalls[t].status = 200
        /\ kept = p => \E t \in Tabs : Exchanges(t, p)
RefusedIsDead(t) ==
    \A p \in Pairs : Exchanges(t, p) /\ tabCalls[t].status = 401 => issued[p].row \notin {"none", "live"}
StorageHasUser == mode = "bearer" /\ kept # NoPair => \E t \in Tabs : tabs[t].user
KeptIsKnown == kept # NoPair => issued[kept].row # "none"

BrowserInv ==
    /\ \A t \in Tabs : CallFits(t) /\ AnswerIsOwn(t) /\ RefusedIsDead(t)
    /\ \A p \in Pairs : ExchangesAlone(p) /\ RotatedIsLeft(p)
    /\ StorageHasUser /\ KeptIsKnown /\ ReuseIsRaced
=============================================================================
