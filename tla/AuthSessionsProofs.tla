-------------------------- MODULE AuthSessionsProofs --------------------------
(***************************************************************************)
(* Theorems of who gets into an account, for any number of users,          *)
(* sessions, requests, mails, passwords, identities and tabs: one live     *)
(* session per family, a password reset that ends the older sessions, what *)
(* may come back after it was taken (AuthSessions), that a provider's      *)
(* identity reaches its account (OAuthSignIn), and that what a browser     *)
(* stores agrees with what it was told (BrowserSessions).                  *)
(***************************************************************************)
EXTENDS AuthSessions, OAuthSignIn, BrowserSessions, TLAPS

\* The histories that explain how a request may insert a row of an ended family.
Ends == {"rotated", "revoked", "cut"}

LEMMA Constants ==
    SomeUser \in Users /\ NoSid \notin Sids /\ (\A s \in Sids : s \in Nat)
BY UserAssumption, SidAssumption DEF SomeUser

-----------------------------------------------------------------------------
(* Types. *)

LEMMA IdleTyped == AuthIdle \in Request /\ \A s \in Sids : NoSession(s) \in Session
BY Constants DEF AuthIdle, Request, NoSession, Session, Reasons

\* Revoke changes the reasons of the rows in S and nothing else.
LEMMA RevokeRows ==
    ASSUME sessions \in [Sids -> Session], NEW S, NEW reason \in Reasons
    PROVE  /\ Revoke(S, reason) \in [Sids -> Session]
           /\ \A t \in Sids \ S : Revoke(S, reason)[t] = sessions[t]
           /\ \A t \in Sids \cap S :
                LET row == Revoke(S, reason)[t] IN
                /\ row.status = sessions[t].status /\ row.user = sessions[t].user
                /\ row.family = sessions[t].family /\ row.from = sessions[t].from
                /\ row.reason = reason /\ row.expired = sessions[t].expired
                /\ row.password = sessions[t].password /\ row.saw = sessions[t].saw
<1>1. \A t \in Sids : [sessions[t] EXCEPT !.reason = reason] \in Session  BY DEF Session
<1>2. Revoke(S, reason) \in [Sids -> Session]  BY <1>1 DEF Revoke
<1>3. \A t \in Sids \ S : Revoke(S, reason)[t] = sessions[t]  BY DEF Revoke
<1>4. ASSUME NEW t \in Sids \cap S
      PROVE  LET row == Revoke(S, reason)[t] IN
             /\ row.status = sessions[t].status /\ row.user = sessions[t].user
             /\ row.family = sessions[t].family /\ row.from = sessions[t].from
             /\ row.reason = reason /\ row.expired = sessions[t].expired
             /\ row.password = sessions[t].password /\ row.saw = sessions[t].saw
  <2>1. Revoke(S, reason)[t] = [sessions[t] EXCEPT !.reason = reason] /\ sessions[t] \in Session
    BY DEF Revoke
  <2> QED  BY <2>1 DEF Session
<1> QED  BY <1>2, <1>3, <1>4

\* The request `told' is the request q with `what' in its history.
IsTold(told, q, what) ==
    /\ told.op = q.op /\ told.user = q.user /\ told.sid = q.sid
    /\ told.password = q.password /\ told.given = q.given
    /\ told.saw = q.saw \cup {what}

\* Overtake adds `what' to the histories of the requests in R and does nothing else.
LEMMA OvertakeRequests ==
    ASSUME NEW R, NEW what \in Overtakings, NEW requests \in [AuthRequests -> Request]
    PROVE  /\ Overtake(R, what, requests) \in [AuthRequests -> Request]
           /\ \A q \in AuthRequests \ R : Overtake(R, what, requests)[q] = requests[q]
           /\ \A q \in AuthRequests \cap R : IsTold(Overtake(R, what, requests)[q], requests[q], what)
<1>1. \A q \in AuthRequests : [requests[q] EXCEPT !.saw = requests[q].saw \cup {what}] \in Request
  BY DEF Request
<1>2. Overtake(R, what, requests) \in [AuthRequests -> Request]  BY <1>1 DEF Overtake
<1>3. \A q \in AuthRequests \ R : Overtake(R, what, requests)[q] = requests[q]  BY DEF Overtake
<1>4. ASSUME NEW q \in AuthRequests \cap R
      PROVE  IsTold(Overtake(R, what, requests)[q], requests[q], what)
  <2>1. /\ Overtake(R, what, requests)[q] = [requests[q] EXCEPT !.saw = requests[q].saw \cup {what}]
        /\ requests[q] \in Request
    BY DEF Overtake
  <2> QED  BY <2>1 DEF Request, IsTold
<1> QED  BY <1>2, <1>3, <1>4

LEMMA DoneRequests ==
    ASSUME reqs \in [AuthRequests -> Request], NEW r \in AuthRequests
    PROVE  /\ Done(r) \in [AuthRequests -> Request]
           /\ Done(r)[r] = AuthIdle
           /\ \A q \in AuthRequests : q # r => Done(r)[q] = reqs[q]
BY IdleTyped DEF Done

-----------------------------------------------------------------------------
(* Most actions begin no request and insert no row: what there is fades, and *)
(* whoever looked at a thing before it changed is told.                      *)

Remains(q) ==
    /\ \/ reqs'[q].op = reqs[q].op
       \/ reqs[q].op = "refresh" /\ reqs'[q].op = "refresh_user"
       \/ reqs[q].op = "reset" /\ reqs'[q].op = "revoke"
    /\ reqs'[q].user = reqs[q].user /\ reqs'[q].sid = reqs[q].sid /\ reqs'[q].password = reqs[q].password
    /\ reqs[q].saw \subseteq reqs'[q].saw

RequestsFade == \A q \in AuthRequests : reqs'[q].op = "idle" \/ Remains(q)

RowsFade ==
    \A t \in Sids :
        /\ sessions'[t].user = sessions[t].user /\ sessions'[t].family = sessions[t].family
        /\ sessions'[t].password = sessions[t].password /\ sessions'[t].saw = sessions[t].saw
        /\ sessions[t].status = "none" => sessions'[t] = sessions[t]
        /\ sessions[t].status # "none" => sessions'[t].status # "none"
        /\ sessions[t].status = "deleted" => sessions'[t].status = "deleted"
        /\ sessions'[t].status = "deleted" => sessions[t].status = "deleted" \/ ~ users'[sessions[t].user].exists
        /\ LiveSession(t)' => LiveSession(t)

UsersFade == \A u \in Users : users'[u].exists => users[u].exists

HoldersAreTold ==
    \A q \in AuthRequests : LET s == reqs[q].sid IN
        Presenting(q) /\ reqs'[q].op # "idle"
        => \/ sessions'[s] = sessions[s]
           \/ Ends \cap reqs'[q].saw # {}
           \/ sessions'[s].status = "deleted" /\ sessions'[s].reason = sessions[s].reason

OwnersAreTold ==
    \A q \in AuthRequests : LET u == reqs[q].user IN
        reqs'[q].op # "idle"
        => /\ users[u].active /\ ~ users'[u].active => "suspended" \in reqs'[q].saw
           /\ users'[u].password # users[u].password => "password" \in reqs'[q].saw \/ reqs'[q].op # "change"
           /\ reqs'[q].op # reqs[q].op /\ reqs'[q].op = "refresh_user" => users'[u].active

PasswordsGrow ==
    /\ writes <= writes'
    /\ \A u \in Users :
        \/ users'[u].password = users[u].password /\ reset'[u] = reset[u]
        \/ users'[u].password = writes' /\ reset'[u] \in {reset[u], writes'}

\* What was opened before a reset is cut, or the reset is under way.
CutIsTold ==
    \A u \in Users :
        \/ Cutting(u)'
        \/ reset'[u] = reset[u] /\ ~ Cutting(u)
        \/ /\ reset'[u] = reset[u]
           /\ \A t \in Sids : sessions[t].user = u => ~ LiveSession(t)'
           /\ \A q \in AuthRequests : reqs[q].user = u /\ reqs'[q].op # "idle" => "cut" \in reqs'[q].saw

Fades ==
    /\ RequestsFade /\ RowsFade /\ UsersFade
    /\ HoldersAreTold /\ OwnersAreTold /\ PasswordsGrow /\ CutIsTold

LEMMA FadeKeepsHolders ==
    ASSUME AuthTypeOK, RowsAreLinked, TokenHasRow, OneLivePerFamily, OneHolderPerFamily,
           RequestsFade, RowsFade, UsersFade
    PROVE  (RowsAreLinked /\ TokenHasRow /\ OneLivePerFamily /\ OneHolderPerFamily)'
<1>1. sessions \in [Sids -> Session] /\ reqs \in [AuthRequests -> Request]  BY DEF AuthTypeOK
<1>2. \A t \in Sids : sessions[t].user \in Users /\ sessions[t].family \in Sids  BY <1>1 DEF Session
<1>3. \A q \in AuthRequests : /\ Refreshing(q)' => Refreshing(q) /\ Remains(q)
                              /\ Presenting(q)' => Presenting(q) /\ Remains(q)
  BY DEF RequestsFade, Refreshing, Presenting, Remains
<1>4. \A q \in AuthRequests : Refreshing(q) => Presenting(q)  BY DEF Presenting
<1>5. \A q \in AuthRequests : Presenting(q) => reqs[q].sid \in Sids  BY DEF TokenHasRow
<1>6. \A q \in AuthRequests : Presenting(q)' => reqs'[q].sid = reqs[q].sid /\ Seen(q) \subseteq Seen(q)'
  BY <1>3, <1>5 DEF Remains, Seen, RowsFade
<1>7. RowsAreLinked'  BY <1>2 DEF RowsAreLinked, RowsFade, UsersFade
<1>8. TokenHasRow'  BY <1>3, <1>5 DEF TokenHasRow, RowsFade, Remains
<1>9. OneLivePerFamily'  BY DEF OneLivePerFamily, RowsFade
<1>10. OneHolderPerFamily'
  <2>1. ASSUME NEW r \in AuthRequests, NEW t \in Sids, Refreshing(r)', LiveSession(t)', reqs'[r].sid # t,
               sessions'[t].family = sessions'[reqs'[r].sid].family
        PROVE  "rotated" \in Seen(r)' \cup sessions'[t].saw
    <3>1. /\ Refreshing(r) /\ Presenting(r) /\ reqs[r].sid \in Sids /\ reqs'[r].sid = reqs[r].sid
          /\ Presenting(r)' /\ Seen(r) \subseteq Seen(r)'
      BY <1>3, <1>4, <1>5, <1>6, <2>1 DEF Presenting
    <3>2. /\ LiveSession(t) /\ sessions'[t].saw = sessions[t].saw
          /\ sessions[t].family = sessions[reqs[r].sid].family
      BY <2>1, <3>1 DEF RowsFade
    <3> QED  BY <2>1, <3>1, <3>2 DEF OneHolderPerFamily
  <2>2. ASSUME NEW r \in AuthRequests, NEW q \in AuthRequests, Refreshing(r)', Refreshing(q)',
               reqs'[r].sid # reqs'[q].sid,
               sessions'[reqs'[r].sid].family = sessions'[reqs'[q].sid].family
        PROVE  "rotated" \in Seen(r)' \cup Seen(q)'
    <3>1. /\ Refreshing(r) /\ Presenting(r) /\ reqs[r].sid \in Sids /\ reqs'[r].sid = reqs[r].sid
          /\ Presenting(r)' /\ Seen(r) \subseteq Seen(r)'
      BY <1>3, <1>4, <1>5, <1>6, <2>2 DEF Presenting
    <3>2. /\ Refreshing(q) /\ Presenting(q) /\ reqs[q].sid \in Sids /\ reqs'[q].sid = reqs[q].sid
          /\ Presenting(q)' /\ Seen(q) \subseteq Seen(q)'
      BY <1>3, <1>4, <1>5, <1>6, <2>2 DEF Presenting
    <3>3. sessions[reqs[r].sid].family = sessions[reqs[q].sid].family  BY <2>2, <3>1, <3>2 DEF RowsFade
    <3> QED  BY <2>2, <3>1, <3>2, <3>3 DEF OneHolderPerFamily
  <2> QED  BY <2>1, <2>2 DEF OneHolderPerFamily
<1> QED  BY <1>7, <1>8, <1>9, <1>10

LEMMA FadeKeepsWarnings ==
    ASSUME AuthTypeOK, AuthTypeOK', AuthInv, Fades
    PROVE  (ResetIsPassword /\ ResetEndsOldSessions /\ OldRequestsAreCut /\ RevocationIsSeen /\ UserIsSeen)'
<1>3. \A q \in AuthRequests : /\ Refreshing(q)' => Refreshing(q) /\ Remains(q)
                              /\ Presenting(q)' => Presenting(q) /\ Remains(q)
                              /\ Refreshing(q) => Presenting(q)
  BY DEF Fades, RequestsFade, Refreshing, Presenting, Remains
<1>4. \A q \in AuthRequests : Presenting(q) => reqs[q].sid \in Sids /\ sessions[reqs[q].sid].user = reqs[q].user
  BY DEF AuthInv, TokenHasRow
<1>5. \A q \in AuthRequests : Presenting(q)' => /\ reqs'[q].op # "idle" /\ reqs'[q].sid = reqs[q].sid
                                               /\ reqs'[q].user = reqs[q].user
                                               /\ Seen(q) \subseteq Seen(q)'
  BY <1>3, <1>4 DEF Remains, Seen, Fades, RowsFade, Presenting, Refreshing
<1>11. /\ \A t \in Sids : sessions'[t].user \in Users
       /\ \A q \in AuthRequests : reqs'[q].user \in Users
  BY DEF AuthTypeOK, Session, Request
<1>6. ResetIsPassword'
  <2>1. /\ writes \in Nat /\ writes' \in Nat
        /\ \A u \in Users : reset[u] \in Nat /\ users[u].password \in Nat /\ reset'[u] \in Nat
    BY DEF AuthTypeOK, User
  <2>2. /\ writes <= writes'
        /\ \A u \in Users : reset[u] <= users[u].password /\ users[u].password <= writes
    BY DEF Fades, PasswordsGrow, AuthInv, ResetIsPassword
  <2>3. ASSUME NEW u \in Users
        PROVE  reset'[u] <= users'[u].password /\ users'[u].password <= writes'
    <3>1. CASE users'[u].password = users[u].password /\ reset'[u] = reset[u]  BY <2>1, <2>2, <3>1
    <3>2. CASE users'[u].password = writes' /\ reset'[u] \in {reset[u], writes'}  BY <2>1, <2>2, <3>2
    <3> QED  BY <3>1, <3>2 DEF Fades, PasswordsGrow
  <2> QED  BY <2>3 DEF ResetIsPassword
<1>7. ResetEndsOldSessions'
  <2> SUFFICES ASSUME NEW s \in Sids, LiveSession(s)', sessions'[s].password < reset'[sessions'[s].user],
                      NEW u \in Users, u = sessions'[s].user, ~ Cutting(u)'
               PROVE  "cut" \in sessions'[s].saw
    BY <1>11 DEF ResetEndsOldSessions, Cutting
  <2>1. /\ LiveSession(s) /\ sessions[s].user = u
        /\ sessions'[s].password = sessions[s].password /\ sessions'[s].saw = sessions[s].saw
    BY DEF Fades, RowsFade
  <2>2. reset'[u] = reset[u] /\ ~ Cutting(u)  BY <2>1 DEF Fades, CutIsTold
  <2>3. ResetEndsOldSessions  BY DEF AuthInv
  <2> QED  BY <2>1, <2>2, <2>3 DEF ResetEndsOldSessions, Cutting
<1>8. OldRequestsAreCut'
  <2>1. OldRequestsAreCut  BY DEF AuthInv
  <2>2. ASSUME NEW r \in AuthRequests, NEW u \in Users, u = reqs'[r].user, ~ Cutting(u)',
               reqs'[r].op = "login", reqs'[r].password < reset'[u]
        PROVE  "cut" \in reqs'[r].saw
    <3>1. /\ reqs[r].op = "login" /\ reqs[r].user = u /\ reqs'[r].password = reqs[r].password
          /\ reqs[r].saw \subseteq reqs'[r].saw
      BY <2>2 DEF Fades, RequestsFade, Remains
    <3>2. \/ "cut" \in reqs'[r].saw
          \/ reset'[u] = reset[u] /\ ~ Cutting(u)
      BY <2>2, <3>1 DEF Fades, CutIsTold
    <3> QED  BY <2>1, <2>2, <3>1, <3>2 DEF OldRequestsAreCut
  <2>3. ASSUME NEW r \in AuthRequests, NEW u \in Users, u = reqs'[r].user, ~ Cutting(u)',
               Refreshing(r)', sessions'[reqs'[r].sid].password < reset'[u]
        PROVE  "cut" \in Seen(r)'
    <3>1. /\ Refreshing(r) /\ reqs[r].sid \in Sids /\ reqs'[r].op # "idle"
          /\ reqs'[r].sid = reqs[r].sid /\ reqs[r].user = u /\ Seen(r) \subseteq Seen(r)'
      BY <1>3, <1>4, <1>5, <2>3 DEF Presenting
    <3>2. sessions'[reqs[r].sid].password = sessions[reqs[r].sid].password  BY <3>1 DEF Fades, RowsFade
    <3>3. \/ "cut" \in reqs'[r].saw
          \/ reset'[u] = reset[u] /\ ~ Cutting(u)
      BY <2>3, <3>1 DEF Fades, CutIsTold
    <3> QED  BY <2>1, <2>3, <3>1, <3>2, <3>3 DEF OldRequestsAreCut, Seen
  <2> QED  BY <1>11, <2>2, <2>3 DEF OldRequestsAreCut, Cutting
<1>9. RevocationIsSeen'
  <2>1. RevocationIsSeen  BY DEF AuthInv
  <2>2. ASSUME NEW r \in AuthRequests, NEW s \in Sids, s = reqs'[r].sid, Presenting(r)'
        PROVE  /\ Refreshing(r)' /\ ~ LiveSession(s)'
                   => sessions'[s].status = "deleted" \/ Ends \cap reqs'[r].saw # {}
               /\ sessions'[s].reason # "no" => reqs'[r].saw # {}
    <3>1. /\ Presenting(r)
          /\ Refreshing(r)' => Refreshing(r)
          /\ reqs[r].sid = s /\ reqs'[r].op # "idle" /\ reqs[r].saw \subseteq reqs'[r].saw
      BY <1>3, <1>4, <1>5, <2>2 DEF Remains
    <3>2. /\ Refreshing(r) /\ ~ LiveSession(s) => sessions[s].status = "deleted" \/ Ends \cap reqs[r].saw # {}
          /\ sessions[s].reason # "no" => reqs[r].saw # {}
      BY <2>1, <3>1 DEF RevocationIsSeen, Ends
    <3>3. \/ sessions'[s] = sessions[s]
          \/ Ends \cap reqs'[r].saw # {}
          \/ sessions'[s].status = "deleted" /\ sessions'[s].reason = sessions[s].reason
      BY <3>1 DEF Fades, HoldersAreTold
    <3>4. CASE sessions'[s] = sessions[s]  BY <3>1, <3>2, <3>4 DEF LiveSession
    <3> QED  BY <3>1, <3>2, <3>3, <3>4
  <2>3. \A r \in AuthRequests : Presenting(r)' => reqs'[r].sid \in Sids  BY <1>3, <1>4, <1>5
  <2> QED  BY <2>2, <2>3 DEF RevocationIsSeen, Presenting, Ends, LiveSession
<1>10. UserIsSeen'
  <2>1. UserIsSeen  BY DEF AuthInv
  <2>2. ASSUME NEW r \in AuthRequests, reqs'[r].op \in {"login", "refresh_user"}
        PROVE  users'[reqs'[r].user].active \/ "suspended" \in reqs'[r].saw
    <3>1. /\ reqs[r].op = reqs'[r].op \/ users'[reqs[r].user].active
          /\ reqs'[r].user = reqs[r].user /\ reqs[r].saw \subseteq reqs'[r].saw
      BY <2>2 DEF Fades, RequestsFade, Remains, OwnersAreTold
    <3>2. users[reqs[r].user].active /\ ~ users'[reqs[r].user].active => "suspended" \in reqs'[r].saw
      BY <2>2 DEF Fades, OwnersAreTold
    <3> QED  BY <2>1, <2>2, <3>1, <3>2 DEF UserIsSeen
  <2>3. ASSUME NEW r \in AuthRequests, reqs'[r].op = "change"
        PROVE  reqs'[r].password = users'[reqs'[r].user].password \/ "password" \in reqs'[r].saw
    <3>1. /\ reqs[r].op = "change" /\ reqs'[r].password = reqs[r].password
          /\ reqs'[r].user = reqs[r].user /\ reqs[r].saw \subseteq reqs'[r].saw
      BY <2>3 DEF Fades, RequestsFade, Remains
    <3>2. users'[reqs[r].user].password # users[reqs[r].user].password => "password" \in reqs'[r].saw
      BY <2>3 DEF Fades, OwnersAreTold
    <3> QED  BY <2>1, <3>1, <3>2 DEF UserIsSeen
  <2> QED  BY <2>2, <2>3 DEF UserIsSeen
<1> QED  BY <1>6, <1>7, <1>8, <1>9, <1>10

\* A step under which everything fades keeps the invariant.
LEMMA FadeKeepsInv ==
    ASSUME AuthTypeOK, AuthTypeOK', AuthInv, Fades
    PROVE  AuthInv'
<1>1. (RowsAreLinked /\ TokenHasRow /\ OneLivePerFamily /\ OneHolderPerFamily)'
  BY FadeKeepsHolders DEF AuthInv, Fades
<1> QED  BY <1>1, FadeKeepsWarnings DEF AuthInv

-----------------------------------------------------------------------------
(* What the parts of an action contribute.                                   *)

\* Requests are told, and all remain.
LEMMA ToldFade ==
    ASSUME AuthTypeOK, NEW R, NEW what \in Overtakings, reqs' = Overtake(R, what, reqs)
    PROVE  /\ reqs' \in [AuthRequests -> Request]
           /\ RequestsFade
           /\ \A q \in AuthRequests :
                /\ reqs'[q].op = reqs[q].op /\ reqs'[q].user = reqs[q].user
                /\ q \in R => what \in reqs'[q].saw
<1>1. reqs \in [AuthRequests -> Request]  BY DEF AuthTypeOK
<1>2. reqs' \in [AuthRequests -> Request]  BY <1>1, OvertakeRequests
<1>3. \A q \in AuthRequests \ R : reqs'[q] = reqs[q]  BY DEF Overtake
<1>4. \A q \in AuthRequests \cap R : IsTold(reqs'[q], reqs[q], what)  BY <1>1, OvertakeRequests
<1>5. \A q \in AuthRequests :
        /\ reqs'[q].op = reqs[q].op /\ reqs'[q].user = reqs[q].user
        /\ q \in R => what \in reqs'[q].saw
  BY <1>3, <1>4 DEF IsTold
<1>6. \A q \in AuthRequests : Remains(q)  BY <1>3, <1>4 DEF Remains, IsTold
<1> QED  BY <1>2, <1>5, <1>6 DEF RequestsFade

\* Requests are told, and one is done.
LEMMA DoneToldFade ==
    ASSUME AuthTypeOK, NEW r \in AuthRequests, NEW R, NEW what \in Overtakings,
           reqs' = Overtake(R \ {r}, what, Done(r))
    PROVE  /\ reqs' \in [AuthRequests -> Request]
           /\ RequestsFade
           /\ reqs'[r].op = "idle"
           /\ \A q \in AuthRequests \ {r} :
                /\ reqs'[q].op = reqs[q].op /\ reqs'[q].user = reqs[q].user
                /\ q \in R => what \in reqs'[q].saw
<1>1. /\ Done(r) \in [AuthRequests -> Request] /\ Done(r)[r] = AuthIdle
      /\ \A q \in AuthRequests \ {r} : Done(r)[q] = reqs[q]
  BY DoneRequests DEF AuthTypeOK
<1>2. reqs' \in [AuthRequests -> Request]  BY <1>1, OvertakeRequests
<1>3. \A q \in AuthRequests \ (R \ {r}) : reqs'[q] = Done(r)[q]  BY DEF Overtake
<1>4. \A q \in AuthRequests \cap (R \ {r}) : IsTold(reqs'[q], Done(r)[q], what)
  BY <1>1, OvertakeRequests
<1>5. reqs'[r] = AuthIdle  BY <1>1, <1>3
<1>6. \A q \in AuthRequests \ {r} :
        /\ reqs'[q].op = reqs[q].op /\ reqs'[q].user = reqs[q].user
        /\ q \in R => what \in reqs'[q].saw
  BY <1>1, <1>3, <1>4, ZenonT(60) DEF IsTold
<1>7. \A q \in AuthRequests \ {r} : Remains(q)  BY <1>1, <1>3, <1>4, ZenonT(60) DEF Remains, IsTold
<1>8. reqs'[r].op = "idle"  BY <1>5 DEF AuthIdle
<1>9. RequestsFade  BY <1>7, <1>8 DEF RequestsFade
<1> QED  BY <1>2, <1>6, <1>8, <1>9

\* One request is done and nobody is told.
LEMMA DoneFade ==
    ASSUME AuthTypeOK, NEW r \in AuthRequests, reqs' = Done(r)
    PROVE  /\ reqs' \in [AuthRequests -> Request]
           /\ RequestsFade
           /\ reqs'[r].op = "idle"
           /\ \A q \in AuthRequests : q # r => reqs'[q] = reqs[q]
<1>1. /\ reqs' \in [AuthRequests -> Request] /\ reqs'[r] = AuthIdle
      /\ \A q \in AuthRequests : q # r => reqs'[q] = reqs[q]
  BY IdleTyped DEF AuthTypeOK, Done
<1> QED  BY <1>1 DEF AuthIdle, RequestsFade, Remains

\* The rows stay as they are.
LEMMA SameRowsFade ==
    ASSUME sessions' = sessions
    PROVE  RowsFade /\ HoldersAreTold
BY DEF RowsFade, HoldersAreTold, LiveSession

\* Rows are revoked, and those who present their tokens are told.
LEMMA RevokedRowsFade ==
    ASSUME AuthTypeOK, RowsAreLinked, NEW S \in SUBSET Sids, NEW reason \in Reasons \ {"no"},
           \A s \in S : sessions[s].status # "none",
           sessions' = Revoke(S, reason),
           \A q \in AuthRequests : Presenting(q) /\ reqs[q].sid \in S /\ reqs'[q].op # "idle"
                                   => Ends \cap reqs'[q].saw # {},
           TokenHasRow
    PROVE  /\ sessions' \in [Sids -> Session]
           /\ RowsFade /\ HoldersAreTold
           /\ \A t \in S : ~ LiveSession(t)'
           /\ \A t \in Sids : sessions'[t].status = sessions[t].status
<1>1. sessions \in [Sids -> Session]  BY DEF AuthTypeOK
<1>2. sessions' \in [Sids -> Session] /\ \A t \in Sids \ S : sessions'[t] = sessions[t]
  BY <1>1, RevokeRows
<1>3. \A t \in S :
        /\ sessions'[t].user = sessions[t].user /\ sessions'[t].family = sessions[t].family
        /\ sessions'[t].password = sessions[t].password /\ sessions'[t].saw = sessions[t].saw
        /\ sessions'[t].status = sessions[t].status /\ sessions'[t].reason = reason
  BY <1>1, RevokeRows
<1>4. \A t \in Sids :
        /\ sessions'[t].user = sessions[t].user /\ sessions'[t].family = sessions[t].family
        /\ sessions'[t].password = sessions[t].password /\ sessions'[t].saw = sessions[t].saw
        /\ sessions'[t].status = sessions[t].status
  BY <1>2, <1>3
<1>5. \A t \in S : ~ LiveSession(t)'  BY <1>3 DEF LiveSession
<1>6. \A t \in Sids \ S : LiveSession(t)' => LiveSession(t)  BY <1>2 DEF LiveSession
<1>7. RowsFade  BY <1>2, <1>4, <1>5, <1>6 DEF RowsFade
<1>8. HoldersAreTold  BY <1>2 DEF HoldersAreTold, TokenHasRow
<1> QED  BY <1>2, <1>4, <1>5, <1>7, <1>8

\* The users stay as they are, and no request is admitted further.
LEMMA SameUsersFade ==
    ASSUME AuthTypeOK, UNCHANGED <<users, writes, reset>>,
           \A q \in AuthRequests : reqs'[q].op \in {"idle", reqs[q].op}
    PROVE  UsersFade /\ OwnersAreTold /\ PasswordsGrow
<1>1. writes \in Nat  BY DEF AuthTypeOK
<1> QED  BY <1>1 DEF UsersFade, OwnersAreTold, PasswordsGrow

\* The rows keep their status and the users their rows.
LEMMA SameOwnersTyped ==
    ASSUME AuthTypeOK, users' = users,
           \A t \in Sids : sessions'[t].status = sessions[t].status /\ sessions'[t].user = sessions[t].user
    PROVE  \A t \in Sids : sessions'[t].status = "stored" => users'[sessions'[t].user].exists
<1>1. \A t \in Sids : sessions[t].status = "stored" => users[sessions[t].user].exists  BY DEF AuthTypeOK
<1> QED  BY <1>1

\* The requests stay as they are.
LEMMA SameRequestsFade ==
    ASSUME AuthTypeOK, reqs' = reqs
    PROVE  RequestsFade
BY DEF RequestsFade, Remains

\* A reset that is under way stays so.
LEMMA SameCutsFade ==
    ASSUME AuthTypeOK, reset' = reset, halfReset \subseteq halfReset',
           \A q \in AuthRequests : reqs[q].op = "revoke"
                => \/ reqs'[q].op = "revoke" /\ reqs'[q].user = reqs[q].user
                   \/ reqs[q].user \in halfReset'
    PROVE  CutIsTold
BY DEF CutIsTold, Cutting

-----------------------------------------------------------------------------
(* The actions under which everything fades.                                 *)

LEMMA AuthFailFades ==
    ASSUME AuthTypeOK, AuthInv, NEW r \in AuthRequests, AuthFail(r)
    PROVE  AuthTypeOK' /\ Fades
<1>1. /\ reqs' = Done(r)
      /\ halfReset' = IF reqs[r].op = "revoke" THEN halfReset \cup {reqs[r].user} ELSE halfReset
      /\ UNCHANGED <<users, sessions, mails, begun, writes, reset>>
  BY DEF AuthFail
<1>2. /\ reqs' \in [AuthRequests -> Request] /\ RequestsFade /\ reqs'[r].op = "idle"
      /\ \A q \in AuthRequests : q # r => reqs'[q] = reqs[q]
  BY <1>1, DoneFade
<1>3. reqs[r].user \in Users  BY DEF AuthTypeOK, Request
<1>4. AuthTypeOK'  BY <1>1, <1>2, <1>3 DEF AuthTypeOK
<1>5. RowsFade /\ HoldersAreTold  BY <1>1, SameRowsFade
<1>6. UsersFade /\ OwnersAreTold /\ PasswordsGrow
  <2>1. \A q \in AuthRequests : reqs'[q].op \in {"idle", reqs[q].op}  BY <1>2
  <2> QED  BY <1>1, <2>1, SameUsersFade
<1>7. CutIsTold
  <2>1. \A q \in AuthRequests : reqs[q].op = "revoke"
            => \/ reqs'[q].op = "revoke" /\ reqs'[q].user = reqs[q].user
               \/ reqs[q].user \in halfReset'
    BY <1>1, <1>2
  <2> QED  BY <1>1, <2>1, SameCutsFade
<1> QED  BY <1>2, <1>4, <1>5, <1>6, <1>7 DEF Fades

\* Those who present the token of a row in S are told that it is revoked.
LEMMA RefreshReuseFades ==
    ASSUME AuthTypeOK, AuthInv, NEW s \in Sids, RefreshReuse(s)
    PROVE  AuthTypeOK' /\ Fades
<1> DEFINE S == Family(s)
<1>1. /\ sessions' = Revoke(S, "family_invalidated")
      /\ reqs' = Overtake(Using(S), "revoked", reqs)
      /\ begun < MaxAuthRequests /\ begun' = begun + 1
      /\ UNCHANGED <<users, mails, writes, reset, halfReset>>
  BY DEF RefreshReuse
<1>2. S \in SUBSET Sids /\ \A t \in S : sessions[t].status # "none"  BY DEF Family, UnrevokedOf
<1>3. \A q \in AuthRequests : reqs[q].op # "idle" /\ reqs[q].sid \in S => q \in Using(S)  BY DEF Using
<1> HIDE DEF S
<1>4. "revoked" \in Overtakings  BY DEF Overtakings
<1>5. /\ reqs' \in [AuthRequests -> Request] /\ RequestsFade
      /\ \A q \in AuthRequests :
            /\ reqs'[q].op = reqs[q].op /\ reqs'[q].user = reqs[q].user
            /\ q \in Using(S) => "revoked" \in reqs'[q].saw
  BY <1>1, <1>4, ToldFade
<1>6. /\ sessions' \in [Sids -> Session] /\ RowsFade /\ HoldersAreTold
      /\ \A t \in Sids : sessions'[t].status = sessions[t].status
  <2>1. "family_invalidated" \in Reasons \ {"no"}  BY DEF Reasons
  <2>2. RowsAreLinked /\ TokenHasRow  BY DEF AuthInv
  <2>3. \A q \in AuthRequests : Presenting(q) /\ reqs[q].sid \in S /\ reqs'[q].op # "idle"
                                => Ends \cap reqs'[q].saw # {}
    BY <1>3, <1>5 DEF Ends
  <2> QED  BY <1>1, <1>2, <2>1, <2>2, <2>3, RevokedRowsFade
<1>7. AuthTypeOK'
  <2>1. begun' \in 0 .. MaxAuthRequests  BY <1>1, AuthAssumption DEF AuthTypeOK
  <2> QED  BY <1>1, <1>5, <1>6, <2>1 DEF AuthTypeOK, RowsFade
<1>8. UsersFade /\ OwnersAreTold /\ PasswordsGrow  BY <1>1, <1>5, SameUsersFade
<1>9. CutIsTold  BY <1>1, <1>5, SameCutsFade
<1> QED  BY <1>5, <1>6, <1>7, <1>8, <1>9 DEF Fades

LEMMA RefreshUserFades ==
    ASSUME AuthTypeOK, AuthInv, NEW r \in AuthRequests, RefreshUser(r)
    PROVE  AuthTypeOK' /\ Fades
<1>1. /\ reqs[r].op = "refresh" /\ AccountUsable(reqs[r].user)
      /\ reqs' = [reqs EXCEPT ![r].op = "refresh_user"]
      /\ UNCHANGED <<users, sessions, mails, begun, writes, reset, halfReset>>
  BY DEF RefreshUser
<1>2. reqs \in [AuthRequests -> Request] /\ reqs[r] \in Request  BY DEF AuthTypeOK
<1>3. [reqs[r] EXCEPT !.op = "refresh_user"] \in Request  BY <1>2 DEF Request
<1>4. /\ reqs' \in [AuthRequests -> Request]
      /\ \A q \in AuthRequests : q # r => reqs'[q] = reqs[q]
      /\ reqs'[r].op = "refresh_user" /\ reqs'[r].user = reqs[r].user /\ reqs'[r].sid = reqs[r].sid
      /\ reqs'[r].password = reqs[r].password /\ reqs'[r].saw = reqs[r].saw
  BY <1>1, <1>2, <1>3 DEF Request
<1>5. AuthTypeOK'  BY <1>1, <1>4 DEF AuthTypeOK
<1>6. RequestsFade  BY <1>1, <1>4 DEF RequestsFade, Remains
<1>7. RowsFade /\ HoldersAreTold  BY <1>1, SameRowsFade
<1>8. writes \in Nat  BY DEF AuthTypeOK
<1>9. UsersFade /\ OwnersAreTold /\ PasswordsGrow
  BY <1>1, <1>4, <1>8 DEF UsersFade, OwnersAreTold, PasswordsGrow, AccountUsable
<1>10. CutIsTold  BY <1>1, <1>4, SameCutsFade
<1> QED  BY <1>5, <1>6, <1>7, <1>9, <1>10 DEF Fades

LEMMA LogoutCommitFades ==
    ASSUME AuthTypeOK, AuthInv, NEW r \in AuthRequests, LogoutCommit(r)
    PROVE  AuthTypeOK' /\ Fades
<1> DEFINE s == reqs[r].sid
<1>1. /\ reqs[r].op = "logout"
      /\ sessions' = IF sessions[s].status = "stored" THEN Revoke({s}, "logout") ELSE sessions
      /\ reqs' = Overtake(Using({s}) \ {r}, "revoked", Done(r))
      /\ UNCHANGED <<users, mails, begun, writes, reset, halfReset>>
  BY DEF LogoutCommit
<1>2. s \in Sids /\ sessions[s].status # "none"  BY <1>1 DEF AuthInv, TokenHasRow, Presenting
<1>3. \A q \in AuthRequests : reqs[q].op # "idle" /\ reqs[q].sid = s => q \in Using({s})  BY DEF Using
<1>4. "revoked" \in Overtakings  BY DEF Overtakings
<1> HIDE DEF s
<1>5. /\ reqs' \in [AuthRequests -> Request] /\ RequestsFade /\ reqs'[r].op = "idle"
      /\ \A q \in AuthRequests \ {r} :
            /\ reqs'[q].op = reqs[q].op /\ reqs'[q].user = reqs[q].user
            /\ q \in Using({s}) => "revoked" \in reqs'[q].saw
  BY <1>1, <1>4, DoneToldFade, ZenonT(60)
<1>6. /\ sessions' \in [Sids -> Session] /\ RowsFade /\ HoldersAreTold
      /\ \A t \in Sids : sessions'[t].status = sessions[t].status
  <2>1. CASE sessions[s].status = "stored"
    <3>1. "logout" \in Reasons \ {"no"} /\ {s} \in SUBSET Sids  BY <1>2 DEF Reasons
    <3>2. RowsAreLinked /\ TokenHasRow  BY DEF AuthInv
    <3>3. \A q \in AuthRequests : Presenting(q) /\ reqs[q].sid \in {s} /\ reqs'[q].op # "idle"
                                  => Ends \cap reqs'[q].saw # {}
      BY <1>3, <1>5 DEF Ends
    <3>4. sessions' = Revoke({s}, "logout") /\ \A t \in {s} : sessions[t].status # "none"
      BY <1>1, <1>2, <2>1
    <3> QED  BY <3>1, <3>2, <3>3, <3>4, RevokedRowsFade
  <2>2. CASE sessions[s].status # "stored"
    <3>1. sessions' = sessions  BY <1>1, <2>2
    <3> QED  BY <3>1, SameRowsFade DEF AuthTypeOK
  <2> QED  BY <2>1, <2>2
<1>7. AuthTypeOK'
  <2>1. \A t \in Sids : sessions'[t].status = "stored" => users'[sessions'[t].user].exists
    BY <1>1, <1>6, SameOwnersTyped DEF RowsFade
  <2> QED  BY <1>1, <1>5, <1>6, <2>1 DEF AuthTypeOK
<1>8. \A q \in AuthRequests : reqs'[q].op \in {"idle", reqs[q].op}  BY <1>5
<1>9. UsersFade /\ OwnersAreTold /\ PasswordsGrow  BY <1>1, <1>8, SameUsersFade
<1>10. CutIsTold
  <2>1. \A q \in AuthRequests : reqs[q].op = "revoke" => reqs'[q].op = "revoke" /\ reqs'[q].user = reqs[q].user
    BY <1>1, <1>5
  <2> QED  BY <1>1, <2>1, SameCutsFade
<1> QED  BY <1>5, <1>6, <1>7, <1>9, <1>10 DEF Fades

\* All live sessions of a user are revoked, and what is under way for him is told.
LEMMA CutFades ==
    ASSUME AuthTypeOK, AuthInv, NEW r \in AuthRequests, NEW u \in Users, reqs[r].user = u,
           sessions' = Revoke(LiveOf(u), "logout_all"),
           reqs' = Overtake(Of(u) \ {r}, "cut", Done(r)),
           halfReset' = halfReset \ {u},
           UNCHANGED <<users, mails, begun, writes, reset>>
    PROVE  AuthTypeOK' /\ Fades
<1>1. LiveOf(u) \in SUBSET Sids /\ \A t \in LiveOf(u) : sessions[t].status # "none"
  BY DEF LiveOf, LiveSession
<1>2. \A q \in AuthRequests : reqs[q].op # "idle" /\ reqs[q].user = u => q \in Of(u)  BY DEF Of
<1>3. "cut" \in Overtakings  BY DEF Overtakings
<1>4. /\ reqs' \in [AuthRequests -> Request] /\ RequestsFade /\ reqs'[r].op = "idle"
      /\ \A q \in AuthRequests \ {r} :
            /\ reqs'[q].op = reqs[q].op /\ reqs'[q].user = reqs[q].user
            /\ q \in Of(u) => "cut" \in reqs'[q].saw
  BY <1>3, DoneToldFade
<1>5. /\ sessions' \in [Sids -> Session] /\ RowsFade /\ HoldersAreTold
      /\ \A t \in LiveOf(u) : ~ LiveSession(t)'
      /\ \A t \in Sids : sessions'[t].status = sessions[t].status
  <2>1. "logout_all" \in Reasons \ {"no"}  BY DEF Reasons
  <2>2. RowsAreLinked /\ TokenHasRow  BY DEF AuthInv
  <2>3. \A q \in AuthRequests : Presenting(q) /\ reqs[q].sid \in LiveOf(u) /\ reqs'[q].op # "idle"
                                => Ends \cap reqs'[q].saw # {}
    <3>1. \A q \in AuthRequests : Presenting(q) /\ reqs[q].sid \in LiveOf(u) => reqs[q].user = u
      BY <2>2 DEF TokenHasRow, LiveOf
    <3>2. \A q \in AuthRequests : Presenting(q) => reqs[q].op # "idle"  BY DEF Presenting, Refreshing
    <3> QED  BY <1>2, <1>4, <3>1, <3>2 DEF Ends
  <2> QED  BY <1>1, <2>1, <2>2, <2>3, RevokedRowsFade
<1>6. AuthTypeOK'
  <2>1. \A t \in Sids : sessions'[t].status = "stored" => users'[sessions'[t].user].exists
    BY <1>5, SameOwnersTyped DEF RowsFade
  <2>2. halfReset' \in SUBSET Users  BY DEF AuthTypeOK
  <2> QED  BY <1>4, <1>5, <2>1, <2>2 DEF AuthTypeOK
<1>7. \A q \in AuthRequests : reqs'[q].op \in {"idle", reqs[q].op}  BY <1>4
<1>8. UsersFade /\ OwnersAreTold /\ PasswordsGrow  BY <1>7, SameUsersFade
<1>9. CutIsTold
  <2> SUFFICES ASSUME NEW v \in Users, ~ Cutting(v)', Cutting(v)
               PROVE  /\ \A t \in Sids : sessions[t].user = v => ~ LiveSession(t)'
                      /\ \A q \in AuthRequests : reqs[q].user = v /\ reqs'[q].op # "idle" => "cut" \in reqs'[q].saw
    BY DEF CutIsTold
  <2>1. v = u
    <3> SUFFICES ASSUME v # u PROVE FALSE  OBVIOUS
    <3>1. v \notin halfReset  BY DEF Cutting
    <3>2. PICK q \in AuthRequests : reqs[q].op = "revoke" /\ reqs[q].user = v  BY <3>1 DEF Cutting
    <3>3. reqs'[q].op = "revoke" /\ reqs'[q].user = v  BY <1>4, <3>2
    <3> QED  BY <3>3 DEF Cutting
  <2>2. \A t \in Sids : sessions[t].user = u => ~ LiveSession(t)'  BY <1>5 DEF LiveOf, RowsFade
  <2>3. \A q \in AuthRequests : reqs[q].user = u /\ reqs'[q].op # "idle" => "cut" \in reqs'[q].saw
    BY <1>2, <1>4
  <2> QED  BY <2>1, <2>2, <2>3
<1> QED  BY <1>4, <1>5, <1>6, <1>8, <1>9 DEF Fades

LEMMA LogoutAllFades ==
    ASSUME AuthTypeOK, AuthInv, NEW r \in AuthRequests, LogoutAll(r) \/ ResetRevoke(r)
    PROVE  AuthTypeOK' /\ Fades
<1>1. reqs[r].user \in Users  BY DEF AuthTypeOK, Request
<1>2. PICK u \in Users : u = reqs[r].user  BY <1>1
<1>3. /\ sessions' = Revoke(LiveOf(u), "logout_all")
      /\ reqs' = Overtake(Of(u) \ {r}, "cut", Done(r))
      /\ halfReset' = halfReset \ {u}
      /\ UNCHANGED <<users, mails, begun, writes, reset>>
  BY <1>2 DEF LogoutAll, ResetRevoke, ResetRevokes
<1> QED  BY <1>2, <1>3, CutFades

\* A field of the row of one user is written.
LEMMA UserWritten ==
    ASSUME AuthTypeOK, NEW u \in Users
    PROVE  /\ \A b \in BOOLEAN :
                /\ [users EXCEPT ![u].active = b] \in [Users -> User]
                /\ [users EXCEPT ![u].active = b][u].exists = users[u].exists
                /\ [users EXCEPT ![u].active = b][u].active = b
                /\ [users EXCEPT ![u].active = b][u].password = users[u].password
           /\ \A b \in BOOLEAN :
                /\ [users EXCEPT ![u].exists = b] \in [Users -> User]
                /\ [users EXCEPT ![u].exists = b][u].exists = b
                /\ [users EXCEPT ![u].exists = b][u].active = users[u].active
                /\ [users EXCEPT ![u].exists = b][u].password = users[u].password
           /\ \A n \in Nat :
                /\ [users EXCEPT ![u].password = n] \in [Users -> User]
                /\ [users EXCEPT ![u].password = n][u].exists = users[u].exists
                /\ [users EXCEPT ![u].password = n][u].active = users[u].active
                /\ [users EXCEPT ![u].password = n][u].password = n
<1>1. users \in [Users -> User] /\ users[u] \in User  BY DEF AuthTypeOK
<1>2. ASSUME NEW b \in BOOLEAN
      PROVE  /\ [users EXCEPT ![u].active = b] \in [Users -> User]
             /\ [users EXCEPT ![u].active = b][u].exists = users[u].exists
             /\ [users EXCEPT ![u].active = b][u].active = b
             /\ [users EXCEPT ![u].active = b][u].password = users[u].password
  BY <1>1 DEF User
<1>3. ASSUME NEW b \in BOOLEAN
      PROVE  /\ [users EXCEPT ![u].exists = b] \in [Users -> User]
             /\ [users EXCEPT ![u].exists = b][u].exists = b
             /\ [users EXCEPT ![u].exists = b][u].active = users[u].active
             /\ [users EXCEPT ![u].exists = b][u].password = users[u].password
  BY <1>1 DEF User
<1>4. ASSUME NEW n \in Nat
      PROVE  /\ [users EXCEPT ![u].password = n] \in [Users -> User]
             /\ [users EXCEPT ![u].password = n][u].exists = users[u].exists
             /\ [users EXCEPT ![u].password = n][u].active = users[u].active
             /\ [users EXCEPT ![u].password = n][u].password = n
  BY <1>1 DEF User
<1> QED  BY <1>2, <1>3, <1>4

LEMMA ChangePasswordFades ==
    ASSUME AuthTypeOK, AuthInv, NEW r \in AuthRequests, ChangePassword(r)
    PROVE  AuthTypeOK' /\ Fades
<1>1. PICK u \in Users : u = reqs[r].user  BY DEF AuthTypeOK, Request
<1>2. /\ reqs[r].op = "change"
      /\ writes' = writes + 1 /\ users' = [users EXCEPT ![u].password = writes + 1]
      /\ reqs' = Overtake(Of(u) \ {r}, "password", Done(r))
      /\ UNCHANGED <<sessions, mails, begun, reset, halfReset>>
  BY <1>1 DEF ChangePassword, WritePassword
<1>3. "password" \in Overtakings  BY DEF Overtakings
<1>4. /\ reqs' \in [AuthRequests -> Request] /\ RequestsFade /\ reqs'[r].op = "idle"
      /\ \A q \in AuthRequests \ {r} :
            /\ reqs'[q].op = reqs[q].op /\ reqs'[q].user = reqs[q].user
            /\ q \in Of(u) => "password" \in reqs'[q].saw
  BY <1>2, <1>3, DoneToldFade, ZenonT(60)
<1>5. writes \in Nat /\ writes' \in Nat /\ writes <= writes' /\ users \in [Users -> User]
  BY <1>2 DEF AuthTypeOK
<1>6. /\ users' \in [Users -> User] /\ users'[u].exists = users[u].exists
      /\ users'[u].active = users[u].active /\ users'[u].password = writes'
  BY <1>2, <1>5, UserWritten
<1>7. \A v \in Users : v # u => users'[v] = users[v]  BY <1>2, <1>5
<1>8. \A v \in Users : users'[v].exists = users[v].exists /\ users'[v].active = users[v].active
  BY <1>6, <1>7
<1>9. AuthTypeOK'
  <2>1. \A t \in Sids : sessions[t].user \in Users  BY DEF AuthTypeOK, Session
  <2>2. \A t \in Sids : sessions'[t].status = "stored" => users'[sessions'[t].user].exists
    BY <1>2, <1>8, <2>1 DEF AuthTypeOK
  <2> QED  BY <1>2, <1>4, <1>5, <1>6, <2>2 DEF AuthTypeOK
<1>10. RowsFade /\ HoldersAreTold  BY <1>2, SameRowsFade
<1>11. UsersFade  BY <1>8 DEF UsersFade
<1>12. OwnersAreTold
  <2> SUFFICES ASSUME NEW q \in AuthRequests, NEW v \in Users, v = reqs[q].user, reqs'[q].op # "idle"
               PROVE  /\ users[v].active /\ ~ users'[v].active => "suspended" \in reqs'[q].saw
                      /\ users'[v].password # users[v].password => "password" \in reqs'[q].saw
                      /\ reqs'[q].op = reqs[q].op
    BY DEF OwnersAreTold, AuthTypeOK, Request
  <2>1. q # r /\ reqs'[q].op = reqs[q].op  BY <1>4
  <2>2. users'[v].password # users[v].password => "password" \in reqs'[q].saw
    BY <1>4, <1>7, <2>1 DEF Of
  <2> QED  BY <1>8, <2>1, <2>2
<1>13. PasswordsGrow  BY <1>2, <1>5, <1>6, <1>7 DEF PasswordsGrow
<1>14. CutIsTold  BY <1>2, <1>4, SameCutsFade
<1> QED  BY <1>4, <1>9, <1>10, <1>11, <1>12, <1>13, <1>14 DEF Fades

LEMMA ResetPasswordFades ==
    ASSUME AuthTypeOK, AuthInv, NEW r \in AuthRequests, ResetPassword(r)
    PROVE  AuthTypeOK' /\ Fades
<1>1. PICK u \in Users : u = reqs[r].user  BY DEF AuthTypeOK, Request
<1> DEFINE told == Overtake(Of(u) \ {r}, "password", reqs)
<1>2. /\ reqs[r].op = "reset"
      /\ writes' = writes + 1 /\ users' = [users EXCEPT ![u].password = writes + 1]
      /\ reset' = [reset EXCEPT ![u] = writes + 1]
      /\ reqs' = [told EXCEPT ![r].op = "revoke"]
      /\ UNCHANGED <<sessions, mails, begun, halfReset>>
  BY <1>1 DEF ResetPassword, WritePassword
<1>3. "password" \in Overtakings /\ reqs \in [AuthRequests -> Request]  BY DEF Overtakings, AuthTypeOK
<1>4. /\ told \in [AuthRequests -> Request]
      /\ told[r] = reqs[r]
      /\ \A q \in AuthRequests : q \notin Of(u) => told[q] = reqs[q]
      /\ \A q \in Of(u) \ {r} : IsTold(told[q], reqs[q], "password")
  <2>1. /\ told \in [AuthRequests -> Request]
        /\ \A q \in AuthRequests \ (Of(u) \ {r}) : told[q] = reqs[q]
        /\ \A q \in AuthRequests \cap (Of(u) \ {r}) : IsTold(told[q], reqs[q], "password")
    BY <1>3, OvertakeRequests
  <2>2. Of(u) \subseteq AuthRequests  BY DEF Of
  <2> QED  BY <2>1, <2>2
<1> HIDE DEF told
<1>5. reqs' \in [AuthRequests -> Request] /\ \A q \in AuthRequests \ {r} : reqs'[q] = told[q]
  <2>1. [told[r] EXCEPT !.op = "revoke"] \in Request  BY <1>4 DEF Request
  <2> QED  BY <1>2, <1>4, <2>1
<1>6. /\ reqs'[r].op = "revoke" /\ reqs'[r].user = u /\ reqs'[r].sid = reqs[r].sid
      /\ reqs'[r].password = reqs[r].password /\ reqs'[r].saw = reqs[r].saw
  <2>1. reqs'[r] = [reqs[r] EXCEPT !.op = "revoke"] /\ reqs[r] \in Request  BY <1>2, <1>3, <1>4
  <2> QED  BY <1>1, <2>1 DEF Request
<1>7. \A q \in AuthRequests \ {r} :
        /\ Remains(q) /\ reqs'[q].op = reqs[q].op
        /\ q \in Of(u) => "password" \in reqs'[q].saw
  BY <1>4, <1>5 DEF Remains, IsTold
<1>8. RequestsFade
  <2>1. Remains(r)  BY <1>1, <1>2, <1>6 DEF Remains
  <2> QED  BY <1>7, <2>1 DEF RequestsFade
<1>9. writes \in Nat /\ writes' \in Nat /\ writes <= writes' /\ users \in [Users -> User]
  BY <1>2 DEF AuthTypeOK
<1>10. /\ users' \in [Users -> User] /\ users'[u].exists = users[u].exists
       /\ users'[u].active = users[u].active /\ users'[u].password = writes'
  BY <1>2, <1>9, UserWritten
<1>11. \A v \in Users : v # u => users'[v] = users[v]  BY <1>2, <1>9
<1>12. \A v \in Users : users'[v].exists = users[v].exists /\ users'[v].active = users[v].active
  BY <1>10, <1>11
<1>13. reset' \in [Users -> Nat] /\ reset'[u] = writes' /\ \A v \in Users : v # u => reset'[v] = reset[v]
  BY <1>2, <1>9 DEF AuthTypeOK
<1>14. AuthTypeOK'
  <2>1. \A t \in Sids : sessions[t].user \in Users  BY DEF AuthTypeOK, Session
  <2>2. \A t \in Sids : sessions'[t].status = "stored" => users'[sessions'[t].user].exists
    BY <1>2, <1>12, <2>1 DEF AuthTypeOK
  <2> QED  BY <1>2, <1>5, <1>9, <1>10, <1>13, <2>2 DEF AuthTypeOK
<1>15. RowsFade /\ HoldersAreTold  BY <1>2, SameRowsFade
<1>16. UsersFade  BY <1>12 DEF UsersFade
<1>17. OwnersAreTold
  <2> SUFFICES ASSUME NEW q \in AuthRequests, NEW v \in Users, v = reqs[q].user, reqs'[q].op # "idle"
               PROVE  /\ users[v].active /\ ~ users'[v].active => "suspended" \in reqs'[q].saw
                      /\ users'[v].password # users[v].password
                            => "password" \in reqs'[q].saw \/ reqs'[q].op # "change"
                      /\ reqs'[q].op # reqs[q].op => reqs'[q].op # "refresh_user"
    BY DEF OwnersAreTold, AuthTypeOK, Request
  <2>1. CASE q = r  BY <1>6, <1>12, <2>1
  <2>2. CASE q # r
    <3>1. reqs'[q].op = reqs[q].op  BY <1>7, <2>2
    <3>2. users'[v].password # users[v].password => "password" \in reqs'[q].saw
      BY <1>7, <1>11, <2>2, <3>1 DEF Of
    <3> QED  BY <1>12, <3>1, <3>2
  <2> QED  BY <2>1, <2>2
<1>18. PasswordsGrow  BY <1>9, <1>10, <1>11, <1>13 DEF PasswordsGrow
<1>19. CutIsTold
  <2> SUFFICES ASSUME NEW v \in Users, ~ Cutting(v)'
               PROVE  reset'[v] = reset[v] /\ ~ Cutting(v)
    BY DEF CutIsTold
  <2>1. v # u  BY <1>6 DEF Cutting
  <2>2. v \notin halfReset  BY <1>2 DEF Cutting
  <2>3. ASSUME NEW q \in AuthRequests, reqs[q].op = "revoke", reqs[q].user = v
        PROVE  FALSE
    <3>1. reqs'[q].op = "revoke" /\ reqs'[q].user = v  BY <1>2, <1>7, <2>3 DEF Remains
    <3> QED  BY <3>1 DEF Cutting
  <2> QED  BY <1>13, <2>1, <2>2, <2>3 DEF Cutting
<1> QED  BY <1>8, <1>14, <1>15, <1>16, <1>17, <1>18, <1>19 DEF Fades

LEMMA DeleteAccountFades ==
    ASSUME AuthTypeOK, AuthInv, NEW r \in AuthRequests, DeleteAccount(r)
    PROVE  AuthTypeOK' /\ Fades
<1>1. PICK u \in Users : u = reqs[r].user  BY DEF AuthTypeOK, Request
<1>2. /\ reqs[r].op = "delete" /\ users' = [users EXCEPT ![u].exists = FALSE]
      /\ sessions' = [s \in Sids |-> IF s \in Cascade(u)
                                     THEN [sessions[s] EXCEPT !.status = "deleted"] ELSE sessions[s]]
      /\ reqs' = Done(r)
      /\ UNCHANGED <<mails, begun, writes, reset, halfReset>>
  BY <1>1 DEF DeleteAccount
<1>3. /\ reqs' \in [AuthRequests -> Request] /\ RequestsFade /\ reqs'[r].op = "idle"
      /\ \A q \in AuthRequests : q # r => reqs'[q] = reqs[q]
  BY <1>2, DoneFade
<1>4. users \in [Users -> User] /\ sessions \in [Sids -> Session] /\ FALSE \in BOOLEAN
  BY DEF AuthTypeOK
<1>5. /\ users' \in [Users -> User] /\ users'[u].exists = FALSE
      /\ users'[u].active = users[u].active /\ users'[u].password = users[u].password
  BY <1>2, <1>4, UserWritten
<1>6. \A v \in Users : v # u => users'[v] = users[v]  BY <1>2, <1>4
<1>7. \A v \in Users : users'[v].active = users[v].active /\ users'[v].password = users[v].password
  BY <1>5, <1>6
<1>8. \A t \in Sids \ Cascade(u) : sessions'[t] = sessions[t]  BY <1>2
<1>9. ASSUME NEW t \in Sids, t \in Cascade(u)
      PROVE  /\ sessions'[t] \in Session /\ sessions'[t].status = "deleted" /\ sessions'[t].reason = sessions[t].reason
             /\ sessions'[t].user = sessions[t].user /\ sessions'[t].family = sessions[t].family
             /\ sessions'[t].password = sessions[t].password /\ sessions'[t].saw = sessions[t].saw
             /\ sessions[t].status = "stored" /\ sessions[t].user = u
  <2>1. sessions'[t] = [sessions[t] EXCEPT !.status = "deleted"] /\ sessions[t] \in Session
    BY <1>2, <1>4, <1>9
  <2> QED  BY <1>9, <2>1 DEF Session, Cascade
<1>10. sessions' \in [Sids -> Session]
  <2>1. \A t \in Sids : sessions'[t] \in Session  BY <1>4, <1>8, <1>9
  <2> QED  BY <1>2, <2>1
<1>11. AuthTypeOK'
  <2>1. ASSUME NEW t \in Sids, sessions'[t].status = "stored"
        PROVE  users'[sessions'[t].user].exists
    <3>1. t \notin Cascade(u) /\ sessions'[t] = sessions[t]  BY <1>8, <1>9, <2>1
    <3>2. sessions[t].user \in Users /\ sessions[t].user # u /\ users[sessions[t].user].exists
      BY <2>1, <3>1 DEF Cascade, AuthTypeOK, Session
    <3> QED  BY <1>6, <3>1, <3>2
  <2> QED  BY <1>2, <1>3, <1>5, <1>10, <2>1 DEF AuthTypeOK
<1>12. RowsFade
  <2> SUFFICES ASSUME NEW t \in Sids
               PROVE  /\ sessions'[t].user = sessions[t].user /\ sessions'[t].family = sessions[t].family
                      /\ sessions'[t].password = sessions[t].password /\ sessions'[t].saw = sessions[t].saw
                      /\ sessions[t].status = "none" => sessions'[t] = sessions[t]
                      /\ sessions[t].status # "none" => sessions'[t].status # "none"
                      /\ sessions[t].status = "deleted" => sessions'[t].status = "deleted"
                      /\ sessions'[t].status = "deleted"
                            => sessions[t].status = "deleted" \/ ~ users'[sessions[t].user].exists
                      /\ LiveSession(t)' => LiveSession(t)
    BY DEF RowsFade
  <2>1. CASE t \in Cascade(u)  BY <1>5, <1>9, <2>1 DEF LiveSession
  <2>2. CASE t \notin Cascade(u)  BY <1>8, <2>2 DEF LiveSession
  <2> QED  BY <2>1, <2>2
<1>13. HoldersAreTold
  <2>1. \A t \in Sids : \/ sessions'[t] = sessions[t]
                        \/ sessions'[t].status = "deleted" /\ sessions'[t].reason = sessions[t].reason
    BY <1>8, <1>9
  <2>2. \A q \in AuthRequests : Presenting(q) => reqs[q].sid \in Sids  BY DEF AuthInv, TokenHasRow
  <2> QED  BY <2>1, <2>2 DEF HoldersAreTold
<1>14. UsersFade  BY <1>5, <1>6 DEF UsersFade
<1>15. OwnersAreTold
  <2>1. \A q \in AuthRequests : reqs[q].user \in Users  BY DEF AuthTypeOK, Request
  <2> QED  BY <1>3, <1>7, <2>1 DEF OwnersAreTold
<1>16. PasswordsGrow
  <2>1. writes \in Nat  BY DEF AuthTypeOK
  <2> QED  BY <1>2, <1>7, <2>1 DEF PasswordsGrow
<1>17. CutIsTold  BY <1>2, <1>3, SameCutsFade
<1> QED  BY <1>3, <1>11, <1>12, <1>13, <1>14, <1>15, <1>16, <1>17 DEF Fades

\* Mail: the token is stored, or taken in vain.
LEMMA MailsFade ==
    ASSUME AuthTypeOK, mails' \in [Mails -> [kind : {"none", "stored", "spent"}, user : Users]],
           UNCHANGED <<users, sessions, reqs, begun, writes, reset, halfReset>>
    PROVE  AuthTypeOK' /\ Fades
<1>1. AuthTypeOK'  BY DEF AuthTypeOK
<1>2. RequestsFade  BY SameRequestsFade
<1>3. RowsFade /\ HoldersAreTold  BY SameRowsFade
<1>4. UsersFade /\ OwnersAreTold /\ PasswordsGrow  BY SameUsersFade
<1>5. CutIsTold  BY SameCutsFade
<1> QED  BY <1>1, <1>2, <1>3, <1>4, <1>5 DEF Fades

LEMMA SuspendUserFades ==
    ASSUME AuthTypeOK, AuthInv, NEW u \in Users, SuspendUser(u)
    PROVE  AuthTypeOK' /\ Fades
<1>1. /\ users' = [users EXCEPT ![u].active = FALSE]
      /\ reqs' = Overtake(Of(u), "suspended", reqs)
      /\ UNCHANGED <<sessions, mails, begun, writes, reset, halfReset>>
  BY DEF SuspendUser
<1>2. "suspended" \in Overtakings  BY DEF Overtakings
<1>3. /\ reqs' \in [AuthRequests -> Request] /\ RequestsFade
      /\ \A q \in AuthRequests :
            /\ reqs'[q].op = reqs[q].op /\ reqs'[q].user = reqs[q].user
            /\ q \in Of(u) => "suspended" \in reqs'[q].saw
  BY <1>1, <1>2, ToldFade
<1>4. users \in [Users -> User] /\ FALSE \in BOOLEAN /\ writes \in Nat  BY DEF AuthTypeOK
<1>5. /\ users' \in [Users -> User] /\ users'[u].exists = users[u].exists /\ users'[u].password = users[u].password
      /\ \A v \in Users : v # u => users'[v] = users[v]
  BY <1>1, <1>4, UserWritten
<1>6. \A v \in Users : users'[v].exists = users[v].exists /\ users'[v].password = users[v].password
  BY <1>5
<1>7. AuthTypeOK'
  <2>1. \A t \in Sids : sessions[t].user \in Users  BY DEF AuthTypeOK, Session
  <2>2. \A t \in Sids : sessions'[t].status = "stored" => users'[sessions'[t].user].exists
    BY <1>1, <1>6, <2>1 DEF AuthTypeOK
  <2> QED  BY <1>1, <1>3, <1>5, <2>2 DEF AuthTypeOK
<1>8. RowsFade /\ HoldersAreTold  BY <1>1, SameRowsFade
<1>9. UsersFade /\ PasswordsGrow  BY <1>1, <1>4, <1>6 DEF UsersFade, PasswordsGrow
<1>10. OwnersAreTold
  <2> SUFFICES ASSUME NEW q \in AuthRequests, NEW v \in Users, v = reqs[q].user, reqs'[q].op # "idle"
               PROVE  /\ users[v].active /\ ~ users'[v].active => "suspended" \in reqs'[q].saw
                      /\ users'[v].password = users[v].password
                      /\ reqs'[q].op = reqs[q].op
    BY DEF OwnersAreTold, AuthTypeOK, Request
  <2>1. users[v].active /\ ~ users'[v].active => "suspended" \in reqs'[q].saw  BY <1>3, <1>5 DEF Of
  <2> QED  BY <1>3, <1>6, <2>1
<1>11. CutIsTold  BY <1>1, <1>3, SameCutsFade
<1> QED  BY <1>3, <1>7, <1>8, <1>9, <1>10, <1>11 DEF Fades

LEMMA ActivateUserFades ==
    ASSUME AuthTypeOK, AuthInv, NEW u \in Users, ActivateUser(u)
    PROVE  AuthTypeOK' /\ Fades
<1>1. /\ users' = [users EXCEPT ![u].active = TRUE]
      /\ UNCHANGED <<sessions, mails, reqs, begun, writes, reset, halfReset>>
  BY DEF ActivateUser
<1>2. users \in [Users -> User] /\ TRUE \in BOOLEAN /\ writes \in Nat  BY DEF AuthTypeOK
<1>3. /\ users' \in [Users -> User] /\ users'[u].exists = users[u].exists
      /\ users'[u].active = TRUE /\ users'[u].password = users[u].password
      /\ \A v \in Users : v # u => users'[v] = users[v]
  BY <1>1, <1>2, UserWritten
<1>4. \A v \in Users : /\ users'[v].exists = users[v].exists /\ users'[v].password = users[v].password
                        /\ users[v].active => users'[v].active
  BY <1>3
<1>5. AuthTypeOK'
  <2>1. \A t \in Sids : sessions[t].user \in Users  BY DEF AuthTypeOK, Session
  <2>2. \A t \in Sids : sessions'[t].status = "stored" => users'[sessions'[t].user].exists
    BY <1>1, <1>4, <2>1 DEF AuthTypeOK
  <2> QED  BY <1>1, <1>3, <2>2 DEF AuthTypeOK
<1>6. RequestsFade  BY <1>1, SameRequestsFade
<1>7. RowsFade /\ HoldersAreTold  BY <1>1, SameRowsFade
<1>8. UsersFade /\ PasswordsGrow  BY <1>1, <1>2, <1>4 DEF UsersFade, PasswordsGrow
<1>9. OwnersAreTold
  <2>1. \A q \in AuthRequests : reqs[q].user \in Users  BY DEF AuthTypeOK, Request
  <2> QED  BY <1>1, <1>4, <2>1 DEF OwnersAreTold
<1>10. CutIsTold  BY <1>1, SameCutsFade
<1> QED  BY <1>5, <1>6, <1>7, <1>8, <1>9, <1>10 DEF Fades

LEMMA ExpireFades ==
    ASSUME AuthTypeOK, AuthInv, NEW s \in Sids, Expire(s)
    PROVE  AuthTypeOK' /\ Fades
<1>1. /\ sessions[s].status = "stored"
      /\ sessions' = [sessions EXCEPT ![s].expired = TRUE]
      /\ reqs' = Overtake(Using({s}), "revoked", reqs)
      /\ UNCHANGED <<users, mails, begun, writes, reset, halfReset>>
  BY DEF Expire
<1>2. "revoked" \in Overtakings  BY DEF Overtakings
<1>3. \A q \in AuthRequests : reqs[q].op # "idle" /\ reqs[q].sid = s => q \in Using({s})  BY DEF Using
<1>4. /\ reqs' \in [AuthRequests -> Request] /\ RequestsFade
      /\ \A q \in AuthRequests :
            /\ reqs'[q].op = reqs[q].op /\ reqs'[q].user = reqs[q].user
            /\ q \in Using({s}) => "revoked" \in reqs'[q].saw
  BY <1>1, <1>2, ToldFade
<1>5. sessions \in [Sids -> Session] /\ sessions[s] \in Session  BY DEF AuthTypeOK
<1>6. \A t \in Sids : t # s => sessions'[t] = sessions[t]  BY <1>1, <1>5
<1>7. /\ sessions'[s] \in Session /\ sessions'[s].status = "stored" /\ sessions'[s].reason = sessions[s].reason
      /\ sessions'[s].user = sessions[s].user /\ sessions'[s].family = sessions[s].family
      /\ sessions'[s].password = sessions[s].password /\ sessions'[s].saw = sessions[s].saw
      /\ sessions'[s].expired
  <2>1. sessions'[s] = [sessions[s] EXCEPT !.expired = TRUE]  BY <1>1, <1>5
  <2> QED  BY <1>1, <1>5, <2>1 DEF Session
<1>8. sessions' \in [Sids -> Session]  BY <1>1, <1>5, <1>6, <1>7
<1>9. AuthTypeOK'
  <2>1. \A t \in Sids : sessions'[t].status = sessions[t].status /\ sessions'[t].user = sessions[t].user
    BY <1>1, <1>6, <1>7
  <2>2. \A t \in Sids : sessions'[t].status = "stored" => users'[sessions'[t].user].exists
    BY <1>1, <2>1, SameOwnersTyped
  <2> QED  BY <1>1, <1>4, <1>8, <2>2 DEF AuthTypeOK
<1>10. RowsFade
  <2> SUFFICES ASSUME NEW t \in Sids
               PROVE  /\ sessions'[t].user = sessions[t].user /\ sessions'[t].family = sessions[t].family
                      /\ sessions'[t].password = sessions[t].password /\ sessions'[t].saw = sessions[t].saw
                      /\ sessions[t].status = "none" => sessions'[t] = sessions[t]
                      /\ sessions'[t].status = sessions[t].status
                      /\ LiveSession(t)' => LiveSession(t)
    BY DEF RowsFade
  <2>1. CASE t = s  BY <1>1, <1>7, <2>1 DEF LiveSession
  <2>2. CASE t # s  BY <1>6, <2>2 DEF LiveSession
  <2> QED  BY <2>1, <2>2
<1>11. HoldersAreTold
  <2>1. \A q \in AuthRequests : Presenting(q) => reqs[q].sid \in Sids  BY DEF AuthInv, TokenHasRow
  <2>2. \A q \in AuthRequests : Presenting(q) => reqs[q].op # "idle"  BY DEF Presenting, Refreshing
  <2> QED  BY <1>3, <1>4, <1>6, <2>1, <2>2 DEF HoldersAreTold, Ends
<1>12. \A q \in AuthRequests : reqs'[q].op \in {"idle", reqs[q].op}  BY <1>4
<1>13. UsersFade /\ OwnersAreTold /\ PasswordsGrow  BY <1>1, <1>12, SameUsersFade
<1>14. CutIsTold  BY <1>1, <1>4, SameCutsFade
<1> QED  BY <1>4, <1>9, <1>10, <1>11, <1>13, <1>14 DEF Fades

-----------------------------------------------------------------------------
(* A request is begun: it has seen what it needs as it is now.               *)

SeesTruth(q) ==
    /\ q.saw = {} /\ q.op \notin {"idle", "refresh_user", "revoke"}
    /\ q.op \in {"refresh", "logout"} => q.sid \in Sids
    /\ q.op \in {"refresh", "logout"} => LiveSession(q.sid) /\ sessions[q.sid].user = q.user
    /\ q.op = "login" => users[q.user].active
    /\ q.op \in {"login", "change"} => q.password = users[q.user].password

LEMMA BeginKeepsInv ==
    ASSUME AuthTypeOK, AuthInv, NEW r \in AuthRequests, NEW request \in Request,
           Begin(r, request), SeesTruth(request),
           mails' \in [Mails -> [kind : {"none", "stored", "spent"}, user : Users]],
           UNCHANGED <<users, sessions, writes, reset, halfReset>>
    PROVE  AuthTypeOK' /\ AuthInv'
<1>1. /\ reqs[r].op = "idle" /\ begun < MaxAuthRequests
      /\ reqs' = [reqs EXCEPT ![r] = request] /\ begun' = begun + 1
  BY DEF Begin
<1>2. reqs \in [AuthRequests -> Request] /\ sessions \in [Sids -> Session]  BY DEF AuthTypeOK
<1>3. reqs'[r] = request /\ \A q \in AuthRequests : q # r => reqs'[q] = reqs[q]  BY <1>1, <1>2
<1>4. AuthTypeOK'
  <2>1. begun' \in 0 .. MaxAuthRequests  BY <1>1, AuthAssumption DEF AuthTypeOK
  <2>2. reqs' \in [AuthRequests -> Request]  BY <1>1, <1>2
  <2>3. \A t \in Sids : sessions'[t].status = "stored" => users'[sessions'[t].user].exists
    BY DEF AuthTypeOK
  <2> QED  BY <2>1, <2>2, <2>3 DEF AuthTypeOK
<1>5. /\ \A q \in AuthRequests : q # r => /\ Refreshing(q)' = Refreshing(q)
                                         /\ Presenting(q)' = Presenting(q)
                                         /\ Seen(q)' = Seen(q)
      /\ \A t \in Sids : LiveSession(t)' = LiveSession(t)
  BY <1>3 DEF Refreshing, Presenting, Seen, LiveSession
<1>6. /\ Refreshing(r)' => request.op = "refresh"
      /\ Presenting(r)' => request.op \in {"refresh", "logout"}
  BY <1>3 DEF Refreshing, Presenting, SeesTruth
<1>7. \A u \in Users : Cutting(u)' = Cutting(u)
  <2>1. \A q \in AuthRequests : reqs'[q].op = "revoke" <=> reqs[q].op = "revoke"
    BY <1>1, <1>3 DEF SeesTruth
  <2>2. \A q \in AuthRequests : reqs[q].op = "revoke" => reqs'[q] = reqs[q]  BY <1>1, <1>3
  <2>3. ASSUME NEW u \in Users PROVE Cutting(u)' <=> Cutting(u)  BY <2>1, <2>2 DEF Cutting
  <2> QED  BY <2>3 DEF Cutting
<1>8. /\ RowsAreLinked /\ TokenHasRow /\ OneLivePerFamily /\ OneHolderPerFamily /\ ResetIsPassword
      /\ ResetEndsOldSessions /\ OldRequestsAreCut /\ RevocationIsSeen /\ UserIsSeen
  BY DEF AuthInv
<1>9. RowsAreLinked' /\ OneLivePerFamily' /\ ResetIsPassword'
  BY <1>8 DEF RowsAreLinked, OneLivePerFamily, ResetIsPassword, LiveSession
<1>10. TokenHasRow'
  <2>1. ASSUME Presenting(r)'
        PROVE  request.sid \in Sids /\ sessions[request.sid].status # "none" /\ sessions[request.sid].user = request.user
    BY <1>6, <2>1 DEF SeesTruth, LiveSession
  <2>2. \A q \in AuthRequests : q # r /\ Presenting(q)'
            => reqs[q].sid \in Sids /\ sessions[reqs[q].sid].status # "none" /\ sessions[reqs[q].sid].user = reqs[q].user
    BY <1>5, <1>8 DEF TokenHasRow
  <2> QED  BY <1>3, <2>1, <2>2 DEF TokenHasRow
<1>11. OneHolderPerFamily'
  <2>1. ASSUME NEW t \in Sids, Refreshing(r)', LiveSession(t), request.sid # t,
               sessions[t].family = sessions[request.sid].family
        PROVE  "rotated" \in sessions[request.sid].saw \cup sessions[t].saw
    <3>1. request.sid \in Sids /\ LiveSession(request.sid)  BY <1>6, <2>1 DEF SeesTruth
    <3> QED  BY <1>8, <2>1, <3>1 DEF OneLivePerFamily
  <2>2. ASSUME NEW q \in AuthRequests, q # r, Refreshing(q), Refreshing(r)', request.sid # reqs[q].sid,
               sessions[request.sid].family = sessions[reqs[q].sid].family
        PROVE  "rotated" \in Seen(q) \cup sessions[request.sid].saw
    <3>1. request.sid \in Sids /\ LiveSession(request.sid)  BY <1>6, <2>2 DEF SeesTruth
    <3> QED  BY <1>8, <2>2, <3>1 DEF OneHolderPerFamily
  <2>3. sessions[request.sid].saw \subseteq Seen(r)'  BY <1>3 DEF Seen
  <2>4. ASSUME NEW q \in AuthRequests, NEW t \in Sids, Refreshing(q)', LiveSession(t)', reqs'[q].sid # t,
               sessions'[t].family = sessions'[reqs'[q].sid].family
        PROVE  "rotated" \in Seen(q)' \cup sessions'[t].saw
    <3>1. CASE q = r  BY <1>3, <1>5, <2>1, <2>3, <2>4, <3>1
    <3>2. CASE q # r  BY <1>3, <1>5, <1>8, <2>4, <3>2 DEF OneHolderPerFamily
    <3> QED  BY <3>1, <3>2
  <2>5. ASSUME NEW q \in AuthRequests, NEW v \in AuthRequests, Refreshing(q)', Refreshing(v)',
               reqs'[q].sid # reqs'[v].sid, sessions'[reqs'[q].sid].family = sessions'[reqs'[v].sid].family
        PROVE  "rotated" \in Seen(q)' \cup Seen(v)'
    <3>1. CASE q = r /\ v # r  BY <1>3, <1>5, <2>2, <2>3, <2>5, <3>1
    <3>2. CASE q # r /\ v = r  BY <1>3, <1>5, <2>2, <2>3, <2>5, <3>2
    <3>3. CASE q # r /\ v # r  BY <1>3, <1>5, <1>8, <2>5, <3>3 DEF OneHolderPerFamily
    <3> QED  BY <2>5, <3>1, <3>2, <3>3
  <2> QED  BY <2>4, <2>5 DEF OneHolderPerFamily
<1>12. ResetEndsOldSessions'
  <2>1. \A t \in Sids : sessions[t].user \in Users  BY <1>2 DEF Session
  <2>2. \A t \in Sids : LiveSession(t) /\ sessions[t].password < reset[sessions[t].user]
                        => "cut" \in sessions[t].saw \/ Cutting(sessions[t].user)
    BY <1>8 DEF ResetEndsOldSessions, Cutting
  <2>3. ASSUME NEW t \in Sids, NEW u \in Users, u = sessions[t].user, LiveSession(t)', sessions[t].password < reset[u]
        PROVE  "cut" \in sessions[t].saw \/ Cutting(u)'
    BY <1>5, <1>7, <2>2, <2>3
  <2> QED  BY <2>1, <2>3 DEF ResetEndsOldSessions, Cutting
<1>13. OldRequestsAreCut'
  <2>1. \A q \in AuthRequests : reqs'[q].user \in Users  BY <1>4 DEF AuthTypeOK, Request
  <2>2. ASSUME NEW q \in AuthRequests, NEW u \in Users, u = reqs'[q].user, reqs'[q].op = "login",
               reqs'[q].password < reset[u]
        PROVE  "cut" \in reqs'[q].saw \/ Cutting(u)'
    <3>1. CASE q = r
      <4>1. request.op = "login" /\ request.user = u /\ request.password = users[u].password
        BY <1>3, <2>2, <3>1 DEF SeesTruth
      <4>2. reset[u] \in Nat /\ users[u].password \in Nat /\ reset[u] <= users[u].password
        BY <1>8 DEF ResetIsPassword, AuthTypeOK, User
      <4> QED  BY <1>3, <2>2, <3>1, <4>1, <4>2
    <3>2. CASE q # r  BY <1>3, <1>7, <1>8, <2>2, <3>2 DEF OldRequestsAreCut
    <3> QED  BY <3>1, <3>2
  <2>3. ASSUME NEW q \in AuthRequests, NEW u \in Users, u = reqs'[q].user, Refreshing(q)',
               sessions[reqs'[q].sid].password < reset[u]
        PROVE  "cut" \in Seen(q)' \/ Cutting(u)'
    <3>1. CASE q = r
      <4>1. /\ request.sid \in Sids /\ LiveSession(request.sid) /\ sessions[request.sid].user = u
            /\ sessions[request.sid].saw \subseteq Seen(r)'
        BY <1>3, <1>6, <2>3, <3>1 DEF SeesTruth, Seen
      <4>2. "cut" \in sessions[request.sid].saw \/ Cutting(u)
        BY <1>3, <1>8, <2>3, <3>1, <4>1 DEF ResetEndsOldSessions, Cutting
      <4> QED  BY <1>7, <3>1, <4>1, <4>2
    <3>2. CASE q # r  BY <1>3, <1>5, <1>7, <1>8, <2>3, <3>2 DEF OldRequestsAreCut
    <3> QED  BY <3>1, <3>2
  <2> QED  BY <2>1, <2>2, <2>3 DEF OldRequestsAreCut, Cutting
<1>14. RevocationIsSeen'
  <2>1. ASSUME NEW q \in AuthRequests, NEW s, s = reqs'[q].sid
        PROVE  /\ Refreshing(q)' /\ ~ LiveSession(s)
                   => sessions[s].status = "deleted" \/ Ends \cap reqs'[q].saw # {}
               /\ Presenting(q)' /\ sessions[s].reason # "no" => reqs'[q].saw # {}
    <3>1. CASE q = r  BY <1>3, <1>6, <2>1, <3>1 DEF SeesTruth, LiveSession
    <3>2. CASE q # r  BY <1>3, <1>5, <1>8, <2>1, <3>2 DEF RevocationIsSeen, Ends
    <3> QED  BY <3>1, <3>2
  <2> QED  BY <2>1 DEF RevocationIsSeen, Ends, LiveSession
<1>15. UserIsSeen'
  <2>1. \A q \in AuthRequests : q # r =>
            /\ reqs'[q].op \in {"login", "refresh_user"} => users[reqs'[q].user].active \/ "suspended" \in reqs'[q].saw
            /\ reqs'[q].op = "change" => reqs'[q].password = users[reqs'[q].user].password \/ "password" \in reqs'[q].saw
    BY <1>3, <1>8 DEF UserIsSeen
  <2>2. /\ request.op \in {"login", "refresh_user"} => users[request.user].active
        /\ request.op = "change" => request.password = users[request.user].password
    BY DEF SeesTruth
  <2> QED  BY <1>3, <2>1, <2>2 DEF UserIsSeen
<1> QED  BY <1>4, <1>8, <1>9, <1>10, <1>11, <1>12, <1>13, <1>14, <1>15 DEF AuthInv

LEMMA SignInKeepsInv ==
    ASSUME AuthTypeOK, AuthInv, NEW r \in AuthRequests, NEW u \in Users, NEW by, SignIn(r, u, by)
    PROVE  AuthTypeOK' /\ AuthInv'
<1> DEFINE request == [AuthIdle EXCEPT !.op = "login", !.user = u, !.password = users[u].password]
<1>1. users[u].password \in Nat  BY DEF AuthTypeOK, User
<1>2. /\ request \in Request /\ request.saw = {} /\ request.op = "login" /\ request.user = u
      /\ request.password = users[u].password
  BY <1>1, IdleTyped DEF AuthIdle, Request
<1>3. Begin(r, request) /\ users[u].active /\ UNCHANGED <<users, sessions, mails, writes, reset, halfReset>>
  BY DEF SignIn
<1> HIDE DEF request
<1>4. SeesTruth(request)  BY <1>2, <1>3 DEF SeesTruth
<1>5. mails' \in [Mails -> [kind : {"none", "stored", "spent"}, user : Users]]  BY <1>3 DEF AuthTypeOK
<1> QED  BY <1>2, <1>3, <1>4, <1>5, BeginKeepsInv

LEMMA TokenReadKeepsInv ==
    ASSUME AuthTypeOK, AuthInv, NEW r \in AuthRequests, NEW s \in Sids, RefreshRead(r, s) \/ LogoutRead(r, s)
    PROVE  AuthTypeOK' /\ AuthInv'
<1>1. LiveSession(s) /\ sessions[s].user \in Users /\ UNCHANGED <<users, sessions, mails, writes, reset, halfReset>>
  BY DEF RefreshRead, LogoutRead, MayRotate, LiveSession, AuthTypeOK, Session
<1>2. PICK op \in {"refresh", "logout"} : Begin(r, [AuthIdle EXCEPT !.op = op, !.user = sessions[s].user, !.sid = s])
  BY DEF RefreshRead, LogoutRead
<1> DEFINE request == [AuthIdle EXCEPT !.op = op, !.user = sessions[s].user, !.sid = s]
<1>3. /\ request \in Request /\ request.saw = {} /\ request.op = op /\ request.user = sessions[s].user
      /\ request.sid = s
  BY <1>1, IdleTyped DEF AuthIdle, Request
<1>4. Begin(r, request)  BY <1>2
<1> HIDE DEF request
<1>5. SeesTruth(request)  BY <1>1, <1>3 DEF SeesTruth
<1>6. mails' \in [Mails -> [kind : {"none", "stored", "spent"}, user : Users]]  BY <1>1 DEF AuthTypeOK
<1> QED  BY <1>1, <1>3, <1>4, <1>5, <1>6, BeginKeepsInv

LEMMA AdmitKeepsInv ==
    ASSUME AuthTypeOK, AuthInv, NEW r \in AuthRequests, NEW u \in Users,
           NEW op \in {"logout_all", "delete", "change"}, NEW given \in Nat, Admit(r, u, op, given)
    PROVE  AuthTypeOK' /\ AuthInv'
<1> DEFINE request == [AuthIdle EXCEPT !.op = op, !.user = u, !.password = users[u].password, !.given = given]
<1>1. users[u].password \in Nat  BY DEF AuthTypeOK, User
<1>2. /\ request \in Request /\ request.saw = {} /\ request.op = op /\ request.user = u
      /\ request.password = users[u].password
  BY <1>1, IdleTyped DEF AuthIdle, Request
<1>3. Begin(r, request) /\ UNCHANGED <<users, sessions, mails, writes, reset, halfReset>>  BY DEF Admit
<1> HIDE DEF request
<1>4. SeesTruth(request)  BY <1>2 DEF SeesTruth
<1>5. mails' \in [Mails -> [kind : {"none", "stored", "spent"}, user : Users]]  BY <1>3 DEF AuthTypeOK
<1> QED  BY <1>2, <1>3, <1>4, <1>5, BeginKeepsInv

\* Mail: a token is stored, or taken once.
LEMMA MailTyped ==
    ASSUME AuthTypeOK, NEW m \in Mails
    PROVE  /\ \A u \in Users : StoreToken(u, m)
                => mails' \in [Mails -> [kind : {"none", "stored", "spent"}, user : Users]]
           /\ ConsumeToken(m) => mails' \in [Mails -> [kind : {"none", "stored", "spent"}, user : Users]]
<1>1. mails \in [Mails -> [kind : {"none", "stored", "spent"}, user : Users]]  BY DEF AuthTypeOK
<1>2. \A u \in Users : StoreToken(u, m)
                => mails' \in [Mails -> [kind : {"none", "stored", "spent"}, user : Users]]
  BY <1>1 DEF StoreToken
<1>3. ASSUME ConsumeToken(m)
      PROVE  mails' \in [Mails -> [kind : {"none", "stored", "spent"}, user : Users]]
  BY <1>1, <1>3 DEF ConsumeToken
<1> QED  BY <1>2, <1>3

LEMMA ResetStartKeepsInv ==
    ASSUME AuthTypeOK, AuthInv, NEW r \in AuthRequests, NEW m \in Mails, ResetStart(r, m)
    PROVE  AuthTypeOK' /\ AuthInv'
<1> DEFINE request == [AuthIdle EXCEPT !.op = "reset", !.user = mails[m].user]
<1>1. mails' \in [Mails -> [kind : {"none", "stored", "spent"}, user : Users]]
  BY MailTyped DEF ResetStart
<1>2. mails[m].user \in Users  BY DEF AuthTypeOK
<1>3. UNCHANGED <<users, sessions, writes, reset, halfReset>>  BY DEF ResetStart
<1>4. CASE AccountUsable(mails[m].user)
  <2>1. request \in Request /\ request.saw = {} /\ request.op = "reset"
    BY <1>2, IdleTyped DEF AuthIdle, Request
  <2>2. Begin(r, request)  BY <1>4 DEF ResetStart
  <2> HIDE DEF request
  <2>3. SeesTruth(request)  BY <2>1 DEF SeesTruth
  <2> QED  BY <1>1, <1>3, <2>1, <2>2, <2>3, BeginKeepsInv
<1>5. CASE ~ AccountUsable(mails[m].user)
  <2>1. UNCHANGED <<reqs, begun>>  BY <1>5 DEF ResetStart
  <2>2. AuthTypeOK' /\ Fades  BY <1>1, <1>3, <2>1, MailsFade
  <2> QED  BY <2>2, FadeKeepsInv
<1> QED  BY <1>4, <1>5

-----------------------------------------------------------------------------
(* A row is inserted: the request that inserts it is done, and what it has   *)
(* seen is written into the row.                                             *)

\* No other row is of the family that s would found, and no request presents s.
LEMMA FreshIsUnknown ==
    ASSUME AuthTypeOK, AuthInv, NEW s \in Sids, Fresh(s)
    PROVE  /\ \A t \in Sids \ {s} : sessions[t].family # s
           /\ \A q \in AuthRequests : Presenting(q) => reqs[q].sid \in Sids \ {s}
<1>1. sessions[s].status = "none" /\ RowsAreLinked /\ TokenHasRow  BY DEF Fresh, AuthInv
<1>2. \A t \in Sids \ {s} : sessions[t].family # s  BY <1>1 DEF RowsAreLinked
<1>3. \A q \in AuthRequests : Presenting(q) => reqs[q].sid \in Sids \ {s}  BY <1>1 DEF TokenHasRow
<1> QED  BY <1>2, <1>3

OthersRemain(s) ==
    \A t \in Sids \ {s} :
        /\ sessions'[t].user = sessions[t].user /\ sessions'[t].family = sessions[t].family
        /\ sessions'[t].password = sessions[t].password /\ sessions'[t].saw = sessions[t].saw
        /\ sessions'[t].status = sessions[t].status
        /\ sessions[t].status = "none" => sessions'[t] = sessions[t]
        /\ LiveSession(t)' => LiveSession(t)

\* The new row s has a holder of its family only if one of the two was overtaken.
InsertedSoundly(s) ==
    /\ sessions'[s].status = "stored"
    /\ sessions'[s].family # s => sessions[sessions'[s].family].status # "none"
    /\ \A t \in Sids \ {s} :
            /\ LiveSession(t)' /\ sessions'[t].family = sessions'[s].family
            => "rotated" \in sessions'[s].saw \cup sessions'[t].saw
    /\ \A q \in AuthRequests :
            /\ Refreshing(q)' /\ sessions'[reqs'[q].sid].family = sessions'[s].family
            => "rotated" \in Seen(q)' \cup sessions'[s].saw
    /\ sessions'[s].password < reset[sessions'[s].user] => "cut" \in sessions'[s].saw \/ Cutting(sessions'[s].user)

LEMMA InsertKeepsInv ==
    ASSUME AuthTypeOK, AuthTypeOK', AuthInv, NEW s \in Sids, Fresh(s),
           OthersRemain(s), InsertedSoundly(s),
           NEW r \in AuthRequests, reqs'[r].op = "idle", reqs[r].op # "revoke",
           \A q \in AuthRequests \ {r} : Remains(q) /\ reqs'[q].op = reqs[q].op,
           \A q \in AuthRequests \ {r} : Presenting(q)
                => sessions'[reqs[q].sid] = sessions[reqs[q].sid] \/ "rotated" \in reqs'[q].saw,
           UNCHANGED <<users, writes, reset, halfReset>>
    PROVE  AuthInv'
<1>1. /\ \A t \in Sids \ {s} : sessions[t].family # s
      /\ \A q \in AuthRequests : Presenting(q) => reqs[q].sid \in Sids \ {s}
  BY FreshIsUnknown
<1>2. /\ RowsAreLinked /\ TokenHasRow /\ OneLivePerFamily /\ OneHolderPerFamily /\ ResetIsPassword
      /\ ResetEndsOldSessions /\ OldRequestsAreCut /\ RevocationIsSeen /\ UserIsSeen
  BY DEF AuthInv
<1>3. /\ \A t \in Sids : sessions[t].user \in Users /\ sessions'[t].user \in Users
      /\ \A t \in Sids : sessions[t].family \in Sids /\ sessions'[t].family \in Sids
      /\ \A q \in AuthRequests : reqs'[q].user \in Users
  BY DEF AuthTypeOK, Session, Request
<1>4. \A q \in AuthRequests :
        /\ Presenting(q)' => q # r /\ Presenting(q)
        /\ Refreshing(q)' => q # r /\ Refreshing(q) /\ Presenting(q)
  BY DEF Presenting, Refreshing
<1>5. ASSUME NEW q \in AuthRequests, Presenting(q)'
      PROVE  /\ q # r /\ Presenting(q) /\ reqs[q].sid \in Sids \ {s} /\ reqs'[q].sid = reqs[q].sid
             /\ reqs'[q].user = reqs[q].user /\ reqs[q].saw \subseteq reqs'[q].saw /\ Seen(q) \subseteq Seen(q)'
             /\ Refreshing(q)' => Refreshing(q)
  <2>1. q # r /\ Presenting(q) /\ reqs[q].sid \in Sids \ {s}  BY <1>1, <1>4, <1>5
  <2>2. /\ reqs'[q].sid = reqs[q].sid /\ reqs'[q].user = reqs[q].user /\ reqs[q].saw \subseteq reqs'[q].saw
    BY <2>1 DEF Remains
  <2>3. sessions'[reqs[q].sid].saw = sessions[reqs[q].sid].saw  BY <2>1 DEF OthersRemain
  <2>4. Seen(q) \subseteq Seen(q)'  BY <2>2, <2>3 DEF Seen
  <2> QED  BY <1>4, <2>1, <2>2, <2>4
<1>6. \A q \in AuthRequests : Refreshing(q)' => Presenting(q)'  BY DEF Presenting
<1>7. \A u \in Users : Cutting(u) => Cutting(u)'
  <2>1. ASSUME NEW u \in Users, NEW q \in AuthRequests, reqs[q].op = "revoke", reqs[q].user = u
        PROVE  Cutting(u)'
    <3>1. reqs'[q].op = "revoke" /\ reqs'[q].user = u  BY <2>1 DEF Remains
    <3> QED  BY <3>1 DEF Cutting
  <2> QED  BY <2>1 DEF Cutting
<1>8. RowsAreLinked'
  <2>2. sessions'[sessions'[s].family].status # "none" /\ sessions'[s].status = "stored"
    BY <1>3 DEF InsertedSoundly, OthersRemain
  <2>3. ASSUME NEW t \in Sids \ {s}
        PROVE  /\ sessions'[t].status = "none" => sessions'[t].reason = "no" /\ sessions'[t].family = t
               /\ sessions'[t].status # "none" => sessions'[sessions'[t].family].status # "none"
               /\ sessions'[t].status = "deleted" => ~ users'[sessions'[t].user].exists
    <3>1. sessions'[t].family \in Sids \ {s} /\ sessions'[t].family = sessions[t].family
      BY <1>1, <1>3 DEF OthersRemain
    <3> QED  BY <1>2, <3>1 DEF RowsAreLinked, OthersRemain
  <2> QED  BY <2>2, <2>3 DEF RowsAreLinked
<1>9. TokenHasRow'  BY <1>2, <1>5 DEF TokenHasRow, OthersRemain
<1>10. OneLivePerFamily'
  <2>1. ASSUME NEW a \in Sids \ {s}, NEW b \in Sids \ {s}, LiveSession(a)', LiveSession(b)', a # b,
               sessions'[a].family = sessions'[b].family
        PROVE  "rotated" \in sessions'[a].saw \cup sessions'[b].saw
    BY <1>2, <2>1 DEF OthersRemain, OneLivePerFamily
  <2>2. \A t \in Sids \ {s} : LiveSession(t)' /\ sessions'[t].family = sessions'[s].family
            => "rotated" \in sessions'[s].saw \cup sessions'[t].saw
    BY DEF InsertedSoundly
  <2> QED  BY <2>1, <2>2 DEF OneLivePerFamily
<1>11. OneHolderPerFamily'
  <2>1. ASSUME NEW q \in AuthRequests, NEW t \in Sids, Refreshing(q)', LiveSession(t)', reqs'[q].sid # t,
               sessions'[t].family = sessions'[reqs'[q].sid].family
        PROVE  "rotated" \in Seen(q)' \cup sessions'[t].saw
    <3>1. CASE t = s  BY <2>1, <3>1 DEF InsertedSoundly
    <3>2. CASE t # s
      <4>1. /\ Refreshing(q) /\ reqs[q].sid \in Sids \ {s} /\ reqs'[q].sid = reqs[q].sid
            /\ Seen(q) \subseteq Seen(q)'
        BY <1>5, <1>6, <2>1
      <4>2. /\ LiveSession(t) /\ sessions'[t].saw = sessions[t].saw
            /\ sessions[t].family = sessions[reqs[q].sid].family
        BY <2>1, <3>2, <4>1 DEF OthersRemain
      <4> QED  BY <1>2, <2>1, <4>1, <4>2 DEF OneHolderPerFamily
    <3> QED  BY <3>1, <3>2
  <2>2. ASSUME NEW q \in AuthRequests, NEW v \in AuthRequests, Refreshing(q)', Refreshing(v)',
               reqs'[q].sid # reqs'[v].sid, sessions'[reqs'[q].sid].family = sessions'[reqs'[v].sid].family
        PROVE  "rotated" \in Seen(q)' \cup Seen(v)'
    <3>1. /\ Refreshing(q) /\ reqs[q].sid \in Sids \ {s} /\ reqs'[q].sid = reqs[q].sid
          /\ Seen(q) \subseteq Seen(q)'
      BY <1>5, <1>6, <2>2
    <3>2. /\ Refreshing(v) /\ reqs[v].sid \in Sids \ {s} /\ reqs'[v].sid = reqs[v].sid
          /\ Seen(v) \subseteq Seen(v)'
      BY <1>5, <1>6, <2>2
    <3>3. sessions[reqs[q].sid].family = sessions[reqs[v].sid].family
      BY <2>2, <3>1, <3>2 DEF OthersRemain
    <3> QED  BY <1>2, <2>2, <3>1, <3>2, <3>3 DEF OneHolderPerFamily
  <2> QED  BY <2>1, <2>2 DEF OneHolderPerFamily
<1>12. ResetIsPassword'  BY <1>2 DEF ResetIsPassword
<1>13. ResetEndsOldSessions'
  <2>1. ASSUME NEW t \in Sids, NEW u \in Users, u = sessions'[t].user, LiveSession(t)',
               sessions'[t].password < reset[u]
        PROVE  "cut" \in sessions'[t].saw \/ Cutting(u)'
    <3>1. CASE t = s  BY <1>7, <2>1, <3>1 DEF InsertedSoundly
    <3>2. CASE t # s
      <4>1. /\ LiveSession(t) /\ sessions[t].user = u
            /\ sessions'[t].password = sessions[t].password /\ sessions'[t].saw = sessions[t].saw
        BY <2>1, <3>2 DEF OthersRemain
      <4> QED  BY <1>2, <1>7, <2>1, <4>1 DEF ResetEndsOldSessions, Cutting
    <3> QED  BY <3>1, <3>2
  <2> QED  BY <1>3, <2>1 DEF ResetEndsOldSessions, Cutting
<1>14. OldRequestsAreCut'
  <2>1. ASSUME NEW q \in AuthRequests, NEW u \in Users, u = reqs'[q].user, reqs'[q].op = "login",
               reqs'[q].password < reset[u]
        PROVE  "cut" \in reqs'[q].saw \/ Cutting(u)'
    <3>1. /\ reqs[q].op = "login" /\ reqs[q].user = u /\ reqs[q].password = reqs'[q].password
          /\ reqs[q].saw \subseteq reqs'[q].saw
      BY <2>1 DEF Remains
    <3> QED  BY <1>2, <1>7, <2>1, <3>1 DEF OldRequestsAreCut
  <2>2. ASSUME NEW q \in AuthRequests, NEW u \in Users, u = reqs'[q].user, Refreshing(q)',
               sessions'[reqs'[q].sid].password < reset[u]
        PROVE  "cut" \in Seen(q)' \/ Cutting(u)'
    <3>1. /\ Refreshing(q) /\ reqs[q].sid \in Sids \ {s} /\ reqs'[q].sid = reqs[q].sid
          /\ reqs[q].user = u /\ Seen(q) \subseteq Seen(q)'
      BY <1>5, <1>6, <2>2
    <3>2. sessions[reqs[q].sid].password < reset[u]  BY <2>2, <3>1 DEF OthersRemain
    <3> QED  BY <1>2, <1>7, <3>1, <3>2 DEF OldRequestsAreCut
  <2> QED  BY <1>3, <2>1, <2>2 DEF OldRequestsAreCut, Cutting
<1>15. RevocationIsSeen'
  <2>1. ASSUME NEW q \in AuthRequests, NEW t \in Sids, t = reqs'[q].sid, Presenting(q)'
        PROVE  /\ Refreshing(q)' /\ ~ LiveSession(t)'
                   => sessions'[t].status = "deleted" \/ Ends \cap reqs'[q].saw # {}
               /\ sessions'[t].reason # "no" => reqs'[q].saw # {}
    <3>1. /\ q # r /\ Presenting(q) /\ reqs[q].sid = t /\ reqs[q].saw \subseteq reqs'[q].saw
          /\ Refreshing(q)' => Refreshing(q)
      BY <1>5, <2>1
    <3>2. CASE sessions'[t] = sessions[t]  BY <1>2, <3>1, <3>2 DEF RevocationIsSeen, Ends, LiveSession
    <3>3. CASE "rotated" \in reqs'[q].saw  BY <3>3 DEF Ends
    <3> QED  BY <3>1, <3>2, <3>3
  <2>2. \A q \in AuthRequests : Presenting(q)' => reqs'[q].sid \in Sids  BY <1>5
  <2> QED  BY <1>6, <2>1, <2>2 DEF RevocationIsSeen, Ends, LiveSession
<1>16. UserIsSeen'
  <2>1. ASSUME NEW q \in AuthRequests, reqs'[q].op # "idle"
        PROVE  /\ reqs'[q].op = reqs[q].op /\ reqs'[q].user = reqs[q].user /\ reqs'[q].password = reqs[q].password
               /\ reqs[q].saw \subseteq reqs'[q].saw
    BY <2>1 DEF Remains
  <2> QED  BY <1>2, <2>1 DEF UserIsSeen
<1> QED  BY <1>8, <1>9, <1>10, <1>11, <1>12, <1>13, <1>14, <1>15, <1>16 DEF AuthInv

LEMMA CreateSessionKeepsInv ==
    ASSUME AuthTypeOK, AuthInv, NEW r \in AuthRequests, NEW s \in Sids, CreateSession(r, s)
    PROVE  AuthTypeOK' /\ AuthInv'
<1> DEFINE row == [NoSession(s) EXCEPT !.status = "stored", !.user = reqs[r].user,
                                       !.password = reqs[r].password, !.saw = reqs[r].saw]
<1>1. /\ reqs[r].op = "login" /\ Fresh(s) /\ users[reqs[r].user].exists
      /\ sessions' = [sessions EXCEPT ![s] = row]
      /\ reqs' = Done(r)
      /\ UNCHANGED <<users, mails, begun, writes, reset, halfReset>>
  BY DEF CreateSession
<1>2. reqs[r] \in Request /\ sessions \in [Sids -> Session]  BY DEF AuthTypeOK
<1>3. /\ row \in Session /\ row.status = "stored" /\ row.user = reqs[r].user /\ row.family = s
      /\ row.password = reqs[r].password /\ row.saw = reqs[r].saw
  BY <1>2, IdleTyped DEF Request, NoSession, Session
<1> HIDE DEF row
<1>4. sessions' \in [Sids -> Session] /\ sessions'[s] = row /\ \A t \in Sids \ {s} : sessions'[t] = sessions[t]
  BY <1>1, <1>2, <1>3
<1>5. /\ reqs' \in [AuthRequests -> Request] /\ reqs'[r].op = "idle"
      /\ \A q \in AuthRequests : q # r => reqs'[q] = reqs[q]
  BY <1>1, DoneFade
<1>6. AuthTypeOK'
  <2>1. \A t \in Sids : sessions'[t].status = "stored" => users'[sessions'[t].user].exists
    BY <1>1, <1>3, <1>4 DEF AuthTypeOK
  <2> QED  BY <1>1, <1>4, <1>5, <2>1 DEF AuthTypeOK
<1>7. /\ \A t \in Sids \ {s} : sessions[t].family # s
      /\ \A q \in AuthRequests : Presenting(q) => reqs[q].sid \in Sids \ {s}
  BY <1>1, FreshIsUnknown
<1>8. OthersRemain(s)  BY <1>4 DEF OthersRemain, LiveSession
<1>9. \A q \in AuthRequests : Refreshing(q)' => reqs'[q].sid \in Sids \ {s}
  BY <1>5, <1>7 DEF Refreshing, Presenting
<1>10. InsertedSoundly(s)
  <2>1. \A t \in Sids \ {s} : sessions'[t].family # sessions'[s].family  BY <1>3, <1>4, <1>7
  <2>2. reqs[r].password < reset[reqs[r].user] => "cut" \in reqs[r].saw \/ Cutting(reqs[r].user)
    BY <1>1 DEF AuthInv, OldRequestsAreCut
  <2> QED  BY <1>3, <1>4, <1>9, <2>1, <2>2 DEF InsertedSoundly
<1>11. \A q \in AuthRequests \ {r} : Remains(q) /\ reqs'[q].op = reqs[q].op  BY <1>5 DEF Remains
<1>12. \A q \in AuthRequests \ {r} : Presenting(q)
            => sessions'[reqs[q].sid] = sessions[reqs[q].sid] \/ "rotated" \in reqs'[q].saw
  BY <1>4, <1>7
<1> QED  BY <1>1, <1>5, <1>6, <1>8, <1>10, <1>11, <1>12, InsertKeepsInv

\* What a rotation writes: the presented row is revoked, its successor is of its family.
LEMMA RotationWrites ==
    ASSUME AuthTypeOK, AuthInv, NEW r \in AuthRequests, NEW s \in Sids, RefreshCommit(r, s),
           NEW old, old = reqs[r].sid
    PROVE  /\ old \in Sids \ {s} /\ sessions[old].user = reqs[r].user /\ sessions[old].status # "none"
           /\ sessions' \in [Sids -> Session]
           /\ sessions'[s].status = "stored" /\ sessions'[s].user = reqs[r].user
           /\ sessions'[s].family = sessions[old].family /\ sessions'[s].from = old
           /\ sessions'[s].password = sessions[old].password /\ sessions'[s].saw = Seen(r)
           /\ sessions'[old].reason = "rotated"
           /\ sessions'[old].user = sessions[old].user /\ sessions'[old].family = sessions[old].family
           /\ sessions'[old].password = sessions[old].password /\ sessions'[old].saw = sessions[old].saw
           /\ sessions'[old].status = sessions[old].status
           /\ \A t \in Sids \ {s, old} : sessions'[t] = sessions[t]
<1>1. /\ reqs[r].op = "refresh_user" /\ Fresh(s)
      /\ sessions' = [Rotate(old) EXCEPT ![s] = Successor(r, s)]
  BY DEF RefreshCommit
<1>2. reqs[r] \in Request /\ sessions \in [Sids -> Session]  BY DEF AuthTypeOK
<1>3. old \in Sids \ {s} /\ sessions[old].user = reqs[r].user /\ sessions[old].status # "none"
  BY <1>1, FreshIsUnknown DEF AuthInv, TokenHasRow, Presenting, Refreshing
<1>4. /\ Successor(r, s) \in Session
      /\ Successor(r, s).status = "stored" /\ Successor(r, s).user = reqs[r].user
      /\ Successor(r, s).family = sessions[old].family /\ Successor(r, s).from = old
      /\ Successor(r, s).password = sessions[old].password /\ Successor(r, s).saw = Seen(r)
  <2>1. sessions[old] \in Session  BY <1>2, <1>3
  <2> QED  BY <1>2, <1>3, <2>1, IdleTyped DEF Successor, NoSession, Session, Request, Seen
<1>5. "rotated" \in Reasons  BY DEF Reasons
<1>6. /\ Rotate(old) \in [Sids -> Session]
      /\ Rotate(old)[old].reason = "rotated"
      /\ Rotate(old)[old].user = sessions[old].user /\ Rotate(old)[old].family = sessions[old].family
      /\ Rotate(old)[old].password = sessions[old].password /\ Rotate(old)[old].saw = sessions[old].saw
      /\ Rotate(old)[old].status = sessions[old].status
      /\ \A t \in Sids \ {old} : Rotate(old)[t] = sessions[t]
  <2>1. old \in Sids \cap {old}  BY <1>3
  <2> QED  BY <1>2, <1>5, <2>1, RevokeRows DEF Rotate
<1>7. /\ sessions' \in [Sids -> Session] /\ sessions'[s] = Successor(r, s)
      /\ \A t \in Sids \ {s} : sessions'[t] = Rotate(old)[t]
  BY <1>1, <1>4, <1>6
<1> QED  BY <1>3, <1>4, <1>6, <1>7

LEMMA RefreshCommitKeepsInv ==
    ASSUME AuthTypeOK, AuthInv, NEW r \in AuthRequests, NEW s \in Sids, RefreshCommit(r, s)
    PROVE  AuthTypeOK' /\ AuthInv'
<1> DEFINE old == reqs[r].sid
<1>1. /\ reqs[r].op = "refresh_user" /\ Fresh(s) /\ users[reqs[r].user].exists
      /\ reqs' = Overtake(Using({old}) \ {r}, "rotated", Done(r))
      /\ UNCHANGED <<users, mails, begun, writes, reset, halfReset>>
  BY DEF RefreshCommit
<1>2. /\ old \in Sids \ {s} /\ sessions[old].user = reqs[r].user /\ sessions[old].status # "none"
      /\ sessions' \in [Sids -> Session]
      /\ sessions'[s].status = "stored" /\ sessions'[s].user = reqs[r].user
      /\ sessions'[s].family = sessions[old].family
      /\ sessions'[s].password = sessions[old].password /\ sessions'[s].saw = Seen(r)
      /\ sessions'[old].reason = "rotated"
      /\ sessions'[old].user = sessions[old].user /\ sessions'[old].family = sessions[old].family
      /\ sessions'[old].password = sessions[old].password /\ sessions'[old].saw = sessions[old].saw
      /\ sessions'[old].status = sessions[old].status
      /\ \A t \in Sids \ {s, old} : sessions'[t] = sessions[t]
  BY RotationWrites
<1>3. Refreshing(r) /\ Presenting(r)  BY <1>1 DEF Refreshing, Presenting
<1>4. \A q \in AuthRequests : reqs[q].op # "idle" /\ reqs[q].sid = old => q \in Using({old})
  BY DEF Using
<1> HIDE DEF old
<1>5. "rotated" \in Overtakings  BY DEF Overtakings
<1>6. /\ reqs' \in [AuthRequests -> Request] /\ RequestsFade /\ reqs'[r].op = "idle"
      /\ \A q \in AuthRequests \ {r} :
            /\ reqs'[q].op = reqs[q].op /\ reqs'[q].user = reqs[q].user
            /\ q \in Using({old}) => "rotated" \in reqs'[q].saw
  BY <1>1, <1>5, DoneToldFade, ZenonT(60)
<1>7. \A q \in AuthRequests \ {r} : Remains(q) /\ reqs'[q].op = reqs[q].op
  <2>1. /\ Done(r) \in [AuthRequests -> Request]
        /\ \A q \in AuthRequests \ {r} : Done(r)[q] = reqs[q]
    BY DoneRequests DEF AuthTypeOK
  <2>2. \A q \in AuthRequests \ (Using({old}) \ {r}) : reqs'[q] = Done(r)[q]  BY <1>1 DEF Overtake
  <2>3. \A q \in AuthRequests \cap (Using({old}) \ {r}) : IsTold(reqs'[q], Done(r)[q], "rotated")
    BY <1>1, <1>5, <2>1, OvertakeRequests
  <2> QED  BY <2>1, <2>2, <2>3 DEF Remains, IsTold
<1>8. AuthTypeOK'
  <2>1. ASSUME NEW t \in Sids, sessions'[t].status = "stored"
        PROVE  users[sessions'[t].user].exists
    <3>1. CASE t = s  BY <1>1, <1>2, <3>1
    <3>2. CASE t # s
      <4>1. sessions[t].status = "stored" /\ sessions'[t].user = sessions[t].user  BY <1>2, <2>1, <3>2
      <4> QED  BY <4>1 DEF AuthTypeOK
    <3> QED  BY <3>1, <3>2
  <2> QED  BY <1>1, <1>2, <1>6, <2>1 DEF AuthTypeOK
<1>9. OthersRemain(s)
  <2> SUFFICES ASSUME NEW t \in Sids \ {s}
               PROVE  /\ sessions'[t].user = sessions[t].user /\ sessions'[t].family = sessions[t].family
                      /\ sessions'[t].password = sessions[t].password /\ sessions'[t].saw = sessions[t].saw
                      /\ sessions'[t].status = sessions[t].status
                      /\ sessions[t].status = "none" => sessions'[t] = sessions[t]
                      /\ LiveSession(t)' => LiveSession(t)
    BY DEF OthersRemain
  <2>1. CASE t = old  BY <1>2, <2>1 DEF LiveSession
  <2>2. CASE t # old  BY <1>2, <2>2 DEF LiveSession
  <2> QED  BY <2>1, <2>2
<1>10. /\ OneHolderPerFamily /\ OldRequestsAreCut /\ RowsAreLinked
  BY DEF AuthInv
<1>11. ASSUME NEW q \in AuthRequests, Refreshing(q)'
       PROVE  /\ q # r /\ Refreshing(q) /\ reqs[q].sid \in Sids \ {s} /\ reqs'[q].sid = reqs[q].sid
              /\ Seen(q) \subseteq Seen(q)'
  <2>1. q # r  BY <1>6, <1>11 DEF Refreshing
  <2>2. Refreshing(q) /\ Presenting(q)  BY <1>7, <1>11, <2>1 DEF Refreshing, Presenting
  <2>3. reqs[q].sid \in Sids \ {s} /\ reqs'[q].sid = reqs[q].sid /\ reqs[q].saw \subseteq reqs'[q].saw
    BY <1>1, <1>7, <2>1, <2>2, FreshIsUnknown DEF Remains
  <2>4. sessions'[reqs[q].sid].saw = sessions[reqs[q].sid].saw  BY <1>9, <2>3 DEF OthersRemain
  <2> QED  BY <2>1, <2>2, <2>3, <2>4 DEF Seen
<1>12. InsertedSoundly(s)
  <2>1. sessions[sessions'[s].family].status # "none"  BY <1>2, <1>10 DEF RowsAreLinked
  <2>2. ASSUME NEW t \in Sids \ {s}, LiveSession(t)', sessions'[t].family = sessions'[s].family
        PROVE  "rotated" \in sessions'[s].saw \cup sessions'[t].saw
    <3>1. t # old  BY <1>2, <2>2 DEF LiveSession
    <3>2. sessions'[t] = sessions[t] /\ LiveSession(t) /\ sessions[t].family = sessions[old].family
      BY <1>2, <2>2, <3>1 DEF LiveSession
    <3> QED  BY <1>2, <1>3, <1>10, <3>1, <3>2 DEF OneHolderPerFamily, old
  <2>3. ASSUME NEW q \in AuthRequests, Refreshing(q)', sessions'[reqs'[q].sid].family = sessions'[s].family
        PROVE  "rotated" \in Seen(q)' \cup sessions'[s].saw
    <3>1. /\ q # r /\ Refreshing(q) /\ reqs[q].sid \in Sids \ {s} /\ reqs'[q].sid = reqs[q].sid
          /\ Seen(q) \subseteq Seen(q)'
      BY <1>11, <2>3
    <3>2. CASE reqs[q].sid = old
      <4>1. "rotated" \in reqs'[q].saw  BY <1>4, <1>6, <3>1, <3>2 DEF Refreshing
      <4> QED  BY <4>1 DEF Seen
    <3>3. CASE reqs[q].sid # old
      <4>1. sessions[reqs[q].sid].family = sessions[old].family
        BY <1>2, <1>9, <2>3, <3>1 DEF OthersRemain
      <4>2. "rotated" \in Seen(r) \cup Seen(q)
        BY <1>3, <1>10, <3>1, <3>3, <4>1 DEF OneHolderPerFamily, old
      <4> QED  BY <1>2, <3>1, <4>2
    <3> QED  BY <3>2, <3>3
  <2>4. sessions'[s].password < reset[sessions'[s].user] => "cut" \in sessions'[s].saw \/ Cutting(sessions'[s].user)
    BY <1>2, <1>3, <1>10 DEF OldRequestsAreCut, old
  <2> QED  BY <1>2, <2>1, <2>2, <2>3, <2>4 DEF InsertedSoundly
<1>13. \A q \in AuthRequests \ {r} : Presenting(q)
            => sessions'[reqs[q].sid] = sessions[reqs[q].sid] \/ "rotated" \in reqs'[q].saw
  <2>1. ASSUME NEW q \in AuthRequests \ {r}, Presenting(q)
        PROVE  sessions'[reqs[q].sid] = sessions[reqs[q].sid] \/ "rotated" \in reqs'[q].saw
    <3>1. reqs[q].sid \in Sids \ {s} /\ reqs[q].op # "idle"
      BY <1>1, <2>1, FreshIsUnknown DEF Presenting, Refreshing
    <3> QED  BY <1>2, <1>4, <1>6, <3>1
  <2> QED  BY <2>1
<1> QED  BY <1>1, <1>6, <1>7, <1>8, <1>9, <1>12, <1>13, InsertKeepsInv

-----------------------------------------------------------------------------
(* The theorems.                                                             *)

LEMMA InitHolds ==
    ASSUME AuthInit
    PROVE  AuthTypeOK /\ AuthInv
<1>1. /\ users \in [Users -> [exists : {TRUE}, active : {TRUE}, password : {0, 1}]]
      /\ sessions = [s \in Sids |-> NoSession(s)] /\ mails = [m \in Mails |-> NotMailed]
      /\ reqs = [r \in AuthRequests |-> AuthIdle]
      /\ begun = 0 /\ writes = 1 /\ reset = [u \in Users |-> 0] /\ halfReset = {}
  BY DEF AuthInit
<1>2. \A s \in Sids : /\ sessions[s] \in Session /\ sessions[s].status = "none"
                      /\ sessions[s].reason = "no" /\ sessions[s].family = s
  BY <1>1, IdleTyped DEF NoSession
<1>3. \A r \in AuthRequests : reqs[r] \in Request /\ reqs[r].op = "idle"
  BY <1>1, IdleTyped DEF AuthIdle
<1>4. \A u \in Users : users[u] \in User /\ reset[u] = 0 /\ users[u].password \in {0, 1}
  <2>1. \A u \in Users : users[u] \in [exists : {TRUE}, active : {TRUE}, password : {0, 1}] /\ reset[u] = 0
    BY <1>1
  <2>2. ASSUME NEW row \in [exists : {TRUE}, active : {TRUE}, password : {0, 1}]
        PROVE  row \in User /\ row.password \in {0, 1}
    <3>1. row = [exists |-> TRUE, active |-> TRUE, password |-> row.password] /\ row.password \in {0, 1}
      OBVIOUS
    <3>2. [exists |-> TRUE, active |-> TRUE, password |-> row.password] \in User  BY <3>1 DEF User
    <3> QED  BY <3>1, <3>2
  <2> QED  BY <2>1, <2>2
<1>5. NotMailed \in [kind : {"none", "stored", "spent"}, user : Users]  BY Constants DEF NotMailed
<1>6. AuthTypeOK
  <2>1. users \in [Users -> User] /\ sessions \in [Sids -> Session] /\ reqs \in [AuthRequests -> Request]
    BY <1>1, <1>2, <1>3, <1>4
  <2>2. begun \in 0 .. MaxAuthRequests  BY <1>1, AuthAssumption
  <2> QED  BY <1>1, <1>2, <1>5, <2>1, <2>2 DEF AuthTypeOK
<1>7. \A r \in AuthRequests : ~ Refreshing(r) /\ ~ Presenting(r)  BY <1>3 DEF Refreshing, Presenting
<1>8. \A s \in Sids : ~ LiveSession(s)  BY <1>2 DEF LiveSession
<1>9. ResetIsPassword  BY <1>1, <1>4 DEF ResetIsPassword
<1>10. OldRequestsAreCut /\ RevocationIsSeen /\ UserIsSeen
  BY <1>3, <1>7 DEF OldRequestsAreCut, RevocationIsSeen, UserIsSeen
<1>11. RowsAreLinked /\ TokenHasRow /\ OneLivePerFamily /\ OneHolderPerFamily /\ ResetEndsOldSessions
  BY <1>2, <1>7, <1>8 DEF RowsAreLinked, TokenHasRow, OneLivePerFamily, OneHolderPerFamily, ResetEndsOldSessions
<1> QED  BY <1>6, <1>9, <1>10, <1>11 DEF AuthInv

\* What a step is: things fade, a request is begun, or a row is inserted.
Begins == AuthTypeOK' /\ AuthInv' /\ sessions' = sessions /\ users' = users

Inserts == \E r \in AuthRequests, s \in Sids : CreateSession(r, s) \/ RefreshCommit(r, s)

LEMMA StepKinds ==
    ASSUME AuthTypeOK, AuthInv, AuthNext
    PROVE  (AuthTypeOK' /\ Fades) \/ Begins \/ Inserts
<1>1. CASE \E r \in AuthRequests, u \in Users, by \in {"password", "provider"} : SignIn(r, u, by)
  <2>1. PICK r \in AuthRequests, u \in Users, by \in {"password", "provider"} : SignIn(r, u, by)
    BY <1>1
  <2>2. sessions' = sessions /\ users' = users  BY <2>1 DEF SignIn
  <2> QED  BY <2>1, <2>2, SignInKeepsInv DEF Begins
<1>2. CASE \E r \in AuthRequests, u \in Users, op \in {"logout_all", "delete"} : Admit(r, u, op, 0)
  <2>1. PICK r \in AuthRequests, u \in Users, op \in {"logout_all", "delete"} : Admit(r, u, op, 0)
    BY <1>2
  <2>2. sessions' = sessions /\ users' = users /\ op \in {"logout_all", "delete", "change"} /\ 0 \in Nat
    BY <2>1 DEF Admit
  <2> QED  BY <2>1, <2>2, AdmitKeepsInv DEF Begins
<1>3. CASE \E r \in AuthRequests, u \in Users, given \in 0 .. MaxWrites : Admit(r, u, "change", given)
  <2>1. PICK r \in AuthRequests, u \in Users, given \in 0 .. MaxWrites : Admit(r, u, "change", given)
    BY <1>3
  <2>2. sessions' = sessions /\ users' = users /\ "change" \in {"logout_all", "delete", "change"}
    BY <2>1 DEF Admit
  <2>3. given \in Nat  BY AuthAssumption
  <2> QED  BY <2>1, <2>2, <2>3, AdmitKeepsInv DEF Begins
<1>4. CASE \E r \in AuthRequests, s \in Sids :
            CreateSession(r, s) \/ RefreshRead(r, s) \/ RefreshCommit(r, s) \/ LogoutRead(r, s)
  <2>1. PICK r \in AuthRequests, s \in Sids :
            CreateSession(r, s) \/ RefreshRead(r, s) \/ RefreshCommit(r, s) \/ LogoutRead(r, s)
    BY <1>4
  <2>2. CASE RefreshRead(r, s) \/ LogoutRead(r, s)
    <3>1. sessions' = sessions /\ users' = users  BY <2>2 DEF RefreshRead, LogoutRead
    <3> QED  BY <2>2, <3>1, TokenReadKeepsInv DEF Begins
  <2>3. CASE CreateSession(r, s) \/ RefreshCommit(r, s)  BY <2>3 DEF Inserts
  <2> QED  BY <2>1, <2>2, <2>3
<1>5. CASE \E r \in AuthRequests :
            RefreshUser(r) \/ LogoutCommit(r) \/ LogoutAll(r) \/ ChangePassword(r) \/ DeleteAccount(r)
  <2>1. PICK r \in AuthRequests :
            RefreshUser(r) \/ LogoutCommit(r) \/ LogoutAll(r) \/ ChangePassword(r) \/ DeleteAccount(r)
    BY <1>5
  <2>2. CASE RefreshUser(r)  BY <2>2, RefreshUserFades
  <2>3. CASE LogoutCommit(r)  BY <2>3, LogoutCommitFades
  <2>4. CASE LogoutAll(r)  BY <2>4, LogoutAllFades
  <2>5. CASE ChangePassword(r)  BY <2>5, ChangePasswordFades
  <2>6. CASE DeleteAccount(r)  BY <2>6, DeleteAccountFades
  <2> QED  BY <2>1, <2>2, <2>3, <2>4, <2>5, <2>6
<1>6. CASE \E r \in AuthRequests : ResetPassword(r) \/ ResetRevoke(r) \/ AuthFail(r)
  <2>1. PICK r \in AuthRequests : ResetPassword(r) \/ ResetRevoke(r) \/ AuthFail(r)  BY <1>6
  <2>2. CASE ResetPassword(r)  BY <2>2, ResetPasswordFades
  <2>3. CASE ResetRevoke(r)  BY <2>3, LogoutAllFades
  <2>4. CASE AuthFail(r)  BY <2>4, AuthFailFades
  <2> QED  BY <2>1, <2>2, <2>3, <2>4
<1>7. CASE \E r \in AuthRequests, m \in Mails : ResetStart(r, m)
  <2>1. PICK r \in AuthRequests, m \in Mails : ResetStart(r, m)  BY <1>7
  <2>2. sessions' = sessions /\ users' = users  BY <2>1 DEF ResetStart
  <2> QED  BY <2>1, <2>2, ResetStartKeepsInv DEF Begins
<1>8. CASE \E u \in Users, m \in Mails : ForgotPassword(u, m)
  <2>1. PICK u \in Users, m \in Mails : ForgotPassword(u, m)  BY <1>8
  <2>2. /\ mails' \in [Mails -> [kind : {"none", "stored", "spent"}, user : Users]]
        /\ UNCHANGED <<users, sessions, reqs, begun, writes, reset, halfReset>>
    BY <2>1, MailTyped DEF ForgotPassword
  <2> QED  BY <2>2, MailsFade
<1>9. CASE \E s \in Sids : RefreshReuse(s) \/ Expire(s)  BY <1>9, RefreshReuseFades, ExpireFades
<1>10. CASE \E u \in Users : SuspendUser(u) \/ ActivateUser(u)
  BY <1>10, SuspendUserFades, ActivateUserFades
<1> QED  BY <1>1, <1>2, <1>3, <1>4, <1>5, <1>6, <1>7, <1>8, <1>9, <1>10 DEF AuthNext

LEMMA StepKeepsInv ==
    ASSUME AuthTypeOK, AuthInv, [AuthNext]_authVars
    PROVE  AuthTypeOK' /\ AuthInv'
<1>1. CASE AuthNext
  <2>1. CASE AuthTypeOK' /\ Fades  BY <2>1, FadeKeepsInv
  <2>2. CASE Begins  BY <2>2 DEF Begins
  <2>3. CASE Inserts  BY <2>3, CreateSessionKeepsInv, RefreshCommitKeepsInv DEF Inserts
  <2> QED  BY <1>1, <2>1, <2>2, <2>3, StepKinds
<1>2. CASE UNCHANGED authVars
  <2>1. AuthTypeOK'  BY <1>2 DEF authVars, AuthTypeOK
  <2>2. /\ UNCHANGED reqs
        /\ UNCHANGED <<users, sessions, mails, begun, writes, reset, halfReset>>
    BY <1>2 DEF authVars
  <2>3. mails' \in [Mails -> [kind : {"none", "stored", "spent"}, user : Users]]  BY <2>1 DEF AuthTypeOK
  <2>4. AuthTypeOK' /\ Fades  BY <2>2, <2>3, MailsFade
  <2> QED  BY <2>4, FadeKeepsInv
<1> QED  BY <1>1, <1>2

\* The tables and the requests keep their types, and a stored session has its user.
THEOREM AuthTypeCorrect == AuthSpec => []AuthTypeOK
<1>1. AuthInit => AuthTypeOK /\ AuthInv  BY InitHolds
<1>2. (AuthTypeOK /\ AuthInv) /\ [AuthNext]_authVars => (AuthTypeOK /\ AuthInv)'  BY StepKeepsInv
<1> QED  BY <1>1, <1>2, PTL DEF AuthSpec

\* The inductive invariant: who presents a token, or is about to insert a row, has been
\* told of whatever overtook it.
THEOREM AuthInvariant == AuthSpec => [](AuthTypeOK /\ AuthInv)
<1>1. AuthInit => AuthTypeOK /\ AuthInv  BY InitHolds
<1>2. (AuthTypeOK /\ AuthInv) /\ [AuthNext]_authVars => (AuthTypeOK /\ AuthInv)'  BY StepKeepsInv
<1> QED  BY <1>1, <1>2, PTL DEF AuthSpec

\* A family has one live session, and a reset ends the sessions older than its password,
\* but for the requests that were under way (refresh, reset_password).
THEOREM SessionsAlwaysHold == AuthSpec => []SessionsHold
<1>1. AuthInv => SessionsHold  BY DEF AuthInv, SessionsHold
<1> QED  BY <1>1, AuthInvariant, PTL

-----------------------------------------------------------------------------
(* What a step may do to a session, a suspended account or a password.       *)

\* Only a sign-in and a rotation insert a row.
LEMMA InsertingSteps ==
    ASSUME AuthTypeOK, AuthInv, [AuthNext]_authVars, NEW s \in Sids, Inserted(s)
    PROVE  \E r \in AuthRequests : CreateSession(r, s) \/ RefreshCommit(r, s)
<1>1. AuthNext  BY DEF authVars, Inserted
<1>2. ~ Fades  BY DEF Fades, RowsFade, Inserted
<1>3. ~ Begins  BY DEF Begins, Inserted
<1>4. PICK r \in AuthRequests, t \in Sids : CreateSession(r, t) \/ RefreshCommit(r, t)
  BY <1>1, <1>2, <1>3, StepKinds DEF Inserts
<1>5. CASE CreateSession(r, t)
  <2>1. t = s  BY <1>5 DEF CreateSession, Inserted, AuthTypeOK
  <2> QED  BY <1>5, <2>1
<1>6. CASE RefreshCommit(r, t)
  <2>1. PICK old : old = reqs[r].sid  OBVIOUS
  <2>2. sessions[old].status # "none" /\ \A x \in Sids \ {t, old} : sessions'[x] = sessions[x]
    BY <1>6, <2>1, RotationWrites
  <2>3. t = s  BY <2>2 DEF Inserted
  <2> QED  BY <1>6, <2>3
<1> QED  BY <1>4, <1>5, <1>6

LEMMA InsertedRow ==
    ASSUME AuthTypeOK, AuthInv, NEW r \in AuthRequests, NEW s \in Sids, CreateSession(r, s)
    PROVE  sessions'[s].user = reqs[r].user /\ sessions'[s].from = NoSid /\ reqs'[r].op = "idle"
<1>1. /\ sessions' = [sessions EXCEPT ![s] = [NoSession(s) EXCEPT !.status = "stored", !.user = reqs[r].user,
                                                    !.password = reqs[r].password, !.saw = reqs[r].saw]]
      /\ reqs' = Done(r)
  BY DEF CreateSession
<1>2. sessions \in [Sids -> Session]  BY DEF AuthTypeOK
<1>3. reqs'[r].op = "idle"  BY <1>1, DoneFade
<1> QED  BY <1>1, <1>2, <1>3 DEF NoSession

LEMMA RotationEnds ==
    ASSUME AuthTypeOK, NEW r \in AuthRequests, NEW s \in Sids, RefreshCommit(r, s)
    PROVE  reqs'[r].op = "idle"
<1>1. reqs' = Overtake(Using({reqs[r].sid}) \ {r}, "rotated", Done(r))  BY DEF RefreshCommit
<1>2. "rotated" \in Overtakings  BY DEF Overtakings
<1> QED  BY <1>1, <1>2, DoneToldFade

LEMMA EndedFamilyStep ==
    ASSUME AuthTypeOK, AuthInv, [AuthNext]_authVars, NEW s \in Sids,
           Inserted(s), sessions'[s].from # NoSid,
           \A t \in Sids : sessions[t].family = sessions'[s].family => ~ LiveSession(t)
    PROVE  {"rotated", "revoked", "cut"} \cap sessions'[s].saw # {}
<1>1. PICK r \in AuthRequests : RefreshCommit(r, s)  BY InsertingSteps, InsertedRow
<1>2. PICK old : old = reqs[r].sid  OBVIOUS
<1>3. /\ old \in Sids /\ sessions[old].user = reqs[r].user
      /\ sessions'[s].family = sessions[old].family /\ sessions'[s].saw = Seen(r)
  BY <1>1, <1>2, RotationWrites
<1>4. ~ LiveSession(old)  BY <1>3
<1>5. Refreshing(r) /\ users[reqs[r].user].exists  BY <1>1 DEF RefreshCommit, Refreshing
<1>6. sessions[old].status # "deleted"  BY <1>3, <1>5 DEF AuthInv, RowsAreLinked
<1>7. {"rotated", "revoked", "cut"} \cap reqs[r].saw # {}
  BY <1>2, <1>4, <1>5, <1>6 DEF AuthInv, RevocationIsSeen
<1> QED  BY <1>3, <1>7 DEF Seen

LEMMA SuspendedStep ==
    ASSUME AuthTypeOK, AuthInv, [AuthNext]_authVars, NEW s \in Sids,
           Inserted(s), ~ users[sessions'[s].user].active
    PROVE  \E r \in AuthRequests : /\ reqs[r].user = sessions'[s].user /\ "suspended" \in reqs[r].saw
                                   /\ reqs[r].op \in {"login", "refresh_user"} /\ reqs'[r].op = "idle"
<1>1. PICK r \in AuthRequests : CreateSession(r, s) \/ RefreshCommit(r, s)  BY InsertingSteps
<1>2. sessions'[s].user = reqs[r].user /\ reqs'[r].op = "idle"
  BY <1>1, InsertedRow, RotationWrites, RotationEnds
<1>3. reqs[r].op \in {"login", "refresh_user"}  BY <1>1 DEF CreateSession, RefreshCommit
<1>4. "suspended" \in reqs[r].saw  BY <1>2, <1>3 DEF AuthInv, UserIsSeen
<1> QED  BY <1>2, <1>3, <1>4

\* What is revoked in one of these steps was not revoked before.
LEMMA RevokesUnrevoked ==
    ASSUME AuthTypeOK, NEW S, NEW reason \in Reasons, sessions' = Revoke(S, reason),
           NEW t \in Sids, t \in S => sessions[t].reason = "no", sessions[t].reason # "no"
    PROVE  sessions'[t].reason = sessions[t].reason
<1>1. t \in Sids \ S  OBVIOUS
<1> QED  BY <1>1, RevokeRows DEF AuthTypeOK

LEMMA ReasonStep ==
    ASSUME AuthTypeOK, AuthInv, [AuthNext]_authVars, NEW s \in Sids,
           sessions[s].reason # "no", sessions'[s].reason # sessions[s].reason
    PROVE  \E r \in AuthRequests : /\ reqs[r].sid = s /\ reqs[r].op \in {"refresh_user", "logout"}
                                   /\ reqs[r].saw # {} /\ reqs'[r].op = "idle"
<1>1. AuthNext /\ sessions' # sessions  BY DEF authVars
<1>2. ASSUME NEW r \in AuthRequests, LogoutCommit(r)
      PROVE  reqs[r].sid = s /\ reqs[r].op = "logout" /\ reqs[r].saw # {} /\ reqs'[r].op = "idle"
  <2>1. reqs[r].op = "logout" /\ reqs' = Overtake(Using({reqs[r].sid}) \ {r}, "revoked", Done(r))
    BY <1>2 DEF LogoutCommit
  <2>2. "revoked" \in Overtakings /\ "logout" \in Reasons  BY DEF Overtakings, Reasons
  <2>3. reqs'[r].op = "idle"  BY <2>1, <2>2, DoneToldFade
  <2>4. sessions' = Revoke({reqs[r].sid}, "logout")  BY <1>1, <1>2 DEF LogoutCommit
  <2>5. reqs[r].sid = s  BY <2>2, <2>4, RevokesUnrevoked
  <2>6. reqs[r].saw # {}  BY <2>1, <2>5 DEF AuthInv, RevocationIsSeen, Presenting
  <2> QED  BY <2>1, <2>3, <2>5, <2>6
<1>3. ASSUME NEW r \in AuthRequests, NEW t \in Sids, RefreshCommit(r, t)
      PROVE  reqs[r].sid = s /\ reqs[r].op = "refresh_user" /\ reqs[r].saw # {} /\ reqs'[r].op = "idle"
  <2>1. reqs[r].op = "refresh_user" /\ Fresh(t)  BY <1>3 DEF RefreshCommit
  <2>2. PICK old : old = reqs[r].sid  OBVIOUS
  <2>3. \A x \in Sids \ {t, old} : sessions'[x] = sessions[x]  BY <1>3, <2>2, RotationWrites
  <2>4. s # t  BY <2>1 DEF AuthInv, RowsAreLinked, Fresh
  <2>5. reqs[r].sid = s  BY <2>2, <2>3, <2>4
  <2>6. reqs[r].saw # {}  BY <2>1, <2>5 DEF AuthInv, RevocationIsSeen, Presenting, Refreshing
  <2> QED  BY <1>3, <2>1, <2>5, <2>6, RotationEnds
<1>4. ASSUME NEW r \in AuthRequests, NEW t \in Sids, CreateSession(r, t)
      PROVE  FALSE
  <2>1. sessions[t].reason = "no" /\ \A x \in Sids : x # t => sessions'[x] = sessions[x]
    BY <1>4 DEF CreateSession, Fresh, AuthInv, RowsAreLinked, AuthTypeOK
  <2> QED  BY <2>1
<1>5. ASSUME NEW r \in AuthRequests, LogoutAll(r) \/ ResetRevoke(r)
      PROVE  FALSE
  <2>1. sessions' = Revoke(LiveOf(reqs[r].user), "logout_all") /\ "logout_all" \in Reasons
    BY <1>5 DEF LogoutAll, ResetRevoke, ResetRevokes, Reasons
  <2>2. s \in LiveOf(reqs[r].user) => sessions[s].reason = "no"  BY DEF LiveOf, LiveSession
  <2> QED  BY <2>1, <2>2, RevokesUnrevoked
<1>6. ASSUME NEW t \in Sids, RefreshReuse(t)
      PROVE  FALSE
  <2>1. sessions' = Revoke(Family(t), "family_invalidated") /\ "family_invalidated" \in Reasons
    BY <1>6 DEF RefreshReuse, Reasons
  <2>2. s \in Family(t) => sessions[s].reason = "no"  BY DEF Family, UnrevokedOf
  <2> QED  BY <2>1, <2>2, RevokesUnrevoked
<1>7. ASSUME NEW t \in Sids, Expire(t)
      PROVE  FALSE
  <2>1. sessions' = [sessions EXCEPT ![t].expired = TRUE] /\ sessions[t] \in Session
    BY <1>7 DEF Expire, AuthTypeOK
  <2>2. sessions \in [Sids -> Session]  BY DEF AuthTypeOK
  <2>3. s = t /\ sessions'[t] = [sessions[t] EXCEPT !.expired = TRUE]  BY <2>1, <2>2
  <2> QED  BY <2>1, <2>3 DEF Session
<1>8. ASSUME NEW r \in AuthRequests, DeleteAccount(r)
      PROVE  FALSE
  <2>1. sessions[s] \in Session  BY DEF AuthTypeOK
  <2>2. sessions'[s] = sessions[s] \/ sessions'[s] = [sessions[s] EXCEPT !.status = "deleted"]
    BY <1>8, SMTT(30) DEF DeleteAccount
  <2> QED  BY <2>1, <2>2 DEF Session
<1>9. \/ \E r \in AuthRequests, t \in Sids : CreateSession(r, t) \/ RefreshCommit(r, t)
      \/ \E r \in AuthRequests : LogoutCommit(r) \/ LogoutAll(r) \/ DeleteAccount(r) \/ ResetRevoke(r)
      \/ \E t \in Sids : RefreshReuse(t) \/ Expire(t)
  BY <1>1 DEF AuthNext, SignIn, Admit, RefreshRead, LogoutRead, RefreshUser, ChangePassword,
              ResetPassword, AuthFail, ResetStart, ForgotPassword, SuspendUser, ActivateUser
<1> QED  BY <1>2, <1>3, <1>4, <1>5, <1>6, <1>7, <1>8, <1>9

LEMMA PasswordStep ==
    ASSUME AuthTypeOK, AuthInv, [AuthNext]_authVars, NEW u \in Users, users'[u].password # users[u].password
    PROVE  \E r \in AuthRequests :
            /\ reqs[r].user = u
            /\ \/ reqs[r].op = "reset"
               \/ /\ reqs[r].op = "change"
                  /\ reqs[r].given = users[u].password \/ "password" \in reqs[r].saw
<1>1. AuthNext /\ users' # users  BY DEF authVars
<1>2. users \in [Users -> User] /\ users[u] \in User  BY DEF AuthTypeOK
<1>3. ASSUME NEW r \in AuthRequests, ResetPassword(r)
      PROVE  reqs[r].user = u /\ reqs[r].op = "reset"
  BY <1>2, <1>3 DEF ResetPassword, WritePassword
<1>4. ASSUME NEW r \in AuthRequests, ChangePassword(r)
      PROVE  /\ reqs[r].user = u /\ reqs[r].op = "change"
             /\ reqs[r].given = users[u].password \/ "password" \in reqs[r].saw
  <2>1. reqs[r].user = u /\ reqs[r].op = "change" /\ reqs[r].given = reqs[r].password
    BY <1>2, <1>4 DEF ChangePassword, WritePassword, Verifies
  <2> QED  BY <2>1 DEF AuthInv, UserIsSeen
<1>5. ASSUME NEW v \in Users, SuspendUser(v) \/ ActivateUser(v)
      PROVE  FALSE
  <2>1. PICK b \in BOOLEAN : users' = [users EXCEPT ![v].active = b]
    BY <1>5 DEF SuspendUser, ActivateUser
  <2>2. users'[v].password = users[v].password /\ \A w \in Users : w # v => users'[w] = users[w]
    BY <1>2, <2>1, UserWritten
  <2> QED  BY <2>2
<1>6. ASSUME NEW r \in AuthRequests, DeleteAccount(r)
      PROVE  FALSE
  <2>1. PICK v \in Users : users' = [users EXCEPT ![v].exists = FALSE]
    BY <1>6 DEF DeleteAccount, AuthTypeOK, Request
  <2>2. FALSE \in BOOLEAN  OBVIOUS
  <2>3. users'[v].password = users[v].password /\ \A w \in Users : w # v => users'[w] = users[w]
    BY <1>2, <2>1, <2>2, UserWritten, SMTT(30)
  <2> QED  BY <2>3
<1>7. \/ \E r \in AuthRequests : ChangePassword(r) \/ ResetPassword(r) \/ DeleteAccount(r)
      \/ \E v \in Users : SuspendUser(v) \/ ActivateUser(v)
  BY <1>1 DEF AuthNext, SignIn, Admit, CreateSession, RefreshRead, RefreshCommit, LogoutRead, RefreshUser,
              LogoutCommit, LogoutAll, ResetRevoke, AuthFail, ResetStart, ForgotPassword, RefreshReuse, Expire
<1> QED  BY <1>3, <1>4, <1>5, <1>6, <1>7

\* What revokes a session, bars its owner or replaces a password is undone only by a
\* request that had looked before (AuthService.refresh, logout, change_password).
THEOREM AccessIsKept == AuthSpec => AccessHolds
<1>1. (AuthTypeOK /\ AuthInv) /\ [AuthNext]_authVars
      => [\A s \in Sids :
            /\ Inserted(s) /\ sessions'[s].from # NoSid
            /\ \A t \in Sids : sessions[t].family = sessions'[s].family => ~ LiveSession(t)
            => {"rotated", "revoked", "cut"} \cap sessions'[s].saw # {}]_authVars
  BY EndedFamilyStep
<1>2. (AuthTypeOK /\ AuthInv) /\ [AuthNext]_authVars
      => [\A s \in Sids :
            Inserted(s) /\ ~ users[sessions'[s].user].active
            => \E r \in AuthRequests : /\ reqs[r].user = sessions'[s].user /\ "suspended" \in reqs[r].saw
                                   /\ reqs[r].op \in {"login", "refresh_user"} /\ reqs'[r].op = "idle"]_authVars
  BY SuspendedStep
<1>3. (AuthTypeOK /\ AuthInv) /\ [AuthNext]_authVars
      => [\A s \in Sids :
            sessions[s].reason # "no" /\ sessions'[s].reason # sessions[s].reason
            => \E r \in AuthRequests : /\ reqs[r].sid = s /\ reqs[r].op \in {"refresh_user", "logout"}
                                   /\ reqs[r].saw # {} /\ reqs'[r].op = "idle"]_authVars
  BY ReasonStep
<1>4. (AuthTypeOK /\ AuthInv) /\ [AuthNext]_authVars
      => [\A u \in Users :
            users'[u].password # users[u].password
            => \E r \in AuthRequests :
                /\ reqs[r].user = u
                /\ \/ reqs[r].op = "reset"
                   \/ /\ reqs[r].op = "change"
                      /\ reqs[r].given = users[u].password \/ "password" \in reqs[r].saw]_authVars
  BY PasswordStep
<1>5. AuthSpec => EndedFamilyStaysEnded  BY <1>1, AuthInvariant, PTL DEF AuthSpec, EndedFamilyStaysEnded
<1>6. AuthSpec => SuspendedGetsNoSession
  BY <1>2, AuthInvariant, PTL DEF AuthSpec, SuspendedGetsNoSession
<1>7. AuthSpec => ReasonIsKept  BY <1>3, AuthInvariant, PTL DEF AuthSpec, ReasonIsKept
<1>8. AuthSpec => PasswordIsProved  BY <1>4, AuthInvariant, PTL DEF AuthSpec, PasswordIsProved
<1> QED  BY <1>5, <1>6, <1>7, <1>8, PTL DEF AccessHolds

-----------------------------------------------------------------------------
\* OAuthSignIn.

LEMMA IdleLogin == LoginIdle \in Login /\ LoginIdle.at = "idle"
<1>1. PICK p \in Providers, d \in Ids : <<p, d>> \in Identities
  BY SomeIdentityAssumption DEF Identities
<1>2. (CHOOSE e \in Emails : TRUE) \in Emails  BY SomeIdentityAssumption
<1>3. (CHOOSE i \in Identities : TRUE) \in Identities  BY <1>1
<1> QED  BY <1>2, <1>3 DEF LoginIdle, Login

\* A request moves and keeps its other fields.
LEMMA GoesTyped ==
    ASSUME SignInTypeOK, NEW l \in Logins, NEW at \in {"by_email", "create", "find"}, Go(l, at)
    PROVE  /\ logins' \in [Logins -> Login]
           /\ logins'[l].at = at
           /\ \A m \in Logins : m # l => logins'[m] = logins[m]
BY DEF SignInTypeOK, Login, Go

LEMMA AnsweredTyped ==
    ASSUME SignInTypeOK, NEW l \in Logins, Answered(l)
    PROVE  /\ logins' \in [Logins -> Login]
           /\ logins'[l].at = "idle"
           /\ \A m \in Logins : m # l => logins'[m] = logins[m]
BY IdleLogin DEF SignInTypeOK, Answered

\* What a request leaves behind that goes on to its session, or to its link.
Reaches(l, at, a, seen) ==
    /\ logins' \in [Logins -> Login]
    /\ logins'[l].at = at /\ logins'[l].account = a /\ logins'[l].seen = seen
    /\ logins'[l].identity = logins[l].identity
    /\ \A m \in Logins : m # l => logins'[m] = logins[m]

\* A request is done, begins anew, or goes on to a step that has not chosen an account.
Plain(l) ==
    /\ logins' \in [Logins -> Login]
    /\ logins'[l].at \notin {"link", "session"}
    /\ \A m \in Logins : m # l => logins'[m] = logins[m]

LEMMA PlainMoves ==
    ASSUME SignInTypeOK, NEW l \in Logins,
           Answered(l) \/ Go(l, "by_email") \/ Go(l, "create") \/ Go(l, "find")
    PROVE  Plain(l)
BY GoesTyped, AnsweredTyped DEF Plain

LEMMA BeginsPlain ==
    ASSUME SignInTypeOK, NEW l \in Logins, NEW login \in Login, login.at \notin {"link", "session"},
           BeginLogin(l, login)
    PROVE  Plain(l) /\ loginsBegun' \in 0 .. MaxLogins
BY LoginBoundAssumption DEF SignInTypeOK, BeginLogin, Plain

LEMMA SessionReached ==
    ASSUME SignInTypeOK, NEW l \in Logins, NEW a \in Accounts,
           logins' = [logins EXCEPT ![l].at = "session", ![l].account = a]
    PROVE  Reaches(l, "session", a, logins[l].seen)
BY ZenonT(60) DEF SignInTypeOK, Login, Reaches

LEMMA AccountFound ==
    ASSUME SignInTypeOK, NEW l \in Logins, NEW a \in Accounts, NEW at \in {"session", "link"},
           NEW active \in BOOLEAN, NEW seen \in SUBSET Identities,
           logins' = [logins EXCEPT ![l].at = at, ![l].account = a, ![l].active = active, ![l].seen = seen]
    PROVE  Reaches(l, at, a, seen)
<1>1. logins[l] \in Login /\ logins \in [Logins -> Login]  BY DEF SignInTypeOK
<1>2. [logins[l] EXCEPT !.at = at, !.account = a, !.active = active, !.seen = seen] \in Login
  BY <1>1 DEF Login
<1>3. logins' = [logins EXCEPT ![l] = [logins[l] EXCEPT !.at = at, !.account = a, !.active = active, !.seen = seen]]
  BY <1>1 DEF Login
<1> QED  BY <1>1, <1>2, <1>3 DEF Login, Reaches

LEMMA InsertTyped ==
    ASSUME SignInTypeOK, NEW a \in Accounts, NEW e \in Emails, NEW password \in BOOLEAN,
           NEW verified \in BOOLEAN, InsertAccount(a, e, password, verified)
    PROVE  /\ accounts' \in [Accounts -> Account]
           /\ \A b \in Accounts : b # a => accounts'[b] = accounts[b]
           /\ accounts[a].status = "none" /\ accounts'[a].status = "stored"
           /\ accounts'[a].password = password
           /\ \A i \in Identities : links[i] # a
<1>1. /\ accounts \in [Accounts -> Account] /\ accounts[a].status = "none"
      /\ accounts' = [accounts EXCEPT ![a] = [status |-> "stored", email |-> e, password |-> password,
                                              active |-> TRUE, verified |-> verified]]
  BY DEF SignInTypeOK, InsertAccount
<1>2. [status |-> "stored", email |-> e, password |-> password, active |-> TRUE, verified |-> verified] \in Account
  BY DEF Account
<1>3. \A i \in Identities : links[i] # a  BY <1>1, NobodyAssumption DEF SignInTypeOK, Stored
<1> QED  BY <1>1, <1>2, <1>3

LEMMA SignInTypedAtFirst == SignInInit => SignInTypeOK /\ SignInInv
<1> SUFFICES ASSUME SignInInit PROVE SignInTypeOK /\ SignInInv  OBVIOUS
<1>1. LoginIdle.email \in Emails /\ LoginIdle.email = (CHOOSE e \in Emails : TRUE)
  BY IdleLogin DEF LoginIdle, Login
<1>2. accounts \in [Accounts -> Account] /\ \A a \in Accounts : accounts[a].status = "none"
  BY <1>1 DEF SignInInit, Account
<1>3. /\ links \in [Identities -> Accounts \cup {Nobody}] /\ \A i \in Identities : links[i] = Nobody
      /\ logins \in [Logins -> Login] /\ \A l \in Logins : logins[l].at = "idle"
  BY IdleLogin DEF SignInInit
<1>4. SignInTypeOK  BY <1>2, <1>3, LoginBoundAssumption DEF SignInInit, SignInTypeOK
<1>5. SignInInv
  BY <1>2, <1>3 DEF SignInInv, EveryAccountReachable, Stored, SessionOfTheIdentity, LinkWasFree,
                    SessionHasAccount
<1> QED  BY <1>4, <1>5

\* Nothing but the requests changes.
LEMMA RequestsMove ==
    ASSUME SignInTypeOK, SignInInv, UNCHANGED <<accounts, links, adminActs>>, loginsBegun' \in 0 .. MaxLogins,
           verifyMails' \subseteq Accounts, logins' \in [Logins -> Login],
           \A m \in Logins : logins'[m] = logins[m] \/ logins'[m].at \notin {"link", "session"}
               \/ (logins'[m].at = "link" /\ \A j \in logins'[m].seen : j[1] # logins'[m].identity[1])
               \/ (logins'[m].at = "session" /\ Stored(logins'[m].account)
                     /\ links[logins'[m].identity] = logins'[m].account)
    PROVE  SignInTypeOK' /\ SignInInv'
<1>1. SignInTypeOK'  BY DEF SignInTypeOK, Stored
<1>2. EveryAccountReachable'  BY DEF SignInInv, EveryAccountReachable, Stored, LinksOf
<1>3. SessionOfTheIdentity' /\ SessionHasAccount'
  BY DEF SignInInv, SessionOfTheIdentity, SessionHasAccount, Stored
<1>4. LinkWasFree'  BY DEF SignInInv, LinkWasFree
<1> QED  BY <1>1, <1>2, <1>3, <1>4 DEF SignInInv

\* A new account, with the identity that is linked to it in the same transaction.
LEMMA AccountIsInserted ==
    ASSUME SignInTypeOK, SignInInv, NEW l \in Logins, NEW a \in Accounts, NEW e \in Emails,
           NEW password \in BOOLEAN, NEW verified \in BOOLEAN, InsertAccount(a, e, password, verified),
           Answered(l), UNCHANGED <<loginsBegun, adminActs>>, verifyMails' \subseteq Accounts,
           \/ password /\ UNCHANGED links
           \/ \E i \in Identities : links[i] = Nobody /\ links' = [links EXCEPT ![i] = a]
    PROVE  SignInTypeOK' /\ SignInInv'
<1>1. /\ accounts' \in [Accounts -> Account]
      /\ \A b \in Accounts : b # a => accounts'[b] = accounts[b]
      /\ accounts[a].status = "none" /\ accounts'[a].status = "stored"
      /\ accounts'[a].password = password
      /\ \A i \in Identities : links[i] # a
  BY InsertTyped
<1>2. Plain(l)  BY PlainMoves
<1>3. /\ links \in [Identities -> Accounts \cup {Nobody}]
      /\ \A i \in Identities : links[i] # Nobody => Stored(links[i])
      /\ Nobody \notin Accounts
  BY NobodyAssumption DEF SignInTypeOK
<1>4. /\ links' \in [Identities -> Accounts \cup {Nobody}]
      /\ \A i \in Identities : links'[i] = links[i] \/ (links[i] = Nobody /\ links'[i] = a)
      /\ password \/ \E i \in Identities : links'[i] = a
  BY <1>3
<1>5. \A b : Stored(b)' <=> (Stored(b) \/ b = a)  BY <1>1 DEF Stored
<1>6. SignInTypeOK'  BY <1>1, <1>2, <1>3, <1>4, <1>5 DEF SignInTypeOK, Plain
<1>7. EveryAccountReachable'
  <2> SUFFICES ASSUME NEW b \in Accounts, Stored(b)', ~ accounts'[b].password
               PROVE  LinksOf(b)' # {}
    BY DEF EveryAccountReachable
  <2>1. CASE b = a  BY <1>1, <1>4, <2>1 DEF LinksOf
  <2>2. CASE b # a
    <3>1. LinksOf(b) # {}  BY <1>1, <1>5, <2>2 DEF SignInInv, EveryAccountReachable
    <3>2. PICK i \in Identities : links[i] = b  BY <3>1 DEF LinksOf
    <3>3. links'[i] = b  BY <1>3, <1>4, <3>2
    <3> QED  BY <3>3 DEF LinksOf
  <2> QED  BY <2>1, <2>2
<1>8. SessionHasAccount' /\ LinkWasFree'
  BY <1>1, <1>2 DEF SignInInv, SessionHasAccount, LinkWasFree, Plain
<1>9. SessionOfTheIdentity'
  <2> SUFFICES ASSUME NEW m \in Logins, logins'[m].at = "session"
               PROVE  links'[logins'[m].identity] = logins'[m].account \/ ~ Stored(logins[m].account)'
    BY DEF SessionOfTheIdentity
  <2>1. logins'[m] = logins[m] /\ logins[m] \in Login  BY <1>2 DEF Plain, SignInTypeOK
  <2>2. logins[m].identity \in Identities  BY <2>1 DEF Login
  <2>3. /\ logins[m].account \in Accounts /\ accounts[logins[m].account].status # "none"
        /\ links[logins[m].identity] = logins[m].account \/ ~ Stored(logins[m].account)
    BY <2>1 DEF SignInInv, SessionHasAccount, SessionOfTheIdentity
  <2>4. logins[m].account # a  BY <1>1, <2>3
  <2>5. Stored(logins[m].account)' <=> Stored(logins[m].account)  BY <1>1, <2>1, <2>3, <2>4 DEF Stored
  <2>6. links[logins[m].identity] = logins[m].account => links'[logins'[m].identity] = logins'[m].account
    BY <1>3, <1>4, <2>1, <2>2, <2>3
  <2> QED  BY <2>3, <2>5, <2>6
<1> QED  BY <1>6, <1>7, <1>8, <1>9 DEF SignInInv

\* A deletion or a suspension.
LEMMA AccountIsChanged ==
    ASSUME SignInTypeOK, SignInInv, NEW a \in Accounts,
           RemoveAccount(a) \/ (\E active \in BOOLEAN : SetActive(a, active)) \/ VerifyEmail(a)
    PROVE  SignInTypeOK' /\ SignInInv'
<1>1. /\ accounts' \in [Accounts -> Account]
      /\ \A b \in Accounts : b # a => accounts'[b] = accounts[b]
      /\ accounts'[a].password = accounts[a].password
      /\ accounts'[a].status = accounts[a].status
           \/ (accounts[a].status = "stored" /\ accounts'[a].status = "deleted" /\ links' = LinksWithout(a))
      /\ logins' = logins /\ loginsBegun' = loginsBegun /\ verifyMails' \subseteq Accounts
      /\ adminActs' \in 0 .. MaxAdmin
  <2>1. CASE RemoveAccount(a)
    BY <2>1, LoginBoundAssumption DEF RemoveAccount, Stored, SignInTypeOK, Account
  <2>2. CASE \E active \in BOOLEAN : SetActive(a, active)
    BY <2>2, LoginBoundAssumption DEF SetActive, SignInTypeOK, Account
  <2>3. CASE VerifyEmail(a)  BY <2>3, ZenonT(60) DEF VerifyEmail, SignInTypeOK, Account
  <2> QED  BY <2>1, <2>2, <2>3
<1>2. \/ links' = links
      \/ /\ links' = LinksWithout(a)
         /\ accounts[a].status = "stored" /\ accounts'[a].status = "deleted"
  <2>1. CASE RemoveAccount(a)  BY <2>1 DEF RemoveAccount, Stored, SignInTypeOK, Account
  <2> QED  BY <2>1 DEF SetActive, VerifyEmail
<1>3. /\ links \in [Identities -> Accounts \cup {Nobody}]
      /\ \A i \in Identities : links[i] # Nobody => Stored(links[i])
      /\ Nobody \notin Accounts
  BY NobodyAssumption DEF SignInTypeOK
<1>4. /\ links' \in [Identities -> Accounts \cup {Nobody}]
      /\ \A i \in Identities : links'[i] = links[i] \/ (links[i] = a /\ links'[i] = Nobody)
  BY <1>2, <1>3 DEF LinksWithout
<1>6. \A i \in Identities : links'[i] # Nobody =>
          links'[i] = links[i] /\ links'[i] \in Accounts /\ accounts'[links'[i]].status = "stored"
  <2> SUFFICES ASSUME NEW i \in Identities, links'[i] # Nobody
               PROVE  links'[i] = links[i] /\ links'[i] \in Accounts /\ accounts'[links'[i]].status = "stored"
    OBVIOUS
  <2>1. links'[i] = links[i] /\ links[i] \in Accounts /\ accounts[links[i]].status = "stored"
    BY <1>3, <1>4 DEF Stored
  <2>2. CASE links' = links
    <3>1. accounts'[a].status = accounts[a].status \/ links' = LinksWithout(a)  BY <1>1
    <3>2. links' = LinksWithout(a) => links[i] # a  BY <1>3, <2>1, <2>2 DEF LinksWithout
    <3> QED  BY <1>1, <2>1, <3>1, <3>2
  <2>3. CASE links' = LinksWithout(a)
    <3>1. links[i] # a  BY <1>3, <2>1, <2>3 DEF LinksWithout
    <3> QED  BY <1>1, <2>1, <3>1
  <2> QED  BY <1>2, <2>1, <2>2, <2>3
<1>7. SignInTypeOK'
  <2>1. \A i \in Identities : links'[i] # Nobody
            => links'[i] \in Accounts /\ accounts'[links'[i]].status = "stored"
    BY <1>6
  <2> QED  BY <1>1, <1>4, <2>1 DEF SignInTypeOK, Stored
<1>8. EveryAccountReachable'
  <2> SUFFICES ASSUME NEW b \in Accounts, accounts'[b].status = "stored", ~ accounts'[b].password
               PROVE  \E i \in Identities : links'[i] = b
    BY DEF EveryAccountReachable, LinksOf, Stored
  <2>1. Stored(b) /\ ~ accounts[b].password  BY <1>1 DEF Stored
  <2>2. PICK i \in Identities : links[i] = b  BY <2>1 DEF SignInInv, EveryAccountReachable, LinksOf
  <2>3. links'[i] = b  BY <1>2, <1>4, <2>2
  <2> QED  BY <2>3
<1>9. SessionHasAccount' /\ LinkWasFree'  BY <1>1 DEF SignInInv, SessionHasAccount, LinkWasFree
<1>10. SessionOfTheIdentity'
  <2> SUFFICES ASSUME NEW m \in Logins, logins[m].at = "session"
               PROVE  links'[logins[m].identity] = logins[m].account
                        \/ accounts'[logins[m].account].status # "stored"
    BY <1>1 DEF SessionOfTheIdentity, Stored
  <2>1. logins[m].identity \in Identities  BY DEF SignInTypeOK, Login
  <2>2. /\ logins[m].account \in Accounts
        /\ links[logins[m].identity] = logins[m].account \/ accounts[logins[m].account].status # "stored"
    BY DEF SignInInv, SessionHasAccount, SessionOfTheIdentity, Stored
  <2>3. accounts[logins[m].account].status # "stored" => accounts'[logins[m].account].status # "stored"
    BY <1>1, <2>2
  <2>4. links[logins[m].identity] = logins[m].account
        => \/ links'[logins[m].identity] = logins[m].account
           \/ accounts'[logins[m].account].status # "stored"
    BY <1>1, <1>2, <1>4, <2>1, <2>2
  <2> QED  BY <2>2, <2>3, <2>4
<1> QED  BY <1>7, <1>8, <1>9, <1>10 DEF SignInInv

\* The link of an identity that has no owner.
LEMMA IdentityIsLinked ==
    ASSUME SignInTypeOK, SignInInv, NEW l \in Logins, NEW i \in Identities, NEW a \in Accounts,
           links[i] = Nobody, Stored(a), links' = [links EXCEPT ![i] = a], Answered(l),
           UNCHANGED <<accounts, verifyMails, loginsBegun, adminActs>>
    PROVE  SignInTypeOK' /\ SignInInv'
<1>1. Plain(l)  BY PlainMoves
<1>2. /\ links \in [Identities -> Accounts \cup {Nobody}]
      /\ \A j \in Identities : links[j] # Nobody => Stored(links[j])
      /\ Nobody \notin Accounts
  BY NobodyAssumption DEF SignInTypeOK
<1>3. SignInTypeOK'  BY <1>1, <1>2 DEF SignInTypeOK, Plain, Stored
<1>4. EveryAccountReachable'
  <2> SUFFICES ASSUME NEW b \in Accounts, accounts[b].status = "stored", ~ accounts[b].password
               PROVE  \E j \in Identities : links'[j] = b
    BY DEF EveryAccountReachable, LinksOf, Stored
  <2>1. PICK j \in Identities : links[j] = b  BY DEF SignInInv, EveryAccountReachable, LinksOf, Stored
  <2> QED  BY <1>2, <2>1
<1>5. SessionHasAccount' /\ LinkWasFree'  BY <1>1 DEF SignInInv, SessionHasAccount, LinkWasFree, Plain
<1>6. SessionOfTheIdentity'
  <2> SUFFICES ASSUME NEW m \in Logins, logins'[m].at = "session"
               PROVE  links'[logins[m].identity] = logins[m].account
                        \/ accounts[logins[m].account].status # "stored"
    BY <1>1 DEF SessionOfTheIdentity, Stored, Plain
  <2>1. logins[m].at = "session" /\ logins[m].identity \in Identities
    BY <1>1 DEF SignInTypeOK, Login, Plain
  <2>2. /\ logins[m].account \in Accounts
        /\ links[logins[m].identity] = logins[m].account \/ accounts[logins[m].account].status # "stored"
    BY <2>1 DEF SignInInv, SessionHasAccount, SessionOfTheIdentity, Stored
  <2> QED  BY <1>2, <2>1, <2>2
<1> QED  BY <1>3, <1>4, <1>5, <1>6 DEF SignInInv

LEMMA FoundByIdentity ==
    ASSUME SignInTypeOK, SignInInv, NEW l \in Logins, FindByIdentity(l)
    PROVE  SignInTypeOK' /\ SignInInv'
<1>0. links[logins[l].identity] \in Accounts \cup {Nobody} /\ logins[l].identity \in Identities
      /\ (links[logins[l].identity] # Nobody => Stored(links[logins[l].identity]))
  BY DEF SignInTypeOK, Login
<1>1. UNCHANGED <<accounts, links, adminActs>> /\ loginsBegun' \in 0 .. MaxLogins /\ verifyMails' \subseteq Accounts
  BY DEF FindByIdentity, SignInTypeOK
<1>2. CASE Go(l, "by_email") \/ Answered(l)
  <2>1. Plain(l)  BY <1>2, PlainMoves
  <2> QED  BY <1>1, <2>1, RequestsMove DEF Plain
<1>3. CASE /\ links[logins[l].identity] # Nobody
           /\ logins' = [logins EXCEPT ![l].at = "session", ![l].account = links[logins[l].identity]]
  <2>1. Reaches(l, "session", links[logins[l].identity], logins[l].seen)  BY <1>0, <1>3, SessionReached
  <2>2. \A m \in Logins : logins'[m] = logins[m]
          \/ (logins'[m].at = "session" /\ Stored(logins'[m].account)
                /\ links[logins'[m].identity] = logins'[m].account)
    BY <1>0, <1>3, <2>1 DEF Reaches
  <2>3. logins' \in [Logins -> Login]  BY <2>1 DEF Reaches
  <2> QED  BY <1>1, <2>2, <2>3, RequestsMove
<1> QED  BY <1>2, <1>3 DEF FindByIdentity

LEMMA FoundByEmail ==
    ASSUME SignInTypeOK, SignInInv, NEW l \in Logins, FindByEmail(l)
    PROVE  SignInTypeOK' /\ SignInInv'
<1>0. UNCHANGED <<accounts, links, verifyMails, loginsBegun, adminActs>>  BY Zenon DEF FindByEmail
<1>1. UNCHANGED <<accounts, links, adminActs>> /\ loginsBegun' \in 0 .. MaxLogins /\ verifyMails' \subseteq Accounts
  BY <1>0 DEF SignInTypeOK
<1>2. CASE Go(l, "create") \/ Answered(l)
  <2>1. Plain(l)  BY <1>2, PlainMoves
  <2> QED  BY <1>1, <2>1, RequestsMove DEF Plain
<1>3. ASSUME NEW a \in Candidates(logins[l].email), ~ Conflicts(a, logins[l].identity),
             NEW at, at = IF logins[l].identity \in LinksOf(a) THEN "session" ELSE "link",
             NEW active, active = accounts[a].active, NEW seen, seen = LinksOf(a),
             logins' = [logins EXCEPT ![l].at = at, ![l].account = a, ![l].active = active, ![l].seen = seen]
      PROVE  SignInTypeOK' /\ SignInInv'
  <2>1. a \in Accounts /\ Stored(a) /\ active \in BOOLEAN
    BY <1>3 DEF Candidates, WithEmail, SignInTypeOK, Account
  <2>2. seen \in SUBSET Identities /\ at \in {"session", "link"}  BY <1>3 DEF LinksOf
  <2>3. Reaches(l, at, a, seen)  BY <1>3, <2>1, <2>2, AccountFound, Zenon
  <2>4. at = "session" => links[logins[l].identity] = a  BY <1>3 DEF LinksOf
  <2>5. at = "link" => \A j \in seen : j[1] # logins[l].identity[1]  BY <1>3 DEF Conflicts
  <2>6. logins'[l].at = "link" => \A j \in logins'[l].seen : j[1] # logins'[l].identity[1]
    BY <2>3, <2>5 DEF Reaches
  <2>7. logins'[l].at = "session" => Stored(logins'[l].account) /\ links[logins'[l].identity] = logins'[l].account
    BY <2>1, <2>3, <2>4 DEF Reaches
  <2>8. logins'[l].at \in {"session", "link"} /\ \A m \in Logins : m # l => logins'[m] = logins[m]
    BY <2>2, <2>3 DEF Reaches
  <2>9. \A m \in Logins : logins'[m] = logins[m]
          \/ (logins'[m].at = "link" /\ \A j \in logins'[m].seen : j[1] # logins'[m].identity[1])
          \/ (logins'[m].at = "session" /\ Stored(logins'[m].account)
                /\ links[logins'[m].identity] = logins'[m].account)
    BY <2>6, <2>7, <2>8
  <2>10. logins' \in [Logins -> Login]  BY <2>3 DEF Reaches
  <2> QED  BY <1>1, <2>9, <2>10, RequestsMove
<1>4. ASSUME ~ (Go(l, "create") \/ Answered(l))
      PROVE  \E a \in Candidates(logins[l].email) :
                /\ ~ Conflicts(a, logins[l].identity)
                /\ logins' = [logins EXCEPT ![l].at = IF logins[l].identity \in LinksOf(a) THEN "session" ELSE "link",
                                            ![l].account = a, ![l].active = accounts[a].active, ![l].seen = LinksOf(a)]
  BY <1>4, Zenon DEF FindByEmail
<1> QED  BY <1>2, <1>3, <1>4, Zenon

LEMMA IdentityLinking ==
    ASSUME SignInTypeOK, SignInInv, NEW l \in Logins, LinkIdentity(l)
    PROVE  SignInTypeOK' /\ SignInInv'
<1>0. links[logins[l].identity] \in Accounts \cup {Nobody} /\ logins[l].identity \in Identities
      /\ (links[logins[l].identity] # Nobody => Stored(links[logins[l].identity]))
  BY DEF SignInTypeOK, Login
<1>1. /\ UNCHANGED <<accounts, adminActs, verifyMails, loginsBegun>> /\ loginsBegun' \in 0 .. MaxLogins
      /\ verifyMails' \subseteq Accounts
  BY DEF LinkIdentity, SignInTypeOK
<1>2. CASE /\ links[logins[l].identity] = Nobody /\ Stored(logins[l].account)
           /\ links' = [links EXCEPT ![logins[l].identity] = logins[l].account] /\ Answered(l)
  <2>1. logins[l].account \in Accounts  BY <1>2 DEF Stored
  <2> QED  BY <1>0, <1>1, <1>2, <2>1, IdentityIsLinked
<1>3. CASE Answered(l) /\ UNCHANGED links
  <2>1. Plain(l)  BY <1>3, PlainMoves
  <2> QED  BY <1>1, <1>3, <2>1, RequestsMove DEF Plain
<1>4. CASE /\ links[logins[l].identity] # Nobody /\ UNCHANGED links
           /\ logins' = [logins EXCEPT ![l].at = "session",
                                       ![l].account = Target(l, links[logins[l].identity])]
  <2>1. Reaches(l, "session", links[logins[l].identity], logins[l].seen)
    BY <1>0, <1>4, SessionReached DEF Target
  <2>2. \A m \in Logins : logins'[m] = logins[m]
          \/ (logins'[m].at = "session" /\ Stored(logins'[m].account)
                /\ links[logins'[m].identity] = logins'[m].account)
    BY <1>0, <1>4, <2>1 DEF Reaches
  <2>3. logins' \in [Logins -> Login]  BY <2>1 DEF Reaches
  <2> QED  BY <1>1, <1>4, <2>2, <2>3, RequestsMove
<1> QED  BY <1>2, <1>3, <1>4 DEF LinkIdentity

LEMMA SignInKept ==
    ASSUME SignInTypeOK, SignInInv, [SignInNext]_signInVars
    PROVE  SignInTypeOK' /\ SignInInv'
<1>1. ASSUME NEW l \in Logins, RegisterConflict(l) \/ CreateConflict(l) \/ OpenSession(l)
      PROVE  SignInTypeOK' /\ SignInInv'
  <2>1. UNCHANGED <<accounts, links, verifyMails, loginsBegun, adminActs>> /\ (Answered(l) \/ Go(l, "find"))
    BY <1>1 DEF RegisterConflict, CreateConflict, OpenSession
  <2>2. Plain(l)  BY <2>1, PlainMoves
  <2>3. loginsBegun' \in 0 .. MaxLogins /\ verifyMails' \subseteq Accounts  BY <2>1 DEF SignInTypeOK
  <2> QED  BY <2>1, <2>2, <2>3, RequestsMove DEF Plain
<1>2. ASSUME NEW l \in Logins, NEW login \in Login, login.at \in {"register", "find"}, BeginLogin(l, login),
             UNCHANGED <<accounts, links, verifyMails, adminActs>>
      PROVE  SignInTypeOK' /\ SignInInv'
  <2>1. Plain(l) /\ loginsBegun' \in 0 .. MaxLogins  BY <1>2, BeginsPlain
  <2>2. verifyMails' \subseteq Accounts  BY <1>2 DEF SignInTypeOK
  <2> QED  BY <1>2, <2>1, <2>2, RequestsMove DEF Plain
<1>3. ASSUME NEW l \in Logins, NEW e \in Emails, Register(l, e)
      PROVE  SignInTypeOK' /\ SignInInv'
  <2>1. PICK login \in Login : login = [LoginIdle EXCEPT !.at = "register", !.email = e]
    BY IdleLogin DEF Login
  <2>2. login.at = "register"  BY <2>1, IdleLogin DEF Login
  <2> QED  BY <1>2, <1>3, <2>1, <2>2 DEF Register
<1>4. ASSUME NEW l \in Logins, NEW e \in Emails, NEW i \in Identities, Callback(l, i, e)
      PROVE  SignInTypeOK' /\ SignInInv'
  <2>1. PICK login \in Login : login = [LoginIdle EXCEPT !.at = "find", !.identity = i, !.email = e]
    BY IdleLogin DEF Login
  <2>2. login.at = "find"  BY <2>1, IdleLogin DEF Login
  <2> QED  BY <1>2, <1>4, <2>1, <2>2 DEF Callback
<1>5. ASSUME NEW l \in Logins, NEW a \in Accounts, NEW mailed \in BOOLEAN, RegisterCommit(l, a, mailed)
      PROVE  SignInTypeOK' /\ SignInInv'
  <2>1. logins[l].email \in Emails /\ verifyMails \subseteq Accounts  BY DEF SignInTypeOK, Login
  <2>2. /\ InsertAccount(a, logins[l].email, TRUE, FALSE) /\ Answered(l)
        /\ UNCHANGED <<links, loginsBegun, adminActs>> /\ verifyMails' \subseteq Accounts
    BY <1>5, <2>1 DEF RegisterCommit
  <2> QED  BY <2>1, <2>2, AccountIsInserted
<1>6. ASSUME NEW l \in Logins, NEW a \in Accounts, CreateAccount(l, a)
      PROVE  SignInTypeOK' /\ SignInInv'
  <2>1. logins[l].email \in Emails /\ logins[l].identity \in Identities /\ verifyMails \subseteq Accounts
    BY DEF SignInTypeOK, Login
  <2>2. /\ InsertAccount(a, logins[l].email, FALSE, TRUE) /\ Answered(l)
        /\ UNCHANGED <<verifyMails, loginsBegun, adminActs>>
        /\ links[logins[l].identity] = Nobody /\ links' = [links EXCEPT ![logins[l].identity] = a]
    BY <1>6 DEF CreateAccount, LinkFree
  <2>3. UNCHANGED <<loginsBegun, adminActs>> /\ verifyMails' \subseteq Accounts  BY <2>1, <2>2
  <2>4. \E i \in Identities : links[i] = Nobody /\ links' = [links EXCEPT ![i] = a]  BY <2>1, <2>2
  <2> QED  BY <2>1, <2>2, <2>3, <2>4, AccountIsInserted
<1>7. ASSUME NEW a \in Accounts, ResendVerification(a)
      PROVE  SignInTypeOK' /\ SignInInv'
  <2>1. /\ UNCHANGED <<accounts, links, logins, loginsBegun, adminActs>>
        /\ verifyMails' \subseteq Accounts /\ logins' \in [Logins -> Login] /\ loginsBegun' \in 0 .. MaxLogins
    BY <1>7 DEF ResendVerification, SignInTypeOK
  <2> QED  BY <2>1, RequestsMove
<1>8. CASE UNCHANGED signInVars
  <2>1. /\ UNCHANGED <<accounts, links, logins, loginsBegun, adminActs>>
        /\ verifyMails' \subseteq Accounts /\ logins' \in [Logins -> Login] /\ loginsBegun' \in 0 .. MaxLogins
    BY <1>8 DEF signInVars, SignInTypeOK
  <2> QED  BY <2>1, RequestsMove
<1>9. CASE SignInNext
  <2>1. ASSUME NEW l \in Logins, Serve(l) PROVE SignInTypeOK' /\ SignInInv'
    BY <1>1, <1>5, <1>6, <2>1, FoundByIdentity, FoundByEmail, IdentityLinking DEF Serve
  <2>2. ASSUME NEW a \in Accounts,
               ResendVerification(a) \/ VerifyEmail(a) \/ RemoveAccount(a)
                 \/ \E active \in BOOLEAN : SetActive(a, active)
        PROVE  SignInTypeOK' /\ SignInInv'
    BY <1>7, <2>2, AccountIsChanged
  <2> QED  BY <1>3, <1>4, <1>9, <2>1, <2>2 DEF SignInNext
<1> QED  BY <1>8, <1>9

\* Accounts, links and requests keep their types, every link is of a stored account, and a
\* request goes on by what it has read (resolve_oauth_login).
THEOREM SignInTypeCorrect == SignInSpec => [](SignInTypeOK /\ SignInInv)
<1>1. SignInInit => SignInTypeOK /\ SignInInv  BY SignInTypedAtFirst
<1>2. (SignInTypeOK /\ SignInInv) /\ [SignInNext]_signInVars => (SignInTypeOK /\ SignInInv)'
  BY SignInKept
<1> QED  BY <1>1, <1>2, PTL DEF SignInSpec

\* Whatever is registered, linked, deleted or suspended meanwhile: an account without a
\* password keeps an identity to come back with, a session is of the account that the
\* identity is linked to, and two identities of one provider come to an account only from
\* a request whose copy of its links is old (resolve_oauth_login, create_oauth_user).
THEOREM AccountsAreAlwaysSound == SignInSpec => AccountsAreSound
<1> DEFINE Second == \A a \in Accounts : \A i \in LinksOf(a)' \ LinksOf(a) :
              (\E j \in LinksOf(a) : j[1] = i[1])
              => \E l \in Logins : logins[l].at = "link" /\ logins[l].account = a /\ logins[l].seen # LinksOf(a)
<1>1. SignInTypeOK /\ SignInInv /\ [SignInNext]_signInVars => Second
  <2> SUFFICES ASSUME SignInTypeOK, SignInInv, [SignInNext]_signInVars,
                      NEW a \in Accounts, NEW i \in LinksOf(a)' \ LinksOf(a),
                      NEW j \in LinksOf(a), j[1] = i[1]
               PROVE  \E l \in Logins : logins[l].at = "link" /\ logins[l].account = a
                                          /\ logins[l].seen # LinksOf(a)
    OBVIOUS
  <2>1. /\ i \in Identities /\ links'[i] = a /\ links[i] # a /\ j \in Identities /\ links[j] = a
        /\ links' # links /\ a # Nobody /\ links \in [Identities -> Accounts \cup {Nobody}] /\ Stored(a)
    BY NobodyAssumption DEF LinksOf, SignInTypeOK
  <2>2. CASE \E l \in Logins : LinkIdentity(l)
    <3>1. PICK l \in Logins : LinkIdentity(l)  BY <2>2
    <3>2. logins[l].at = "link" /\ links' = [links EXCEPT ![logins[l].identity] = logins[l].account]
      BY <2>1, <3>1 DEF LinkIdentity
    <3>3. logins[l].identity = i /\ logins[l].account = a  BY <2>1, <3>2
    <3>4. \A k \in logins[l].seen : k[1] # i[1]  BY <3>2, <3>3 DEF SignInInv, LinkWasFree
    <3> QED  BY <3>2, <3>3, <3>4
  <2>3. CASE \E l \in Logins, b \in Accounts : CreateAccount(l, b)
    <3>1. PICK l \in Logins, b \in Accounts : CreateAccount(l, b)  BY <2>3
    <3>2. links' = [links EXCEPT ![logins[l].identity] = b] /\ accounts[b].status = "none"
      BY <2>1, <3>1 DEF CreateAccount, InsertAccount
    <3>3. a = b  BY <2>1, <3>2
    <3> QED  BY <2>1, <3>2, <3>3 DEF Stored
  <2>4. CASE \E b \in Accounts : RemoveAccount(b)  BY <2>1, <2>4 DEF RemoveAccount, LinksWithout
  <2> QED
    BY <2>1, <2>2, <2>3, <2>4, Zenon
       DEF SignInNext, signInVars, Serve, RegisterConflict, FindByIdentity, FindByEmail, CreateConflict, OpenSession,
           RegisterCommit, Register, Callback, ResendVerification, VerifyEmail, SetActive
<1>2. SignInInv => EveryAccountReachable /\ SessionOfTheIdentity  BY DEF SignInInv
<1> QED  BY <1>1, <1>2, SignInTypeCorrect, PTL DEF SignInSpec, AccountsAreSound, OneIdentityPerProvider

-----------------------------------------------------------------------------
\* BrowserSessions.

BrowserSound == BrowserTypeOK /\ BrowserInv

LEMMA NoPairIsNone == NoPair \notin Pairs /\ NoPair \in MaybePair
BY BrowserAssumption DEF MaybePair

\* The fields of calls, rows and tabs.
LEMMA TabCallFields ==
    ASSUME NEW c \in TabCall
    PROVE  /\ c.op \in {"none", "login", "read", "logout_all", "logout", "refresh"}
           /\ c.then \in {"none", "give_up", "read", "logout_all"} /\ c.stage \in {"sent", "answered"}
           /\ c.access \in MaybePair /\ c.token \in MaybePair /\ c.csrf \in MaybePair /\ c.jar \in MaybePair
           /\ c.status \in {0, 200, 204, 401, 403, 429} /\ c.pair \in MaybePair
BY DEF TabCall

LEMMA BrowserFields ==
    ASSUME BrowserTypeOK
    PROVE  /\ \A t \in Tabs : tabCalls[t] \in TabCall /\ tabs[t] \in TabState /\ tabs[t].user \in BOOLEAN
                              /\ tabs[t].access \in MaybePair /\ tabs[t].csrf \in MaybePair
           /\ \A p \in Pairs : issued[p] \in PairRow /\ issued[p].family \in Pairs
           /\ kept \in MaybePair
BY DEF BrowserTypeOK, TabState, PairRow

\* A call that is sent has no answer yet.
Unanswered(c) == c \in TabCall /\ c.stage = "sent" /\ c.status = 0 /\ c.pair = NoPair

LEMMA QuietIsUnanswered == Unanswered(Quiet) /\ Quiet.op = "none"
BY NoPairIsNone DEF Unanswered, Quiet, TabCall

LEMMA SentIsUnanswered ==
    ASSUME BrowserTypeOK, NEW t \in Tabs,
           NEW op \in {"none", "login", "read", "logout_all", "logout", "refresh"},
           NEW then \in {"none", "give_up", "read", "logout_all"}, NEW access \in MaybePair, NEW token \in MaybePair
    PROVE  /\ Unanswered(Sent(t, op, then, access, token)) /\ Sent(t, op, then, access, token).op = op
           /\ Sent(t, op, then, access, token).then = then /\ Sent(t, op, then, access, token).token = token
<1> DEFINE csrf == IF Cookies THEN tabs[t].csrf ELSE NoPair
           jar == IF Cookies THEN kept ELSE NoPair
<1>1. csrf \in MaybePair /\ jar \in MaybePair  BY BrowserFields, NoPairIsNone
<1> HIDE DEF csrf, jar
<1> DEFINE q1 == [Quiet EXCEPT !.op = op]
           q2 == [q1 EXCEPT !.then = then]
           q3 == [q2 EXCEPT !.access = access]
           q4 == [q3 EXCEPT !.token = token]
           q5 == [q4 EXCEPT !.csrf = csrf]
           q6 == [q5 EXCEPT !.jar = jar]
<1>2. Unanswered(q1) /\ q1.op = op  BY QuietIsUnanswered DEF Unanswered, TabCall
<1> HIDE DEF q1
<1>3. Unanswered(q2) /\ q2.op = op /\ q2.then = then  BY <1>2 DEF Unanswered, TabCall
<1> HIDE DEF q2
<1>4. Unanswered(q3) /\ q3.op = op /\ q3.then = then  BY <1>3 DEF Unanswered, TabCall
<1> HIDE DEF q3
<1>5. Unanswered(q4) /\ q4.op = op /\ q4.then = then /\ q4.token = token
  BY <1>4 DEF Unanswered, TabCall
<1> HIDE DEF q4
<1>6. Unanswered(q5) /\ q5.op = op /\ q5.then = then /\ q5.token = token
  BY <1>1, <1>5 DEF Unanswered, TabCall
<1> HIDE DEF q5
<1>7. Unanswered(q6) /\ q6.op = op /\ q6.then = then /\ q6.token = token
  BY <1>1, <1>6 DEF Unanswered, TabCall
<1>8. Sent(t, op, then, access, token) = q6  BY Zenon DEF Sent, q1, q2, q3, q4, q5, q6, csrf, jar
<1> HIDE DEF q6
<1> QED  BY <1>7, <1>8

\* A log-out sends no CSRF value; after "log out everywhere" no cookie either.
LEMMA BareIsUnanswered ==
    ASSUME NEW c, Unanswered(c), NEW bare,
           bare = [c EXCEPT !.csrf = NoPair] \/ bare = [c EXCEPT !.csrf = NoPair, !.jar = NoPair]
    PROVE  Unanswered(bare) /\ bare.op = c.op
<1> DEFINE b == [c EXCEPT !.csrf = NoPair]
           d == [b EXCEPT !.jar = NoPair]
<1>1. Unanswered(b) /\ b.op = c.op  BY NoPairIsNone DEF Unanswered, TabCall
<1> HIDE DEF b
<1>2. Unanswered(d) /\ d.op = c.op  BY <1>1, NoPairIsNone DEF Unanswered, TabCall
<1> HIDE DEF d
<1>3. bare = d \/ bare = b  BY Zenon DEF b, d
<1> QED  BY <1>1, <1>2, <1>3, Zenon

LEMMA BrowserInitSound == BrowserInit => BrowserSound
<1> SUFFICES ASSUME BrowserInit PROVE BrowserSound  OBVIOUS
<1>1. \A t \in Tabs : tabCalls[t] = Quiet /\ tabs[t] = SignedOut  BY Zenon DEF BrowserInit
<1>2. \A p \in Pairs : issued[p] = [row |-> "none", family |-> p, fresh |-> FALSE]  BY DEF BrowserInit
<1>3. kept = NoPair /\ exchangeRaced = {}  BY DEF BrowserInit
<1>4. Quiet \in TabCall /\ Quiet.op = "none" /\ Quiet.status = 0 /\ Quiet.pair = NoPair /\ Quiet.stage = "sent"
  BY QuietIsUnanswered DEF Unanswered
<1>5. BrowserTypeOK
  <2>1. SignedOut \in TabState  BY NoPairIsNone DEF SignedOut, TabState
  <2>2. issued \in [Pairs -> PairRow]  BY DEF BrowserInit, PairRow
  <2>3. mode \in BearerOrJar /\ tabs \in [Tabs -> TabState] /\ tabCalls \in [Tabs -> TabCall] /\ tabCallsBegun \in Nat
    BY <1>4, <2>1 DEF BrowserInit, BearerOrJar
  <2> QED  BY <1>3, <2>2, <2>3, NoPairIsNone DEF BrowserTypeOK
<1>6. \A t \in Tabs : CallFits(t) /\ AnswerIsOwn(t) /\ RefusedIsDead(t)
  BY <1>1, <1>4, ZenonT(60) DEF CallFits, AnswerIsOwn, RefusedIsDead, Exchanges
<1>7. \A p \in Pairs : ExchangesAlone(p) /\ RotatedIsLeft(p)
  <2>1. \A p \in Pairs : issued[p].row = "none"
    <3> TAKE p \in Pairs
    <3>1. issued[p] = [row |-> "none", family |-> p, fresh |-> FALSE]  BY <1>2
    <3> QED  BY <3>1
  <2> QED  BY <1>1, <1>4, <2>1 DEF ExchangesAlone, RotatedIsLeft, Exchanges
<1>8. StorageHasUser /\ KeptIsKnown /\ ReuseIsRaced
  <2>1. \A p \in Pairs : issued[p].row = "none"
    <3> TAKE p \in Pairs
    <3>1. issued[p] = [row |-> "none", family |-> p, fresh |-> FALSE]  BY <1>2
    <3> QED  BY <3>1
  <2> QED  BY <1>3, <2>1 DEF StorageHasUser, KeptIsKnown, ReuseIsRaced
<1> QED  BY <1>5, <1>6, <1>7, <1>8 DEF BrowserSound, BrowserInv

\* The client's steps: a tab has a new call, or none.
ClientStep(t, r) ==
    /\ BrowserSound /\ UNCHANGED <<mode, issued>> /\ exchangeRaced \subseteq exchangeRaced'
    /\ Unanswered(r) /\ tabCalls' = [tabCalls EXCEPT ![t] = r]
    /\ \A u \in Tabs \ {t} : tabs'[u] = tabs[u]
    /\ r.op \in {"read", "logout_all", "refresh"} => tabs'[t].user
    /\ r.op = "refresh" => /\ r.token = kept /\ kept' = kept /\ kept # NoPair /\ mode = "bearer"
                           /\ r.then \in {"read", "logout_all"} /\ tabCalls[t].op # "refresh"
                           /\ (Exchanging(t, kept) => issued[kept].family \in exchangeRaced')
    /\ kept' = kept \/ kept' = NoPair \/ (kept' = tabCalls[t].pair /\ tabCalls[t].pair # NoPair)
    /\ tabCalls[t].op = "refresh" /\ kept' = kept /\ kept # NoPair => issued[tabCalls[t].token].family \in exchangeRaced'
    /\ StorageHasUser'

LEMMA ClientReads ==
    ASSUME NEW t \in Tabs, NEW r, ClientStep(t, r)
    PROVE  /\ tabCalls'[t] = r /\ (\A u \in Tabs : u # t => tabCalls'[u] = tabCalls[u])
           /\ r \in TabCall /\ r.stage = "sent" /\ r.status = 0 /\ r.pair = NoPair
           /\ (\A u \in Tabs : CallFits(u) /\ AnswerIsOwn(u) /\ RefusedIsDead(u))
           /\ (\A p \in Pairs : ExchangesAlone(p) /\ RotatedIsLeft(p) /\ (Raced(p) => Raced(p)'))
           /\ KeptIsKnown /\ ReuseIsRaced /\ kept \in MaybePair /\ issued' = issued /\ mode' = mode
<1>1. tabCalls \in [Tabs -> TabCall] /\ kept \in MaybePair
  BY DEF ClientStep, BrowserSound, BrowserTypeOK
<1>2. tabCalls'[t] = r /\ (\A u \in Tabs : u # t => tabCalls'[u] = tabCalls[u])  BY <1>1 DEF ClientStep
<1>3. r \in TabCall /\ r.stage = "sent" /\ r.status = 0 /\ r.pair = NoPair
  BY DEF ClientStep, Unanswered
<1>4. \A p \in Pairs : Raced(p) => Raced(p)'  BY DEF ClientStep, Raced
<1> QED  BY <1>1, <1>2, <1>3, <1>4 DEF ClientStep, BrowserSound, BrowserInv

LEMMA ClientKeepsCalls ==
    ASSUME NEW t \in Tabs, NEW r, ClientStep(t, r)
    PROVE  \A u \in Tabs : CallFits(u)' /\ RefusedIsDead(u)'
<1> TAKE u \in Tabs
<1>1. CASE u = t
  <2>1. tabCalls'[u] = r /\ r.stage = "sent" /\ r.status = 0 /\ r.pair = NoPair /\ issued' = issued /\ mode' = mode
    BY <1>1, ClientReads
  <2>2. r.op = "refresh" => r.token \in Pairs /\ issued[r.token].row # "none"
    BY ClientReads DEF ClientStep, KeptIsKnown, MaybePair
  <2>3. /\ r.op \in {"read", "logout_all", "refresh"} => tabs'[u].user
        /\ r.op = "refresh" => mode = "bearer" /\ r.then \in {"read", "logout_all"}
    BY <1>1 DEF ClientStep
  <2> QED  BY <2>1, <2>2, <2>3 DEF CallFits, RefusedIsDead, Exchanges
<1>2. CASE u # t
  <2>1. tabCalls'[u] = tabCalls[u] /\ issued' = issued /\ mode' = mode /\ CallFits(u) /\ RefusedIsDead(u)
    BY <1>2, ClientReads
  <2>2. tabs'[u] = tabs[u]  BY <1>2 DEF ClientStep
  <2> QED  BY <2>1, <2>2 DEF CallFits, RefusedIsDead, Exchanges
<1> QED  BY <1>1, <1>2

LEMMA ClientKeepsAnswers ==
    ASSUME NEW t \in Tabs, NEW r, ClientStep(t, r)
    PROVE  (\A u \in Tabs : AnswerIsOwn(u)') /\ KeptIsKnown'
<1>1. ASSUME NEW u \in Tabs PROVE AnswerIsOwn(u)'
  <2>1. CASE u = t  BY <2>1, ClientReads DEF AnswerIsOwn
  <2>2. CASE u # t
    <3>0. PICK p : p = tabCalls[u].pair  OBVIOUS
    <3>1. tabCalls'[u] = tabCalls[u] /\ AnswerIsOwn(u) /\ issued' = issued  BY <2>2, ClientReads
    <3> SUFFICES ASSUME p # NoPair
                 PROVE  /\ issued[p].row \notin {"none", "rotated"} /\ kept' # p
                        /\ \A v \in Tabs : ~ Exchanges(v, p)' /\ (v # u => tabCalls'[v].pair # p)
      BY <3>0, <3>1 DEF AnswerIsOwn, Exchanges
    <3>2. issued[p].row \notin {"none", "rotated"} /\ kept # p  BY <3>0, <3>1 DEF AnswerIsOwn
    <3>3. ASSUME NEW v \in Tabs PROVE ~ Exchanges(v, p) /\ (v # u => tabCalls[v].pair # p)
      BY <3>0, <3>1 DEF AnswerIsOwn
    <3>4. kept' # p
      <4>1. tabCalls[t].pair # p  BY <2>2, <3>3
      <4>2. kept' = kept \/ kept' = NoPair \/ kept' = tabCalls[t].pair  BY DEF ClientStep
      <4> QED  BY <3>2, <4>1, <4>2
    <3>5. ASSUME NEW v \in Tabs PROVE ~ Exchanges(v, p)' /\ (v # u => tabCalls'[v].pair # p)
      <4>1. CASE v = t
        <5>1. tabCalls'[v] = r /\ r.pair = NoPair  BY <4>1, ClientReads
        <5>2. r.op = "refresh" => r.token = kept  BY DEF ClientStep
        <5> QED  BY <3>2, <5>1, <5>2 DEF Exchanges
      <4>2. CASE v # t  BY <3>3, <4>2, ClientReads DEF Exchanges
      <4> QED  BY <4>1, <4>2
    <3> QED  BY <3>2, <3>4, <3>5
  <2> QED  BY <2>1, <2>2
<1>2. KeptIsKnown'
  <2>1. KeptIsKnown /\ issued' = issued /\ AnswerIsOwn(t)  BY ClientReads
  <2>2. kept' = kept \/ kept' = NoPair \/ (kept' = tabCalls[t].pair /\ tabCalls[t].pair # NoPair)
    BY DEF ClientStep
  <2> QED  BY <2>1, <2>2 DEF KeptIsKnown, AnswerIsOwn
<1> QED  BY <1>1, <1>2

LEMMA ClientKeepsExchanges ==
    ASSUME NEW t \in Tabs, NEW r, ClientStep(t, r), NEW p \in Pairs
    PROVE  ExchangesAlone(p)' /\ RotatedIsLeft(p)'
<1>1. ExchangesAlone(p) /\ RotatedIsLeft(p) /\ (Raced(p) => Raced(p)') /\ issued' = issued
  BY ClientReads
<1>2. \A u \in Tabs : u # t => (Exchanges(u, p)' <=> Exchanges(u, p)) /\ tabCalls'[u] = tabCalls[u]
  BY ClientReads DEF Exchanges
<1>3. Exchanges(t, p)' => /\ p = kept /\ kept' = kept /\ tabCalls[t].op # "refresh"
                          /\ (Exchanging(t, p) => Raced(p)')
  <2>1. tabCalls'[t] = r  BY ClientReads
  <2> QED  BY <1>1, <2>1 DEF ClientStep, Exchanges, Raced
<1>4. Exchanging(t, p) <=> \E u \in Tabs \ {t} : Exchanges(u, p)  BY DEF Exchanging, Exchanges
<1>5. ExchangesAlone(p)'
  <2> SUFFICES ASSUME NEW u \in Tabs, NEW v \in Tabs, Exchanges(u, p)', Exchanges(v, p)', u # v PROVE Raced(p)'
    BY DEF ExchangesAlone
  <2>1. CASE u = t \/ v = t
    <3>1. Exchanges(t, p)' /\ Exchanging(t, p)  BY <1>2, <1>4, <2>1
    <3> QED  BY <1>3, <3>1
  <2>2. CASE u # t /\ v # t  BY <1>1, <1>2, <2>2 DEF ExchangesAlone
  <2> QED  BY <2>1, <2>2
<1>6. RotatedIsLeft(p)'
  <2> SUFFICES ASSUME issued[p].row = "rotated", ~ Raced(p)'
               PROVE  /\ \A u \in Tabs : Exchanges(u, p)' => tabCalls'[u].stage = "answered" /\ tabCalls'[u].status = 200
                      /\ kept' = p => \E u \in Tabs : Exchanges(u, p)'
    BY <1>1 DEF RotatedIsLeft
  <2>1. \A u \in Tabs : Exchanges(u, p) => tabCalls[u].stage = "answered" /\ tabCalls[u].status = 200
    BY <1>1 DEF RotatedIsLeft
  <2>2. kept = p => \E u \in Tabs : Exchanges(u, p)  BY <1>1 DEF RotatedIsLeft
  <2>3. ~ Exchanges(t, p)'
    <3> SUFFICES ASSUME Exchanges(t, p)' PROVE FALSE  OBVIOUS
    <3>1. p = kept /\ tabCalls[t].op # "refresh" /\ (Exchanging(t, p) => Raced(p)')  BY <1>3
    <3>2. PICK u \in Tabs : Exchanges(u, p)  BY <2>2, <3>1
    <3>3. u # t  BY <3>1, <3>2 DEF Exchanges
    <3> QED  BY <1>4, <3>1, <3>2, <3>3
  <2>4. ASSUME NEW u \in Tabs, Exchanges(u, p)' PROVE tabCalls'[u].stage = "answered" /\ tabCalls'[u].status = 200
    <3>1. u # t  BY <2>3, <2>4
    <3> QED  BY <1>2, <2>1, <2>4, <3>1
  <2>5. ASSUME kept' = p PROVE \E u \in Tabs : Exchanges(u, p)'
    <3>1. p # NoPair  BY NoPairIsNone
    <3>2. tabCalls[t].pair = p => p # NoPair /\ issued[p].row # "rotated"
      BY <3>1, ClientReads DEF AnswerIsOwn
    <3>3. kept = p  BY <2>5, <3>1, <3>2 DEF ClientStep
    <3>4. PICK u \in Tabs : Exchanges(u, p)  BY <2>2, <3>3
    <3>5. ~ Exchanges(t, p)  BY <1>1, <2>5, <3>1, <3>3 DEF ClientStep, Exchanges, Raced
    <3>6. u # t  BY <3>4, <3>5
    <3> QED  BY <1>2, <3>4, <3>6
  <2> QED  BY <2>4, <2>5
<1> QED  BY <1>5, <1>6

LEMMA ClientSound == ASSUME NEW t \in Tabs, NEW r, ClientStep(t, r) PROVE BrowserInv'
<1>1. (\A u \in Tabs : CallFits(u)' /\ RefusedIsDead(u)') /\ (\A u \in Tabs : AnswerIsOwn(u)') /\ KeptIsKnown'
  BY ClientKeepsCalls, ClientKeepsAnswers
<1>2. \A p \in Pairs : ExchangesAlone(p)' /\ RotatedIsLeft(p)'  BY ClientKeepsExchanges
<1>3. StorageHasUser' /\ ReuseIsRaced'
  <2>1. ReuseIsRaced /\ issued' = issued /\ exchangeRaced \subseteq exchangeRaced'
    BY ClientReads DEF ClientStep
  <2> QED  BY <2>1 DEF ClientStep, ReuseIsRaced
<1> QED  BY <1>1, <1>2, <1>3 DEF BrowserInv

\* The types after a client's step.
LEMMA ClientTypes ==
    ASSUME NEW t \in Tabs, NEW r, ClientStep(t, r), tabs' \in [Tabs -> TabState], exchangeRaced' \subseteq Pairs,
           tabCallsBegun' \in Nat
    PROVE  BrowserSound'
<1>1. BrowserTypeOK /\ r \in TabCall  BY ClientReads DEF ClientStep, BrowserSound
<1>2. tabCalls' \in [Tabs -> TabCall]  BY <1>1 DEF ClientStep, BrowserTypeOK
<1>3. kept' \in MaybePair
  <2>1. tabCalls[t].pair \in MaybePair /\ kept \in MaybePair  BY <1>1, BrowserFields, TabCallFields
  <2> QED  BY <2>1, NoPairIsNone DEF ClientStep
<1>4. mode' \in BearerOrJar /\ issued' \in [Pairs -> PairRow]  BY <1>1 DEF ClientStep, BrowserTypeOK
<1>5. BrowserTypeOK'  BY <1>2, <1>3, <1>4 DEF BrowserTypeOK
<1> QED  BY <1>5, ClientSound DEF BrowserSound

\* A call begins or ends in a tab that makes no exchange, and nothing is stored.
LEMMA PlainCallSound ==
    ASSUME BrowserSound, NEW t \in Tabs, NEW r, Unanswered(r), tabCalls' = [tabCalls EXCEPT ![t] = r],
           UNCHANGED <<mode, issued, kept, tabs, exchangeRaced>>, tabCallsBegun' \in Nat,
           tabCalls[t].op # "refresh", r.op # "refresh", r.op \in {"read", "logout_all"} => tabs[t].user
    PROVE  BrowserSound'
<1>1. BrowserTypeOK /\ StorageHasUser  BY DEF BrowserSound, BrowserInv
<1>2. StorageHasUser'  BY <1>1 DEF StorageHasUser
<1>3. ClientStep(t, r)  BY <1>2 DEF ClientStep
<1>4. tabs' \in [Tabs -> TabState] /\ exchangeRaced' \subseteq Pairs  BY <1>1 DEF BrowserTypeOK
<1> QED  BY <1>3, <1>4, ClientTypes

LEMMA BeginCallsSound ==
    ASSUME BrowserSound, NEW t \in Tabs,
           SubmitLogin(t) \/ CallWithAuth(t, "read") \/ CallWithAuth(t, "logout_all")
    PROVE  BrowserSound'
<1>1. BrowserTypeOK  BY DEF BrowserSound
<1>2. tabCallsBegun' \in Nat /\ tabCalls[t].op = "none" /\ UNCHANGED <<mode, issued, kept, tabs, exchangeRaced>>
  BY <1>1 DEF SubmitLogin, CallWithAuth, BeginTabCall, Under, BrowserTypeOK
<1>3. CASE SubmitLogin(t)
  <2> DEFINE r == Sent(t, "login", "none", NoPair, NoPair)
  <2>1. Unanswered(r) /\ r.op = "login"  BY <1>1, NoPairIsNone, SentIsUnanswered
  <2>2. tabCalls' = [tabCalls EXCEPT ![t] = r]  BY <1>3 DEF SubmitLogin, BeginTabCall
  <2> HIDE DEF r
  <2> QED  BY <1>2, <2>1, <2>2, PlainCallSound
<1>4. ASSUME NEW op \in {"read", "logout_all"}, CallWithAuth(t, op) PROVE BrowserSound'
  <2> DEFINE r == Sent(t, op, "none", FreshAccessToken(t), NoPair)
  <2>1. FreshAccessToken(t) \in MaybePair  BY <1>1, BrowserFields DEF FreshAccessToken
  <2>2. Unanswered(r) /\ r.op = op  BY <1>1, <2>1, NoPairIsNone, SentIsUnanswered
  <2>3. tabCalls' = [tabCalls EXCEPT ![t] = r] /\ tabs[t].user  BY <1>4 DEF CallWithAuth, BeginTabCall
  <2> HIDE DEF r
  <2>4. r.op # "refresh"  BY <2>2
  <2> QED  BY <1>2, <2>2, <2>3, <2>4, PlainCallSound
<1> QED  BY <1>3, <1>4

\* A tab forgets its state and logs out, and with bearer tokens empties the storage.
LEMMA SignedOutSound ==
    ASSUME BrowserSound, NEW t \in Tabs, NEW r, Unanswered(r), r.op = "logout", tabCalls' = [tabCalls EXCEPT ![t] = r],
           tabs' = [tabs EXCEPT ![t] = SignedOut], UNCHANGED <<mode, issued, exchangeRaced>>, tabCallsBegun' \in Nat,
           kept' = NoPair \/ (Cookies /\ kept' = kept)
    PROVE  BrowserSound'
<1>1. BrowserTypeOK /\ CallFits(t)  BY DEF BrowserSound, BrowserInv
<1>2. tabs' \in [Tabs -> TabState] /\ (\A u \in Tabs \ {t} : tabs'[u] = tabs[u])
  <2>1. SignedOut \in TabState  BY NoPairIsNone DEF SignedOut, TabState
  <2>2. tabs \in [Tabs -> TabState]  BY <1>1 DEF BrowserTypeOK
  <2> QED  BY <2>1, <2>2
<1>3. StorageHasUser'  BY DEF StorageHasUser, Cookies
<1>4. tabCalls[t].op = "refresh" => ~ Cookies  BY <1>1 DEF CallFits, Cookies
<1>5. ClientStep(t, r)  BY <1>2, <1>3, <1>4 DEF ClientStep
<1> QED  BY <1>1, <1>2, <1>5, ClientTypes DEF BrowserTypeOK

LEMMA ClickLogOutSound == ASSUME BrowserSound, NEW t \in Tabs, ClickLogOut(t) PROVE BrowserSound'
<1> DEFINE token == IF Cookies THEN NoPair ELSE tabs[t].access
           s == Sent(t, "logout", "none", token, NoPair)
<1>0. PICK r : r = [s EXCEPT !.csrf = NoPair]  OBVIOUS
<1>1. BrowserTypeOK  BY DEF BrowserSound
<1>2. token \in MaybePair  BY <1>1, BrowserFields, NoPairIsNone
<1>3. Unanswered(s) /\ s.op = "logout"  BY <1>1, <1>2, NoPairIsNone, SentIsUnanswered
<1>4. tabCalls' = [tabCalls EXCEPT ![t] = r]  BY <1>0, Zenon DEF ClickLogOut, LogOutTab
<1> HIDE DEF s
<1>5. Unanswered(r) /\ r.op = "logout"
  <2>1. Unanswered(r) /\ r.op = s.op  BY <1>0, <1>3, BareIsUnanswered, Zenon
  <2> QED  BY <1>3, <2>1
<1>6. tabs' = [tabs EXCEPT ![t] = SignedOut] /\ UNCHANGED <<mode, issued, exchangeRaced>> /\ tabCallsBegun' \in Nat
  BY <1>1 DEF ClickLogOut, LogOutTab, BrowserTypeOK
<1>7. kept' = NoPair \/ (Cookies /\ kept' = kept)  BY DEF ClickLogOut, LogOutTab, LeftByLogOut
<1> QED  BY <1>4, <1>5, <1>6, <1>7, SignedOutSound

LEMMA LoadPageSound == ASSUME BrowserSound, NEW t \in Tabs, LoadPage(t) PROVE BrowserSound'
<1>1. BrowserTypeOK /\ BrowserInv /\ tabCalls[t].op = "none"
      /\ UNCHANGED <<mode, issued, kept, tabCalls, exchangeRaced, tabCallsBegun>>
  BY DEF BrowserSound, LoadPage, Under
<1>2. PICK s \in TabState : tabs' = [tabs EXCEPT ![t] = s] /\ (mode = "bearer" /\ kept # NoPair => s.user)
  <2>1. SignedOut \in TabState  BY NoPairIsNone DEF SignedOut, TabState
  <2> DEFINE s == [user |-> TRUE, access |-> IF Cookies THEN NoPair ELSE kept, csrf |-> IF Cookies THEN kept ELSE NoPair]
  <2>2. s \in TabState /\ s.user  BY <1>1, BrowserFields, NoPairIsNone DEF TabState
  <2>3. tabs' = [tabs EXCEPT ![t] = IF kept = NoPair \/ (Cookies /\ ~ issued[kept].fresh) THEN SignedOut ELSE s]
    BY DEF LoadPage
  <2> HIDE DEF s
  <2> QED  BY <2>1, <2>2, <2>3 DEF Cookies
<1>3. tabs' \in [Tabs -> TabState] /\ tabs'[t] = s /\ (\A u \in Tabs : u # t => tabs'[u] = tabs[u])
  BY <1>1, <1>2 DEF BrowserTypeOK
<1>4. BrowserTypeOK'  BY <1>1, <1>3 DEF BrowserTypeOK
<1>5. ASSUME NEW u \in Tabs PROVE CallFits(u)'
  <2>1. CallFits(u)  BY <1>1 DEF BrowserInv
  <2>2. tabs'[u] = tabs[u] \/ tabCalls[u].op = "none"  BY <1>1, <1>3
  <2> QED  BY <1>1, <2>1, <2>2 DEF CallFits
<1>6. StorageHasUser'  BY <1>1, <1>2, <1>3 DEF StorageHasUser
<1>7. /\ \A u \in Tabs : AnswerIsOwn(u)' /\ RefusedIsDead(u)'
      /\ \A p \in Pairs : ExchangesAlone(p)' /\ RotatedIsLeft(p)'
      /\ KeptIsKnown' /\ ReuseIsRaced'
  BY <1>1 DEF BrowserInv, AnswerIsOwn, RefusedIsDead, ExchangesAlone, RotatedIsLeft, Exchanges, Raced, KeptIsKnown,
              ReuseIsRaced
<1> QED  BY <1>4, <1>5, <1>6, <1>7 DEF BrowserSound, BrowserInv

LEMMA ReceiveLoginSound == ASSUME BrowserSound, NEW t \in Tabs, ReceiveLogin(t) PROVE BrowserSound'
<1>1. BrowserTypeOK /\ CallFits(t)  BY DEF BrowserSound, BrowserInv
<1> DEFINE p == tabCalls[t].pair
           s == [user |-> TRUE, access |-> IF mode = "cookie" THEN NoPair ELSE p, csrf |-> IF Cookies THEN p ELSE NoPair]
<1>2. p # NoPair /\ p \in MaybePair /\ tabCalls[t].op = "login"
  BY <1>1, BrowserFields, TabCallFields DEF ReceiveLogin, HasAnswer, CallFits
<1>3. kept' = p /\ tabs' = [tabs EXCEPT ![t] = s] /\ tabCalls' = [tabCalls EXCEPT ![t] = Quiet]
      /\ UNCHANGED <<mode, issued, exchangeRaced, tabCallsBegun>>
  BY DEF ReceiveLogin, Hang
<1> HIDE DEF p
<1>4. s \in TabState /\ s.user  BY <1>2, NoPairIsNone DEF TabState
<1> HIDE DEF s
<1>5. tabs' \in [Tabs -> TabState] /\ tabs'[t] = s /\ (\A u \in Tabs \ {t} : tabs'[u] = tabs[u])
  BY <1>1, <1>3, <1>4 DEF BrowserTypeOK
<1>6. StorageHasUser'  BY <1>4, <1>5 DEF StorageHasUser
<1>7. ClientStep(t, Quiet)  BY <1>2, <1>3, <1>5, <1>6, QuietIsUnanswered DEF ClientStep, p
<1> QED  BY <1>1, <1>3, <1>5, <1>7, ClientTypes DEF BrowserTypeOK

LEMMA Receive401Sound ==
    ASSUME BrowserSound, NEW t \in Tabs, NEW op \in {"read", "logout_all"}, Receive401(t, op)
    PROVE  BrowserSound'
<1>1. BrowserTypeOK /\ CallFits(t) /\ StorageHasUser  BY DEF BrowserSound, BrowserInv
<1>2. tabCalls[t].op = op /\ UNCHANGED <<mode, issued, kept, tabs, tabCallsBegun>>
  BY DEF Receive401, HasAnswer
<1>3. CASE tabCalls' = [tabCalls EXCEPT ![t] = Quiet] /\ exchangeRaced' = exchangeRaced
  <2>1. Unanswered(Quiet) /\ Quiet.op = "none" /\ tabCallsBegun' \in Nat
    BY <1>1, <1>2, QuietIsUnanswered DEF BrowserTypeOK
  <2>2. tabCalls[t].op # "refresh"  BY <1>2
  <2> QED  BY <1>2, <1>3, <2>1, <2>2, PlainCallSound
<1>4. CASE /\ ~ Cookies /\ kept # NoPair
           /\ tabCalls' = [tabCalls EXCEPT ![t] = Sent(t, "refresh", op, NoPair, kept)]
           /\ exchangeRaced' = IF Exchanging(t, kept) THEN exchangeRaced \cup {issued[kept].family} ELSE exchangeRaced
  <2> DEFINE r == Sent(t, "refresh", op, NoPair, kept)
  <2>1. kept \in MaybePair /\ kept \in Pairs /\ issued[kept].family \in Pairs
    BY <1>1, <1>4, BrowserFields DEF MaybePair
  <2>2. Unanswered(r) /\ r.op = "refresh" /\ r.then = op /\ r.token = kept
    BY <1>1, <2>1, NoPairIsNone, SentIsUnanswered
  <2>3. tabCalls' = [tabCalls EXCEPT ![t] = r]  BY <1>4
  <2> HIDE DEF r
  <2>4. exchangeRaced \subseteq exchangeRaced' /\ exchangeRaced' \subseteq Pairs
        /\ (Exchanging(t, kept) => issued[kept].family \in exchangeRaced')
    BY <1>1, <1>4, <2>1 DEF BrowserTypeOK
  <2>5. tabs[t].user /\ StorageHasUser'  BY <1>1, <1>2 DEF CallFits, StorageHasUser
  <2>6. mode = "bearer"  BY <1>4 DEF Cookies
  <2>7. ClientStep(t, r)  BY <1>2, <1>4, <2>2, <2>3, <2>4, <2>5, <2>6 DEF ClientStep
  <2>8. tabs' \in [Tabs -> TabState] /\ tabCallsBegun' \in Nat  BY <1>1, <1>2 DEF BrowserTypeOK
  <2> QED  BY <2>4, <2>7, <2>8, ClientTypes
<1> QED  BY <1>3, <1>4 DEF Receive401, Hang

LEMMA ReceiveOtherSound == ASSUME BrowserSound, NEW t \in Tabs, ReceiveOther(t) PROVE BrowserSound'
<1>1. BrowserTypeOK /\ StorageHasUser  BY DEF BrowserSound, BrowserInv
<1>2. UNCHANGED <<mode, issued, exchangeRaced, tabCallsBegun>> /\ tabCallsBegun' \in Nat /\ tabCalls[t].op # "refresh"
  BY <1>1 DEF ReceiveOther, BrowserTypeOK
<1>3. CASE tabCalls[t].op = "logout_all" /\ tabCalls[t].status = 204
  <2> DEFINE token == IF Cookies THEN NoPair ELSE tabs[t].access
             s == Sent(t, "logout", "none", token, NoPair)
  <2>0. PICK r : r = [s EXCEPT !.csrf = NoPair, !.jar = NoPair]  OBVIOUS
  <2>1. token \in MaybePair  BY <1>1, BrowserFields, NoPairIsNone
  <2>2. Unanswered(s) /\ s.op = "logout"  BY <1>1, <2>1, NoPairIsNone, SentIsUnanswered
  <2>3. tabCalls' = [tabCalls EXCEPT ![t] = r] /\ tabs' = [tabs EXCEPT ![t] = SignedOut] /\ kept' = NoPair
    BY <1>3, <2>0, Zenon DEF ReceiveOther
  <2> HIDE DEF s
  <2>4. Unanswered(r) /\ r.op = "logout"
    <3>1. Unanswered(r) /\ r.op = s.op  BY <2>0, <2>2, BareIsUnanswered, Zenon
    <3> QED  BY <2>2, <3>1
  <2> QED  BY <1>2, <2>3, <2>4, SignedOutSound
<1>4. CASE ~ (tabCalls[t].op = "logout_all" /\ tabCalls[t].status = 204)
  <2>1. tabs' = tabs /\ tabCalls' = [tabCalls EXCEPT ![t] = Quiet] /\ (kept' = kept \/ kept' = NoPair)
    BY <1>4 DEF ReceiveOther, Hang
  <2>2. StorageHasUser'  BY <1>1, <1>2, <2>1 DEF StorageHasUser
  <2>3. ClientStep(t, Quiet)  BY <1>2, <2>1, <2>2, QuietIsUnanswered DEF ClientStep
  <2> QED  BY <1>1, <1>2, <2>1, <2>3, ClientTypes DEF BrowserTypeOK
<1> QED  BY <1>3, <1>4

LEMMA ReceiveRefreshSound == ASSUME BrowserSound, NEW t \in Tabs, ReceiveRefresh(t) PROVE BrowserSound'
<1>1. BrowserTypeOK /\ CallFits(t) /\ AnswerIsOwn(t)  BY DEF BrowserSound, BrowserInv
<1>2. UNCHANGED <<mode, issued, tabs, exchangeRaced, tabCallsBegun>> /\ tabCalls[t].op = "refresh" /\ tabs[t].user
      /\ tabCalls[t].then \in {"read", "logout_all"}
  BY <1>1 DEF ReceiveRefresh, HasAnswer, CallFits
<1>3. StorageHasUser'  BY <1>2 DEF StorageHasUser
<1>4. CASE tabCalls[t].status = 200
  <2> DEFINE r == Sent(t, tabCalls[t].then, "give_up", tabCalls[t].pair, NoPair)
  <2>1. tabCalls[t].pair \in MaybePair /\ tabCalls[t].pair # NoPair
    BY <1>1, <1>2, <1>4, BrowserFields, TabCallFields DEF CallFits
  <2>2. Unanswered(r) /\ r.op = tabCalls[t].then  BY <1>1, <1>2, <2>1, NoPairIsNone, SentIsUnanswered
  <2>3. tabCalls' = [tabCalls EXCEPT ![t] = r] /\ kept' = tabCalls[t].pair  BY <1>4 DEF ReceiveRefresh
  <2> HIDE DEF r
  <2>4. kept # tabCalls[t].pair  BY <1>1, <2>1 DEF AnswerIsOwn
  <2>5. ClientStep(t, r)  BY <1>2, <1>3, <2>1, <2>2, <2>3, <2>4 DEF ClientStep
  <2> QED  BY <1>1, <1>2, <2>5, ClientTypes DEF BrowserTypeOK
<1>5. CASE tabCalls[t].status # 200
  <2>1. tabCalls' = [tabCalls EXCEPT ![t] = Quiet] /\ kept' = NoPair  BY <1>5 DEF ReceiveRefresh, Hang
  <2>2. ClientStep(t, Quiet)  BY <1>2, <1>3, <2>1, QuietIsUnanswered DEF ClientStep
  <2> QED  BY <1>1, <1>2, <2>2, ClientTypes DEF BrowserTypeOK
<1> QED  BY <1>4, <1>5

LEMMA LoseAnswerSound == ASSUME BrowserSound, NEW t \in Tabs, LoseAnswer(t) PROVE BrowserSound'
<1>1. BrowserTypeOK /\ CallFits(t) /\ StorageHasUser  BY DEF BrowserSound, BrowserInv
<1>2. UNCHANGED <<mode, issued, kept, tabs, tabCallsBegun>> /\ tabCalls' = [tabCalls EXCEPT ![t] = Quiet]
  BY DEF LoseAnswer, Hang
<1>3. exchangeRaced' = IF tabCalls[t].op = "refresh" THEN exchangeRaced \cup {issued[tabCalls[t].token].family} ELSE exchangeRaced
  BY DEF LoseAnswer
<1>4. tabCalls[t].op = "refresh" => issued[tabCalls[t].token].family \in Pairs
  BY <1>1, BrowserFields DEF CallFits
<1>5. exchangeRaced \subseteq exchangeRaced' /\ exchangeRaced' \subseteq Pairs
      /\ (tabCalls[t].op = "refresh" => issued[tabCalls[t].token].family \in exchangeRaced')
  BY <1>1, <1>3, <1>4 DEF BrowserTypeOK
<1>6. StorageHasUser'  BY <1>1, <1>2 DEF StorageHasUser
<1>7. ClientStep(t, Quiet)  BY <1>2, <1>5, <1>6, QuietIsUnanswered DEF ClientStep
<1> QED  BY <1>1, <1>2, <1>5, <1>7, ClientTypes DEF BrowserTypeOK

\* The server's steps.  A row that was handed out keeps its family and changes only
\* while it is live; one is replaced only by the exchange that is served.
RowsMove(t, served) ==
    \A q \in Pairs :
        /\ issued[q].row # "none" => /\ issued'[q].family = issued[q].family /\ issued'[q].row # "none"
                                     /\ (issued[q].row # "live" => issued'[q].row = issued[q].row)
        /\ issued'[q].row = "rotated" => issued[q].row = "rotated" \/ (served /\ Exchanges(t, q))
        /\ issued'[q].row = "family_invalidated" => issued'[q].family \in exchangeRaced

ServerStep(t, status, pair) ==
    /\ BrowserSound /\ UNCHANGED <<mode, kept, tabs, exchangeRaced, tabCallsBegun>>
    /\ issued' \in [Pairs -> PairRow] /\ RowsMove(t, status = 200)
    /\ tabCalls[t].stage = "sent" /\ status \in {200, 204, 401, 403, 429} /\ AnswerTab(t, status, pair)
    /\ tabCalls[t].op = "refresh" => status \in {200, 401, 429}
    /\ pair # NoPair <=> tabCalls[t].op \in {"login", "refresh"} /\ status = 200
    /\ pair # NoPair => pair \in Pairs /\ issued[pair].row = "none" /\ issued'[pair].row = "live"
    /\ \A q \in Pairs : status = 401 /\ Exchanges(t, q) => issued'[q].row \notin {"none", "live"}

LEMMA ServerReads ==
    ASSUME NEW t \in Tabs, NEW status, NEW pair, ServerStep(t, status, pair)
    PROVE  /\ tabCalls'[t].op = tabCalls[t].op /\ tabCalls'[t].then = tabCalls[t].then
           /\ tabCalls'[t].token = tabCalls[t].token /\ tabCalls'[t].stage = "answered"
           /\ tabCalls'[t].status = status /\ tabCalls'[t].pair = pair
           /\ (\A u \in Tabs : u # t => tabCalls'[u] = tabCalls[u])
           /\ tabCalls' \in [Tabs -> TabCall] /\ tabCalls[t].status = 0
<1>1. tabCalls \in [Tabs -> TabCall] /\ tabCalls[t] \in TabCall /\ CallFits(t)
  BY DEF ServerStep, BrowserSound, BrowserTypeOK, BrowserInv
<1> DEFINE r1 == [tabCalls[t] EXCEPT !.stage = "answered"]
           r2 == [r1 EXCEPT !.status = status]
           r3 == [r2 EXCEPT !.pair = pair]
<1>2. pair \in MaybePair /\ status \in {0, 200, 204, 401, 403, 429}
  BY NoPairIsNone DEF ServerStep, MaybePair
<1>3. /\ r1 \in TabCall /\ r1.op = tabCalls[t].op /\ r1.then = tabCalls[t].then /\ r1.token = tabCalls[t].token
      /\ r1.stage = "answered"
  BY <1>1 DEF TabCall
<1> HIDE DEF r1
<1>4. /\ r2 \in TabCall /\ r2.op = tabCalls[t].op /\ r2.then = tabCalls[t].then /\ r2.token = tabCalls[t].token
      /\ r2.stage = "answered" /\ r2.status = status
  BY <1>2, <1>3 DEF TabCall
<1> HIDE DEF r2
<1>5. /\ r3 \in TabCall /\ r3.op = tabCalls[t].op /\ r3.then = tabCalls[t].then /\ r3.token = tabCalls[t].token
      /\ r3.stage = "answered" /\ r3.status = status /\ r3.pair = pair
  BY <1>2, <1>4 DEF TabCall
<1>6. tabCalls' = [tabCalls EXCEPT ![t] = r3]  BY Zenon DEF ServerStep, AnswerTab, r1, r2, r3
<1> HIDE DEF r3
<1>7. tabCalls'[t] = r3 /\ (\A u \in Tabs : u # t => tabCalls'[u] = tabCalls[u]) /\ tabCalls' \in [Tabs -> TabCall]
  BY <1>1, <1>5, <1>6
<1>8. tabCalls[t].status = 0  BY <1>1 DEF ServerStep, CallFits
<1> QED  BY <1>5, <1>7, <1>8

LEMMA ServerExchanges ==
    ASSUME NEW t \in Tabs, NEW status, NEW pair, ServerStep(t, status, pair), NEW u \in Tabs, NEW p
    PROVE  Exchanges(u, p)' <=> Exchanges(u, p)
<1>1. CASE u = t  BY <1>1, ServerReads DEF Exchanges
<1>2. CASE u # t  BY <1>2, ServerReads DEF Exchanges
<1> QED  BY <1>1, <1>2

LEMMA ServerKeepsCalls ==
    ASSUME NEW t \in Tabs, NEW status, NEW pair, ServerStep(t, status, pair), NEW u \in Tabs
    PROVE  CallFits(u)' /\ RefusedIsDead(u)'
<1>1. CallFits(u) /\ RefusedIsDead(u) /\ tabs' = tabs /\ mode' = mode
  BY DEF ServerStep, BrowserSound, BrowserInv
<1>2. tabCalls[u].op = "refresh" => issued'[tabCalls[u].token].row # "none"
  BY <1>1 DEF CallFits, ServerStep, RowsMove
<1>3. CASE u = t
  <2>1. CallFits(u)'  BY <1>1, <1>2, <1>3, ServerReads DEF CallFits, ServerStep
  <2>2. RefusedIsDead(u)'  BY <1>3, ServerReads, ServerExchanges DEF RefusedIsDead, ServerStep
  <2> QED  BY <2>1, <2>2
<1>4. CASE u # t
  <2>1. tabCalls'[u] = tabCalls[u]  BY <1>4, ServerReads
  <2>2. CallFits(u)'  BY <1>1, <1>2, <2>1 DEF CallFits
  <2>3. RefusedIsDead(u)'  BY <1>1, <2>1 DEF RefusedIsDead, Exchanges, ServerStep, RowsMove
  <2> QED  BY <2>2, <2>3
<1> QED  BY <1>3, <1>4

LEMMA ServerKeepsAnswers ==
    ASSUME NEW t \in Tabs, NEW status, NEW pair, ServerStep(t, status, pair), NEW u \in Tabs
    PROVE  AnswerIsOwn(u)'
<1>1. PICK p : p = tabCalls'[u].pair  OBVIOUS
<1> SUFFICES ASSUME p # NoPair
             PROVE  /\ issued'[p].row \notin {"none", "rotated"} /\ kept' # p
                    /\ \A v \in Tabs : ~ Exchanges(v, p)' /\ (v # u => tabCalls'[v].pair # p)
  BY <1>1 DEF AnswerIsOwn, Exchanges
<1>2. \A v \in Tabs : AnswerIsOwn(v) /\ CallFits(v)  BY DEF ServerStep, BrowserSound, BrowserInv
<1>3. kept' = kept /\ KeptIsKnown /\ (\A v \in Tabs : tabCalls[v].pair \in MaybePair)
  <2>1. BrowserTypeOK /\ kept' = kept /\ KeptIsKnown  BY DEF ServerStep, BrowserSound, BrowserInv
  <2> QED  BY <2>1, BrowserFields, TabCallFields
<1>4. CASE u = t
  <2>1. p = pair  BY <1>1, <1>4, ServerReads
  <2>2. p \in Pairs /\ issued[p].row = "none" /\ issued'[p].row = "live"  BY <2>1 DEF ServerStep
  <2>3. kept # p  BY <1>3, <2>2 DEF KeptIsKnown
  <2>4. ASSUME NEW v \in Tabs PROVE ~ Exchanges(v, p)' /\ (v # u => tabCalls'[v].pair # p)
    <3>1. ~ Exchanges(v, p)  BY <1>2, <2>2 DEF CallFits, Exchanges
    <3>2. tabCalls[v].pair # p  BY <1>2, <2>2 DEF AnswerIsOwn
    <3> QED  BY <1>4, <3>1, <3>2, ServerExchanges, ServerReads
  <2> QED  BY <1>3, <2>2, <2>3, <2>4
<1>5. CASE u # t
  <2>1. p = tabCalls[u].pair  BY <1>1, <1>5, ServerReads
  <2>2. p \in Pairs /\ issued[p].row \notin {"none", "rotated"} /\ kept # p
    BY <1>2, <1>3, <2>1 DEF AnswerIsOwn, MaybePair
  <2>3. ASSUME NEW v \in Tabs PROVE ~ Exchanges(v, p) /\ (v # u => tabCalls[v].pair # p)
    BY <1>2, <2>1 DEF AnswerIsOwn
  <2>4. issued'[p].row \notin {"none", "rotated"}  BY <2>2, <2>3 DEF ServerStep, RowsMove
  <2>5. ASSUME NEW v \in Tabs PROVE ~ Exchanges(v, p)' /\ (v # u => tabCalls'[v].pair # p)
    <3>1. ~ Exchanges(v, p)'  BY <2>3, ServerExchanges
    <3>2. CASE v = t
      <4>1. tabCalls'[v].pair = pair /\ (pair # NoPair => issued[pair].row = "none")
        BY <3>2, ServerReads DEF ServerStep
      <4> QED  BY <2>2, <3>1, <4>1
    <3>3. CASE v # t  BY <2>3, <3>1, <3>3, ServerReads
    <3> QED  BY <3>2, <3>3
  <2> QED  BY <1>3, <2>2, <2>4, <2>5
<1> QED  BY <1>4, <1>5

LEMMA ServerKeepsExchanges ==
    ASSUME NEW t \in Tabs, NEW status, NEW pair, ServerStep(t, status, pair), NEW p \in Pairs
    PROVE  ExchangesAlone(p)' /\ RotatedIsLeft(p)'
<1>1. ExchangesAlone(p) /\ RotatedIsLeft(p) /\ (\A u \in Tabs : CallFits(u)) /\ kept' = kept
      /\ exchangeRaced' = exchangeRaced
  BY DEF ServerStep, BrowserSound, BrowserInv
<1>2. issued[p].row # "none" => (Raced(p)' <=> Raced(p))  BY <1>1 DEF ServerStep, RowsMove, Raced
<1>3. \A u \in Tabs : Exchanges(u, p) => issued[p].row # "none"  BY <1>1 DEF CallFits, Exchanges
<1>4. ExchangesAlone(p)'
  <2> SUFFICES ASSUME NEW u \in Tabs, NEW v \in Tabs, Exchanges(u, p)', Exchanges(v, p)', u # v PROVE Raced(p)'
    BY DEF ExchangesAlone
  <2>1. Exchanges(u, p) /\ Exchanges(v, p)  BY ServerExchanges
  <2> QED  BY <1>1, <1>2, <1>3, <2>1 DEF ExchangesAlone
<1>5. RotatedIsLeft(p)'
  <2> SUFFICES ASSUME issued'[p].row = "rotated", ~ Raced(p)'
               PROVE  /\ \A u \in Tabs : Exchanges(u, p)' => tabCalls'[u].stage = "answered" /\ tabCalls'[u].status = 200
                      /\ kept' = p => \E u \in Tabs : Exchanges(u, p)'
    BY DEF RotatedIsLeft
  <2>1. issued[p].row = "rotated" \/ (status = 200 /\ Exchanges(t, p))  BY DEF ServerStep, RowsMove
  <2>2. ~ Raced(p)  BY <1>2, <1>3, <2>1
  <2>3. CASE issued[p].row = "rotated"
    <3>1. \A u \in Tabs : Exchanges(u, p) => tabCalls[u].stage = "answered" /\ tabCalls[u].status = 200
      BY <1>1, <2>2, <2>3 DEF RotatedIsLeft
    <3>2. kept = p => \E u \in Tabs : Exchanges(u, p)  BY <1>1, <2>2, <2>3 DEF RotatedIsLeft
    <3>3. ASSUME NEW u \in Tabs, Exchanges(u, p)' PROVE tabCalls'[u].stage = "answered" /\ tabCalls'[u].status = 200
      <4>1. Exchanges(u, p) /\ tabCalls[u].stage = "answered"  BY <3>1, <3>3, ServerExchanges
      <4>2. u # t  BY <4>1 DEF ServerStep
      <4> QED  BY <3>1, <4>1, <4>2, ServerReads
    <3>4. ASSUME kept' = p PROVE \E u \in Tabs : Exchanges(u, p)'  BY <1>1, <3>2, <3>4, ServerExchanges
    <3> QED  BY <3>3, <3>4
  <2>4. CASE status = 200 /\ Exchanges(t, p)
    <3>1. ASSUME NEW u \in Tabs, Exchanges(u, p)' PROVE tabCalls'[u].stage = "answered" /\ tabCalls'[u].status = 200
      <4>1. Exchanges(u, p)  BY <3>1, ServerExchanges
      <4>2. u = t  BY <1>1, <2>2, <2>4, <4>1 DEF ExchangesAlone
      <4> QED  BY <2>4, <4>2, ServerReads
    <3>2. Exchanges(t, p)'  BY <2>4, ServerExchanges
    <3> QED  BY <3>1, <3>2
  <2> QED  BY <2>1, <2>3, <2>4
<1> QED  BY <1>4, <1>5

LEMMA ServerSound == ASSUME NEW t \in Tabs, NEW status, NEW pair, ServerStep(t, status, pair) PROVE BrowserSound'
<1>1. BrowserTypeOK /\ StorageHasUser /\ KeptIsKnown
      /\ UNCHANGED <<mode, kept, tabs, exchangeRaced, tabCallsBegun>> /\ issued' \in [Pairs -> PairRow]
  BY DEF ServerStep, BrowserSound, BrowserInv
<1>2. BrowserTypeOK'  BY <1>1, ServerReads DEF BrowserTypeOK
<1>3. \A u \in Tabs : CallFits(u)' /\ AnswerIsOwn(u)' /\ RefusedIsDead(u)'
  BY ServerKeepsCalls, ServerKeepsAnswers
<1>4. \A p \in Pairs : ExchangesAlone(p)' /\ RotatedIsLeft(p)'  BY ServerKeepsExchanges
<1>5. StorageHasUser'  BY <1>1 DEF StorageHasUser
<1>6. KeptIsKnown'  BY <1>1, BrowserFields DEF KeptIsKnown, MaybePair, ServerStep, RowsMove
<1>7. ReuseIsRaced'  BY <1>1 DEF ReuseIsRaced, ServerStep, RowsMove
<1> QED  BY <1>2, <1>3, <1>4, <1>5, <1>6, <1>7 DEF BrowserSound, BrowserInv

\* What rows become when they are ended and inserted.
LEMMA EndedRows ==
    ASSUME BrowserTypeOK, NEW S, NEW reason \in {"logout_all", "family_invalidated"}
    PROVE  /\ EndedPairs(S, reason) \in [Pairs -> PairRow]
           /\ \A q \in Pairs : /\ EndedPairs(S, reason)[q].family = issued[q].family
                               /\ q \in S /\ issued[q].row = "live" => EndedPairs(S, reason)[q].row = reason
                               /\ q \notin S \/ issued[q].row # "live" => EndedPairs(S, reason)[q].row = issued[q].row
<1>1. ASSUME NEW q \in Pairs
      PROVE  /\ EndedPairs(S, reason)[q] \in PairRow /\ EndedPairs(S, reason)[q].family = issued[q].family
             /\ q \in S /\ issued[q].row = "live" => EndedPairs(S, reason)[q].row = reason
             /\ q \notin S \/ issued[q].row # "live" => EndedPairs(S, reason)[q].row = issued[q].row
  <2>1. issued[q] \in PairRow /\ q # NoPair  BY BrowserFields, NoPairIsNone
  <2> DEFINE e == [issued[q] EXCEPT !.row = reason]
  <2>2. e \in PairRow /\ e.row = reason /\ e.family = issued[q].family  BY <2>1 DEF PairRow
  <2>3. EndedPairs(S, reason)[q] = IF q \in S /\ issued[q].row = "live" THEN e ELSE issued[q]
    BY <2>1 DEF EndedPairs, LivePair
  <2> HIDE DEF e
  <2> QED  BY <2>1, <2>2, <2>3
<1>2. EndedPairs(S, reason) = [q \in Pairs |-> EndedPairs(S, reason)[q]]  BY DEF EndedPairs
<1> HIDE DEF EndedPairs
<1>3. EndedPairs(S, reason) \in [Pairs -> PairRow]  BY <1>1, <1>2
<1> QED  BY <1>1, <1>3

LEMMA InsertedRows ==
    ASSUME NEW rows \in [Pairs -> PairRow], NEW p \in Pairs, NEW family \in Pairs
    PROVE  /\ InsertPair(rows, p, family) \in [Pairs -> PairRow]
           /\ InsertPair(rows, p, family)[p].row = "live" /\ InsertPair(rows, p, family)[p].family = family
           /\ \A q \in Pairs : q # p => InsertPair(rows, p, family)[q] = rows[q]
<1>1. [row |-> "live", family |-> family, fresh |-> TRUE] \in PairRow  BY DEF PairRow
<1> QED  BY <1>1 DEF InsertPair

\* Rows that do not change move.
LEMMA SameRowsMove ==
    ASSUME BrowserSound, UNCHANGED issued, NEW t, NEW served PROVE RowsMove(t, served)
BY DEF RowsMove, BrowserSound, BrowserInv, ReuseIsRaced

LEMMA EndedRowsMove ==
    ASSUME BrowserSound, NEW S, NEW reason \in {"logout_all", "family_invalidated"}, issued' = EndedPairs(S, reason),
           reason = "family_invalidated" => \A q \in S : q \in Pairs => issued[q].family \in exchangeRaced,
           NEW t, NEW served
    PROVE  RowsMove(t, served) /\ issued' \in [Pairs -> PairRow]
<1>1. BrowserTypeOK /\ ReuseIsRaced  BY DEF BrowserSound, BrowserInv
<1>2. issued' \in [Pairs -> PairRow]  BY <1>1, EndedRows
<1>3. ASSUME NEW q \in Pairs
      PROVE  /\ issued'[q].family = issued[q].family
             /\ q \in S /\ issued[q].row = "live" => issued'[q].row = reason
             /\ q \notin S \/ issued[q].row # "live" => issued'[q].row = issued[q].row
  BY <1>1, EndedRows
<1>4. ASSUME NEW q \in Pairs
      PROVE  /\ issued[q].row # "none" => /\ issued'[q].family = issued[q].family /\ issued'[q].row # "none"
                                          /\ (issued[q].row # "live" => issued'[q].row = issued[q].row)
             /\ issued'[q].row = "rotated" => issued[q].row = "rotated" \/ (served /\ Exchanges(t, q))
             /\ issued'[q].row = "family_invalidated" => issued'[q].family \in exchangeRaced
  <2>1. CASE q \in S /\ issued[q].row = "live"  BY <1>3, <2>1
  <2>2. CASE q \notin S \/ issued[q].row # "live"  BY <1>1, <1>3, <2>2 DEF ReuseIsRaced
  <2> QED  BY <2>1, <2>2
<1> QED  BY <1>2, <1>4 DEF RowsMove

\* The server answers without a pair.
LEMMA PlainAnswerSound ==
    ASSUME BrowserSound, NEW t \in Tabs, NEW status \in {200, 204, 401, 403, 429}, AnswerTab(t, status, NoPair),
           UNCHANGED <<mode, kept, tabs, exchangeRaced, tabCallsBegun>>, tabCalls[t].stage = "sent",
           RowsMove(t, status = 200), issued' \in [Pairs -> PairRow],
           tabCalls[t].op \in {"login", "refresh"} => status # 200,
           tabCalls[t].op = "refresh" => status \in {200, 401, 429},
           \A q \in Pairs : status = 401 /\ Exchanges(t, q) => issued'[q].row \notin {"none", "live"}
    PROVE  BrowserSound'
<1>1. ServerStep(t, status, NoPair)  BY DEF ServerStep
<1> QED  BY <1>1, ServerSound

LEMMA SimpleServesSound ==
    ASSUME BrowserSound, NEW t \in Tabs,
           RefuseLogin(t) \/ ServeRead(t) \/ ServeLogout(t) \/ RefuseRefresh(t)
    PROVE  BrowserSound'
<1>1. UNCHANGED <<mode, issued, kept, tabs, exchangeRaced, tabCallsBegun>> /\ tabCalls[t].stage = "sent"
  BY DEF RefuseLogin, ServeRead, ServeLogout, RefuseRefresh
<1>2. PICK status \in {200, 204, 401, 403, 429} : /\ AnswerTab(t, status, NoPair)
                                                  /\ (tabCalls[t].op \in {"login", "refresh"} => status # 200)
                                                  /\ (tabCalls[t].op = "refresh" => status = 429)
  <2>1. CASE RefuseLogin(t)  BY <2>1 DEF RefuseLogin
  <2>2. CASE ServeRead(t)
    <3>1. tabCalls[t].op = "read" /\ (AnswerTab(t, 200, NoPair) \/ AnswerTab(t, 401, NoPair))
      BY <2>2 DEF ServeRead
    <3> QED  BY <3>1
  <2>3. CASE ServeLogout(t)
    <3>1. tabCalls[t].op = "logout" /\ (AnswerTab(t, 204, NoPair) \/ AnswerTab(t, 403, NoPair))
      BY <2>3 DEF ServeLogout
    <3> QED  BY <3>1
  <2>4. CASE RefuseRefresh(t)  BY <2>4 DEF RefuseRefresh
  <2> QED  BY <2>1, <2>2, <2>3, <2>4
<1>3. RowsMove(t, status = 200) /\ issued' \in [Pairs -> PairRow]
  BY <1>1, SameRowsMove DEF BrowserSound, BrowserTypeOK
<1>4. \A q \in Pairs : status = 401 /\ Exchanges(t, q) => issued'[q].row \notin {"none", "live"}
  BY <1>2 DEF Exchanges
<1> QED  BY <1>1, <1>2, <1>3, <1>4, PlainAnswerSound

LEMMA ServeLogoutAllSound == ASSUME BrowserSound, NEW t \in Tabs, ServeLogoutAll(t) PROVE BrowserSound'
<1>1. tabCalls[t].op = "logout_all" /\ tabCalls[t].stage = "sent"
      /\ UNCHANGED <<mode, kept, tabs, exchangeRaced, tabCallsBegun>>
  BY DEF ServeLogoutAll
<1>2. PICK status \in {401, 403, 204} : /\ AnswerTab(t, status, NoPair)
                                        /\ issued' = issued \/ issued' = EndedPairs(Pairs, "logout_all")
  BY DEF ServeLogoutAll
<1>3. RowsMove(t, status = 200) /\ issued' \in [Pairs -> PairRow]
  <2>1. CASE issued' = issued  BY <2>1, SameRowsMove DEF BrowserSound, BrowserTypeOK
  <2>2. CASE issued' = EndedPairs(Pairs, "logout_all")  BY <2>2, EndedRowsMove
  <2> QED  BY <1>2, <2>1, <2>2
<1>4. \A q \in Pairs : ~ Exchanges(t, q)  BY <1>1 DEF Exchanges
<1> QED  BY <1>1, <1>2, <1>3, <1>4, PlainAnswerSound

LEMMA ServeLoginSound == ASSUME BrowserSound, NEW t \in Tabs, NEW p \in Pairs, ServeLogin(t, p) PROVE BrowserSound'
<1>1. /\ tabCalls[t].op = "login" /\ tabCalls[t].stage = "sent" /\ issued[p].row = "none"
      /\ issued' = InsertPair(issued, p, p) /\ AnswerTab(t, 200, p)
      /\ UNCHANGED <<mode, kept, tabs, exchangeRaced, tabCallsBegun>>
  BY DEF ServeLogin, FreshPair
<1>2. issued \in [Pairs -> PairRow] /\ ReuseIsRaced  BY DEF BrowserSound, BrowserTypeOK, BrowserInv
<1>3. issued' \in [Pairs -> PairRow] /\ issued'[p].row = "live" /\ (\A q \in Pairs : q # p => issued'[q] = issued[q])
  BY <1>1, <1>2, InsertedRows
<1>4. RowsMove(t, 200 = 200)  BY <1>1, <1>2, <1>3 DEF RowsMove, ReuseIsRaced
<1>5. ServerStep(t, 200, p)  BY <1>1, <1>3, <1>4, NoPairIsNone DEF ServerStep
<1> QED  BY <1>5, ServerSound

LEMMA ServeRefreshSound == ASSUME BrowserSound, NEW t \in Tabs, NEW p \in Pairs, ServeRefresh(t, p) PROVE BrowserSound'
<1> DEFINE old == tabCalls[t].token
           family == {q \in Pairs : issued[q].family = issued[old].family}
<1>1. tabCalls[t].op = "refresh" /\ tabCalls[t].stage = "sent" /\ UNCHANGED <<mode, kept, tabs, exchangeRaced, tabCallsBegun>>
  BY DEF ServeRefresh
<1>2. BrowserTypeOK /\ ReuseIsRaced /\ CallFits(t) /\ issued \in [Pairs -> PairRow]
  BY DEF BrowserSound, BrowserTypeOK, BrowserInv
<1>3. old \in Pairs /\ issued[old].row # "none" /\ Exchanges(t, old) /\ (\A q \in Pairs : Exchanges(t, q) => q = old)
  BY <1>1, <1>2 DEF CallFits, Exchanges
<1>4. CASE issued[old].row = "live"
  <2> DEFINE rows == [issued EXCEPT ![old].row = "rotated"]
  <2>1. issued[p].row = "none" /\ AnswerTab(t, 200, p) /\ issued' = InsertPair(rows, p, issued[old].family)
    BY <1>4 DEF ServeRefresh, FreshPair
  <2>2. issued[old].family \in Pairs /\ p # old  BY <1>2, <1>3, <1>4, <2>1, BrowserFields
  <2>3. rows \in [Pairs -> PairRow] /\ rows[old].row = "rotated" /\ rows[old].family = issued[old].family
        /\ (\A q \in Pairs : q # old => rows[q] = issued[q])
    <3> DEFINE e == [issued[old] EXCEPT !.row = "rotated"]
    <3>1. e \in PairRow /\ e.row = "rotated" /\ e.family = issued[old].family  BY <1>2, <1>3 DEF PairRow
    <3>2. rows = [issued EXCEPT ![old] = e]  BY Zenon
    <3> HIDE DEF e, rows, old
    <3> QED  BY <1>2, <1>3, <3>1, <3>2
  <2> HIDE DEF rows
  <2>4. issued' \in [Pairs -> PairRow] /\ issued'[p].row = "live" /\ (\A q \in Pairs : q # p => issued'[q] = rows[q])
    BY <2>1, <2>2, <2>3, InsertedRows
  <2>5. ASSUME NEW q \in Pairs
        PROVE  /\ issued[q].row # "none" => /\ issued'[q].family = issued[q].family /\ issued'[q].row # "none"
                                            /\ (issued[q].row # "live" => issued'[q].row = issued[q].row)
               /\ issued'[q].row = "rotated" => issued[q].row = "rotated" \/ (200 = 200 /\ Exchanges(t, q))
               /\ issued'[q].row = "family_invalidated" => issued'[q].family \in exchangeRaced
    <3>1. CASE q = p  BY <2>1, <2>4, <3>1
    <3>2. CASE q = old  BY <1>3, <1>4, <2>2, <2>3, <2>4, <3>2
    <3>3. CASE q # p /\ q # old
      <4>1. issued'[q] = issued[q]  BY <2>3, <2>4, <3>3
      <4> QED  BY <1>2, <4>1 DEF ReuseIsRaced
    <3> QED  BY <3>1, <3>2, <3>3, SMTT(30)
  <2>6. RowsMove(t, 200 = 200)  BY <2>5 DEF RowsMove
  <2>7. ServerStep(t, 200, p)  BY <1>1, <2>1, <2>4, <2>6, NoPairIsNone DEF ServerStep
  <2> QED  BY <2>7, ServerSound
<1>5. CASE issued[old].row = "rotated"
  <2>1. AnswerTab(t, 401, NoPair) /\ issued' = EndedPairs(family, "family_invalidated")
    BY <1>5 DEF ServeRefresh
  <2>2. issued[old].family \in exchangeRaced
    <3>1. RotatedIsLeft(old)  BY <1>3 DEF BrowserSound, BrowserInv
    <3> QED  BY <1>1, <1>3, <1>5, <3>1 DEF RotatedIsLeft, Raced
  <2>3. \A q \in family : q \in Pairs => issued[q].family \in exchangeRaced  BY <2>2
  <2> HIDE DEF family
  <2>4. RowsMove(t, 401 = 200) /\ issued' \in [Pairs -> PairRow]  BY <2>1, <2>3, EndedRowsMove
  <2>5. issued'[old].row \notin {"none", "live"}  BY <1>3, <1>5, <2>4 DEF RowsMove
  <2>6. \A q \in Pairs : 401 = 401 /\ Exchanges(t, q) => issued'[q].row \notin {"none", "live"}
    BY <1>3, <2>5
  <2> QED  BY <1>1, <2>1, <2>4, <2>6, PlainAnswerSound
<1>6. CASE issued[old].row \notin {"live", "rotated"}
  <2>1. AnswerTab(t, 401, NoPair) /\ issued' = issued  BY <1>6 DEF ServeRefresh
  <2>2. RowsMove(t, 401 = 200) /\ issued' \in [Pairs -> PairRow]  BY <1>2, <2>1, SameRowsMove
  <2>3. \A q \in Pairs : 401 = 401 /\ Exchanges(t, q) => issued'[q].row \notin {"none", "live"}
    BY <1>3, <1>6, <2>1
  <2> QED  BY <1>1, <2>1, <2>2, <2>3, PlainAnswerSound
<1> QED  BY <1>4, <1>5, <1>6

\* Time and other devices change rows alone.
LEMMA RowsSound ==
    ASSUME BrowserSound, UNCHANGED <<mode, kept, tabs, tabCalls, exchangeRaced, tabCallsBegun>>,
           issued' \in [Pairs -> PairRow], NEW t, RowsMove(t, FALSE)
    PROVE  BrowserSound'
<1>1. BrowserTypeOK /\ BrowserInv  BY DEF BrowserSound
<1>2. BrowserTypeOK'  BY <1>1 DEF BrowserTypeOK
<1>3. \A q \in Pairs : /\ issued[q].row # "none" => /\ issued'[q].family = issued[q].family /\ issued'[q].row # "none"
                                                    /\ (issued[q].row # "live" => issued'[q].row = issued[q].row)
                       /\ issued'[q].row = "rotated" => issued[q].row = "rotated"
  BY DEF RowsMove
<1>4. ASSUME NEW u \in Tabs PROVE CallFits(u)' /\ AnswerIsOwn(u)' /\ RefusedIsDead(u)'
  <2>1. CallFits(u) /\ AnswerIsOwn(u) /\ RefusedIsDead(u) /\ tabCalls[u].pair \in MaybePair
    BY <1>1, BrowserFields, TabCallFields DEF BrowserInv
  <2>2. CallFits(u)'  BY <1>3, <2>1 DEF CallFits
  <2>3. AnswerIsOwn(u)'  BY <1>3, <2>1 DEF AnswerIsOwn, Exchanges, MaybePair
  <2>4. RefusedIsDead(u)'  BY <1>3, <2>1 DEF RefusedIsDead, Exchanges
  <2> QED  BY <2>2, <2>3, <2>4
<1>5. ASSUME NEW p \in Pairs PROVE ExchangesAlone(p)' /\ RotatedIsLeft(p)'
  <2>1. ExchangesAlone(p) /\ RotatedIsLeft(p) /\ (\A u \in Tabs : CallFits(u))  BY <1>1 DEF BrowserInv
  <2>2. issued[p].row # "none" => (Raced(p)' <=> Raced(p))  BY <1>3 DEF Raced
  <2>3. \A u \in Tabs : Exchanges(u, p) => issued[p].row # "none"  BY <2>1 DEF CallFits, Exchanges
  <2>4. \A u \in Tabs : Exchanges(u, p)' <=> Exchanges(u, p)  BY DEF Exchanges
  <2>5. ExchangesAlone(p)'  BY <2>1, <2>2, <2>3, <2>4 DEF ExchangesAlone
  <2>6. RotatedIsLeft(p)'  BY <1>3, <2>1, <2>2, <2>4 DEF RotatedIsLeft
  <2> QED  BY <2>5, <2>6
<1>6. StorageHasUser' /\ KeptIsKnown' /\ ReuseIsRaced'
  <2>1. KeptIsKnown'  BY <1>1, <1>3, BrowserFields DEF BrowserInv, KeptIsKnown, MaybePair
  <2>2. ReuseIsRaced'  BY DEF RowsMove, ReuseIsRaced
  <2> QED  BY <1>1, <2>1, <2>2 DEF BrowserInv, StorageHasUser
<1> QED  BY <1>2, <1>4, <1>5, <1>6 DEF BrowserSound, BrowserInv

LEMMA WorldSound ==
    ASSUME BrowserSound, EndElsewhere \/ \E p \in Pairs : AccessExpires(p) PROVE BrowserSound'
<1>1. UNCHANGED <<mode, kept, tabs, tabCalls, exchangeRaced, tabCallsBegun>>
  BY DEF EndElsewhere, AccessExpires
<1>2. CASE EndElsewhere
  <2>1. issued' = EndedPairs(Pairs, "logout_all")  BY <1>2 DEF EndElsewhere
  <2>2. RowsMove(0, FALSE) /\ issued' \in [Pairs -> PairRow]  BY <2>1, EndedRowsMove
  <2> QED  BY <1>1, <2>2, RowsSound
<1>3. ASSUME NEW p \in Pairs, AccessExpires(p) PROVE BrowserSound'
  <2>1. issued \in [Pairs -> PairRow] /\ ReuseIsRaced  BY DEF BrowserSound, BrowserTypeOK, BrowserInv
  <2> DEFINE e == [issued[p] EXCEPT !.fresh = FALSE]
  <2>2. e \in PairRow /\ e.row = issued[p].row /\ e.family = issued[p].family
    <3>1. issued[p] \in PairRow  BY <2>1
    <3> QED  BY <3>1 DEF PairRow
  <2>3. issued' = [issued EXCEPT ![p] = e]  BY <1>3, Zenon DEF AccessExpires
  <2> HIDE DEF e
  <2>4. issued' \in [Pairs -> PairRow]  BY <2>1, <2>2, <2>3
  <2>5. \A q \in Pairs : issued'[q].row = issued[q].row /\ issued'[q].family = issued[q].family
    BY <2>1, <2>2, <2>3
  <2>6. RowsMove(0, FALSE)  BY <2>1, <2>5 DEF RowsMove, ReuseIsRaced
  <2> QED  BY <1>1, <2>4, <2>6, RowsSound
<1> QED  BY <1>2, <1>3

\* The invariant of the browser: a pair under way is nobody else's, an exchange that
\* was replaced is in the storage until its answer arrives, a refused one is dead, and
\* with bearer tokens the storage is filled only while a tab has a user.
THEOREM BrowserInvariant == BrowserSpec => [](BrowserTypeOK /\ BrowserInv)
<1>1. BrowserInit => BrowserSound  BY BrowserInitSound
<1>2. BrowserSound /\ [BrowserNext]_browserVars => BrowserSound'
  <2> SUFFICES ASSUME BrowserSound, [BrowserNext]_browserVars PROVE BrowserSound'  OBVIOUS
  <2>1. CASE UNCHANGED browserVars
    <3>1. issued' \in [Pairs -> PairRow] /\ UNCHANGED <<mode, kept, tabs, tabCalls, exchangeRaced, tabCallsBegun>>
          /\ UNCHANGED issued
      BY <2>1 DEF browserVars, BrowserSound, BrowserTypeOK
    <3>2. RowsMove(0, FALSE)  BY <3>1, SameRowsMove
    <3> QED  BY <3>1, <3>2, RowsSound
  <2>2. ASSUME NEW t \in Tabs,
               SubmitLogin(t) \/ ClickLogOut(t) \/ LoadPage(t) \/ Serves(t) \/ Receives(t) \/ LoseAnswer(t)
        PROVE  BrowserSound'
    <3>1. CASE SubmitLogin(t) \/ ClickLogOut(t) \/ LoadPage(t) \/ LoseAnswer(t)
      BY <3>1, BeginCallsSound, ClickLogOutSound, LoadPageSound, LoseAnswerSound
    <3>2. CASE Serves(t)
      BY <3>2, SimpleServesSound, ServeLogoutAllSound, ServeLoginSound, ServeRefreshSound DEF Serves
    <3>3. CASE Receives(t)
      BY <3>3, ReceiveLoginSound, ReceiveOtherSound, ReceiveRefreshSound, Receive401Sound DEF Receives
    <3> QED  BY <2>2, <3>1, <3>2, <3>3
  <2>3. ASSUME NEW t \in Tabs, NEW op \in {"read", "logout_all"}, CallWithAuth(t, op) PROVE BrowserSound'
    BY <2>3, BeginCallsSound
  <2>4. CASE EndElsewhere \/ \E p \in Pairs : AccessExpires(p)  BY <2>4, WorldSound
  <2> QED  BY <2>1, <2>2, <2>3, <2>4 DEF BrowserNext
<1> QED  BY <1>1, <1>2, PTL DEF BrowserSpec, BrowserSound

\* An exchange that ends with an empty storage, though a live pair was in it.
ThrowsAway(t) == HasAnswer(t, "refresh") /\ tabCalls'[t] = Quiet /\ LivePair(kept) /\ kept' = NoPair

LEMMA ThrowsOnlyDead ==
    ASSUME BrowserSound, BrowserNext, NEW t \in Tabs, ThrowsAway(t)
    PROVE  tabCalls[t].status = 429 \/ tabCalls[t].token # kept
<1>1. BrowserTypeOK /\ CallFits(t) /\ RefusedIsDead(t) /\ StorageHasUser
  BY DEF BrowserSound, BrowserInv
<1>2. kept # NoPair /\ kept' # kept /\ issued[kept].row = "live" /\ tabCalls[t].op = "refresh" /\ tabCalls'[t].op = "none"
      /\ tabCalls[t].stage = "answered"
  BY QuietIsUnanswered DEF ThrowsAway, LivePair, HasAnswer
<1>3. kept \in Pairs /\ tabCalls \in [Tabs -> TabCall]  BY <1>1, <1>2 DEF BrowserTypeOK, MaybePair
<1>4. ASSUME tabCalls[t].token = kept PROVE tabCalls[t].status # 401
  BY <1>1, <1>2, <1>3, <1>4 DEF RefusedIsDead, Exchanges
<1>5. CASE ReceiveRefresh(t)
  <2>1. tabCalls[t].status # 200
    <3>1. ASSUME tabCalls[t].status = 200 PROVE FALSE
      <4>1. kept' = tabCalls[t].pair /\ tabCalls[t].pair # NoPair
        BY <1>1, <1>2, <1>5, <3>1 DEF ReceiveRefresh, CallFits
      <4> QED  BY <4>1 DEF ThrowsAway
    <3> QED  BY <3>1
  <2>2. tabCalls[t].status \in {200, 401, 429}  BY <1>1, <1>2 DEF CallFits
  <2> QED  BY <1>4, <2>1, <2>2
<1>6. CASE ~ ReceiveRefresh(t)
  <2>1. ASSUME NEW u \in Tabs, NEW r, tabCalls' = [tabCalls EXCEPT ![u] = r] PROVE u = t
    BY <1>2, <1>3, <2>1
  <2>2. ASSUME NEW u \in Tabs, ClickLogOut(u) PROVE FALSE
    <3> DEFINE s == Sent(u, "logout", "none", IF Cookies THEN NoPair ELSE tabs[u].access, NoPair)
    <3>0. PICK r : r = [s EXCEPT !.csrf = NoPair]  OBVIOUS
    <3>1. tabCalls' = [tabCalls EXCEPT ![u] = r]  BY <2>2, <3>0, Zenon DEF ClickLogOut, LogOutTab
    <3>2. Unanswered(s) /\ s.op = "logout"
      <4>1. PICK a \in MaybePair : a = IF Cookies THEN NoPair ELSE tabs[u].access  BY <1>1, BrowserFields, NoPairIsNone
      <4> QED  BY <1>1, <4>1, NoPairIsNone, SentIsUnanswered
    <3> HIDE DEF s
    <3>3. r.op = s.op  BY <3>0, <3>2, BareIsUnanswered, Zenon
    <3>4. tabCalls'[t] = r  BY <1>3, <2>1, <3>1
    <3> QED  BY <1>2, <3>2, <3>3, <3>4
  <2>3. ASSUME NEW u \in Tabs, ReceiveLogin(u) PROVE FALSE
    <3>1. tabCalls' = [tabCalls EXCEPT ![u] = Quiet] /\ tabCalls[u].op = "login"
      BY <2>3 DEF ReceiveLogin, HasAnswer, Hang
    <3> QED  BY <1>2, <2>1, <3>1
  <2>4. ASSUME NEW u \in Tabs, ReceiveOther(u) PROVE FALSE
    <3>1. tabCalls[u].op # "refresh"  BY <2>4 DEF ReceiveOther
    <3>2. \E r : tabCalls' = [tabCalls EXCEPT ![u] = r]
      <4>1. CASE tabCalls[u].op = "logout_all" /\ tabCalls[u].status = 204
        <5> DEFINE s == Sent(u, "logout", "none", IF Cookies THEN NoPair ELSE tabs[u].access, NoPair)
        <5>1. PICK r : r = [s EXCEPT !.csrf = NoPair, !.jar = NoPair]  OBVIOUS
        <5>2. tabCalls' = [tabCalls EXCEPT ![u] = r]  BY <2>4, <4>1, <5>1, Zenon DEF ReceiveOther
        <5> QED  BY <5>2, Zenon
      <4>2. CASE ~ (tabCalls[u].op = "logout_all" /\ tabCalls[u].status = 204)
        <5>1. tabCalls' = [tabCalls EXCEPT ![u] = Quiet]  BY <2>4, <4>2 DEF ReceiveOther, Hang
        <5> QED  BY <5>1, Zenon
      <4> QED  BY <4>1, <4>2
    <3> QED  BY <1>2, <2>1, <3>1, <3>2
  <2>5. ASSUME NEW u \in Tabs, ReceiveRefresh(u) PROVE FALSE
    <3>1. \E r : tabCalls' = [tabCalls EXCEPT ![u] = r]  BY <2>5, Zenon DEF ReceiveRefresh, Hang
    <3>2. u = t  BY <2>1, <3>1
    <3> QED  BY <1>6, <2>5, <3>2
  <2>6. ASSUME NEW u \in Tabs, SubmitLogin(u) \/ LoadPage(u) \/ Serves(u) \/ LoseAnswer(u) PROVE FALSE
    <3>1. kept' = kept
      BY <2>6 DEF SubmitLogin, LoadPage, LoseAnswer, Serves, RefuseLogin, ServeRead, ServeLogout, ServeLogoutAll,
                  RefuseRefresh, ServeLogin, ServeRefresh
    <3> QED  BY <1>2, <3>1
  <2>7. ASSUME NEW u \in Tabs, NEW op, CallWithAuth(u, op) \/ Receive401(u, op) PROVE FALSE
    <3>1. kept' = kept  BY <2>7 DEF CallWithAuth, Receive401
    <3> QED  BY <1>2, <3>1
  <2>8. CASE EndElsewhere \/ \E p \in Pairs : AccessExpires(p)
    BY <1>2, <2>8 DEF EndElsewhere, AccessExpires
  <2> QED  BY <2>2, <2>3, <2>4, <2>5, <2>6, <2>7, <2>8 DEF BrowserNext, Receives
<1> QED  BY <1>5, <1>6

\* For any number of tabs and pairs: the server takes a token for stolen only after a
\* race or a lost answer, the storage of bearer tokens is empty once every tab has
\* logged out, and a live session is thrown away only for its rate or by another
\* sign-in (_tryRefreshAccessToken in client.ts, logout in auth-context.tsx).
THEOREM BrowserAlwaysHolds == BrowserSpec => BrowserHolds
<1>1. BrowserInv => ReuseIsRaced /\ LogOutClearsStorage
  BY DEF BrowserInv, StorageHasUser, LogOutClearsStorage, AllOut
<1>2. BrowserTypeOK /\ BrowserInv /\ [BrowserNext]_browserVars
      => [\A t \in Tabs :
            HasAnswer(t, "refresh") /\ tabCalls'[t] = Quiet /\ LivePair(kept) /\ kept' = NoPair
            => tabCalls[t].status = 429 \/ tabCalls[t].token # kept]_browserVars
  <2> SUFFICES ASSUME BrowserSound, BrowserNext, NEW t \in Tabs, ThrowsAway(t)
               PROVE  tabCalls[t].status = 429 \/ tabCalls[t].token # kept
    BY DEF BrowserSound, ThrowsAway
  <2> QED  BY ThrowsOnlyDead
<1>3. BrowserSpec => [](BrowserTypeOK /\ BrowserInv)  BY BrowserInvariant
<1> QED  BY <1>1, <1>2, <1>3, PTL DEF BrowserSpec, BrowserHolds, GivesUpDead
================================================================================
