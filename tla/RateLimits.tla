------------------------------- MODULE RateLimits -------------------------------
(***************************************************************************)
(* The sliding-window limiter of one key (app/core/limiters/) and what the *)
(* dependencies of app/api/deps.py make of its answer.  With Redis a call  *)
(* is three round trips: the script is loaded once per process, the clock  *)
(* of the server is read, and the script runs with that reading.  A hit is *)
(* named by the number of its call; time passes in ticks.                  *)
(***************************************************************************)
EXTENDS Naturals, FiniteSets, FiniteSetsExt

CONSTANTS
    LimitCalls,      \* requests
    Limit, Window,   \* hits allowed in so many ticks
    Second,          \* ticks of a second, in which Retry-After is counted
    MaxTime,         \* bound: the clock
    MaxLimitCalls,   \* bound: the requests that are begun
    MaxRestarts      \* bound: restarts of Redis

ASSUME LimitAssumption == Limit \in Nat \ {0} /\ Window \in Nat \ {0} /\ Second \in Nat \ {0}
ASSUME LimitBoundAssumption == MaxTime \in Nat /\ MaxLimitCalls \in Nat /\ MaxRestarts \in Nat

VARIABLES
    failOpen,    \* an error of Redis lets the request pass at the door of the key
    clock,
    hits,        \* Redis: the sorted set of the key
    until,       \* Redis: when the key expires
    script,      \* Redis: the script is in its cache
    loaded,      \* the process has loaded the script
    memory,      \* the in-process limiter, asked the same question at the same time
    limitCalls,
    newest,      \* history: the latest time for which hits were dropped
    served,      \* history: the requests that the limiter has let pass, and whether in time
    uncounted,   \* history: a request has passed because of an error
    room,        \* history: when there is room again, as the last refusal has said
    unlike,      \* history: the two limiters have answered differently
    disturbed,   \* history: a reading was overtaken, or hits were lost with Redis
    restarts,
    limitBegun

limitVars == <<failOpen, clock, hits, until, script, loaded, memory, limitCalls, newest, served, uncounted, room,
               unlike, disturbed, restarts, limitBegun>>

Times == 0 .. MaxTime
HitIds == 1 .. MaxLimitCalls
Hit == [at : Times, id : HitIds]
Disturbances == {"overtaken", "lost"}
LimitCall == [step : {"idle", "load", "time", "eval"}, now : Times, id : 0 .. MaxLimitCalls]
LimitIdle == [step |-> "idle", now |-> 0, id |-> 0]

\* The doors with a limiter, by the prefix of their keys: forms and refreshes of a
\* session, sign-ins at a provider, signed-in clients, the widget, Telegram.
SessionDoors == {"auth_login", "auth_register", "auth_refresh", "auth_logout", "auth_forgot_pw", "auth_reset_pw"}
ProviderDoors == {"oauth_start_google", "oauth_start_github", "oauth_callback_google", "oauth_callback_github",
                  "oauth_exchange"}
ClientDoors == {"billing_checkout", "knowledge_upload"}
WidgetDoors == {"pub_widget_chat", "pub_widget_boot"}
Doors == SessionDoors \cup ProviderDoors \cup ClientDoors \cup WidgetDoors \cup {"tg_wh"}

\* What an error of Redis does at a door, by the two settings; updates are let in anyway.
OpensOnError(door, publicFailOpen, authFailClosed) ==
    \/ door = "tg_wh"
    \/ door \in WidgetDoors /\ publicFailOpen
    \/ door \in SessionDoors \cup ProviderDoors \cup ClientDoors /\ ~ authFailClosed

LimitInit ==
    /\ failOpen \in {OpensOnError(door, publicFailOpen, authFailClosed) :
                       door \in Doors, publicFailOpen, authFailClosed \in BOOLEAN}
    /\ clock = 0 /\ hits = {} /\ until = 0 /\ script = FALSE /\ loaded = FALSE /\ memory = {}
    /\ limitCalls = [c \in LimitCalls |-> LimitIdle]
    /\ newest = 0 /\ served = {} /\ uncounted = FALSE /\ room = 0 /\ unlike = FALSE /\ disturbed = {}
    /\ restarts = 0 /\ limitBegun = 0

AnswerCall(c) == limitCalls' = [limitCalls EXCEPT ![c] = LimitIdle]

\* The digest of the script is kept for the life of the process.
NeedsScript == ~ loaded

EnterLimiter(c) ==
    /\ limitCalls[c].step = "idle" /\ limitBegun < MaxLimitCalls
    /\ limitBegun' = limitBegun + 1
    /\ limitCalls' = [limitCalls EXCEPT ![c] = [step |-> IF NeedsScript THEN "load" ELSE "time", now |-> 0,
                                                id |-> limitBegun + 1]]
    /\ UNCHANGED <<failOpen, clock, hits, until, script, loaded, memory, newest, served, uncounted, room, unlike, disturbed, restarts>>

LoadScript(c) ==
    /\ limitCalls[c].step = "load"
    /\ script' = TRUE /\ loaded' = TRUE
    /\ limitCalls' = [limitCalls EXCEPT ![c].step = "time"]
    /\ UNCHANGED <<failOpen, clock, hits, until, memory, newest, served, uncounted, room, unlike, disturbed, restarts, limitBegun>>

ReadTime(c) ==
    /\ limitCalls[c].step = "time"
    /\ limitCalls' = [limitCalls EXCEPT ![c].step = "eval", ![c].now = clock]
    /\ UNCHANGED <<failOpen, clock, hits, until, script, loaded, memory, newest, served, uncounted, room, unlike, disturbed, restarts,
                   limitBegun>>

-----------------------------------------------------------------------------
Oldest(kept) == Min({h.at : h \in kept})

SecondsUp(ticks) == (ticks + Second - 1) \div Second

\* Mutant: the hit at the edge of the window is dropped a tick too early.
TrimmedEarly(stored, now) == {h \in stored : h.at + Window > now + 1}

\* ZREMRANGEBYSCORE drops the edge of the window too; an expired key has no hits.
Trimmed(stored, now) == {h \in stored : h.at + Window > now}

\* What the script answers, with Retry-After.
Refuses(kept) == Cardinality(kept) >= Limit
RetryAfter(kept, now) ==
    LET wait == SecondsUp(Oldest(kept) + Window - now) IN IF wait < 1 THEN 1 ELSE wait

\* The in-process limiter: one list, and a lock that nobody waits for.
Recent(now) == {h \in memory : h.at + Window > now}
MemoryRefuses(now) == Cardinality(Recent(now)) >= Limit
MemoryRetryAfter(now) ==
    LET wait == SecondsUp(Oldest(Recent(now)) + Window - now) IN IF wait < 1 THEN 1 ELSE wait

\* Up to when hits have been dropped, by a later reading or with the whole key.
Horizon == IF until <= clock /\ newest < until THEN until ELSE newest

Overtaken(q) == q.now < Horizon

\* An error lets the request pass uncounted, or refuses it with 503.
Failed == uncounted' = (uncounted \/ failOpen)

\* The script is one step of Redis; its answer may get lost, which is an error.
EvalScript(c, answered) ==
    LET q == limitCalls[c]
        kept == Trimmed(IF clock < until THEN hits ELSE {}, q.now)
        hit == [at |-> q.now, id |-> q.id]
        refused == Refuses(kept)
    IN  /\ q.step = "eval" /\ script
        /\ hits' = IF refused THEN kept ELSE kept \cup {hit}
        /\ until' = IF refused THEN until ELSE clock + Window
        /\ newest' = IF Overtaken(q) THEN Horizon ELSE q.now
        /\ room' = IF refused /\ Cardinality(kept) = Limit THEN q.now + Second * RetryAfter(kept, q.now) ELSE 0
        /\ memory' = Recent(q.now) \cup IF MemoryRefuses(q.now) THEN {} ELSE {hit}
        /\ unlike' = (unlike \/ refused # MemoryRefuses(q.now)
                             \/ (refused /\ RetryAfter(kept, q.now) # MemoryRetryAfter(q.now)))
        /\ disturbed' = IF Overtaken(q) THEN disturbed \cup {"overtaken"} ELSE disturbed
        /\ IF answered THEN UNCHANGED uncounted ELSE Failed
        /\ served' = IF refused \/ ~ answered THEN served
                     ELSE served \cup {[at |-> q.now, id |-> q.id, late |-> Overtaken(q)]}
        /\ AnswerCall(c)
        /\ UNCHANGED <<failOpen, clock, script, loaded, restarts, limitBegun>>

\* Redis fails, or EVALSHA does not find a script that was loaded before a restart.
RedisError(c) ==
    /\ limitCalls[c].step # "idle"
    /\ Failed
    /\ AnswerCall(c)
    /\ UNCHANGED <<failOpen, clock, hits, until, script, loaded, memory, newest, served, room, unlike, disturbed, restarts, limitBegun>>

\* Redis comes back without its scripts, with or without its data.
RestartRedis(kept) ==
    /\ restarts < MaxRestarts
    /\ restarts' = restarts + 1
    /\ script' = FALSE
    /\ hits' = IF kept THEN hits ELSE {}
    /\ disturbed' = IF kept THEN disturbed ELSE disturbed \cup {"lost"}
    /\ UNCHANGED <<failOpen, clock, until, loaded, memory, limitCalls, newest, served, uncounted, room, unlike, limitBegun>>

Tick ==
    /\ clock < MaxTime
    /\ clock' = clock + 1
    /\ UNCHANGED <<failOpen, hits, until, script, loaded, memory, limitCalls, newest, served, uncounted, room, unlike, disturbed, restarts,
                   limitBegun>>

LimitNext ==
    \/ \E c \in LimitCalls :
        \/ EnterLimiter(c) \/ LoadScript(c) \/ ReadTime(c) \/ RedisError(c)
        \/ \E answered \in BOOLEAN : EvalScript(c, answered)
    \/ \E kept \in BOOLEAN : RestartRedis(kept)
    \/ Tick

LimitSpec == LimitInit /\ [][LimitNext]_limitVars

-----------------------------------------------------------------------------
LimitTypeOK ==
    /\ clock \in Times /\ hits \subseteq Hit /\ until \in 0 .. (MaxTime + Window) /\ memory \subseteq Hit
    /\ {failOpen, script, loaded, uncounted, unlike} \subseteq BOOLEAN
    /\ limitCalls \in [LimitCalls -> LimitCall]
    /\ newest \in Times /\ room \in Nat /\ disturbed \subseteq Disturbances
    /\ served \subseteq [at : Times, id : HitIds, late : BOOLEAN]
    /\ restarts \in 0 .. MaxRestarts /\ limitBegun \in 0 .. MaxLimitCalls

InWindow(s, t) == s.at <= t /\ s.at + Window > t

\* No more requests pass in a window than the limit, apart from those whose reading of
\* the clock was overtaken before their script ran, and as long as Redis keeps its
\* data; uncounted ones pass only where errors do not refuse
\* (RedisSlidingWindowLimiter.consume reads TIME in a round trip of its own).
WindowKeepsLimit ==
    /\ "lost" \in disturbed \/ \A t \in Times : Cardinality({s \in served : InWindow(s, t) /\ ~ s.late}) <= Limit
    /\ failOpen \/ ~ uncounted

\* After the time that a refusal has named there is room, if nobody has come first:
\* Retry-After is never too short (retry_ms, math.ceil).
RetryIsEnough == room > 0 => Cardinality({h \in hits : h.at + Window > room}) < Limit

\* The two limiters are interchangeable (attach_sliding_window_limiter): calls that
\* reach them in the order of the clock get the same answers.
AgreesWithMemory == disturbed # {} \/ ~ unlike

\* A script that a restart of Redis has dropped is missing for good once nobody is
\* about to load it (_ensure_script): every later call of the process ends in an error.
NobodyLoads == \A c \in LimitCalls : limitCalls[c].step # "load"
ScriptStaysLost == [][loaded /\ ~ script /\ NobodyLoads => ~ script' /\ NobodyLoads']_limitVars

\* The limiter of Redis does what the one in the process does, and a lost script is its
\* only lasting failure (RedisSlidingWindowLimiter, InMemorySlidingWindowLimiter).
LimiterHolds == [](WindowKeepsLimit /\ RetryIsEnough /\ AgreesWithMemory) /\ ScriptStaysLost

-----------------------------------------------------------------------------
\* The strengthening that makes LimiterHolds inductive.  A call reads a time that has
\* been, and a hit expires with the key at the latest; who was let pass in time has a
\* hit until hits as old as his are dropped; and without a disturbance both limiters
\* keep the same hits.
CallIsSound(c) == limitCalls[c].now <= clock /\ (limitCalls[c].step # "idle" => limitCalls[c].id # 0)
HitsExpire == \A h \in hits : h.at <= clock /\ h.at + Window <= until
PassedIsCounted ==
    "lost" \in disturbed \/
        \A s \in served : s.late \/ s.at + Window <= newest \/ [at |-> s.at, id |-> s.id] \in hits
SameHits == disturbed # {} \/ memory = hits

LimitInv ==
    /\ \A c \in LimitCalls : CallIsSound(c)
    /\ HitsExpire /\ PassedIsCounted /\ SameHits
    /\ WindowKeepsLimit /\ RetryIsEnough /\ AgreesWithMemory
=============================================================================
