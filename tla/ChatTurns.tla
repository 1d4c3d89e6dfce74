------------------------------- MODULE ChatTurns -------------------------------
(***************************************************************************)
(* One message of a visitor and its reply, in the three channels of a bot: *)
(* the widget (app/services/public_widget_chat_service.py), Telegram       *)
(* (telegram_webhook_inbound_service.py, app/api/v1/public_telegram.py)    *)
(* and the owner's test chat (bot_chat_test_service.py), which all end in  *)
(* AIService.send_bot_message.  A thread is inserted but not committed     *)
(* until the visitor's message is; its unique key makes a second request   *)
(* of the same visitor wait.  Two limits are checked and not held: the     *)
(* conversations of the month and the tokens.                              *)
(***************************************************************************)
EXTENDS Naturals, FiniteSets

CONSTANTS
    Visitors,         \* keys of widget threads
    Chats,            \* keys of Telegram threads
    Turns,            \* the requests
    MaxTurns,         \* bound: the requests that are begun, deliveries of one update included
    ConversationLimit,
    TokenCap          \* a reply of the provider costs one token

ASSUME TurnBoundAssumption == MaxTurns \in Nat /\ ConversationLimit \in Nat /\ TokenCap \in Nat
ASSUME ChannelsAssumption == Visitors \cap Chats = {}
ASSUME TurnsAssumption == IsFiniteSet(Turns) /\ IsFiniteSet(Visitors) /\ IsFiniteSet(Chats)

VARIABLES
    threads,      \* the committed rows of conversations, by key
    testThreads,  \* the rows of the test chat, which have no key
    inserting,    \* the turns that have inserted a row for a key and not committed it
    turns,
    asked, told,  \* the stored messages of the visitor, and of the bot
    shown,        \* history: the replies that were sent out, or are about to be
    tokens,       \* the sum over the usage log
    turnsBegun

turnVars == <<threads, testThreads, inserting, turns, asked, told, shown, tokens, turnsBegun>>

Keys == Visitors \cup Chats

Turn == [at : {"idle", "find", "insert", "limit", "quota", "ask", "provider", "store", "reply"},
         channel : {"none", "widget", "telegram", "test"}, key : SUBSET Keys,
         seen : Nat, cost : 0 .. 1, ok : BOOLEAN]
TurnAt(at, channel, key) ==
    [at |-> at, channel |-> channel, key |-> key, seen |-> 0, cost |-> 0, ok |-> FALSE]
TurnIdle == TurnAt("idle", "none", {})

TurnInit ==
    /\ threads = [k \in Keys |-> 0]
    /\ testThreads = 0
    /\ inserting = [k \in Keys |-> {}]
    /\ turns = [u \in Turns |-> TurnIdle]
    /\ asked = [k \in Keys |-> 0] /\ told = [k \in Keys |-> 0] /\ shown = [k \in Keys |-> 0]
    /\ tokens = 0
    /\ turnsBegun = 0

Holds(u, k) == u \in inserting[k]
Holding(u) == {k \in Keys : Holds(u, k)}

\* What count_conversations_this_month_for_owner sees: the committed rows and the
\* caller's own, flushed one.
Committed == testThreads + Cardinality({k \in Keys : threads[k] > 0})
Counted(u) == Committed + Cardinality(Holding(u))

TurnGo(u, at) == turns' = [turns EXCEPT ![u].at = at]

\* The thread of the turn becomes visible with the first commit of its session.
CommitThread(u) ==
    /\ threads' = [k \in Keys |-> threads[k] + IF Holds(u, k) THEN 1 ELSE 0]
    /\ inserting' = [k \in Keys |-> inserting[k] \ {u}]

\* The session of the request is closed: what it has not committed is gone.
Rollback(u) ==
    /\ inserting' = [k \in Keys |-> inserting[k] \ {u}]
    /\ UNCHANGED threads

BeginTurn(u, at, channel, key) ==
    /\ turns[u].at = "idle" /\ turnsBegun < MaxTurns
    /\ turns' = [turns EXCEPT ![u] = TurnAt(at, channel, key)]
    /\ turnsBegun' = turnsBegun + 1
    /\ UNCHANGED <<threads, testThreads, inserting, asked, told, shown, tokens>>

-----------------------------------------------------------------------------
\* The widget is enabled and its origin allowed: the thread comes first.
WidgetMessage(u, k) == BeginTurn(u, "find", "widget", {k})

\* A verified update of a live channel, delivered for the first time or again: the
\* conversations are counted first.
TelegramUpdate(u, k) == BeginTurn(u, "limit", "telegram", {k})

\* The owner tries the bot: no limit but the tokens.
TestMessage(u) == BeginTurn(u, "quota", "test", {})

AfterThread(u) == IF turns[u].channel = "widget" THEN "limit" ELSE "quota"

FindThread(u) ==
    /\ turns[u].at = "find"
    /\ TurnGo(u, IF \A k \in turns[u].key : threads[k] > 0 THEN AfterThread(u) ELSE "insert")
    /\ UNCHANGED <<threads, testThreads, inserting, asked, told, shown, tokens, turnsBegun>>

\* Mutant: the table has no unique key.
KeyFreeAlways(k) == TRUE

\* The partial unique index: no committed row, and no other one under way.
KeyFree(k) == threads[k] = 0 /\ inserting[k] = {}

\* The INSERT waits while another request holds the key.
InsertThread(u) ==
    /\ turns[u].at = "insert" /\ \A k \in turns[u].key : KeyFree(k)
    /\ inserting' = [k \in Keys |-> IF k \in turns[u].key THEN inserting[k] \cup {u} ELSE inserting[k]]
    /\ TurnGo(u, AfterThread(u))
    /\ UNCHANGED <<threads, testThreads, asked, told, shown, tokens, turnsBegun>>

\* The other row was committed: the rollback expires the bot that the session has
\* loaded, and the request fails when it is read again.
InsertConflict(u) ==
    /\ turns[u].at = "insert" /\ \E k \in turns[u].key : threads[k] > 0
    /\ TurnGo(u, "reply")
    /\ Rollback(u)
    /\ UNCHANGED <<testThreads, asked, told, shown, tokens, turnsBegun>>

\* Mutant: a plan with no limit for everybody.
WithinPlanAlways(n) == TRUE

WithinPlan(n) == n < ConversationLimit

\* A turn of the widget has inserted its row by now, an update has not.
CheckConversations(u) ==
    /\ turns[u].at = "limit" /\ WithinPlan(Counted(u))
    /\ turns' = [turns EXCEPT ![u].at = IF turns[u].channel = "widget" THEN "quota" ELSE "find",
                              ![u].seen = Counted(u)]
    /\ UNCHANGED <<threads, testThreads, inserting, asked, told, shown, tokens, turnsBegun>>

WithinCap == tokens < TokenCap

CheckTokens(u) ==
    /\ turns[u].at = "quota" /\ WithinCap
    /\ TurnGo(u, "ask")
    /\ UNCHANGED <<threads, testThreads, inserting, asked, told, shown, tokens, turnsBegun>>

\* The webhook log commits whatever the session of an update holds.
EndSession(u) == IF turns[u].channel = "telegram" THEN CommitThread(u) ELSE Rollback(u)

\* One of the limits is reached.
RefuseTurn(u) ==
    /\ \/ turns[u].at = "limit" /\ ~ WithinPlan(Counted(u))
       \/ turns[u].at = "quota" /\ ~ WithinCap
    /\ TurnGo(u, "reply")
    /\ EndSession(u)
    /\ UNCHANGED <<testThreads, asked, told, shown, tokens, turnsBegun>>

\* The message of the visitor and its thread are one transaction.
StoreMessage(u) ==
    /\ turns[u].at = "ask"
    /\ CommitThread(u)
    /\ testThreads' = testThreads + IF turns[u].channel = "test" THEN 1 ELSE 0
    /\ asked' = [k \in Keys |-> asked[k] + IF k \in turns[u].key THEN 1 ELSE 0]
    /\ TurnGo(u, "provider")
    /\ UNCHANGED <<told, shown, tokens, turnsBegun>>

\* A reply of the provider, of a cache or of the greeting rules, or none; a reply that
\* the provider has blocked may cost as well.
Provider(u, ok, cost) ==
    /\ turns[u].at = "provider"
    /\ turns' = [turns EXCEPT ![u].at = "store", ![u].ok = ok, ![u].cost = cost]
    /\ UNCHANGED <<threads, testThreads, inserting, asked, told, shown, tokens, turnsBegun>>

\* The reply and the row of the usage log are one transaction.
StoreReply(u) ==
    LET q == turns[u]
    IN  /\ q.at = "store"
        /\ told' = [k \in Keys |-> told[k] + IF k \in q.key /\ q.ok THEN 1 ELSE 0]
        /\ tokens' = tokens + q.cost
        /\ TurnGo(u, "reply")
        /\ UNCHANGED <<threads, testThreads, inserting, asked, shown, turnsBegun>>

\* A reply that could not be stored counts as a failure (persistence_error).
Unstored(q) == [q EXCEPT !.at = "reply", !.ok = FALSE]

StoreReplyFails(u) ==
    /\ turns[u].at = "store"
    /\ turns' = [turns EXCEPT ![u] = Unstored(@)]
    /\ UNCHANGED <<threads, testThreads, inserting, asked, told, shown, tokens, turnsBegun>>

\* The text, or an apology, goes to the visitor.
Reply(u) ==
    LET q == turns[u]
    IN  /\ q.at = "reply"
        /\ shown' = [k \in Keys |-> shown[k] + IF k \in q.key /\ q.ok THEN 1 ELSE 0]
        /\ turns' = [turns EXCEPT ![u] = TurnIdle]
        /\ UNCHANGED <<threads, testThreads, inserting, asked, told, tokens, turnsBegun>>

\* The process dies, or the database fails before the message is stored.
TurnDies(u) ==
    /\ turns[u].at # "idle"
    /\ turns' = [turns EXCEPT ![u] = TurnIdle]
    /\ Rollback(u)
    /\ UNCHANGED <<testThreads, asked, told, shown, tokens, turnsBegun>>

Proceed(u) ==
    \/ FindThread(u) \/ InsertThread(u) \/ InsertConflict(u) \/ CheckConversations(u) \/ CheckTokens(u)
    \/ RefuseTurn(u) \/ StoreMessage(u) \/ StoreReply(u) \/ StoreReplyFails(u) \/ Reply(u)
    \/ \E ok \in BOOLEAN, cost \in 0 .. 1 : Provider(u, ok, cost)

TurnNext ==
    \E u \in Turns :
        \/ \E k \in Visitors : WidgetMessage(u, k)
        \/ \E k \in Chats : TelegramUpdate(u, k)
        \/ TestMessage(u) \/ Proceed(u) \/ TurnDies(u)

\* The event loop goes on with every request; the calls to the provider have timeouts.
TurnFairness == \A u \in Turns : WF_turnVars(Proceed(u))

TurnSpec == TurnInit /\ [][TurnNext]_turnVars /\ TurnFairness

-----------------------------------------------------------------------------
TurnTypeOK ==
    /\ threads \in [Keys -> Nat] /\ testThreads \in Nat
    /\ inserting \in [Keys -> SUBSET Turns]
    /\ turns \in [Turns -> Turn]
    /\ asked \in [Keys -> Nat] /\ told \in [Keys -> Nat] /\ shown \in [Keys -> Nat]
    /\ tokens \in Nat /\ turnsBegun \in 0 .. MaxTurns

\* However the first messages of a visitor overlap, one thread comes of them, and
\* every stored message belongs to it (get_or_create_conversation,
\* get_or_create_telegram_thread).
OneThreadPerVisitor == \A k \in Keys : threads[k] <= 1 /\ (asked[k] > 0 => threads[k] = 1)

\* The turns whose stored reply is about to be sent, and those that may cost a token more.
Replying(k) == {u \in Turns : turns[u].at = "reply" /\ turns[u].ok /\ k \in turns[u].key}
Charging == {u \in Turns : turns[u].at \in {"ask", "provider"} \/ (turns[u].at = "store" /\ turns[u].cost = 1)}

\* What a visitor has been told can be read in the dashboard: no reply is sent that
\* was not stored (send_bot_message and its persistence_error).
ShownIsStored == \A k \in Keys : shown[k] + Cardinality(Replying(k)) <= told[k]

\* The cap is checked and not reserved: it is passed by at most one reply for each
\* request that runs at the same time (assert_can_consume).
CapIsPassedByOverlap == tokens + Cardinality(Charging) <= TokenCap + Cardinality(Turns)

\* What the turn would count now where it has counted.
CountedWith(u, n) == n + IF turns[u].channel = "widget" THEN 1 ELSE 0

\* The plan is passed by the test chat, or by a turn that has counted before another
\* thread was committed (enforce_conversation_limit); a turn of the widget counts its
\* own thread and stays one short of the plan.
PlanIsPassedByOverlap ==
    [][\A u \in Turns, k \in Keys :
        threads[k]' > threads[k] /\ Holds(u, k) =>
            \/ turns[u].channel = "widget" /\ Committed' < ConversationLimit
            \/ turns[u].channel = "telegram" /\ Committed' <= ConversationLimit
            \/ CountedWith(u, Committed) > turns[u].seen]_turnVars

\* A request that waits for the thread of another one is answered in the end.
EveryTurnAnswered == \A u \in Turns : turns[u].at # "idle" ~> turns[u].at = "idle"

\* A visitor has one thread and is shown what is stored in it (send_bot_message).
ThreadsAreSound == OneThreadPerVisitor /\ ShownIsStored

\* What is checked and not reserved is passed by overlapping turns alone
\* (enforce_conversation_limit, assert_can_consume).
LimitsPassedByOverlap == []CapIsPassedByOverlap /\ PlanIsPassedByOverlap

-----------------------------------------------------------------------------
\* The inductive strengthening that the proofs use.
Keyed(q) ==
    /\ q.channel \in {"widget", "telegram"} => \E k \in Keys : q.key = {k}
    /\ q.channel = "test" => q.key = {} /\ q.at \notin {"find", "insert", "limit"}
    /\ q.at # "idle" => q.channel # "none"

\* The turn has no reply before the provider has answered.
NotEarly(q) == q.at \in {"find", "insert", "limit", "quota", "ask", "provider"} => ~ q.ok

\* The conversations were counted, and the plan had room.
Counts(q) ==
    /\ q.channel \in {"widget", "telegram"}
    /\ q.at \in {"quota", "ask"} \/ (q.channel = "telegram" /\ q.at \in {"find", "insert"})
HadRoom(q) == Counts(q) => q.seen < ConversationLimit

TurnsAreInOrder == \A u \in Turns : Keyed(turns[u]) /\ NotEarly(turns[u]) /\ HadRoom(turns[u])

\* The turn is past the look-up of its thread, and has not stored its message.
Threaded(q) == q.at \in {"quota", "ask"} \/ (q.at = "limit" /\ q.channel = "widget")

ThreadIsThere == \A u \in Turns : Threaded(turns[u]) => \A k \in turns[u].key : threads[k] = 1 \/ Holds(u, k)

KeyIsHeldOnce ==
    \A k \in Keys : \A u \in inserting[k] :
        threads[k] = 0 /\ k \in turns[u].key /\ Threaded(turns[u]) /\ inserting[k] = {u}

TurnInv ==
    /\ TurnsAreInOrder
    /\ KeyIsHeldOnce
    /\ ThreadIsThere
    /\ OneThreadPerVisitor
    /\ ShownIsStored
    /\ CapIsPassedByOverlap
=============================================================================
