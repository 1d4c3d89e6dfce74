------------------------------ MODULE SalesGuards ------------------------------
(***************************************************************************)
(* The turns of one sales conversation as its visitor sees them: the       *)
(* safeguards that stop a turn before the chat model, the question the     *)
(* planner chooses, the shape of the reply, and where the reply comes from *)
(* (app/services/sales_safeguards.py, question_planner.py,                 *)
(* response_planner.py, sales_llm_burst_limiter.py and the turns of        *)
(* sales_conversation_orchestrator.py).  The counters of the safeguards    *)
(* live in the conversation's collected data: a turn reads them once and   *)
(* writes the whole row back when it commits.  The turns follow each other *)
(* (what overlapping turns lose is the subject of SalesConversation); any  *)
(* of them may be lost.  Time is in ticks.                                 *)
(***************************************************************************)
EXTENDS ConversationStateMachine, FiniteSets

CONSTANTS
    Words,           \* texts that differ once they are normalized
    Asked,           \* the number of required fields
    RateWindow,      \* SALES_RATE_WINDOW_SEC
    RateMax,         \* SALES_RATE_MAX_TURNS_IN_WINDOW
    TimesKept,       \* 40: the times of a row that a turn looks at
    StreakMax,       \* SALES_IDENTICAL_STREAK_MAX
    MissMax,         \* SALES_SAME_TARGET_MISS_STREAK_MAX = SALES_VAGUE_STREAK_MAX
    BurstCap,        \* ai_sales_llm_burst_max_calls_per_window, one tick wide
    MaxTime,         \* bound
    MaxMessages      \* bound

ASSUME GuardsAssumption ==
    /\ {Asked, RateWindow, MaxTime, MaxMessages} \subseteq Nat
    /\ {RateMax, StreakMax, MissMax, BurstCap} \subseteq Nat \ {0}
    /\ TimesKept \in Nat /\ TimesKept >= RateMax   \* with fewer times the limit is never seen

VARIABLES
    saved,         \* the committed conversation row
    talk,        \* the turn that is handled
    burst,       \* Redis: the calls of the model in the bucket of this tick
    now,
    messages,    \* the messages begun
    unshown,     \* history: the fields the row had as asked under a reply that was none of the model's
    asked,       \* history: the fields some shown reply asked for
    misses,      \* history: the turns in a row that found no value for the same field
    answered,    \* history: the ticks of the turns answered without a safeguard
    openings     \* history: the opening lines of this tick answered by the model

guardVars == <<saved, talk, burst, now, messages, unshown, asked, misses, answered, openings>>

Slots == 1 .. Asked
NoSlot == 0

\* What of a text matters: "vague" has fewer than two words, "paste" is too long
\* to be compared with the one before, "flood" too long to be read.  The input
\* filter answers a "greeting", and an "ack" ("ok", "yes") before the rules see it;
\* an "opening" is one word that only the rules know ("understood").
Kinds == {"plain", "vague", "paste", "flood", "greeting", "ack", "opening"}
Filtered == {"greeting", "ack"}
Message == [kind : Kinds, word : Words]
NoMessage == [kind |-> "none"]

GuardRow == [state : States, filled : SUBSET Slots, target : Slots \cup {NoSlot}, complete : BOOLEAN,
             times : Seq(0 .. MaxTime), last : Message \cup {NoMessage}, streak : Nat,
             missed : Slots \cup {NoSlot}, misses : Nat, vague : Nat]
FirstRow == [state |-> "start", filled |-> {}, target |-> NoSlot, complete |-> FALSE, times |-> << >>,
             last |-> NoMessage, streak |-> 0, missed |-> NoSlot, misses |-> 0, vague |-> 0]

\* Who answers: a safeguard, the input filter, the closing words of a fresh lead, a
\* cache, no one because the cache's embedding failed, the busy line, a failed call of
\* the model, or the model.
Origins == {"none", "safeguard", "filter", "closing", "cached", "blocked", "busy", "failed", "model"}
Modes == {"greet", "ask_question", "acknowledge_and_ask", "offer", "handle_objection",
          "closing_prompt", "fallback_response"}
Reply == [mode : Modes, asks : Slots \cup {NoSlot}, from : Origins]
NoReply == [mode |-> "fallback_response", asks |-> NoSlot, from |-> "none"]

TurnIdle == [at |-> "idle", msg |-> NoMessage, read |-> FirstRow, row |-> FirstRow, time |-> 0,
             by |-> "turn", reply |-> NoReply, wrote |-> FALSE]

GuardsInit ==
    /\ saved = FirstRow
    /\ talk = TurnIdle
    /\ burst = 0 /\ now = 0 /\ messages = 0
    /\ unshown = {}
    /\ asked = {} /\ misses = 0 /\ answered = << >> /\ openings = 0

-----------------------------------------------------------------------------
\* The safeguards before classification: each changes the counters and may stop
\* the turn; the first that does is the last that is looked at.

\* Mutant: a turn that is exactly as old as the window is forgotten.
YoungEarly(times) ==
    {i \in 1 .. Len(times) : Len(times) - i < TimesKept /\ now - times[i] < RateWindow}

\* The times of a row only grow, so those that stay are its last ones: the ones inside
\* the window among the last TimesKept.
Young(times) ==
    {i \in 1 .. Len(times) : Len(times) - i < TimesKept /\ now - times[i] <= RateWindow}
PruneTimes(times) == SubSeq(times, Len(times) - Cardinality(Young(times)) + 1, Len(times))

WithTime(r) == [r EXCEPT !.times = Append(PruneTimes(@), now)]
TooFast(r) == Len(r.times) > RateMax

Comparable(msg) == msg.kind \notin {"paste", "flood"}
WithStreak(r, msg) ==
    [r EXCEPT !.streak = IF Comparable(msg) /\ msg = r.last THEN @ + 1 ELSE 1, !.last = msg]
Repeats(r, msg) == Comparable(msg) /\ r.streak >= StreakMax

\* What the guards leave of the row, and whether they stop the turn.
EvaluateEarlyTurnGuards(r, msg) ==
    LET timed == WithTime(r)
        full  == WithStreak(timed, msg)
    IN  IF TooFast(timed) THEN [row |-> timed, stops |-> TRUE]
        ELSE [row |-> full, stops |-> Repeats(full, msg) \/ msg.kind = "flood"]

\* The classifier: where the intent comes from, whether its confidence is high enough
\* for the router, and whether a model was called.
Intents == {"greeting", "substantive", "unknown"}
Ruled(intent) == [source |-> "rules", intent |-> intent, sure |-> TRUE, called |-> FALSE]
Fallback(called) == [source |-> "fallback", intent |-> "unknown", sure |-> FALSE, called |-> called]

\* The rules know an opening line; of the other texts they may know the business words.
ClassifyByRules(msg) ==
    IF msg.kind = "opening" THEN {Ruled("greeting"), Ruled("substantive")} ELSE {Ruled("substantive")}

\* What the rules leave: taken for interest without a model, or put to the model, which
\* may fail (an exception is not counted as a call) or give no label.
ClassifyByModel ==
    {[source |-> "sales_default", intent |-> "substantive", sure |-> TRUE, called |-> FALSE]}
        \cup {Fallback(called) : called \in BOOLEAN}
        \cup [source : {"gemini"}, intent : Intents, sure : BOOLEAN, called : {TRUE}]

Classifications(msg) == ClassifyByRules(msg) \cup IF msg.kind = "opening" THEN {} ELSE ClassifyByModel

\* A weak label of the model counts as unknown.
EffectiveRoutingIntent(ic) == IF ic.source = "gemini" /\ ~ ic.sure THEN "unknown" ELSE ic.intent

IsVague(msg) == msg.kind \in {"vague", "opening"}

\* The safeguards after the search for answers: vague replies, and a field that
\* is missed again and again.  Only the second takes its counter back.
EvaluatePostExtractionGuards(r, msg, wrote) ==
    LET vague  == IF IsVague(msg) THEN r.vague + 1 ELSE 0
        misses_ == IF r.target = r.missed THEN r.misses + 1 ELSE 1
        counted == [r EXCEPT !.vague = vague, !.misses = misses_, !.missed = r.target]
    IN  IF wrote THEN [row |-> [r EXCEPT !.vague = 0, !.misses = 0, !.missed = NoSlot], stops |-> FALSE]
        ELSE IF r.target = NoSlot THEN [row |-> r, stops |-> FALSE]
        ELSE IF vague >= MissMax THEN [row |-> counted, stops |-> TRUE]
        ELSE IF misses_ >= MissMax
             THEN [row |-> [counted EXCEPT !.misses = 0, !.missed = NoSlot], stops |-> TRUE]
        ELSE [row |-> counted, stops |-> FALSE]

-----------------------------------------------------------------------------
\* The question of the planner: the first required field that is missing, while
\* the funnel gathers; nothing later.
Gathers == {"start", "fallback", "qualification"}
FirstMissingSlot(filled) ==
    IF filled = Slots THEN NoSlot ELSE CHOOSE f \in Slots \ filled : \A g \in Slots \ filled : f <= g
PlanNextSlot(state, filled, intent) ==
    LET missing == IF state \in Gathers THEN FirstMissingSlot(filled) ELSE NoSlot
    IN  [target |-> missing,
         action |-> IF missing = NoSlot THEN "hold_no_question"
                    ELSE IF intent = "unknown" /\ state \in {"start", "fallback"}
                         THEN "engage_opening" ELSE "ask_core_field"]

\* Mutant: a conversation that fell back is not asked its question again.
PlanResponseStrategyMute(state, intent, plan) ==
    CASE state = "completed" -> [mode |-> "fallback_response", asks |-> NoSlot]
      [] state = "offer" -> [mode |-> "offer", asks |-> NoSlot]
      [] state = "objection_handling" -> [mode |-> "handle_objection", asks |-> NoSlot]
      [] state = "closing" -> [mode |-> "closing_prompt", asks |-> NoSlot]
      [] state = "fallback" -> [mode |-> "fallback_response", asks |-> NoSlot]
      [] OTHER -> [mode |-> "ask_question", asks |-> plan.target]

\* The shape of the reply and the question it is to ask: the state decides first,
\* then the planner, then the intent.
PlanResponseStrategy(state, intent, plan) ==
    CASE state = "completed" -> [mode |-> "fallback_response", asks |-> NoSlot]
      [] state = "offer" -> [mode |-> "offer", asks |-> NoSlot]
      [] state = "objection_handling" -> [mode |-> "handle_objection", asks |-> NoSlot]
      [] state = "closing" -> [mode |-> "closing_prompt", asks |-> NoSlot]
      [] state = "fallback" -> [mode |-> "fallback_response", asks |-> plan.target]
      [] state = "start" /\ intent = "greeting" -> [mode |-> "greet", asks |-> plan.target]
      [] state = "qualification" /\ plan.target = NoSlot ->
            [mode |-> "acknowledge_and_ask", asks |-> NoSlot]
      [] OTHER -> [mode |-> IF intent = "substantive" THEN "acknowledge_and_ask" ELSE "ask_question",
                   asks |-> plan.target]

\* One step of the funnel: the planner may declare the qualification complete,
\* the machine moves, the planner chooses the field to ask for, the row keeps it.
Completed(r) == r.complete \/ r.filled = Slots
FunnelStep(r, intent) ==
    TransitionState(<< >>, r.state, intent # "unknown", FALSE,
                    IF Completed(r) THEN {"qualification_complete"} ELSE {})
PlannerTransitionPipeline(r, intent) ==
    LET next == FunnelStep(r, intent)
        plan == PlanNextSlot(next, r.filled, intent)
    IN  [row |-> [r EXCEPT !.state = next, !.complete = Completed(r), !.target = plan.target],
         strategy |-> PlanResponseStrategy(next, intent, plan)]

ReplyOf(strategy, from) == [mode |-> strategy.mode, asks |-> strategy.asks, from |-> from]
Canned(strategy, from) == [mode |-> strategy.mode, asks |-> NoSlot, from |-> from]

\* A lead that is captured by the turn gives the reply; leads come from late states.
Closings(r) == IF r.state \in {"offer", "objection_handling", "closing", "completed"} THEN {"closing"} ELSE {}
-----------------------------------------------------------------------------
Tick ==
    /\ now < MaxTime
    /\ now' = now + 1
    /\ burst' = 0 /\ openings' = 0
    /\ UNCHANGED <<saved, talk, messages, unshown, asked, misses, answered>>

\* The message is stored and the row read.  A turn that the early safeguards stop,
\* or that the input filter answers, still moves the funnel, as if the intent were
\* unknown.
BeginTurn(msg) ==
    LET early == EvaluateEarlyTurnGuards(saved, msg)
        step  == PlannerTransitionPipeline(early.row, "unknown")
        base  == [TurnIdle EXCEPT !.msg = msg, !.read = saved, !.row = early.row, !.time = now]
        canned(by, from) == [base EXCEPT !.at = "commit", !.by = by, !.row = step.row,
                                         !.reply = Canned(step.strategy, from)]
    IN  /\ talk.at = "idle" /\ messages < MaxMessages
        /\ IF early.stops \/ msg.kind \in Filtered
           THEN LET by == IF early.stops THEN "safeguard" ELSE "filter"
                IN  \E from \in {by} \cup Closings(step.row) : talk' = canned(by, from)
           ELSE talk' = [base EXCEPT !.at = "answer"]
        /\ messages' = messages + 1
        /\ UNCHANGED <<saved, burst, now, unshown, asked, misses, answered, openings>>

\* An answer is stored under the field that was asked for last, if it is empty;
\* the text of a vague reply may still be a value (a town, a subject).
MayWrite(r) == r.target # NoSlot /\ r.target \notin r.filled
WithAnswer(r, wrote) == IF wrote THEN [r EXCEPT !.filled = @ \cup {r.target}] ELSE r

AtMostCap(n) == IF n < BurstCap THEN n ELSE BurstCap   \* more make no difference

\* The calls in the bucket after a reply: those of the classifier, and the reply's,
\* failed or not.
CountsCall(ic, from) ==
    AtMostCap(burst + (IF ic.called THEN 1 ELSE 0) + (IF from \in {"model", "failed"} THEN 1 ELSE 0))

\* Where the reply comes from: opening lines get the busy line in a burst.
Sources(msg, r) ==
    Closings(r) \cup {"cached", "blocked"}
        \cup IF msg.kind = "opening" /\ burst >= BurstCap THEN {"busy"} ELSE {"failed", "model"}

\* The turn after its awaits: classification, answers, safeguards, funnel, reply.
AnswerTurn(ic, wrote) ==
    LET msg   == talk.msg
        intent == EffectiveRoutingIntent(ic)
        r     == WithAnswer(talk.row, wrote)
        post  == EvaluatePostExtractionGuards(r, msg, wrote)
        step  == PlannerTransitionPipeline(post.row, intent)
    IN  /\ talk.at = "answer"
        /\ wrote => MayWrite(talk.row)
        /\ \E from \in IF post.stops THEN {"safeguard"} \cup Closings(step.row) ELSE Sources(msg, step.row) :
            /\ talk' = [talk EXCEPT !.at = "commit", !.by = IF post.stops THEN "safeguard" ELSE "turn",
                         !.row = step.row, !.wrote = wrote,
                         !.reply = IF from = "model" THEN ReplyOf(step.strategy, from)
                                   ELSE Canned(step.strategy, from)]
            /\ burst' = CountsCall(ic, from)
            /\ openings' = openings + (IF from \in {"model", "failed"} /\ msg.kind = "opening" THEN 1 ELSE 0)
        /\ UNCHANGED <<saved, now, messages, unshown, asked, misses, answered>>

\* Row and reply are committed together; the reply is then shown.
CommitReply ==
    LET t == talk
        met == t.by = "turn" /\ ~ t.wrote /\ t.read.target # NoSlot
    IN  /\ t.at = "commit"
        /\ saved' = t.row
        /\ talk' = TurnIdle
        /\ asked' = asked \cup ({t.reply.asks} \ {NoSlot})
        /\ unshown' = unshown \cup IF t.reply.from = "model" THEN {} ELSE {t.row.target} \ {NoSlot}
        /\ misses' = IF t.by = "filter" THEN misses
                     ELSE IF met /\ t.row.target = t.read.target THEN misses + 1 ELSE 0
        /\ answered' = IF t.by = "turn" THEN Append(answered, t.time) ELSE answered
        /\ UNCHANGED <<burst, now, messages, openings>>

\* The commit fails, or the process dies: the row stays as it was.
LoseTurn ==
    /\ talk.at # "idle"
    /\ talk' = TurnIdle
    /\ UNCHANGED <<saved, burst, now, messages, unshown, asked, misses, answered, openings>>

GuardsNext ==
    \/ Tick
    \/ \E msg \in Message : BeginTurn(msg)
    \/ talk.at = "answer" /\ \E ic \in Classifications(talk.msg), wrote \in BOOLEAN : AnswerTurn(ic, wrote)
    \/ CommitReply
    \/ LoseTurn

GuardsSpec == GuardsInit /\ [][GuardsNext]_guardVars
-----------------------------------------------------------------------------
GuardsTypeOK ==
    /\ saved \in GuardRow
    /\ talk.at \in {"idle", "answer", "commit"}
    /\ talk.msg \in Message \cup {NoMessage}
    /\ {talk.read, talk.row} \subseteq GuardRow
    /\ talk.reply \in Reply
    /\ burst \in 0 .. BurstCap /\ now \in 0 .. MaxTime /\ messages \in 0 .. MaxMessages
    /\ asked \subseteq Slots

\* No more turns than the limit are answered in one window (evaluate_early_turn_guards): the list of times that the row keeps
\* forgets no turn that still counts, lost turns or not.
RateKept ==
    \A i \in 1 .. Len(answered) :
        Cardinality({j \in 1 .. i : answered[i] - answered[j] <= RateWindow}) <= RateMax

\* No field is asked for over and over: between two nudges, turns that follow each
\* other meet fewer replies without a value than the limit, greetings in between or
\* not (evaluate_post_extraction_guards).
SlotLoopIsBroken == misses < MissMax

\* Every value was given to a question the visitor was shown, unless the row had its
\* field as asked under a reply that was none of the model's (a safeguard, a cached text, a
\* failure): otherwise the field that the row keeps is the field of the reply (_sync_orchestrator_keys_after_prompt_plan
\* and plan_response_strategy agree).
ValuesWereAskedFor == saved.filled \subseteq asked \cup unshown

\* A safeguard or a greeting never costs the visitor the question that is open: the
\* canned turn moves the funnel, and the planner chooses the same field again.
NudgeKeepsQuestion ==
    [][(talk.at = "commit" /\ talk.by \in {"safeguard", "filter"} /\ saved.target # NoSlot)
        => saved'.target = saved.target \/ talk.wrote]_saved

\* Opening lines reach the model at most as often in a bucket as the cap allows
\* (should_skip_chat_llm_for_burst, record_llm_invocation).
BurstKept == openings <= BurstCap

\* "Minimal acknowledgments in a sales funnel": the rules name their intent, "so the
\* state machine keeps a known intent (unknown would force fallback during
\* qualification)" (intent_rule_engine.py).  The input filter runs before the rules.
AckKeepsQualification ==
    [][(talk.at = "commit" /\ talk.by = "filter" /\ talk.msg.kind = "ack")
        => (saved.state = "qualification" => saved'.state # "fallback")]_saved

\* The limits of a conversation hold over all its turns, lost ones included; what the
\* row says was asked is what the visitor was asked, and stays asked
\* (sales_safeguards.py, sales_llm_burst_limiter.py, _run_planner_transition_pipeline).
SafeguardsHold == [](RateKept /\ SlotLoopIsBroken /\ BurstKept /\ ValuesWereAskedFor) /\ NudgeKeepsQuestion
=============================================================================
