------------------------------- MODULE ModelCalls -------------------------------
(***************************************************************************)
(* One turn of a bot that does not sell (app/services/ai_service.py), from *)
(* the visitor's message to the answer of the HTTP layer: the greeting     *)
(* filter, the caches and their embeddings, the call to Gemini             *)
(* (integrations/providers/gemini.py, which repeats a call that was        *)
(* refused for its rate) or to Ollama (ollama.py), the tokens and their    *)
(* price (ai_cost), the row of the usage log, and the error that the       *)
(* client sees (ai_error_taxonomy.py).  The providers answer as they like. *)
(***************************************************************************)
EXTENDS Naturals

CONSTANTS
    ModelProviders,      \* the registered providers: gemini, ollama
    MaxAttempts429,      \* _GEMINI_429_MAX_ATTEMPTS
    StrictEmbedding,     \* ai_semantic_cache_strict_embedding
    PromptTokens, ReplyTokens,   \* the estimates from the characters of prompt and reply
    MaxCalls             \* bound: the turns that are begun

ASSUME ModelCallsAssumption ==
    /\ ModelProviders \subseteq {"gemini", "ollama"} /\ StrictEmbedding \in BOOLEAN
    /\ {MaxAttempts429, PromptTokens, ReplyTokens} \subseteq Nat \ {0} /\ MaxCalls \in Nat

VARIABLES
    call,         \* the turn
    asked429,     \* the attempts of the turn's call to its provider
    generated,    \* history: how often the provider has made (and charged) a reply in this turn
    written,      \* the rows of the turn: the visitor's message, the reply, the usage log
    kept,         \* the reply of the turn was put into the caches
    response,     \* what the client is told
    callsBegun

callVars == <<call, asked429, generated, written, kept, response, callsBegun>>

\* Tokens as a provider reports them; a number that is missing counts as 0.  The total
\* of Gemini includes what it thought.
Reports == {[in |-> 0, out |-> 0, total |-> 0], [in |-> 3, out |-> 1, total |-> 0],
            [in |-> 3, out |-> 1, total |-> 4], [in |-> 3, out |-> 0, total |-> 5]}
NoTokens == [in |-> 0, out |-> 0, total |-> 0]

\* What comes back of a request: a status that is not 200, a body that cannot be read,
\* a reply, or nothing.
Refusals == {"400", "400 named", "401", "403", "404", "404 named", "429", "503"}
Silences == {"timeout", "no connection", "broken connection"}
Unreadable == {"not JSON", "not an object", "not UTF-8"}
Replies == {"text", "blank", "no text", "no text, too long", "blocked"}

Codes == {"", "auth_failed", "connection_error", "content_blocked", "embedding_failed", "google", "http_401",
          "http_4xx", "http_5xx", "invalid_response", "max_tokens", "model_not_found", "persistence_error",
          "provider_error", "rate_limited", "request_error", "timeout", "unexpected_error", "unknown"}
Result == [source : {"filter", "exact", "semantic", "embedding", "provider"}, ok : BOOLEAN,
           code : Codes, tokens : Reports]
ResultOf(source, ok, code, tokens) == [source |-> source, ok |-> ok, code |-> code, tokens |-> tokens]
NoResult == ResultOf("filter", FALSE, "", NoTokens)
Failure(code, tokens) == ResultOf("provider", FALSE, code, tokens)

CallsInit ==
    /\ call = [at |-> "idle", provider |-> "gemini", result |-> NoResult]
    /\ asked429 = 0 /\ generated = 0 /\ kept = FALSE /\ callsBegun = 0
    /\ written = [asked |-> 0, told |-> 0, logs |-> {}]
    /\ response = [status |-> 0, again |-> FALSE]

CallGo(at) == call' = [call EXCEPT !.at = at]

-----------------------------------------------------------------------------
\* The codes of the providers' errors.  A code that Google gives is kept for a status
\* below 500 other than 401, 403 and 429.
GeminiCode(a) ==
    IF a \in {"401", "403"} THEN "auth_failed"
    ELSE IF a = "429" THEN "rate_limited"
    ELSE IF a = "503" THEN "provider_error"
    ELSE IF a \in {"400 named", "404 named"} THEN "google"
    ELSE IF a \in {"400", "404"} THEN "http_4xx"
    ELSE IF a = "timeout" THEN "timeout"
    ELSE IF a = "no connection" THEN "connection_error"
    ELSE IF a = "broken connection" THEN "request_error"
    ELSE IF a = "not UTF-8" THEN "unexpected_error"
    ELSE IF a = "blocked" THEN "content_blocked"
    ELSE IF a = "no text, too long" THEN "max_tokens"
    ELSE "invalid_response"

\* Ollama's text is stripped, so a blank one is none; an exception that it does not know
\* has no code.
OllamaCode(a) ==
    IF a \in {"404", "404 named"} THEN "model_not_found"
    ELSE IF a \in {"401", "403"} THEN "http_401"
    ELSE IF a \in {"400", "400 named", "429"} THEN "http_4xx"
    ELSE IF a = "503" THEN "http_5xx"
    ELSE IF a = "timeout" THEN "timeout"
    ELSE IF a \in {"no connection", "broken connection"} THEN "connection_error"
    ELSE IF a = "not UTF-8" THEN "unknown"
    ELSE "invalid_response"

NormalizeError(p, a) == IF p = "gemini" THEN GeminiCode(a) ELSE OllamaCode(a)

\* A reply of blanks is a success for Gemini; _finalize_completion_result turns it down.
\* The bodies of errors are taken to report no tokens.
GenerateResponse(p, a, tokens) ==
    IF a = "text" THEN ResultOf("provider", TRUE, "", tokens)
    ELSE IF a = "blank" /\ p = "gemini" THEN Failure("invalid_response", tokens)
    ELSE Failure(NormalizeError(p, a), IF a \in Replies THEN tokens ELSE NoTokens)

ClassifyProviderErrorCode(code) ==
    IF code = "timeout" THEN "timeout"
    ELSE IF code = "auth_failed" THEN "auth_config"
    ELSE IF code \in {"embedding_failed", "rate_limited", "provider_error", "connection_error", "request_error"}
         THEN "provider_unavailable"
    ELSE IF code \in {"invalid_response", "http_4xx", "http_5xx"} THEN "invalid_provider_response"
    ELSE "internal_unknown"

IsRetryable(code) ==
    code = "rate_limited" \/ ClassifyProviderErrorCode(code) \in {"timeout", "provider_unavailable"}

HttpStatus(code) ==
    LET category == ClassifyProviderErrorCode(code)
    IN  IF code = "persistence_error" THEN 500
        ELSE IF code = "rate_limited" THEN 429
        ELSE IF category = "timeout" THEN 504
        ELSE IF category = "provider_unavailable" THEN 503
        ELSE 502

-----------------------------------------------------------------------------
NormalizeUsage(t) == [t EXCEPT !.total = IF @ = 0 THEN t.in + t.out ELSE @]

\* Without a report the tokens of a reply that the provider made are estimated.
Accounted(r) ==
    LET t == NormalizeUsage(r.tokens)
    IN  IF r.ok /\ r.source = "provider" /\ t.total = 0
        THEN [in |-> PromptTokens, out |-> ReplyTokens, total |-> PromptTokens + ReplyTokens]
        ELSE t

\* Prices are known for Gemini: an input token costs 1, an output token 4.
Cost(p, t) == IF p = "gemini" /\ t.total > 0 THEN t.in + 4 * t.out ELSE 0

UsageRow(r) == [source |-> r.source, ok |-> r.ok, tokens |-> Accounted(r),
                cost |-> Cost(IF r.source = "provider" THEN call.provider ELSE "none", Accounted(r))]

-----------------------------------------------------------------------------
BeginCall(p) ==
    /\ call.at = "idle" /\ callsBegun < MaxCalls
    /\ call' = [at |-> "ask", provider |-> p, result |-> NoResult]
    /\ callsBegun' = callsBegun + 1
    /\ asked429' = 0 /\ generated' = 0 /\ kept' = FALSE
    /\ written' = [asked |-> 0, told |-> 0, logs |-> {}]
    /\ response' = [status |-> 0, again |-> FALSE]

\* What embedContent gives: the values, or nothing; a failure is raised for the look-up.
EmbedText(a) == IF a = "values" THEN "vector" ELSE IF StrictEmbedding THEN "failed" ELSE "none"

\* The caches are looked up before the message is stored: the same words, then the
\* embedding and what is near to it.
TryCompletionCache ==
    {"exact"} \cup UNION {IF EmbedText(a) = "failed" THEN {"embedding"}
                          ELSE IF EmbedText(a) = "vector" THEN {"semantic", "provider"} ELSE {"provider"}
                            : a \in {"values", "error"}}

\* A greeting is answered by the filter; otherwise the caches are asked.  The message of
\* the visitor is committed before the provider is called.
Ask(source) ==
    /\ call.at = "ask" /\ source \in {"filter"} \cup TryCompletionCache
    /\ written' = [written EXCEPT !.asked = 1]
    /\ call' = [call EXCEPT !.at = IF source = "provider" THEN "resolve" ELSE "usage",
                            !.result = ResultOf(source, source \in {"filter", "exact", "semantic"},
                                                IF source = "embedding" THEN "embedding_failed" ELSE "", NoTokens)]
    /\ UNCHANGED <<asked429, generated, kept, response, callsBegun>>

\* The message could not be stored: nothing is left of the turn.
AskFails ==
    /\ call.at = "ask"
    /\ CallGo("idle") /\ response' = [status |-> 422, again |-> FALSE]
    /\ UNCHANGED <<asked429, generated, written, kept, callsBegun>>

\* A bot may name a provider that is not configured: the error is not caught.
ResolveProvider(known) ==
    /\ call.at = "resolve"
    /\ IF known THEN CallGo("send") /\ UNCHANGED response
       ELSE CallGo("idle") /\ response' = [status |-> 500, again |-> FALSE]
    /\ UNCHANGED <<asked429, generated, written, kept, callsBegun>>

\* Mutant: a call that was not answered is repeated as well.
RepeatsSilence(a) == call.provider = "gemini" /\ a \in {"429"} \cup Silences /\ asked429 + 1 < MaxAttempts429

\* Gemini repeats a call that was refused with 429, after a pause.
Repeats429(a) == call.provider = "gemini" /\ a = "429" /\ asked429 + 1 < MaxAttempts429

\* One request to the provider and its answer.  What did not arrive in time may have
\* been made and charged all the same.
Post(a, tokens, made) ==
    /\ call.at = "send"
    /\ made = 1 => a \notin Refusals \cup {"no connection"}
    /\ a \in Replies \cup Unreadable => made = 1
    /\ asked429' = asked429 + 1
    /\ generated' = generated + made
    /\ call' = IF Repeats429(a) THEN call
               ELSE [call EXCEPT !.at = "usage", !.result = GenerateResponse(call.provider, a, tokens)]
    /\ UNCHANGED <<written, kept, response, callsBegun>>

\* A reply that the provider made goes into the caches, before it is stored.
Remember(stored) ==
    /\ call.at = "usage"
    /\ kept' = (stored /\ call.result.ok /\ call.result.source = "provider")
    /\ CallGo("store")
    /\ UNCHANGED <<asked429, generated, written, response, callsBegun>>

\* The reply and the row of the usage log are one transaction.
StoreTurn ==
    /\ call.at = "store"
    /\ written' = [written EXCEPT !.told = IF call.result.ok THEN 1 ELSE 0, !.logs = {UsageRow(call.result)}]
    /\ CallGo("answer")
    /\ UNCHANGED <<asked429, generated, kept, response, callsBegun>>

StoreTurnFails ==
    /\ call.at = "store"
    /\ call' = [call EXCEPT !.at = "answer", !.result.ok = FALSE, !.result.code = "persistence_error"]
    /\ UNCHANGED <<asked429, generated, written, kept, response, callsBegun>>

\* exception_for_failed_send_result, unless there is a reply.
Respond ==
    /\ call.at = "answer"
    /\ response' = IF call.result.ok THEN [status |-> 200, again |-> FALSE]
                   ELSE [status |-> HttpStatus(call.result.code), again |-> IsRetryable(call.result.code)]
    /\ CallGo("idle")
    /\ UNCHANGED <<asked429, generated, written, kept, callsBegun>>

CallDies ==
    /\ call.at # "idle" /\ CallGo("idle")
    /\ UNCHANGED <<asked429, generated, written, kept, response, callsBegun>>

CallGoesOn ==
    \/ \E s \in {"filter", "exact", "semantic", "embedding", "provider"} : Ask(s)
    \/ AskFails \/ StoreTurn \/ StoreTurnFails \/ Respond
    \/ \E b \in BOOLEAN : ResolveProvider(b) \/ Remember(b)
    \/ \E a \in Refusals \cup Silences \cup Unreadable, made \in 0 .. 1 : Post(a, NoTokens, made)
    \/ \E a \in Replies, t \in Reports : Post(a, t, 1)

CallsNext == (\E p \in ModelProviders : BeginCall(p)) \/ CallGoesOn \/ CallDies

\* The event loop goes on; requests to the providers have timeouts.
CallsFairness == WF_callVars(CallGoesOn)

CallsSpec == CallsInit /\ [][CallsNext]_callVars /\ CallsFairness

-----------------------------------------------------------------------------
UsageRows == [source : {"filter", "exact", "semantic", "embedding", "provider"}, ok : BOOLEAN,
              tokens : [in : Nat, out : Nat, total : Nat], cost : Nat]

CallsTypeOK ==
    /\ call \in [at : {"idle", "ask", "resolve", "send", "usage", "store", "answer"},
                 provider : ModelProviders \cup {"gemini"}, result : Result]
    /\ asked429 \in 0 .. MaxAttempts429 /\ generated \in 0 .. MaxAttempts429
    /\ written \in [asked : 0 .. 1, told : 0 .. 1, logs : SUBSET UsageRows]
    /\ kept \in BOOLEAN /\ response \in [status : Nat, again : BOOLEAN] /\ callsBegun \in 0 .. MaxCalls

\* A turn makes the provider charge for one reply at most: only what was refused is sent
\* again (generate_response).
ChargedOnce == generated <= 1

\* The turn has its row in the usage log, and its reply if there is one.
Booked(ok) ==
    \E row \in written.logs :
        /\ row.ok = ok /\ written.told = IF ok THEN 1 ELSE 0
        /\ row.source = "provider" /\ row.ok => row.tokens.total > 0
        /\ row.source # "provider" => row.tokens.total = 0 /\ row.cost = 0

\* An answered turn is in the books: its usage row says what the client was told, and a
\* reply that the provider has made is not free of tokens there (send_bot_message,
\* normalize_usage, estimate_tokens_from_messages).
AnsweredIsLogged == response.status \in {200, 429, 502, 503, 504} => Booked(response.status = 200)

UnheardCodes == {"timeout", "request_error", "connection_error"}

\* A client that is told to try again repeats nothing that was done: no reply was stored
\* or remembered, and the provider has not charged for one, unless it was not heard of
\* (is_retryable_category).
TryAgainIsSafe ==
    response.again => /\ written.told = 0 /\ ~ kept
                      /\ generated = 1 => call.result.code \in UnheardCodes

\* The turn, its charge, its rows and its answer agree (send_bot_message).
CallsAreAccounted == ChargedOnce /\ AnsweredIsLogged /\ TryAgainIsSafe

\* Every turn ends: the repetitions are bounded (generate_response).
EveryCallEnds == call.at # "idle" ~> call.at = "idle"

-----------------------------------------------------------------------------
\* The inductive strengthening that the proofs use: what holds of the turn where it stands.
ResultFits(r) ==
    /\ r.source # "provider" => r.tokens = NoTokens
    /\ generated = 1 /\ ~ r.ok /\ IsRetryable(r.code) => r.code \in UnheardCodes

Unsent == call.at \in {"ask", "resolve", "send"} => generated = 0 /\ asked429 < MaxAttempts429
Unkept == call.at \in {"ask", "resolve", "send", "usage"} => ~ kept
Unwritten == call.at \in {"ask", "resolve", "send", "usage", "store"} => written.told = 0 /\ written.logs = {}
Unanswered == call.at # "idle" => response.status = 0 /\ ~ response.again
Resulted == call.at \in {"usage", "store", "answer"} => ResultFits(call.result)
KeptIfOk == call.at = "store" /\ kept => call.result.ok
Settled ==
    call.at = "answer" =>
        \/ Booked(call.result.ok) /\ (kept => call.result.ok)
        \/ ~ call.result.ok /\ call.result.code = "persistence_error"

CallInv ==
    /\ Unsent /\ Unkept /\ Unwritten /\ Unanswered /\ Resulted /\ KeptIfOk /\ Settled
    /\ ChargedOnce /\ AnsweredIsLogged /\ TryAgainIsSafe
=============================================================================
