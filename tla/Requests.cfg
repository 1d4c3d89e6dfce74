\* A bounded number of requests: they come to rest.
CONSTANTS
    Accounts = {a1, a2, a3}
    Nobody = nobody
    Emails = {e1}
    Providers = {google}
    Ids = {g1, g2}
    Logins = {l1, l2}
    MaxLogins = 3
    MaxAdmin = 1
    Visitors = {w1}
    Chats = {x1}
    Turns = {u1, u2}
    MaxTurns = 3
    ConversationLimit = 2
    TokenCap = 1
    ModelProviders = {"gemini", "ollama"}
    MaxAttempts429 = 4
    StrictEmbedding = TRUE
    PromptTokens = 2
    ReplyTokens = 1
    MaxCalls = 2
    r1 = r1
    r2 = r2
    r3 = r3
    Requests = {r1, r2, r3}
    Plans = {"free", "pro"}
    FreePlan = "free"
    BotsMax <- SmallMax
    UnlimitedPlans = {}
    NoPlan = NoPlan
    FirstPlans <- FreeOrNone
    NoRequest = NoRequest
SPECIFICATION RequestsSpec
CHECK_DEADLOCK FALSE
INVARIANTS ThreadsAreSound CallsAreAccounted QuotaKept OneOverAtMost
PROPERTIES AccountsAreSound LimitsPassedByOverlap EveryRequestIsAnswered
