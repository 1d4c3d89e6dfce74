\* A bounded number of events, requests and calls: they come to rest.
CONSTANTS
    Subs = {s1}
    NoSub = NoSub
    PaidPlans = {Pro, Business}
    Free = Free
    Requests = {r1}
    Redis = TRUE
    Delivery = "ordered"
    MaxEvents = 7
    MaxFails = 2
    MaxOverrides = 1
    Officers = {i1, i2}
    Clients = {c1}
    Machines = {b1}
    Missing = nil
    Desks = {w1, w2}
    Nobody = nobody
    MaxOffice = 3
    Ids = {i1, i2}
    Labels = {k1}
    Callers = {w1, w2}
    MaxCatalog = 3
    Rows = {1, 2, 3}
    PageSizes = {2}
    MaxChanges = 2
    BotWorkers = {w1, w2}
    BotNames = {n1, n2}
    KeepField = keep
    AskedStatuses = {"active", "paused"}
    MaxBotRequests = 3
    WidgetWorkers = {w1, w2}
    Greetings = {g1, g2}
    KeepWidget = keep
    MaxKeyAttempts = 2
    MaxWidgetRequests = 3
    LinkWorkers = {w1, w2}
    Chats = {i1, i2}
    MaxCodes = 2
    MaxLinkCalls = 4
    NewLeads = {i1, i2}
    MaxSends = 3
SYMMETRY Indifferent
SPECIFICATION OfficeRunSpec
CHECK_DEADLOCK FALSE
INVARIANTS Mirrors ListingsHold
PROPERTIES OfficeHolds CatalogHolds OwnersHold
