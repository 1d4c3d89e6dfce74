\* A bounded number of requests of each service: they come to rest.
CONSTANTS
    TotpRequests = {t1, t2}
    Codes = {c1, c2}
    MaxSetups = 3
    MaxTotpRequests = 6
    Bots = {b1, b2}
    Tokens = {k1, k2}
    NoToken = none
    ChannelRequests = {r1, r2}
    MaxChannelRequests = 3
    Recipients = {m1, m2}
    Admins = {d1, d2}
    MaxCampaignRequests = 4
    Open = {new, contacted}
    Terminal = {won, lost}
    New = new
    Notes = {called}
    NoNotes = empty
    Absent = absent
    Requests = {p1, p2}
    MaxPatches = 4
    Users = {u1}
    Sids = {1, 2, 3}
    NoSid = 0
    AuthRequests = {a1, a2}
    Mails = {n1}
    MaxAuthRequests = 4
    MaxWrites = 3
    Words = {w1}
    Asked = 2
    RateWindow = 0
    RateMax = 2
    TimesKept = 2
    StreakMax = 2
    MissMax = 2
    BurstCap = 1
    MaxTime = 1
    MaxMessages = 4
    Tabs = {v1, v2}
    Pairs = {1, 2, 3}
    NoPair = 0
    MaxTabCalls = 3
    Sectors <- SmallSectors
    Cities <- SmallCities
    City <- SmallCosts
    Rents = {0, 3, 4, 20}
    Staff = {0, 1, 3}
    Capitals = {0, 10, 400, 20000}
    Revenues = {0, 5, 45, 333, 340, 1700}
    SelfEmployedCap = 4000
    TurnoverCap = 20000
    Loans = {1, 5, 10}
    Rates = {0, 120, 360}
    MaxTerm = 3
SYMMETRY Alike
SPECIFICATION ServicesSpec
CHECK_DEADLOCK FALSE
INVARIANTS SessionsHold CampaignIsSentOnce FinanceHolds
PROPERTIES SafeguardsHold SecondFactorHolds ChannelsHold HistoryHolds AccessHolds BrowserHolds
