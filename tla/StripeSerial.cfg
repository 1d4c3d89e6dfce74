\* The system is quiet once Stripe has no event left to create.
CONSTANTS
    Subs = {s1, s2}
    NoSub = NoSub
    PaidPlans = {Pro, Business}
    Free = Free
    Requests = {r1}
    Redis = TRUE
    Delivery = "serial"
    MaxEvents = 4
    MaxFails = 1
    MaxOverrides = 1
SPECIFICATION SerialSpec
CHECK_DEADLOCK FALSE
PROPERTIES CustomerKept RowFollowsEvents EveryEventSettles
