\* The system is quiet once Stripe has no event left to create.
CONSTANTS
    Subs = {s1, s2}
    NoSub = NoSub
    PaidPlans = {Pro, Business}
    Free = Free
    Requests = {r1}
    Redis = TRUE
    Delivery = "ordered"
    MaxEvents = 7
    MaxFails = 0
    MaxOverrides = 0
SPECIFICATION Spec
CHECK_DEADLOCK FALSE
INVARIANT LimitsOfActiveSubscription
