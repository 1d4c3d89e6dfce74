--------------------------- MODULE MCStripeBilling ---------------------------
(* Small instances of StripeBilling for TLC.                                 *)
EXTENDS StripeBilling

Paid == CHOOSE s \in Subs : TRUE
PaidPlan == CHOOSE p \in PaidPlans : TRUE

\* A user who is new, or one who has paid for a subscription, whose events have been
\* answered in their order: their numbers are free again.
SerialInit ==
    /\ \E paying \in {{}, {Paid}} :
        /\ stripe = [s \in Subs |-> IF s \in paying THEN [state |-> "active", plan |-> PaidPlan, period |-> 1]
                                    ELSE [state |-> "none", plan |-> Free, period |-> 0]]
        /\ session = [s \in Subs |-> IF s \in paying THEN PaidPlan ELSE Free]
        /\ row = IF paying = {} THEN FreeRow
                 ELSE [plan |-> PaidPlan, status |-> "active", sub |-> Paid, customer |-> TRUE, period |-> 0]
        \* A bound: the plan of a new user is overridden, or a delivery fails.
        /\ \/ fails = 0 /\ overrides = MaxOverrides
           \/ fails = MaxFails /\ overrides = 0 /\ paying = {}
    /\ events = << >> /\ settled = {} /\ recorded = {}
    /\ request = [r \in Requests |-> Idle]
    /\ overridden = FALSE

SerialSpec == SerialInit /\ [][Next]_vars /\ Fairness
=============================================================================
