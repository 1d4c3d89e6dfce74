------------------------------ MODULE MCBotQuota ------------------------------
(* Small instances of BotQuota: a free plan of one bot and a paid one of two. *)
EXTENDS BotQuota, TLC

CONSTANTS r1, r2, r3

SmallPlans == {"free", "pro"}
SmallMax   == [p \in SmallPlans |-> IF p = "free" THEN 1 ELSE 2]

\* An owner with the free plan, or without a subscription row.
FreeOrNone == {"free", NoPlan}
=============================================================================
