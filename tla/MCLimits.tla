------------------------------- MODULE MCLimits -------------------------------
(* What stands between a message and the model, side by side, so that one run   *)
(* checks it all: a behaviour picks the rate limiter, the abuse heuristics or   *)
(* the caches of replies, which runs while the others stay as they are.         *)
EXTENDS RateLimits, WidgetAbuse, ReplyCache, TLC

VARIABLE focus   \* what this behaviour is about

vars == <<focus, limitVars, abuseVars, cacheVars>>

Init ==
    /\ focus \in {"rate limit", "abuse", "cache"}
    /\ LimitInit /\ AbuseInit /\ CacheInit
    /\ focus # "rate limit" => ~ failOpen   \* the settings matter to their service only
    /\ focus # "abuse" => ~ lenient

Next ==
    /\ UNCHANGED focus
    /\ \/ focus = "rate limit" /\ LimitNext /\ UNCHANGED <<abuseVars, cacheVars>>
       \/ focus = "abuse" /\ AbuseNext /\ UNCHANGED <<limitVars, cacheVars>>
       \/ focus = "cache" /\ CacheNext /\ UNCHANGED <<limitVars, abuseVars>>

Spec == Init /\ [][Next]_vars

\* Which turn, which state of the funnel or which wording it is makes no difference.
Renamings ==
    Permutations(CacheTurns) \cup Permutations(FlowStates) \cup Permutations(Phrases)
=============================================================================
