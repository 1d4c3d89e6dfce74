------------------------------ MODULE MCRequests ------------------------------
(* The requests that other requests or other services make wait or start again: a *)
(* behaviour picks sign-ins, chat turns, calls of a model or the creation of bots, *)
(* and the other modules stay as they are.                                         *)
EXTENDS OAuthSignIn, ChatTurns, ModelCalls, MCBotQuota

VARIABLE focus   \* the requests of this behaviour

requestsVars == <<focus, signInVars, turnVars, callVars, vars>>

RequestsInit ==
    /\ focus \in {"sign-in", "turns", "calls", "bots"}
    /\ SignInInit /\ TurnInit /\ CallsInit /\ Init
    /\ focus # "bots" => plan = FreePlan   \* matters to its service only

RequestsNext ==
    /\ UNCHANGED focus
    /\ \/ focus = "sign-in" /\ SignInNext /\ UNCHANGED <<turnVars, callVars, vars>>
       \/ focus = "turns" /\ TurnNext /\ UNCHANGED <<signInVars, callVars, vars>>
       \/ focus = "calls" /\ CallsNext /\ UNCHANGED <<signInVars, turnVars, vars>>
       \/ focus = "bots" /\ Next /\ UNCHANGED <<signInVars, turnVars, callVars>>

\* The server runs the requests it has accepted; those that are not begun have nothing
\* to do, and their fairness asks nothing.
RequestsSpec ==
    /\ RequestsInit /\ [][RequestsNext]_requestsVars
    /\ SignInFairness /\ TurnFairness /\ CallsFairness
    /\ \A r \in Requests : WF_vars(focus = "bots" /\ CreateBot(r))

\* Every sign-in, turn, call and creation of a bot is answered, though they send each other
\* back to the start, wait for each other or repeat themselves (resolve_oauth_login,
\* get_or_create_conversation, generate_response, acquire_owner_create_lock).
EveryRequestIsAnswered ==
    /\ EveryLoginAnswered /\ EveryTurnAnswered /\ EveryCallEnds
    /\ focus = "bots" => EveryRequestAnswered
=============================================================================
