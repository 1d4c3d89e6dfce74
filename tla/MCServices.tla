------------------------------ MODULE MCServices ------------------------------
(* Services that share no state, side by side, so that one run checks them all: *)
(* a behaviour picks one of them, which runs while the others stay as they are. *)
EXTENDS TwoFactor, TelegramChannel, Campaigns, LeadPipeline, AuthSessions, SalesGuards, BrowserSessions, FinanceAdvice, TLC

VARIABLE focus   \* the service of this behaviour

servicesVars == <<focus, totpVars, channelVars, campaignVars, vars, authVars, guardVars, browserVars, financeVars>>

ServicesInit ==
    /\ focus \in {"second factor", "telegram", "campaign", "pipeline", "sessions", "safeguards", "browser",
               "finance"}
    /\ TotpInit /\ ChannelInit /\ CampaignInit /\ Init /\ AuthInit /\ GuardsInit /\ BrowserInit /\ FinanceInit
    /\ focus # "browser" => mode = "bearer"
    /\ focus # "sessions" => \A u \in Users : users[u].password = 1   \* matters to its service only

ServicesNext ==
    /\ UNCHANGED focus
    /\ \/ focus = "second factor" /\ TotpNext
          /\ UNCHANGED <<channelVars, campaignVars, vars, authVars, guardVars, browserVars, financeVars>>
       \/ focus = "telegram" /\ ChannelNext
          /\ UNCHANGED <<totpVars, campaignVars, vars, authVars, guardVars, browserVars, financeVars>>
       \/ focus = "campaign" /\ CampaignNext
          /\ UNCHANGED <<totpVars, channelVars, vars, authVars, guardVars, browserVars, financeVars>>
       \/ focus = "pipeline" /\ Next
          /\ UNCHANGED <<totpVars, channelVars, campaignVars, authVars, guardVars, browserVars, financeVars>>
       \/ focus = "sessions" /\ AuthNext
          /\ UNCHANGED <<totpVars, channelVars, campaignVars, vars, guardVars, browserVars, financeVars>>
       \/ focus = "safeguards" /\ GuardsNext
          /\ UNCHANGED <<totpVars, channelVars, campaignVars, vars, authVars, browserVars, financeVars>>
       \/ focus = "browser" /\ BrowserNext
          /\ UNCHANGED <<totpVars, channelVars, campaignVars, vars, authVars, guardVars, financeVars>>
       \/ focus = "finance" /\ FinanceNext
          /\ UNCHANGED <<totpVars, channelVars, campaignVars, vars, authVars, guardVars, browserVars>>

ServicesSpec == ServicesInit /\ [][ServicesNext]_servicesVars

\* Which of two requests it is makes no difference.
Alike == Permutations(AuthRequests)

\* Small figures in the proportions of the catalogue.
SmallSectors ==
    {[margin |-> 18, check |-> 2, other |-> 3, capacity |-> 90, preferential |-> FALSE],
     [margin |-> 55, check |-> 1, other |-> 3, capacity |-> 32, preferential |-> FALSE],
     [margin |-> 28, check |-> 3, other |-> 4, capacity |-> 30, preferential |-> TRUE]}
SmallCities == <<"toshkent", "navoiy">>
SmallCosts == [c \in {"toshkent", "navoiy"} |->
    IF c = "toshkent" THEN [salary |-> 5, index |-> 115] ELSE [salary |-> 3, index |-> 90]]
=============================================================================
