------------------------------ MODULE OwnerSetup ------------------------------
(***************************************************************************)
(* What an owner sets up: the row of a bot (BotLifecycle), its widget      *)
(* (WidgetConfiguration), and the alerts about its leads (LeadAlerts).     *)
(* They share no state in the code, and what the owner may rely on is what *)
(* each of them promises.                                                  *)
(***************************************************************************)
EXTENDS BotLifecycle, WidgetConfiguration, LeadAlerts

ownerVars == <<botVars, widgetVars, alertVars>>

\* What an owner may rely on for the bot, its widget and the alerts about its leads,
\* whichever requests overlap (bot_service.py, widget_config_service.py,
\* telegram_linking.py, lead_owner_delivery_router.py).
OwnersHold == BotsHold /\ WidgetHolds /\ AlertsHold
=============================================================================
