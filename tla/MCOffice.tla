------------------------------- MODULE MCOffice -------------------------------
(* Billing by ordered webhooks, the desk of the superadmins, the lists of the API,  *)
(* and what an owner sets up - the row of a bot, its widget, the alerts about its   *)
(* leads - share no state: side by side, so that one run checks them all.  A        *)
(* behaviour picks one of them.                                                     *)
EXTENDS StripeBilling, AdminOffice, OfficeCatalog, Listings, OwnerSetup, TLC

VARIABLE focus   \* what this behaviour is about

officeRunVars == <<focus, vars, officeVars, catalogVars, listingVars, ownerVars>>

\* For the others what may begin in many ways begins in one.
Elsewhere ==
    /\ focus # "lists" => DOMAIN table = {}
    /\ focus # "bot" => onTelegram
    /\ focus # "delivery" => target /\ wants = {}

OfficeRunInit ==
    /\ focus \in {"billing", "moderation", "catalogue", "lists", "bot", "widget", "link", "delivery"}
    /\ Init /\ OfficeInit /\ CatalogInit /\ ListingsInit /\ BotInit /\ WidgetInit /\ AlertInit
    /\ Elsewhere

OwnerNext ==
    \/ focus = "bot" /\ BotNext /\ UNCHANGED <<widgetVars, alertVars>>
    \/ focus = "widget" /\ WidgetNext /\ UNCHANGED <<botVars, alertVars>>
    \/ focus = "link" /\ LinkNext /\ UNCHANGED <<botVars, widgetVars>>
    \/ focus = "delivery" /\ DeliveryNext /\ UNCHANGED <<botVars, widgetVars>>

OfficeRunNext ==
    /\ UNCHANGED focus
    /\ \/ focus = "billing" /\ Next /\ UNCHANGED <<officeVars, catalogVars, listingVars, ownerVars>>
       \/ focus = "moderation" /\ OfficeNext /\ UNCHANGED <<vars, catalogVars, listingVars, ownerVars>>
       \/ focus = "catalogue" /\ CatalogNext /\ UNCHANGED <<vars, officeVars, listingVars, ownerVars>>
       \/ focus = "lists" /\ ListingsNext /\ UNCHANGED <<vars, officeVars, catalogVars, ownerVars>>
       \/ OwnerNext /\ UNCHANGED <<vars, officeVars, catalogVars, listingVars>>

OfficeRunSpec == OfficeRunInit /\ [][OfficeRunNext]_officeRunVars

\* Which of two it is makes no difference: the requests of every part are the same
\* pair of values, and so are the officers, the rows of the catalogue, the chats and the leads.
Indifferent == Permutations(Desks) \cup Permutations(Ids)
=============================================================================
