------------------------------- MODULE LeadAlerts -------------------------------
(***************************************************************************)
(* How the owner of a bot learns of a new lead: the link of his account    *)
(* to a Telegram chat (app/api/v1/telegram_linking.py), and what is done   *)
(* for a lead after the commit that made it: the bell of the dashboard,    *)
(* the message to Telegram with its retries, the e-mail, and one commit at *)
(* the end (services/lead_owner_delivery_router.py,                        *)
(* services/telegram_lead_alert_service.py,                                *)
(* integrations/telegram/telegram_send.py).  An alert goes to the chat of  *)
(* the settings, whatever chat the owner has linked: that is the provider  *)
(* which AIService passes on.                                              *)
(***************************************************************************)
EXTENDS Naturals, FiniteSets

CONSTANTS
    LinkWorkers,     \* requests about the link
    Chats,           \* the Telegram chats that may send /start
    MaxCodes,        \* bound: link codes
    MaxLinkCalls,    \* bound: requests about the link
    NewLeads,
    MaxSends         \* _MAX_ATTEMPTS

ASSUME AlertAssumption ==
    /\ MaxCodes \in Nat /\ MaxLinkCalls \in Nat /\ MaxSends \in Nat \ {0}
    /\ "none" \notin Chats

VARIABLES
    chat, code,       \* telegram_chat_id, telegram_link_code of the owner
    codes,            \* the codes made so far
    given,            \* the codes that an answer has shown to the owner
    lateCodes,        \* history: the codes stored when a chat was linked by then
    linkReqs,
    linkCalls,
    target,           \* the settings name a bot and a chat for alerts
    wants,            \* the channels that the owner has on
    leads,            \* the rows of the leads
    bell,             \* the notifications of the dashboard, by their lead
    deliveries,
    arrived           \* how often Telegram has taken the message about a lead

linkVars == <<chat, code, codes, given, lateCodes, linkReqs, linkCalls>>
routeVars == <<target, wants, leads, bell, deliveries, arrived>>
alertVars == <<chat, code, codes, given, lateCodes, linkReqs, linkCalls, target, wants, leads, bell, deliveries, arrived>>

NoChat == "none"
NoCode == 0
Channels == {"telegram", "email"}
TelegramStates == {"none", "delivered", "failed", "skipped_owner_pref", "skipped_no_target"}

LinkIdle == [at |-> "idle", code |-> NoCode, chat |-> NoChat]
NewLead == [there |-> TRUE, routed |-> FALSE, telegram |-> "none", attempts |-> 0, events |-> {}]
NotBegun == [at |-> "idle", attempts |-> 0, telegram |-> "none", events |-> {}]

AlertInit ==
    /\ chat = NoChat /\ code = NoCode /\ codes = 0 /\ given = {} /\ lateCodes = {} /\ linkCalls = 0
    /\ linkReqs = [w \in LinkWorkers |-> LinkIdle]
    /\ target \in BOOLEAN /\ wants \in SUBSET Channels
    /\ leads = [l \in NewLeads |-> NewLead]
    /\ bell = [l \in NewLeads |-> "none"]
    /\ deliveries = [l \in NewLeads |-> NotBegun]
    /\ arrived = [l \in NewLeads |-> 0]

-----------------------------------------------------------------------------
(* The link: every statement writes whole columns by the owner's id, whatever *)
(* they hold by then.                                                         *)

BeginLink(w) == linkReqs[w].at = "idle" /\ linkCalls < MaxLinkCalls /\ linkCalls' = linkCalls + 1

\* GET, of an owner as he was when the request was admitted: without a chat and a code
\* a new code is made, and stored in a statement of its own.
ReadLink(w) ==
    /\ BeginLink(w)
    /\ IF chat # NoChat THEN UNCHANGED <<linkReqs, codes, given>>
       ELSE IF code # NoCode THEN given' = given \cup {code} /\ UNCHANGED <<linkReqs, codes>>
       ELSE /\ codes < MaxCodes /\ codes' = codes + 1
            /\ linkReqs' = [linkReqs EXCEPT ![w] = [at |-> "store", code |-> codes + 1, chat |-> NoChat]]
            /\ UNCHANGED given
    /\ UNCHANGED <<chat, code, lateCodes, routeVars>>

StoreCode(w) ==
    /\ linkReqs[w].at = "store"
    /\ code' = linkReqs[w].code /\ given' = given \cup {linkReqs[w].code}
    /\ lateCodes' = IF chat = NoChat THEN lateCodes ELSE lateCodes \cup {linkReqs[w].code}
    /\ linkReqs' = [linkReqs EXCEPT ![w] = LinkIdle]
    /\ UNCHANGED <<chat, codes, linkCalls, routeVars>>

\* The chat sends /start with a code: 404 unless it is the owner's now.
ReadStart(w, c, k) ==
    /\ BeginLink(w)
    /\ linkReqs' = IF k = code THEN [linkReqs EXCEPT ![w] = [at |-> "start", code |-> k, chat |-> c]] ELSE linkReqs
    /\ UNCHANGED <<chat, code, codes, given, lateCodes, routeVars>>

\* Mutant: a code that has linked a chat stays.
CodeAfterStartKept(k) == k

CodeAfterStart(k) == NoCode   \* one-time use

StoreStart(w) ==
    /\ linkReqs[w].at = "start"
    /\ chat' = linkReqs[w].chat /\ code' = CodeAfterStart(code)
    /\ linkReqs' = [linkReqs EXCEPT ![w] = LinkIdle]
    /\ UNCHANGED <<codes, given, lateCodes, linkCalls, routeVars>>

Unlink_ ==
    /\ linkCalls < MaxLinkCalls /\ linkCalls' = linkCalls + 1
    /\ chat' = NoChat /\ code' = NoCode
    /\ UNCHANGED <<codes, given, lateCodes, linkReqs, routeVars>>

LinkRequestDies(w) ==
    /\ linkReqs[w].at # "idle"
    /\ linkReqs' = [linkReqs EXCEPT ![w] = LinkIdle]
    /\ UNCHANGED <<chat, code, codes, given, lateCodes, linkCalls, routeVars>>

-----------------------------------------------------------------------------
(* The delivery of one lead; its row is locked from the first event to the end. *)

Step(l, at) == deliveries' = [deliveries EXCEPT ![l].at = at]

\* What the row tells of a message that is not tried, and of one that has been.
NotTried ==
    IF "telegram" \notin wants THEN "skipped_owner_pref" ELSE IF ~ target THEN "skipped_no_target" ELSE "none"
Tried(answer) == IF answer = "ok" THEN "delivered" ELSE "failed"

\* An entry of the timeline; the bell, which rings in the same transaction.
WithEvent(events, channel) == events \cup {channel}
Rings(l) == bell' = [bell EXCEPT ![l] = "unread"]

\* The inbox event writes the lead's row, which must still be there.
RouteLead(l) ==
    LET next == NotTried
    IN  /\ deliveries[l].at = "idle" /\ ~ leads[l].routed
        /\ deliveries' = [deliveries EXCEPT ![l] =
              IF ~ leads[l].there THEN [NotBegun EXCEPT !.at = "failed"]
              ELSE [at |-> IF next = "none" THEN "send" ELSE "mail", attempts |-> 0, telegram |-> next,
                    events |-> IF next = "none" THEN {"inbox"} ELSE WithEvent({"inbox"}, "telegram")]]
        /\ UNCHANGED <<linkVars, target, wants, leads, bell, arrived>>

\* 429, 5xx, a timeout and a broken connection are tried again, though an answer may be
\* lost after Telegram has taken the message.  A good answer that cannot be read counts
\* as a failure without an attempt.
TriesAgain(answer) == answer \in {"busy", "lost"}
Arrives(answer) == IF answer = "lost" THEN BOOLEAN ELSE {answer \in {"ok", "unreadable"}}

SendAlert(l, answer, taken) ==
    LET n == deliveries[l].attempts + 1
    IN  /\ deliveries[l].at = "send" /\ taken \in Arrives(answer)
        /\ arrived' = [arrived EXCEPT ![l] = @ + IF taken THEN 1 ELSE 0]
        /\ deliveries' = [deliveries EXCEPT ![l] =
              IF TriesAgain(answer) /\ n < MaxSends THEN [@ EXCEPT !.attempts = n]
              ELSE [at |-> "mail", attempts |-> IF answer = "unreadable" THEN 0 ELSE n, telegram |-> Tried(answer),
                    events |-> WithEvent(@.events, "telegram")]]
        /\ UNCHANGED <<linkVars, target, wants, leads, bell>>

\* Taken or not, sent once.
MailAlert(l) ==
    /\ deliveries[l].at = "mail"
    /\ deliveries' = [deliveries EXCEPT ![l].at = "commit",
                                        ![l].events = IF "email" \in wants THEN WithEvent(@, "email") ELSE @]
    /\ UNCHANGED <<linkVars, target, wants, leads, bell, arrived>>

\* Mutant: what has been done is stored before the e-mail.
StoresAtMail(at) == at \in {"mail", "commit"}

StoresAt(at) == at = "commit"

CommitDelivery(l) ==
    LET d == deliveries[l]
    IN  /\ StoresAt(d.at)
        /\ leads' = [leads EXCEPT ![l] = [there |-> TRUE, routed |-> TRUE, telegram |-> d.telegram,
                                          attempts |-> d.attempts, events |-> d.events]]
        /\ Rings(l)
        /\ Step(l, "done")
        /\ UNCHANGED <<linkVars, target, wants, arrived>>

\* A statement or the commit fails: all is rolled back, nobody tries again, and the
\* copy that the answer to the visitor is made of is spoilt.
DeliveryFails(l) ==
    /\ deliveries[l].at \in {"send", "mail", "commit"}
    /\ Step(l, "failed")
    /\ UNCHANGED <<linkVars, target, wants, leads, bell, arrived>>

Locked(l) == deliveries[l].at \in {"send", "mail", "commit"}

\* The bot is deleted, and its leads with it; a lead that is being delivered is waited for.
LoseLeads ==
    /\ \E l \in NewLeads : leads[l].there
    /\ \A l \in NewLeads : ~ Locked(l)
    /\ leads' = [l \in NewLeads |-> [leads[l] EXCEPT !.there = FALSE]]
    /\ UNCHANGED <<linkVars, target, wants, bell, deliveries, arrived>>

\* The owner has one notification, or all of them, marked as read.
MarkRead(marked) ==
    /\ \E l \in marked : bell[l] = "unread"
    /\ bell' = [l \in NewLeads |-> IF l \in marked /\ bell[l] = "unread" THEN "read" ELSE bell[l]]
    /\ UNCHANGED <<linkVars, target, wants, leads, deliveries, arrived>>

LinkNext ==
    \/ \E w \in LinkWorkers : \/ ReadLink(w) \/ StoreCode(w) \/ StoreStart(w) \/ LinkRequestDies(w)
                              \/ \E c \in Chats, k \in given : ReadStart(w, c, k)
    \/ Unlink_

DeliveryNext ==
    \/ \E l \in NewLeads : \/ RouteLead(l) \/ MailAlert(l) \/ CommitDelivery(l) \/ DeliveryFails(l)
                           \/ MarkRead({l})
                           \/ \E answer \in {"ok", "refused", "busy", "lost", "unreadable"}, taken \in BOOLEAN :
                                 SendAlert(l, answer, taken)
    \/ LoseLeads \/ MarkRead(NewLeads)

AlertNext == LinkNext \/ DeliveryNext

AlertSpec == AlertInit /\ [][AlertNext]_alertVars

-----------------------------------------------------------------------------
LinkRequest == [at : {"idle", "store", "start"}, code : 0 .. MaxCodes, chat : Chats \cup {NoChat}]
LeadRow == [there : BOOLEAN, routed : BOOLEAN, telegram : TelegramStates, attempts : 0 .. MaxSends,
            events : SUBSET ({"inbox"} \cup Channels)]
DeliveryState == [at : {"idle", "send", "mail", "commit", "done", "failed"}, attempts : 0 .. MaxSends,
                  telegram : TelegramStates, events : SUBSET ({"inbox"} \cup Channels)]

LinkTypeOK ==
    /\ chat \in Chats \cup {NoChat} /\ code \in 0 .. MaxCodes /\ codes \in 0 .. MaxCodes
    /\ given \cup lateCodes \subseteq 1 .. MaxCodes
    /\ linkCalls \in 0 .. MaxLinkCalls /\ linkReqs \in [LinkWorkers -> LinkRequest]

RouteTypeOK ==
    /\ target \in BOOLEAN /\ wants \subseteq Channels
    /\ leads \in [NewLeads -> LeadRow] /\ deliveries \in [NewLeads -> DeliveryState]
    /\ bell \in [NewLeads -> {"none", "unread", "read"}] /\ arrived \in [NewLeads -> 0 .. MaxSends]

AlertTypeOK == LinkTypeOK /\ RouteTypeOK

\* One code links one chat: another chat takes its place only by a /start that has read
\* the code before it was used, replaced or withdrawn, or by a code that a GET has
\* stored since, for an owner it had read without a chat (telegram_webhook_start).
OneChatPerCode ==
    [][\A w \in LinkWorkers :
        chat # NoChat /\ chat' \notin {chat, NoChat} /\ linkReqs[w].at = "start" /\ linkReqs'[w].at = "idle"
        => linkReqs[w].code # code \/ linkReqs[w].code \in lateCodes]_alertVars

\* What a delivery has done is stored as a whole or not at all: the bell rings for a lead
\* whose row and timeline tell of every channel that the owner has on, and of each as
\* it was; what is called delivered has arrived, what is called failed may have
\* (route_new_lead_after_commit).
IsWhole(l) ==
    LET row == leads[l]
    IN  /\ row.routed <=> bell[l] # "none"
        /\ row.routed => /\ row.events = {"inbox", "telegram"} \cup (wants \cap {"email"})
                         /\ row.telegram = "delivered" => arrived[l] \in 1 .. row.attempts
                         /\ row.telegram \in {"skipped_owner_pref", "skipped_no_target"}
                                => arrived[l] = 0 /\ row.attempts = 0
                         /\ row.telegram # "none"
        /\ ~ row.routed => row.events = {} /\ row.telegram = "none"

DeliveryIsWhole == \A l \in NewLeads : IsWhole(l)

\* And it is stored once: nothing of it changes, no message is sent and no bell rings
\* after that, but the lead may go with its bot while the bell still tells of it.
DeliveredOnce ==
    [][\A l \in NewLeads : leads[l].routed =>
        /\ leads'[l] \in {leads[l], [leads[l] EXCEPT !.there = FALSE]} /\ arrived'[l] = arrived[l]
        /\ bell[l] = "read" => bell'[l] = "read"]_alertVars

\* What an owner may rely on for the alerts about new leads.
AlertsHold == OneChatPerCode /\ []DeliveryIsWhole /\ DeliveredOnce

-----------------------------------------------------------------------------
\* The strengthening that makes AlertsHold inductive.  A code that is there beside a
\* linked chat was stored late, and a request that stores or starts has a code.
LinkInv ==
    /\ chat # NoChat /\ code # NoCode => code \in lateCodes
    /\ \A w \in LinkWorkers : linkReqs[w].at # "idle" => linkReqs[w].code # NoCode

\* What a delivery has noted is what has arrived, and there is nothing of it in the
\* row before its commit.
NotedAs(d, n) ==
    /\ d.telegram \in TelegramStates \ {"none"}
    /\ d.telegram = "delivered" => n \in 1 .. d.attempts
    /\ d.telegram \in {"skipped_owner_pref", "skipped_no_target"} => n = 0 /\ d.attempts = 0
    /\ d.events = {"inbox", "telegram"} \cup (IF d.at = "mail" THEN {} ELSE wants \cap {"email"})

DeliveryIsNoted(l) ==
    LET d == deliveries[l]
    IN  /\ d.at = "idle" => arrived[l] = 0
        /\ d.at = "send" => arrived[l] <= d.attempts /\ d.attempts < MaxSends /\ d.events = {"inbox"}
        /\ d.at \in {"mail", "commit"} => NotedAs(d, arrived[l])
        /\ d.at = "done" <=> leads[l].routed

AlertInv == LinkInv /\ DeliveryIsWhole /\ \A l \in NewLeads : DeliveryIsNoted(l)
=============================================================================
