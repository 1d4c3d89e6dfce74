------------------------------- MODULE Campaigns -------------------------------
(***************************************************************************)
(* An e-mail campaign of the administrators (app/api/v1/admin_campaigns.py,*)
(* app/repositories/email_campaign_repository.py).  A request reads the    *)
(* campaign, decides by its status and commits; the mails are sent by a    *)
(* background task of the same process, with the text and the recipients   *)
(* of the request, and the outcome is committed at the end.  The client of *)
(* the provider says no for a refusal and for a lost answer alike, so a    *)
(* mail may arrive of which the backend does not know.  A text is named by *)
(* its number.                                                             *)
(***************************************************************************)
EXTENDS Naturals, FiniteSets

CONSTANTS
    Recipients,
    Admins,               \* the requests
    MaxCampaignRequests   \* bound: the requests that are begun

ASSUME CampaignBoundAssumption == MaxCampaignRequests \in Nat

VARIABLES
    campaign,     \* the row
    tasks,        \* the requests and their background tasks
    mailed,       \* history: the texts that each recipient was mailed, and how often
    unheard,      \* history: those of them that a mailing brought which heard no acceptance at all
    raced,        \* history: a request has committed on a campaign that had changed since it was read
    campaignBegun

campaignVars == <<campaign, tasks, mailed, unheard, raced, campaignBegun>>

Texts == 0 .. MaxCampaignRequests
CampaignStatus == {"none", "draft", "sending", "sent", "failed", "deleted"}
CampaignRow == [status : CampaignStatus, text : Texts]
Task == [at : {"idle", "update", "delete", "send", "mailing"}, read : CampaignRow, text : Texts,
         todo : SUBSET Recipients, sent : Nat,
         reached : SUBSET Recipients]   \* history: who got the mail
TaskAt(at, read, text) == [at |-> at, read |-> read, text |-> text, todo |-> {}, sent |-> 0, reached |-> {}]
TaskIdle == TaskAt("idle", [status |-> "none", text |-> 0], 0)

CampaignInit ==
    /\ campaign = [status |-> "none", text |-> 0]
    /\ tasks = [a \in Admins |-> TaskIdle]
    /\ mailed = [r \in Recipients |-> [t \in Texts |-> 0]]
    /\ unheard = mailed
    /\ raced = FALSE
    /\ campaignBegun = 0

CampaignBegin(a, at, text) ==
    /\ tasks[a].at = "idle" /\ campaignBegun < MaxCampaignRequests
    /\ tasks' = [tasks EXCEPT ![a] = TaskAt(at, campaign, text)]
    /\ campaignBegun' = campaignBegun + 1
    /\ UNCHANGED <<campaign, mailed, unheard, raced>>

Exists == campaign.status \notin {"none", "deleted"}
NotesRace(a) == raced' = (raced \/ campaign # tasks[a].read)

TaskDone(a) == tasks' = [tasks EXCEPT ![a] = TaskIdle]

CreateCampaign ==
    /\ campaign.status = "none" /\ campaignBegun < MaxCampaignRequests
    /\ campaign' = [status |-> "draft", text |-> 1]
    /\ campaignBegun' = campaignBegun + 1
    /\ UNCHANGED <<tasks, mailed, unheard, raced>>

\* Only a draft, or a campaign of which no mail was accepted, is changed or sent.
Sendable == campaign.status \in {"draft", "failed"}

ReadCampaign(a) ==
    /\ Sendable
    /\ \/ CampaignBegin(a, "update", campaignBegun + 1)
       \/ CampaignBegin(a, "delete", campaign.text)
       \/ CampaignBegin(a, "send", campaign.text)

\* Only the text is written, by the row's id.
UpdateCampaign(a) ==
    /\ tasks[a].at = "update" /\ Exists
    /\ campaign' = [campaign EXCEPT !.text = tasks[a].text]
    /\ TaskDone(a) /\ NotesRace(a)
    /\ UNCHANGED <<mailed, unheard, campaignBegun>>

DeleteCampaign(a) ==
    /\ tasks[a].at = "delete"
    /\ campaign' = [campaign EXCEPT !.status = "deleted"]
    /\ TaskDone(a) /\ NotesRace(a)
    /\ UNCHANGED <<mailed, unheard, campaignBegun>>

\* The recipients are those of now; the task mails what the request has read.
SendCampaign(a) ==
    /\ tasks[a].at = "send" /\ Exists
    /\ campaign' = [campaign EXCEPT !.status = "sending"]
    /\ tasks' = [tasks EXCEPT ![a].at = "mailing", ![a].todo = Recipients]
    /\ NotesRace(a)
    /\ UNCHANGED <<mailed, unheard, campaignBegun>>

\* ResendEmailClient.send: an acceptance is heard ("accepted"); after a refusal or an
\* answer that was lost it says no, but in the second case the mail arrives ("unheard").
Answers == {"accepted", "unheard", "refused"}

MailRecipient(a, r, answer) ==
    LET q == tasks[a]
    IN  /\ q.at = "mailing" /\ r \in q.todo
        /\ mailed' = IF answer # "refused" THEN [mailed EXCEPT ![r][q.text] = @ + 1] ELSE mailed
        /\ tasks' = [tasks EXCEPT ![a].todo = @ \ {r},
                                  ![a].sent = @ + IF answer = "accepted" THEN 1 ELSE 0,
                                  ![a].reached = IF answer # "refused" THEN @ \cup {r} ELSE @]
        /\ UNCHANGED <<campaign, unheard, raced, campaignBegun>>

\* Mutant: one refused mail makes the campaign fail.
OutcomeAll(q) == IF q.sent = Cardinality(Recipients) THEN "sent" ELSE "failed"

Outcome(q) == IF q.sent > 0 THEN "sent" ELSE "failed"

FinishMailing(a) ==
    LET q == tasks[a]
    IN  /\ q.at = "mailing" /\ q.todo = {}
        /\ campaign' = IF Exists THEN [campaign EXCEPT !.status = Outcome(q)] ELSE campaign
        /\ unheard' = [r \in Recipients |->
                          IF r \in q.reached /\ q.sent = 0 THEN [unheard[r] EXCEPT ![q.text] = @ + 1]
                          ELSE unheard[r]]
        /\ TaskDone(a)
        /\ UNCHANGED <<mailed, raced, campaignBegun>>

\* The row is gone, the database fails, or the process dies: nobody goes on mailing.
TaskDies(a) ==
    /\ tasks[a].at # "idle"
    /\ TaskDone(a)
    /\ UNCHANGED <<campaign, mailed, unheard, raced, campaignBegun>>

CampaignNext ==
    \/ CreateCampaign
    \/ \E a \in Admins :
        \/ ReadCampaign(a) \/ UpdateCampaign(a) \/ DeleteCampaign(a) \/ SendCampaign(a)
        \/ FinishMailing(a) \/ TaskDies(a)
        \/ \E r \in Recipients, answer \in Answers : MailRecipient(a, r, answer)

CampaignSpec == CampaignInit /\ [][CampaignNext]_campaignVars

-----------------------------------------------------------------------------
CampaignTypeOK ==
    /\ campaign \in CampaignRow
    /\ tasks \in [Admins -> Task]
    /\ mailed \in [Recipients -> [Texts -> Nat]]
    /\ unheard \in [Recipients -> [Texts -> Nat]]
    /\ raced \in BOOLEAN
    /\ campaignBegun \in Texts

\* The mailing that is under way, or that closed the campaign, brings the stored text.
Closing(t) == campaign.status \in {"sending", "sent"} /\ t = campaign.text

MailedOnce ==
    \A r \in Recipients, t \in Texts : mailed[r][t] <= unheard[r][t] + IF Closing(t) THEN 1 ELSE 0

\* One acceptance that is heard closes the campaign, whatever dies, is refused or is not
\* heard on the way (send_campaign, update_campaign, _send_campaign_emails).  Beside the
\* mails of mailings that heard no acceptance at all, a recipient gets one mail, with the
\* text that is stored, and he gets it from the mailing that is under way or was the
\* last.  Only two requests that had read the campaign at the same time can break that.
CampaignIsSentOnce == raced \/ MailedOnce

\* The inductive strengthening of CampaignIsSentOnce.  A request decides by a campaign
\* that was not sent yet, and sends the text it has read.
ReadInTime(a) ==
    /\ tasks[a].at \in {"update", "delete", "send"} => tasks[a].read.status \in {"draft", "failed"}
    /\ tasks[a].at = "send" => tasks[a].text = tasks[a].read.text /\ tasks[a].reached = {}

\* The task that mails has the campaign to itself, and what is not of an unheard mailing
\* it has mailed, once to each whom it has reached.
MailsAlone(a) ==
    tasks[a].at = "mailing" =>
        /\ campaign.status = "sending" /\ tasks[a].text = campaign.text
        /\ \A b \in Admins : tasks[b].at = "mailing" => b = a
        /\ tasks[a].todo \cap tasks[a].reached = {}
        /\ \A r \in Recipients, t \in Texts :
               mailed[r][t] <= unheard[r][t] + IF t = tasks[a].text /\ r \in tasks[a].reached THEN 1 ELSE 0

CampaignInv ==
    /\ \A a \in Admins : ReadInTime(a)
    /\ raced \/ ((\A a \in Admins : MailsAlone(a)) /\ MailedOnce)
=============================================================================
