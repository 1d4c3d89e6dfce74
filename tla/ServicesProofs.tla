---------------------------- MODULE ServicesProofs ----------------------------
(***************************************************************************)
(* Theorems of seven services of the backend, for any number of requests:  *)
(* a campaign is mailed once (Campaigns), a second factor is proved and    *)
(* its recovery codes are spent once (TwoFactor), a Telegram channel keeps *)
(* its secret, its updates and its bot (TelegramChannel), a bot has one    *)
(* widget with the key that was shown (WidgetConfiguration), its status    *)
(* and its audit trail tell what was asked of it (BotLifecycle), and an    *)
(* alert that is noted has arrived (LeadAlerts), each but for the overlaps *)
(* that the property names; and the repetitions of a visitor are stopped   *)
(* where they are meant to be (WidgetAbuse).                               *)
(***************************************************************************)
EXTENDS Campaigns, TwoFactor, TelegramChannel, OwnerSetup, WidgetAbuse, SequenceTheorems, FiniteSetTheorems, TLAPS

----------------------------------------
\* Campaigns.

LEMMA TaskAtTyped ==
    ASSUME NEW at \in {"idle", "update", "delete", "send", "mailing"},
           NEW read \in CampaignRow, NEW text \in Texts
    PROVE  /\ TaskAt(at, read, text) \in Task
           /\ TaskAt(at, read, text).at = at /\ TaskAt(at, read, text).read = read
           /\ TaskAt(at, read, text).text = text /\ TaskAt(at, read, text).reached = {}
BY DEF TaskAt, Task

LEMMA TaskIdleTyped == TaskIdle \in Task /\ TaskIdle.at = "idle"
<1>1. 0 \in Texts  BY CampaignBoundAssumption DEF Texts
<1>2. [status |-> "none", text |-> 0] \in CampaignRow  BY <1>1 DEF CampaignRow, CampaignStatus
<1> QED  BY <1>1, <1>2, TaskAtTyped DEF TaskIdle

\* What a request changes of the campaigns' state.
LEMMA CampaignTypedBy ==
    ASSUME CampaignTypeOK, NEW a \in Admins, NEW task \in Task,
           tasks' = [tasks EXCEPT ![a] = task], campaign' \in CampaignRow,
           mailed' \in [Recipients -> [Texts -> Nat]], unheard' \in [Recipients -> [Texts -> Nat]],
           raced' \in BOOLEAN, campaignBegun' \in Texts
    PROVE  CampaignTypeOK'
BY DEF CampaignTypeOK

LEMMA CampaignInitTyped == CampaignInit => CampaignTypeOK
<1> SUFFICES ASSUME CampaignInit PROVE CampaignTypeOK  OBVIOUS
<1>1. 0 \in Texts  BY CampaignBoundAssumption DEF Texts
<1>2. campaign \in CampaignRow  BY <1>1 DEF CampaignInit, CampaignRow, CampaignStatus
<1> QED  BY <1>1, <1>2, TaskIdleTyped DEF CampaignInit, CampaignTypeOK

LEMMA CampaignStepTyped ==
    ASSUME CampaignTypeOK, [CampaignNext]_campaignVars
    PROVE  CampaignTypeOK'
<1>0. /\ campaign \in CampaignRow /\ tasks \in [Admins -> Task]
      /\ mailed \in [Recipients -> [Texts -> Nat]] /\ unheard \in [Recipients -> [Texts -> Nat]]
      /\ raced \in BOOLEAN /\ campaignBegun \in Texts /\ MaxCampaignRequests \in Nat
  BY CampaignBoundAssumption DEF CampaignTypeOK
<1>1. campaign.text \in Texts /\ campaign.status \in CampaignStatus  BY <1>0 DEF CampaignRow
<1>2. campaignBegun < MaxCampaignRequests => campaignBegun + 1 \in Texts /\ 1 \in Texts
  BY <1>0 DEF Texts
<1>3. CASE CreateCampaign
  <2>1. campaign' \in CampaignRow  BY <1>2, <1>3 DEF CreateCampaign, CampaignRow, CampaignStatus
  <2> QED  BY <1>0, <1>2, <1>3, <2>1 DEF CreateCampaign, CampaignTypeOK
<1>4. ASSUME NEW a \in Admins, NEW at \in {"update", "delete", "send"}, NEW text \in Texts,
             CampaignBegin(a, at, text)
      PROVE  CampaignTypeOK'
  <2>1. TaskAt(at, campaign, text) \in Task  BY <1>0, TaskAtTyped
  <2> QED  BY <1>0, <1>2, <1>4, <2>1, CampaignTypedBy DEF CampaignBegin
<1>5. ASSUME NEW a \in Admins, ReadCampaign(a) PROVE CampaignTypeOK'
  <2>1. campaignBegun < MaxCampaignRequests  BY <1>5 DEF ReadCampaign, CampaignBegin
  <2> QED  BY <1>1, <1>2, <1>4, <1>5, <2>1 DEF ReadCampaign
<1>6. ASSUME NEW a \in Admins, UpdateCampaign(a) PROVE CampaignTypeOK'
  <2>1. tasks[a].text \in Texts  BY <1>0 DEF Task
  <2>2. campaign' \in CampaignRow  BY <1>0, <1>6, <2>1 DEF UpdateCampaign, CampaignRow
  <2> QED  BY <1>0, <1>6, <2>2, TaskIdleTyped, CampaignTypedBy DEF UpdateCampaign, TaskDone, NotesRace
<1>7. ASSUME NEW a \in Admins, DeleteCampaign(a) PROVE CampaignTypeOK'
  <2>2. campaign' \in CampaignRow  BY <1>0, <1>7 DEF DeleteCampaign, CampaignRow, CampaignStatus
  <2> QED  BY <1>0, <1>7, <2>2, TaskIdleTyped, CampaignTypedBy DEF DeleteCampaign, TaskDone, NotesRace
<1>8. ASSUME NEW a \in Admins, SendCampaign(a) PROVE CampaignTypeOK'
  <2>1. [tasks[a] EXCEPT !.at = "mailing", !.todo = Recipients] \in Task  BY <1>0 DEF Task
  <2>2. campaign' \in CampaignRow  BY <1>0, <1>8 DEF SendCampaign, CampaignRow, CampaignStatus
  <2>3. tasks' = [tasks EXCEPT ![a] = [tasks[a] EXCEPT !.at = "mailing", !.todo = Recipients]]
    BY <1>0, <1>8 DEF SendCampaign, Task
  <2> QED  BY <1>0, <1>8, <2>1, <2>2, <2>3, CampaignTypedBy, ZenonT(60) DEF SendCampaign, NotesRace
<1>9. ASSUME NEW a \in Admins, NEW r \in Recipients, NEW answer \in Answers,
             MailRecipient(a, r, answer)
      PROVE  CampaignTypeOK'
  <2>1. /\ tasks[a].text \in Texts /\ tasks[a].sent \in Nat
        /\ tasks[a].todo \in SUBSET Recipients /\ tasks[a].reached \in SUBSET Recipients
    BY <1>0 DEF Task
  <2> DEFINE sent == tasks[a].sent + (IF answer = "accepted" THEN 1 ELSE 0)
             todo == tasks[a].todo \ {r}
             reached == IF answer # "refused" THEN tasks[a].reached \cup {r} ELSE tasks[a].reached
             task == [tasks[a] EXCEPT !.todo = todo, !.sent = sent, !.reached = reached]
  <2>2. sent \in Nat /\ todo \in SUBSET Recipients /\ reached \in SUBSET Recipients  BY <2>1
  <2>3. tasks' = [tasks EXCEPT ![a] = task]  BY <1>0, <1>9 DEF MailRecipient, Task
  <2> HIDE DEF sent, todo, reached
  <2>4. task \in Task  BY <1>0, <2>2 DEF Task
  <2>5. mailed' \in [Recipients -> [Texts -> Nat]]  BY <1>0, <1>9, <2>1 DEF MailRecipient
  <2>6. UNCHANGED <<campaign, unheard, raced, campaignBegun>>  BY <1>9 DEF MailRecipient
  <2> HIDE DEF task
  <2> QED  BY <1>0, <2>3, <2>4, <2>5, <2>6, CampaignTypedBy
<1>10. ASSUME NEW a \in Admins, FinishMailing(a) PROVE CampaignTypeOK'
  <2>1. Outcome(tasks[a]) \in CampaignStatus  BY DEF Outcome, CampaignStatus
  <2>2. campaign' \in CampaignRow  BY <1>0, <1>10, <2>1 DEF FinishMailing, CampaignRow
  <2>3. tasks[a].text \in Texts  BY <1>0 DEF Task
  <2>4. \A r \in Recipients : [unheard[r] EXCEPT ![tasks[a].text] = @ + 1] \in [Texts -> Nat]
    BY <1>0, <2>3
  <2>5. unheard' \in [Recipients -> [Texts -> Nat]]  BY <1>0, <1>10, <2>4 DEF FinishMailing
  <2> QED  BY <1>0, <1>10, <2>2, <2>5, TaskIdleTyped, CampaignTypedBy DEF FinishMailing, TaskDone
<1>11. ASSUME NEW a \in Admins, TaskDies(a) PROVE CampaignTypeOK'
  BY <1>0, <1>11, TaskIdleTyped, CampaignTypedBy DEF TaskDies, TaskDone
<1>12. CASE UNCHANGED campaignVars  BY <1>12 DEF campaignVars, CampaignTypeOK
<1> QED  BY <1>3, <1>5, <1>6, <1>7, <1>8, <1>9, <1>10, <1>11, <1>12 DEF CampaignNext

\* Rows, requests and mails of a campaign keep their types.
THEOREM CampaignTypeCorrect == CampaignSpec => []CampaignTypeOK
<1>1. CampaignInit => CampaignTypeOK  BY CampaignInitTyped
<1>2. CampaignTypeOK /\ [CampaignNext]_campaignVars => CampaignTypeOK'  BY CampaignStepTyped
<1> QED  BY <1>1, <1>2, PTL DEF CampaignSpec

\* Unless there is a race, a request that commits on the campaign finds it as it was
\* read, so what is mailed is mailed by one task.
LEMMA CampaignStepInv ==
    ASSUME CampaignTypeOK, CampaignInv, [CampaignNext]_campaignVars
    PROVE  CampaignInv'
<1>0. /\ campaign \in CampaignRow /\ tasks \in [Admins -> Task]
      /\ mailed \in [Recipients -> [Texts -> Nat]] /\ unheard \in [Recipients -> [Texts -> Nat]]
      /\ raced \in BOOLEAN
  BY DEF CampaignTypeOK
<1>1. \A a \in Admins : ReadInTime(a)  BY DEF CampaignInv
<1>2. raced \/ ((\A a \in Admins : MailsAlone(a)) /\ MailedOnce)  BY DEF CampaignInv
<1>3. TaskIdle.at = "idle"  BY TaskIdleTyped
\* While the campaign may still be sent, all that was mailed is of unheard mailings.
<1>unsent. ASSUME ~ raced, campaign.status \in {"none", "draft", "failed"}
       PROVE  /\ \A b \in Admins : tasks[b].at # "mailing"
              /\ \A r \in Recipients, t \in Texts : mailed[r][t] <= unheard[r][t]
  <2>1. \A b \in Admins : tasks[b].at # "mailing"  BY <1>2, <1>unsent DEF MailsAlone
  <2>2. \A t \in Texts : ~ Closing(t)  BY <1>unsent DEF Closing
  <2>3. ASSUME NEW r \in Recipients, NEW t \in Texts PROVE mailed[r][t] <= unheard[r][t]
    <3>1. mailed[r][t] <= unheard[r][t] + 0  BY <1>2, <1>unsent, <2>2 DEF MailedOnce
    <3>2. mailed[r][t] \in Nat /\ unheard[r][t] \in Nat  BY <1>0
    <3> QED  BY <3>1, <3>2
  <2> QED  BY <2>1, <2>3
\* What is not more than the unheard mailings brought is once mailed, whatever closes.
<1>covered. ASSUME \A r \in Recipients, t \in Texts : mailed[r][t] <= unheard[r][t],
              mailed' = mailed, unheard' = unheard
       PROVE  MailedOnce'
  <2>1. ASSUME NEW r \in Recipients, NEW t \in Texts
        PROVE  mailed'[r][t] <= unheard'[r][t] + IF Closing(t)' THEN 1 ELSE 0
    <3>1. mailed[r][t] \in Nat /\ unheard[r][t] \in Nat /\ mailed[r][t] <= unheard[r][t]
      BY <1>0, <1>covered
    <3>2. CASE Closing(t)'  BY <1>covered, <3>1, <3>2
    <3>3. CASE ~ Closing(t)'  BY <1>covered, <3>1, <3>3
    <3> QED  BY <3>2, <3>3
  <2> QED  BY <2>1 DEF MailedOnce
<1>4. CASE CreateCampaign
  <2>1. campaign.status = "none" /\ UNCHANGED <<tasks, mailed, unheard, raced>>
    BY <1>4 DEF CreateCampaign
  <2>2. \A a \in Admins : ReadInTime(a)'  BY <1>1, <2>1 DEF ReadInTime
  <2>3. ASSUME ~ raced PROVE (\A a \in Admins : MailsAlone(a)') /\ MailedOnce'
    <3>1. \A b \in Admins : tasks'[b].at # "mailing"  BY <1>unsent, <2>1, <2>3
    <3>2. MailedOnce'  BY <1>unsent, <1>covered, <2>1, <2>3
    <3> QED  BY <3>1, <3>2 DEF MailsAlone
  <2> QED  BY <1>0, <2>1, <2>2, <2>3 DEF CampaignInv
<1>5. ASSUME NEW a \in Admins, ReadCampaign(a) PROVE CampaignInv'
  <2>1. PICK at \in {"update", "delete", "send"}, text \in {campaignBegun + 1, campaign.text} :
           CampaignBegin(a, at, text) /\ (at = "send" => text = campaign.text)
    BY <1>5 DEF ReadCampaign
  <2>2. /\ tasks'[a].at = at /\ tasks'[a].read = campaign /\ tasks'[a].text = text
        /\ tasks'[a].reached = {} /\ \A b \in Admins : b # a => tasks'[b] = tasks[b]
        /\ UNCHANGED <<campaign, mailed, unheard, raced>>
    BY <1>0, <2>1 DEF CampaignBegin, TaskAt
  <2>3. campaign.status \in {"draft", "failed"}  BY <1>5 DEF ReadCampaign, Sendable
  <2>4. \A b \in Admins : ReadInTime(b)'  BY <1>1, <2>1, <2>2, <2>3 DEF ReadInTime
  <2>5. ASSUME ~ raced PROVE (\A b \in Admins : MailsAlone(b)') /\ MailedOnce'
    <3>1. \A b \in Admins : tasks'[b].at # "mailing"  BY <1>unsent, <2>1, <2>2, <2>3, <2>5
    <3>2. MailedOnce'  BY <1>unsent, <1>covered, <2>2, <2>3, <2>5
    <3> QED  BY <3>1, <3>2 DEF MailsAlone
  <2> QED  BY <1>0, <2>2, <2>4, <2>5 DEF CampaignInv
\* The request leaves; what it commits it has read, unless that is a race.
<1>6. ASSUME NEW a \in Admins, tasks' = [tasks EXCEPT ![a] = TaskIdle],
             raced' \in BOOLEAN,
             ~ raced' => (\A b \in Admins : b # a => MailsAlone(b)') /\ MailedOnce'
      PROVE  CampaignInv'
  <2>1. /\ tasks'[a].at = "idle" /\ \A b \in Admins : b # a => tasks'[b] = tasks[b]
    BY <1>0, <1>3, <1>6
  <2>2. \A b \in Admins : ReadInTime(b)'  BY <1>1, <2>1 DEF ReadInTime
  <2>3. MailsAlone(a)'  BY <2>1 DEF MailsAlone
  <2> QED  BY <1>6, <2>2, <2>3 DEF CampaignInv
<1>8. ASSUME NEW a \in Admins, UpdateCampaign(a) \/ DeleteCampaign(a) PROVE CampaignInv'
  <2>1. /\ tasks[a].at \in {"update", "delete"} /\ mailed' = mailed /\ unheard' = unheard
        /\ tasks' = [tasks EXCEPT ![a] = TaskIdle]
        /\ raced' = (raced \/ campaign # tasks[a].read)
    BY <1>8 DEF UpdateCampaign, DeleteCampaign, TaskDone, NotesRace
  <2>2. ASSUME ~ raced' PROVE (\A b \in Admins : b # a => MailsAlone(b)') /\ MailedOnce'
    <3>1. ~ raced /\ campaign.status \in {"draft", "failed"}  BY <1>1, <2>1, <2>2 DEF ReadInTime
    <3>2. \A b \in Admins : b # a => tasks'[b].at # "mailing"  BY <1>0, <1>unsent, <2>1, <3>1
    <3>3. MailedOnce'  BY <1>unsent, <1>covered, <2>1, <3>1
    <3> QED  BY <3>2, <3>3 DEF MailsAlone
  <2> QED  BY <1>0, <1>6, <2>1, <2>2
<1>9. ASSUME NEW a \in Admins, SendCampaign(a) PROVE CampaignInv'
  <2>1. /\ tasks[a].at = "send" /\ mailed' = mailed /\ unheard' = unheard
        /\ raced' = (raced \/ campaign # tasks[a].read)
        /\ campaign' = [campaign EXCEPT !.status = "sending"]
    BY <1>9 DEF SendCampaign, NotesRace
  <2>2. /\ tasks'[a].at = "mailing" /\ tasks'[a].text = tasks[a].text
        /\ tasks'[a].reached = {} /\ \A b \in Admins : b # a => tasks'[b] = tasks[b]
    BY <1>0, <1>1, <1>9, <2>1 DEF SendCampaign, Task, ReadInTime
  <2>3. campaign'.status = "sending" /\ campaign'.text = campaign.text  BY <1>0, <2>1 DEF CampaignRow
  <2>4. \A b \in Admins : ReadInTime(b)'  BY <1>1, <2>2 DEF ReadInTime
  <2>5. ASSUME ~ raced' PROVE (\A b \in Admins : MailsAlone(b)') /\ MailedOnce'
    <3>1. ~ raced /\ campaign.status \in {"draft", "failed"} /\ tasks[a].text = campaign.text
      BY <1>1, <2>1, <2>5 DEF ReadInTime
    <3>2. \A r \in Recipients, t \in Texts : mailed[r][t] <= unheard[r][t]  BY <1>unsent, <3>1
    <3>3. MailedOnce'  BY <1>covered, <2>1, <3>2
    <3>4. \A b \in Admins : tasks'[b].at = "mailing" => b = a  BY <1>unsent, <2>2, <3>1
    <3>5. \A r \in Recipients, t \in Texts : mailed'[r][t] <= unheard'[r][t] + 0  BY <1>0, <2>1, <3>2
    <3>6. \A r \in Recipients, t \in Texts : ~ (t = tasks'[a].text /\ r \in tasks'[a].reached)
      BY <2>2
    <3>7. MailsAlone(a)'  BY <2>2, <2>3, <3>1, <3>4, <3>5, <3>6 DEF MailsAlone
    <3> QED  BY <3>3, <3>4, <3>7 DEF MailsAlone
  <2> QED  BY <2>4, <2>5 DEF CampaignInv
<1>10. ASSUME NEW a \in Admins, NEW r \in Recipients, NEW answer \in Answers,
              MailRecipient(a, r, answer)
       PROVE  CampaignInv'
  <2>1. /\ tasks[a].at = "mailing" /\ r \in tasks[a].todo /\ UNCHANGED <<campaign, unheard, raced>>
        /\ mailed' = IF answer # "refused" THEN [mailed EXCEPT ![r][tasks[a].text] = @ + 1] ELSE mailed
    BY <1>10 DEF MailRecipient
  <2>2. /\ tasks'[a].at = "mailing" /\ tasks'[a].text = tasks[a].text
        /\ tasks'[a].todo = tasks[a].todo \ {r}
        /\ tasks'[a].reached = IF answer # "refused" THEN tasks[a].reached \cup {r} ELSE tasks[a].reached
        /\ \A b \in Admins : b # a => tasks'[b] = tasks[b]
    BY <1>0, <1>10 DEF MailRecipient, Task
  <2>3. \A b \in Admins : ReadInTime(b)'  BY <1>1, <2>1, <2>2 DEF ReadInTime
  <2>4. ASSUME ~ raced PROVE (\A b \in Admins : MailsAlone(b)') /\ MailedOnce'
    <3>1. /\ campaign.status = "sending" /\ tasks[a].text = campaign.text
          /\ \A b \in Admins : tasks[b].at = "mailing" => b = a
          /\ tasks[a].todo \cap tasks[a].reached = {}
      BY <1>2, <2>1, <2>4 DEF MailsAlone
    <3>2. tasks'[a].todo \cap tasks'[a].reached = {}  BY <2>2, <3>1
    <3>3. tasks[a].text \in Texts  BY <1>0 DEF Task
    <3>4. ASSUME NEW s \in Recipients, NEW t \in Texts
          PROVE  mailed'[s][t] <= unheard'[s][t] + IF t = tasks'[a].text /\ s \in tasks'[a].reached
                                                      THEN 1 ELSE 0
      <4>1. mailed[s][t] \in Nat /\ unheard[s][t] \in Nat /\ unheard'[s][t] = unheard[s][t]
        BY <1>0, <2>1
      <4>2. mailed[s][t] <= unheard[s][t] + IF t = tasks[a].text /\ s \in tasks[a].reached THEN 1 ELSE 0
        BY <1>2, <2>1, <2>4 DEF MailsAlone
      <4>3. CASE answer # "refused" /\ s = r /\ t = tasks[a].text
        <5>1. s \notin tasks[a].reached /\ s \in tasks'[a].reached  BY <2>1, <2>2, <3>1, <4>3
        <5>2. mailed'[s][t] = mailed[s][t] + 1  BY <1>0, <2>1, <4>3
        <5> QED  BY <2>2, <4>1, <4>2, <4>3, <5>1, <5>2
      <4>4. CASE ~ (answer # "refused" /\ s = r /\ t = tasks[a].text)
        <5>1. mailed'[s][t] = mailed[s][t]  BY <1>0, <2>1, <3>3, <4>4
        <5>2. t = tasks[a].text /\ s \in tasks[a].reached => t = tasks'[a].text /\ s \in tasks'[a].reached
          BY <2>2
        <5> QED  BY <4>1, <4>2, <5>1, <5>2
      <4> QED  BY <4>3, <4>4
    <3>5. MailsAlone(a)'  BY <2>1, <2>2, <3>1, <3>2, <3>4 DEF MailsAlone
    <3>6. ASSUME NEW s \in Recipients, NEW t \in Texts
          PROVE  mailed'[s][t] <= unheard'[s][t] + IF Closing(t)' THEN 1 ELSE 0
      <4>1. mailed'[s][t] \in Nat /\ unheard'[s][t] \in Nat  BY <1>0, <2>1, <3>3
      <4>2. t = tasks'[a].text => Closing(t)'  BY <2>1, <2>2, <3>1 DEF Closing
      <4> QED  BY <3>4, <4>1, <4>2
    <3>7. MailedOnce'  BY <3>6 DEF MailedOnce
    <3>8. \A b \in Admins : b # a => MailsAlone(b)'  BY <2>2, <3>1 DEF MailsAlone
    <3> QED  BY <3>5, <3>7, <3>8
  <2> QED  BY <1>0, <2>1, <2>3, <2>4 DEF CampaignInv
<1>11. ASSUME NEW a \in Admins, FinishMailing(a) PROVE CampaignInv'
  <2>1. /\ tasks[a].at = "mailing" /\ mailed' = mailed /\ raced' = raced
        /\ tasks' = [tasks EXCEPT ![a] = TaskIdle]
        /\ campaign' = IF Exists THEN [campaign EXCEPT !.status = Outcome(tasks[a])] ELSE campaign
    BY <1>11 DEF FinishMailing, TaskDone
  <2>2. ASSUME ~ raced PROVE (\A b \in Admins : b # a => MailsAlone(b)') /\ MailedOnce'
    <3>1. /\ campaign.status = "sending" /\ tasks[a].text = campaign.text
          /\ \A b \in Admins : tasks[b].at = "mailing" => b = a
      BY <1>2, <2>1, <2>2 DEF MailsAlone
    <3>2. campaign'.text = campaign.text /\ campaign'.status = Outcome(tasks[a])
      BY <1>0, <2>1, <3>1 DEF Exists, CampaignRow
    <3>3. tasks[a].sent \in Nat /\ tasks[a].text \in Texts  BY <1>0 DEF Task
    <3>4. ASSUME NEW s \in Recipients, NEW t \in Texts
          PROVE  mailed'[s][t] <= unheard'[s][t] + IF Closing(t)' THEN 1 ELSE 0
      <4>1. mailed[s][t] \in Nat /\ unheard[s][t] \in Nat  BY <1>0
      <4>2. mailed[s][t] <= unheard[s][t] + IF t = tasks[a].text /\ s \in tasks[a].reached THEN 1 ELSE 0
        BY <1>2, <2>1, <2>2 DEF MailsAlone
      <4>3. CASE tasks[a].sent = 0
        <5>1. unheard'[s] = IF s \in tasks[a].reached
                               THEN [unheard[s] EXCEPT ![tasks[a].text] = @ + 1] ELSE unheard[s]
          BY <1>11, <4>3 DEF FinishMailing
        <5>2. unheard'[s][t] = unheard[s][t] + IF t = tasks[a].text /\ s \in tasks[a].reached THEN 1 ELSE 0
          BY <1>0, <3>3, <4>1, <5>1
        <5>3. mailed'[s][t] <= unheard'[s][t] /\ unheard'[s][t] \in Nat  BY <2>1, <4>1, <4>2, <5>2
        <5> QED  BY <2>1, <4>1, <5>3
      <4>4. CASE tasks[a].sent # 0
        <5>1. unheard'[s] = unheard[s]  BY <1>11, <4>4 DEF FinishMailing
        <5>2. t = tasks[a].text => Closing(t)'  BY <3>1, <3>2, <3>3, <4>4 DEF Closing, Outcome
        <5> QED  BY <2>1, <4>1, <4>2, <5>1, <5>2
      <4> QED  BY <4>3, <4>4
    <3>5. MailedOnce'  BY <3>4 DEF MailedOnce
    <3>6. \A b \in Admins : b # a => tasks'[b].at # "mailing"  BY <1>0, <2>1, <3>1
    <3> QED  BY <3>5, <3>6 DEF MailsAlone
  <2> QED  BY <1>0, <1>6, <2>1, <2>2
<1>12. ASSUME NEW a \in Admins, TaskDies(a) PROVE CampaignInv'
  <2>1. UNCHANGED <<campaign, mailed, unheard, raced>> /\ tasks' = [tasks EXCEPT ![a] = TaskIdle]
    BY <1>12 DEF TaskDies, TaskDone
  <2>2. ASSUME ~ raced PROVE (\A b \in Admins : b # a => MailsAlone(b)') /\ MailedOnce'
    <3>1. \A b \in Admins : MailsAlone(b)  BY <1>2, <2>2
    <3>2. tasks'[a].at = "idle" /\ \A b \in Admins : b # a => tasks'[b] = tasks[b]  BY <1>0, <1>3, <2>1
    <3>3. \A b \in Admins : b # a => MailsAlone(b)'  BY <2>1, <3>1, <3>2 DEF MailsAlone
    <3> QED  BY <1>2, <2>1, <2>2, <3>3 DEF MailedOnce, Closing
  <2> QED  BY <1>0, <1>6, <2>1, <2>2
<1>13. CASE UNCHANGED campaignVars
  BY <1>13 DEF campaignVars, CampaignInv, ReadInTime, MailsAlone, MailedOnce, Closing
<1> QED  BY <1>4, <1>5, <1>8, <1>9, <1>10, <1>11, <1>12, <1>13 DEF CampaignNext

\* However many administrators change, delete and send a campaign, and whatever dies, is
\* refused or is not heard: unless a request has committed on a campaign that had changed
\* since it was read, a recipient gets one mail beside those of the mailings that heard no
\* acceptance at all, and this one brings the text that is stored (send_campaign,
\* update_campaign, _send_campaign_emails).
THEOREM CampaignIsAlwaysSentOnce == CampaignSpec => []CampaignIsSentOnce
<1>1. CampaignInit => CampaignInv
  <2> SUFFICES ASSUME CampaignInit PROVE CampaignInv  OBVIOUS
  <2>1. \A a \in Admins : tasks[a].at = "idle"  BY TaskIdleTyped DEF CampaignInit
  <2>2. \A r \in Recipients, t \in Texts : mailed[r][t] = 0 /\ unheard[r][t] = 0  BY DEF CampaignInit
  <2>3. MailedOnce  BY <2>2 DEF MailedOnce, Closing
  <2> QED  BY <2>1, <2>3 DEF CampaignInv, ReadInTime, MailsAlone
<1>2. CampaignTypeOK /\ CampaignInv /\ [CampaignNext]_campaignVars => CampaignInv'  BY CampaignStepInv
<1>3. CampaignInv => CampaignIsSentOnce  BY DEF CampaignInv, CampaignIsSentOnce
<1> QED  BY <1>1, <1>2, <1>3, CampaignTypeCorrect, PTL DEF CampaignSpec

----------------------------------------
\* The second factor.

LEMMA TotpIdleTyped == NoRow \in TotpRow /\ TotpIdle \in TotpRequest /\ TotpIdle.op = "idle"
<1>1. NoRow \in TotpRow  BY DEF NoRow, TotpRow
<1> QED  BY <1>1 DEF TotpIdle, TotpRequest

\* A request of a typed row is typed; what the account's row becomes is the caller's duty.
LEMMA TotpTypedBy ==
    ASSUME TotpTypeOK, NEW r \in TotpRequests, NEW q \in TotpRequest,
           totpReqs' = [totpReqs EXCEPT ![r] = q], totp' \in TotpRow,
           setups' \in 0 .. MaxSetups, proved' \subseteq 1 .. MaxSetups,
           spent' \in [1 .. MaxSetups -> [Codes -> Nat]], totpBegun' \in 0 .. MaxTotpRequests
    PROVE  TotpTypeOK'
BY DEF TotpTypeOK

LEMMA TotpStepTyped ==
    ASSUME TotpTypeOK, [TotpNext]_totpVars
    PROVE  TotpTypeOK'
<1>0. /\ totp \in TotpRow /\ totpReqs \in [TotpRequests -> TotpRequest]
      /\ setups \in 0 .. MaxSetups /\ proved \subseteq 1 .. MaxSetups
      /\ spent \in [1 .. MaxSetups -> [Codes -> Nat]] /\ totpBegun \in 0 .. MaxTotpRequests
      /\ MaxSetups \in Nat /\ MaxTotpRequests \in Nat
  BY TotpBoundAssumption DEF TotpTypeOK
<1>1. NoRow \in TotpRow /\ TotpIdle \in TotpRequest  BY TotpIdleTyped
<1>2. ASSUME NEW r \in TotpRequests, NEW op \in {"setup", "activate", "recover", "disable"},
             NEW c \in SUBSET Codes, TotpBegin(r, op, c),
             totp' = totp, setups' = setups, spent' = spent, proved' \subseteq 1 .. MaxSetups
      PROVE  TotpTypeOK'
  <2>1. [op |-> op, read |-> totp, code |-> c] \in TotpRequest  BY <1>0 DEF TotpRequest
  <2>2. totpBegun' \in 0 .. MaxTotpRequests  BY <1>0, <1>2 DEF TotpBegin
  <2> QED  BY <1>0, <1>2, <2>1, <2>2, TotpTypedBy DEF TotpBegin
<1>3. ASSUME NEW r \in TotpRequests, SetupRead(r) \/ DisableRead(r) PROVE TotpTypeOK'
  <2>1. /\ UNCHANGED <<totp, setups, proved, spent>> /\ {} \in SUBSET Codes
        /\ TotpBegin(r, "setup", {}) \/ TotpBegin(r, "disable", {})
    BY <1>3 DEF SetupRead, DisableRead
  <2>2. proved' \subseteq 1 .. MaxSetups  BY <1>0, <2>1
  <2> QED  BY <1>2, <2>1, <2>2
<1>4. ASSUME NEW r \in TotpRequests, NEW secret \in 1 .. MaxSetups, ActivateRead(r, secret)
      PROVE  TotpTypeOK'
  <2>1. /\ UNCHANGED <<totp, setups, spent>> /\ {} \in SUBSET Codes
        /\ TotpBegin(r, "activate", {}) /\ proved' = proved \cup {secret}
    BY <1>4 DEF ActivateRead
  <2>2. proved' \subseteq 1 .. MaxSetups  BY <1>0, <2>1
  <2> QED  BY <1>2, <2>1, <2>2
<1>5. ASSUME NEW r \in TotpRequests, NEW c \in Codes, RecoverRead(r, c) PROVE TotpTypeOK'
  <2>1. {c} \in SUBSET Codes  OBVIOUS
  <2> QED  BY <1>0, <1>2, <1>5, <2>1 DEF RecoverRead
<1>6. ASSUME NEW r \in TotpRequests, SetupCommit(r) PROVE TotpTypeOK'
  <2>1. setups' \in 0 .. MaxSetups /\ setups + 1 \in Nat  BY <1>0, <1>6 DEF SetupCommit
  <2>3. [id |-> setups + 1, secret |-> setups + 1, active |-> FALSE,
         codesOf |-> setups + 1, unused |-> Codes] \in TotpRow
    BY <2>1 DEF TotpRow
  <2>4. [totp EXCEPT !.secret = setups + 1, !.codesOf = setups + 1, !.unused = Codes] \in TotpRow
    BY <1>0, <2>1 DEF TotpRow
  <2>2. totp' \in TotpRow  BY <1>6, <2>3, <2>4 DEF SetupCommit
  <2> QED  BY <1>0, <1>1, <1>6, <2>1, <2>2, TotpTypedBy DEF SetupCommit, TotpDone
<1>7. ASSUME NEW r \in TotpRequests, ActivateCommit(r) PROVE TotpTypeOK'
  <2>1. totp' \in TotpRow  BY <1>0, <1>7 DEF ActivateCommit, TotpRow
  <2> QED  BY <1>0, <1>1, <1>7, <2>1, TotpTypedBy DEF ActivateCommit, TotpDone
<1>8. ASSUME NEW r \in TotpRequests, RecoverCommit(r) PROVE TotpTypeOK'
  <2>1. totpReqs[r].read \in TotpRow /\ totpReqs[r].code \in SUBSET Codes  BY <1>0 DEF TotpRequest
  <2>2. totp' \in TotpRow  BY <1>0, <1>8, <2>1 DEF RecoverCommit, TotpRow, Marked
  <2>3. spent' \in [1 .. MaxSetups -> [Codes -> Nat]]
    <3> DEFINE g == totpReqs[r].read.codesOf
               after == [c \in Codes |-> spent[g][c] + IF c \in totpReqs[r].code THEN 1 ELSE 0]
    <3>1. spent' = [spent EXCEPT ![g] = after]  BY <1>8 DEF RecoverCommit
    <3>2. g \in 1 .. MaxSetups => after \in [Codes -> Nat]
      <4> SUFFICES ASSUME g \in 1 .. MaxSetups, NEW c \in Codes
                   PROVE  spent[g][c] + (IF c \in totpReqs[r].code THEN 1 ELSE 0) \in Nat
        OBVIOUS
      <4>1. spent[g][c] \in Nat  BY <1>0
      <4> QED  BY <4>1
    <3> HIDE DEF g, after
    <3> QED  BY <1>0, <3>1, <3>2
  <2> QED  BY <1>0, <1>1, <1>8, <2>2, <2>3, TotpTypedBy DEF RecoverCommit, TotpDone
<1>9. ASSUME NEW r \in TotpRequests, DisableCommit(r) PROVE TotpTypeOK'
  BY <1>0, <1>1, <1>9, TotpTypedBy DEF DisableCommit, TotpDone
<1>10. ASSUME NEW r \in TotpRequests, TotpFail(r) PROVE TotpTypeOK'
  BY <1>0, <1>1, <1>10, TotpTypedBy DEF TotpFail, TotpDone
<1>11. CASE UNCHANGED totpVars  BY <1>11 DEF totpVars, TotpTypeOK
<1> QED  BY <1>3, <1>4, <1>5, <1>6, <1>7, <1>8, <1>9, <1>10, <1>11 DEF TotpNext

\* The row, the requests and the recovery codes keep their types.
THEOREM TotpTypeCorrect == TotpSpec => []TotpTypeOK
<1>1. TotpInit => TotpTypeOK  BY TotpIdleTyped, TotpBoundAssumption DEF TotpInit, TotpTypeOK
<1>2. TotpTypeOK /\ [TotpNext]_totpVars => TotpTypeOK'  BY TotpStepTyped
<1> QED  BY <1>1, <1>2, PTL DEF TotpSpec

\* The steps of a request, in terms of the columns they write: begun, with the row as
\* it is, or over.
TotpBegins(r) ==
    /\ totpReqs'[r].op \in {"setup", "activate", "recover", "disable"}
    /\ totpReqs'[r].read = totp
    /\ totpReqs'[r].op = "setup" => ~ totp.active
    /\ totpReqs'[r].op = "activate" => totp.secret \in proved'
    /\ totpReqs'[r].op = "recover" => totpReqs'[r].code \subseteq totp.unused
    /\ proved \subseteq proved' /\ UNCHANGED <<totp, setups, spent>>

LEMMA TotpBeginning ==
    ASSUME TotpTypeOK, NEW r \in TotpRequests,
           \/ SetupRead(r) \/ DisableRead(r)
           \/ \E secret \in 1 .. MaxSetups : ActivateRead(r, secret)
           \/ \E c \in Codes : RecoverRead(r, c)
    PROVE  TotpBegins(r) /\ \A s \in TotpRequests : s # r => totpReqs'[s] = totpReqs[s]
<1>0. totpReqs \in [TotpRequests -> TotpRequest]  BY DEF TotpTypeOK
<1>1. ASSUME NEW op, NEW c, TotpBegin(r, op, c)
      PROVE  /\ totpReqs'[r].op = op /\ totpReqs'[r].read = totp /\ totpReqs'[r].code = c
             /\ \A s \in TotpRequests : s # r => totpReqs'[s] = totpReqs[s]
  BY <1>0, <1>1 DEF TotpBegin
<1>2. CASE SetupRead(r)  BY <1>1, <1>2 DEF SetupRead, TotpBegins, MaySetUp
<1>3. CASE DisableRead(r)  BY <1>1, <1>3 DEF DisableRead, TotpBegins
<1>4. ASSUME NEW secret \in 1 .. MaxSetups, ActivateRead(r, secret)
      PROVE  TotpBegins(r) /\ \A s \in TotpRequests : s # r => totpReqs'[s] = totpReqs[s]
  BY <1>1, <1>4 DEF ActivateRead, TotpBegins, CodeFits
<1>5. ASSUME NEW c \in Codes, RecoverRead(r, c)
      PROVE  TotpBegins(r) /\ \A s \in TotpRequests : s # r => totpReqs'[s] = totpReqs[s]
  BY <1>1, <1>5 DEF RecoverRead, TotpBegins, Offered
<1> QED  BY <1>2, <1>3, <1>4, <1>5

\* What a committed set-up leaves: new codes, none of which was spent, in a row that is
\* active only if it was.
TotpSetUp(r) ==
    /\ totpReqs[r].op = "setup"
    /\ setups' = setups + 1 /\ UNCHANGED <<proved, spent>>
    /\ totp'.codesOf = setups + 1
    /\ totp'.active => totp.active

\* What a spent recovery code leaves.
TotpRecovered(r) ==
    /\ totpReqs[r].op = "recover" /\ UNCHANGED <<setups, proved>>
    /\ totp'.codesOf = totpReqs[r].read.codesOf
    /\ totp'.unused = totpReqs[r].read.unused \ totpReqs[r].code
    /\ totp'.active = totp.active /\ totp'.secret = totp.secret
    /\ \A g \in 1 .. MaxSetups, c \in Codes :
          spent'[g][c] = IF g = totpReqs[r].read.codesOf /\ c \in totpReqs[r].code
                            THEN spent[g][c] + 1 ELSE spent[g][c]

\* The other ends of a request.
TotpEnds(r) ==
    /\ UNCHANGED <<setups, proved, spent>>
    /\ \/ totp' = totp \/ totp' = NoRow
       \/ /\ totpReqs[r].op = "activate"
          /\ totp'.codesOf = totp.codesOf /\ totp'.unused = totp.unused /\ totp'.secret = totp.secret

LEMMA TotpEnding ==
    ASSUME TotpTypeOK, NEW r \in TotpRequests,
           \/ SetupCommit(r) \/ ActivateCommit(r) \/ RecoverCommit(r) \/ DisableCommit(r) \/ TotpFail(r)
    PROVE  /\ totpReqs'[r].op = "idle" /\ totpReqs'[r].read = NoRow
           /\ \A s \in TotpRequests : s # r => totpReqs'[s] = totpReqs[s]
           /\ TotpSetUp(r) \/ TotpRecovered(r) \/ TotpEnds(r)
<1>0. /\ totpReqs \in [TotpRequests -> TotpRequest] /\ totp \in TotpRow /\ setups \in Nat
      /\ spent \in [1 .. MaxSetups -> [Codes -> Nat]]
  BY TotpBoundAssumption DEF TotpTypeOK
<1>1. totpReqs' = TotpDone(r)
  BY DEF SetupCommit, ActivateCommit, RecoverCommit, DisableCommit, TotpFail
<1>2. /\ totpReqs'[r].op = "idle" /\ totpReqs'[r].read = NoRow
      /\ \A s \in TotpRequests : s # r => totpReqs'[s] = totpReqs[s]
  BY <1>0, <1>1 DEF TotpDone, TotpIdle
<1>3. CASE SetupCommit(r)
  <2>0. totpReqs[r].op = "setup" /\ setups' = setups + 1 /\ UNCHANGED <<proved, spent>>
    BY <1>3 DEF SetupCommit
  <2>1. CASE totpReqs[r].read = NoRow
    <3>1. totp' = [id |-> setups + 1, secret |-> setups + 1, active |-> FALSE,
                   codesOf |-> setups + 1, unused |-> Codes]
      BY <1>3, <2>1 DEF SetupCommit
    <3>2. totp'.codesOf = setups + 1 /\ totp'.active = FALSE  BY <3>1
    <3>3. TotpSetUp(r)  BY <2>0, <3>2 DEF TotpSetUp
    <3> QED  BY <1>2, <3>3
  <2>2. CASE totpReqs[r].read # NoRow
    <3>1. totp' = [totp EXCEPT !.secret = setups + 1, !.codesOf = setups + 1, !.unused = Codes]
      BY <1>3, <2>2 DEF SetupCommit
    <3>2. totp'.codesOf = setups + 1 /\ totp'.active = totp.active  BY <1>0, <3>1 DEF TotpRow
    <3>3. TotpSetUp(r)  BY <2>0, <3>2 DEF TotpSetUp
    <3> QED  BY <1>2, <3>3
  <2> QED  BY <1>2, <2>1, <2>2
<1>4. CASE ActivateCommit(r)
  <2>1. totp' = [totp EXCEPT !.active = TRUE]  BY <1>4 DEF ActivateCommit
  <2>2. totp'.codesOf = totp.codesOf /\ totp'.unused = totp.unused /\ totp'.secret = totp.secret
    BY <1>0, <2>1 DEF TotpRow
  <2> QED  BY <1>2, <1>4, <2>2 DEF ActivateCommit, TotpEnds
<1>5. CASE RecoverCommit(r)
  <2>1. /\ totp' = [totp EXCEPT !.codesOf = totpReqs[r].read.codesOf,
                                !.unused = totpReqs[r].read.unused \ totpReqs[r].code]
        /\ spent' = [spent EXCEPT ![totpReqs[r].read.codesOf] =
                        [c \in Codes |-> @[c] + IF c \in totpReqs[r].code THEN 1 ELSE 0]]
    BY <1>5 DEF RecoverCommit, Marked
  <2>2. /\ totp'.codesOf = totpReqs[r].read.codesOf
        /\ totp'.unused = totpReqs[r].read.unused \ totpReqs[r].code
        /\ totp'.active = totp.active /\ totp'.secret = totp.secret
    BY <1>0, <2>1 DEF TotpRow
  <2>3. ASSUME NEW g \in 1 .. MaxSetups, NEW c \in Codes
        PROVE  spent'[g][c] = IF g = totpReqs[r].read.codesOf /\ c \in totpReqs[r].code
                                 THEN spent[g][c] + 1 ELSE spent[g][c]
    <3>1. spent[g] \in [Codes -> Nat] /\ spent[g][c] \in Nat  BY <1>0
    <3>2. spent'[g] = IF g = totpReqs[r].read.codesOf
                         THEN [d \in Codes |-> spent[g][d] + IF d \in totpReqs[r].code THEN 1 ELSE 0]
                         ELSE spent[g]
      BY <1>0, <2>1
    <3> QED  BY <3>1, <3>2
  <2> QED  BY <1>2, <1>5, <2>2, <2>3 DEF RecoverCommit, TotpRecovered
<1>6. CASE DisableCommit(r) \/ TotpFail(r)  BY <1>2, <1>6 DEF DisableCommit, TotpFail, TotpEnds
<1> QED  BY <1>2, <1>3, <1>4, <1>5, <1>6

LEMMA TotpStepInv ==
    ASSUME TotpTypeOK, TotpInv, [TotpNext]_totpVars
    PROVE  TotpInv'
<1>0. /\ setups \in Nat /\ \A r \in TotpRequests : totpReqs[r].read.codesOf \in Nat
      /\ totp.codesOf \in Nat
  BY TotpBoundAssumption DEF TotpTypeOK, TotpRequest, TotpRow
<1>1. /\ \A r \in TotpRequests : ReadRight(r)
      /\ totp.codesOf <= setups
      /\ \A g \in 1 .. MaxSetups, c \in Codes : g > setups => spent[g][c] = 0
  BY DEF TotpInv
<1>2. NoRow.codesOf = 0 /\ ~ NoRow.active  BY DEF NoRow
<1>3. ASSUME NEW r \in TotpRequests, TotpBegins(r),
             \A s \in TotpRequests : s # r => totpReqs'[s] = totpReqs[s]
      PROVE  TotpInv'
  <2>1. ReadRight(r)'  BY <1>1, <1>3 DEF TotpBegins, ReadRight
  <2>2. \A s \in TotpRequests : s # r => ReadRight(s)'  BY <1>1, <1>3 DEF TotpBegins, ReadRight
  <2>3. UNCHANGED <<totp, setups, spent>>  BY <1>3 DEF TotpBegins
  <2> QED  BY <1>1, <2>1, <2>2, <2>3 DEF TotpInv
<1>4. ASSUME NEW r \in TotpRequests,
             totpReqs'[r].op = "idle", totpReqs'[r].read = NoRow,
             \A s \in TotpRequests : s # r => totpReqs'[s] = totpReqs[s],
             TotpSetUp(r) \/ TotpRecovered(r) \/ TotpEnds(r)
      PROVE  TotpInv'
  <2>1. setups' \in {setups, setups + 1} /\ proved' = proved
    BY <1>4 DEF TotpSetUp, TotpRecovered, TotpEnds
  <2>2. ReadRight(r)'  BY <1>0, <1>2, <1>4, <2>1 DEF ReadRight
  <2>3. \A s \in TotpRequests : s # r => ReadRight(s)'  BY <1>0, <1>1, <1>4, <2>1 DEF ReadRight
  <2>4. totp'.codesOf <= setups'
    <3>1. totpReqs[r].read.codesOf <= setups  BY <1>1 DEF ReadRight
    <3> QED  BY <1>0, <1>1, <1>2, <1>4, <3>1 DEF TotpSetUp, TotpRecovered, TotpEnds
  <2>5. ASSUME NEW g \in 1 .. MaxSetups, NEW c \in Codes, g > setups' PROVE spent'[g][c] = 0
    <3>1. totpReqs[r].read.codesOf <= setups /\ g > setups  BY <1>0, <1>1, <2>1, <2>5 DEF ReadRight
    <3>2. g # totpReqs[r].read.codesOf  BY <1>0, <3>1
    <3>3. spent'[g][c] = spent[g][c]  BY <1>4, <3>2 DEF TotpSetUp, TotpRecovered, TotpEnds
    <3> QED  BY <1>1, <3>1, <3>3
  <2> QED  BY <2>2, <2>3, <2>4, <2>5 DEF TotpInv
<1>5. CASE UNCHANGED totpVars  BY <1>1, <1>5 DEF totpVars, TotpInv, ReadRight
<1>6. ASSUME NEW r \in TotpRequests,
             \/ SetupRead(r) \/ DisableRead(r)
             \/ \E secret \in 1 .. MaxSetups : ActivateRead(r, secret)
             \/ \E c \in Codes : RecoverRead(r, c)
      PROVE  TotpInv'
  BY <1>3, <1>6, TotpBeginning
<1>7. ASSUME NEW r \in TotpRequests,
             \/ SetupCommit(r) \/ ActivateCommit(r) \/ RecoverCommit(r) \/ DisableCommit(r) \/ TotpFail(r)
      PROVE  TotpInv'
  BY <1>4, <1>7, TotpEnding
<1> QED  BY <1>5, <1>6, <1>7 DEF TotpNext

\* An activation makes active what was proved, unless its row is old.
ProvedStep ==
    Unproved' => \/ Unproved
                 \/ \E r \in TotpRequests : Commits(r, "setup") /\ Stale(r) /\ totp.active
                 \/ \E r \in TotpRequests : Commits(r, "activate") /\ Stale(r)

\* A code is accepted, or put back on the list, as it was on the list and unspent.
OnceStep ==
    \A g \in 1 .. MaxSetups, c \in Codes :
        /\ spent'[g][c] > spent[g][c] /\ spent[g][c] > 0
           => Accepted(g, c) \/ \E r \in TotpRequests : Commits(r, "recover") /\ Stale(r)
        /\ Accepted(g, c)' /\ spent'[g][c] > 0
           => (Accepted(g, c) /\ spent[g][c] > 0) \/ \E r \in TotpRequests : Commits(r, "recover") /\ Stale(r)

LEMMA TotpStepProved ==
    ASSUME TotpTypeOK, TotpInv, TotpNext
    PROVE  ProvedStep
<1> SUFFICES ASSUME Unproved', ~ Unproved
             PROVE  \/ \E r \in TotpRequests : Commits(r, "setup") /\ Stale(r) /\ totp.active
                    \/ \E r \in TotpRequests : Commits(r, "activate") /\ Stale(r)
  BY DEF ProvedStep
<1>1. \A r \in TotpRequests : ReadRight(r)  BY DEF TotpInv
<1>2. ASSUME NEW r \in TotpRequests, TotpBegins(r) PROVE FALSE  BY <1>2 DEF TotpBegins, Unproved
<1>3. PICK r \in TotpRequests :
        /\ totpReqs'[r].op = "idle"
        /\ TotpSetUp(r) \/ TotpRecovered(r) \/ TotpEnds(r)
  <2>1. PICK r \in TotpRequests :
           \/ SetupCommit(r) \/ ActivateCommit(r) \/ RecoverCommit(r) \/ DisableCommit(r) \/ TotpFail(r)
    BY <1>2, TotpBeginning DEF TotpNext
  <2> QED  BY <2>1, TotpEnding
<1>4. CASE TotpSetUp(r)
  <2>1. totp.active  BY <1>4 DEF TotpSetUp, Unproved
  <2>2. ~ totpReqs[r].read.active  BY <1>1, <1>4 DEF TotpSetUp, ReadRight
  <2> QED  BY <1>3, <1>4, <2>1, <2>2 DEF Commits, Stale, TotpSetUp
<1>5. CASE TotpRecovered(r)  BY <1>5 DEF TotpRecovered, Unproved
<1>6. CASE TotpEnds(r)
  <2>1. totp' # totp /\ totp' # NoRow  BY <1>6 DEF TotpEnds, Unproved, NoRow
  <2>2. totpReqs[r].op = "activate" /\ totp'.secret = totp.secret /\ proved' = proved
    BY <1>6, <2>1 DEF TotpEnds
  <2>3. totpReqs[r].read.secret \in proved /\ totp.secret \notin proved
    BY <1>1, <2>2 DEF ReadRight, Unproved
  <2> QED  BY <1>3, <2>2, <2>3 DEF Commits, Stale
<1> QED  BY <1>3, <1>4, <1>5, <1>6

LEMMA TotpStepOnce ==
    ASSUME TotpTypeOK, TotpInv, TotpNext
    PROVE  OnceStep
<1> SUFFICES ASSUME ~ \E r \in TotpRequests : Commits(r, "recover") /\ Stale(r),
                    NEW g \in 1 .. MaxSetups, NEW c \in Codes
             PROVE  /\ spent'[g][c] > spent[g][c] /\ spent[g][c] > 0 => Accepted(g, c)
                    /\ Accepted(g, c)' /\ spent'[g][c] > 0 => Accepted(g, c) /\ spent[g][c] > 0
  BY DEF OnceStep
<1>0. spent[g][c] \in Nat /\ setups \in Nat /\ totp.codesOf \in Nat
  BY TotpBoundAssumption DEF TotpTypeOK, TotpRow
<1>1. \A r \in TotpRequests : ReadRight(r)  BY DEF TotpInv
<1>2. ASSUME spent'[g][c] = spent[g][c], totp' = totp
      PROVE  /\ spent'[g][c] > spent[g][c] /\ spent[g][c] > 0 => Accepted(g, c)
             /\ Accepted(g, c)' /\ spent'[g][c] > 0 => Accepted(g, c) /\ spent[g][c] > 0
  BY <1>0, <1>2 DEF Accepted
<1>3. ASSUME NEW r \in TotpRequests,
             \/ SetupRead(r) \/ DisableRead(r)
             \/ \E secret \in 1 .. MaxSetups : ActivateRead(r, secret)
             \/ \E y \in Codes : RecoverRead(r, y)
      PROVE  spent'[g][c] = spent[g][c] /\ totp' = totp
  BY <1>3, TotpBeginning DEF TotpBegins
<1>4. ASSUME NEW r \in TotpRequests,
             \/ SetupCommit(r) \/ ActivateCommit(r) \/ RecoverCommit(r) \/ DisableCommit(r) \/ TotpFail(r)
      PROVE  /\ spent'[g][c] > spent[g][c] /\ spent[g][c] > 0 => Accepted(g, c)
             /\ Accepted(g, c)' /\ spent'[g][c] > 0 => Accepted(g, c) /\ spent[g][c] > 0
  <2>1. /\ totpReqs'[r].op = "idle"
        /\ TotpSetUp(r) \/ TotpRecovered(r) \/ TotpEnds(r)
    BY <1>4, TotpEnding
  <2>2. CASE TotpSetUp(r)
    <3>1. spent'[g][c] = spent[g][c] /\ totp'.codesOf = setups + 1  BY <2>2 DEF TotpSetUp
    <3>2. g = setups + 1 => spent[g][c] = 0  BY <1>0 DEF TotpInv
    <3> QED  BY <1>0, <3>1, <3>2 DEF Accepted
  <2>3. CASE TotpRecovered(r)
    <3>1. totp = totpReqs[r].read /\ totpReqs[r].code \subseteq totp.unused
      BY <1>1, <2>1, <2>3 DEF TotpRecovered, ReadRight, Commits, Stale
    <3>2. /\ totp'.codesOf = totp.codesOf /\ totp'.unused = totp.unused \ totpReqs[r].code
          /\ spent'[g][c] = IF g = totp.codesOf /\ c \in totpReqs[r].code
                               THEN spent[g][c] + 1 ELSE spent[g][c]
      BY <2>3, <3>1 DEF TotpRecovered
    <3> QED  BY <1>0, <3>1, <3>2 DEF Accepted
  <2>4. CASE TotpEnds(r)
    <3>1. spent'[g][c] = spent[g][c]  BY <2>4 DEF TotpEnds
    <3>2. Accepted(g, c)' => Accepted(g, c)  BY <2>4 DEF TotpEnds, Accepted, NoRow
    <3> QED  BY <1>0, <3>1, <3>2
  <2> QED  BY <2>1, <2>2, <2>3, <2>4
<1> QED  BY <1>2, <1>3, <1>4 DEF TotpNext

\* However log-ins, set-ups, activations and removals of a second factor overlap and
\* fail: it becomes active with a secret that nobody has proved, and a recovery code is
\* accepted or offered again, only by the commit of a request whose copy of the row is
\* old (setup_totp, activate_totp, verify_totp).
THEOREM SecondFactorAlwaysHolds == TotpSpec => SecondFactorHolds
<1>1. TotpInit => TotpInv
  <2> SUFFICES ASSUME TotpInit PROVE TotpInv  OBVIOUS
  <2>1. \A r \in TotpRequests : totpReqs[r] = TotpIdle  BY DEF TotpInit
  <2>2. TotpIdle.op = "idle" /\ TotpIdle.read = NoRow /\ NoRow.codesOf = 0  BY DEF TotpIdle, NoRow
  <2>3. setups = 0 /\ totp = NoRow  BY DEF TotpInit
  <2>4. \A g \in 1 .. MaxSetups, c \in Codes : spent[g][c] = 0  BY DEF TotpInit
  <2>5. \A r \in TotpRequests : ReadRight(r)  BY <2>1, <2>2, <2>3 DEF ReadRight
  <2> QED  BY <2>2, <2>3, <2>4, <2>5 DEF TotpInv
<1>2. TotpTypeOK /\ TotpInv /\ [TotpNext]_totpVars => TotpInv'  BY TotpStepInv
<1>3. TotpTypeOK /\ TotpInv /\ [TotpNext]_totpVars => [ProvedStep]_totpVars  BY TotpStepProved
<1>4. TotpTypeOK /\ TotpInv /\ [TotpNext]_totpVars => [OnceStep]_totpVars  BY TotpStepOnce
<1>5. ActiveSecretIsProved <=> [][ProvedStep]_totpVars  BY PTL DEF ActiveSecretIsProved, ProvedStep
<1>6. RecoveryCodeOnce <=> [][OnceStep]_totpVars  BY PTL DEF RecoveryCodeOnce, OnceStep
<1>7. SecondFactorHolds <=> ActiveSecretIsProved /\ RecoveryCodeOnce  BY DEF SecondFactorHolds
<1> QED  BY <1>1, <1>2, <1>3, <1>4, <1>5, <1>6, <1>7, TotpTypeCorrect, PTL DEF TotpSpec

----------------------------------------
\* The Telegram channel.

RequestPlaces == {"idle", "verify", "checked", "sync", "stored", "refused", "registered", "connected",
                  "disconnect", "cleared", "resync"}
Operations == {"none", "connect", "sync", "disconnect"}

LEMMA SomeBotIsOne == SomeBot \in Bots
BY SomeBotAssumption DEF SomeBot

LEMMA NewChannelTyped ==
    ASSUME NEW id \in Nat, NEW status \in {"none", "channel_pending", "active", "failed_validation"}
    PROVE  /\ NewChannel(id, status) \in ChannelRow
           /\ NewChannel(id, status).token = NoToken /\ NewChannel(id, status).secret = 0
           /\ NewChannel(id, status).connected = FALSE /\ NewChannel(id, status).status = status
           /\ NewChannel(id, status).id = id
BY DEF NewChannel, ChannelRow, AnyToken

LEMMA NoChannelTyped ==
    /\ NoChannel \in ChannelRow /\ NoChannel.token = NoToken /\ NoChannel.secret = 0
    /\ NoChannel.connected = FALSE
BY NewChannelTyped DEF NoChannel

LEMMA RequestAtTyped ==
    ASSUME NEW at \in RequestPlaces, NEW op \in Operations, NEW b \in Bots, NEW token \in AnyToken,
           NEW secret \in Nat, NEW row \in ChannelRow, NEW todo \in SUBSET Bots
    PROVE  /\ RequestAt(at, op, b, token, secret, row, todo) \in ChannelRequest
           /\ RequestAt(at, op, b, token, secret, row, todo).at = at
           /\ RequestAt(at, op, b, token, secret, row, todo).token = token
           /\ RequestAt(at, op, b, token, secret, row, todo).row = row
           /\ RequestAt(at, op, b, token, secret, row, todo).bot = b
BY DEF RequestAt, ChannelRequest, RequestPlaces, Operations

LEMMA ChannelIdleTyped ==
    /\ ChannelIdle \in ChannelRequest /\ ChannelIdle.at = "idle" /\ ChannelIdle.row = NoChannel
    /\ \A todo \in SUBSET Bots :
          /\ Resyncing(todo) \in ChannelRequest
          /\ Resyncing(todo).at = "resync" /\ Resyncing(todo).row = NoChannel
<1>1. NoToken \in AnyToken  BY DEF AnyToken
<1> QED
  BY <1>1, SomeBotIsOne, NoChannelTyped, RequestAtTyped
     DEF ChannelIdle, Resyncing, RequestPlaces, Operations

\* What the types say of a request and of the row it is about.
LEMMA ChannelTypes ==
    ASSUME ChannelTypeOK, NEW r \in ChannelRequests
    PROVE  /\ channelReqs[r] \in ChannelRequest /\ channelReqs[r].bot \in Bots
           /\ channelReqs[r].token \in AnyToken /\ channelReqs[r].secret \in Nat
           /\ channelReqs[r].row \in ChannelRow /\ channelReqs[r].todo \in SUBSET Bots
           /\ channels[channelReqs[r].bot] \in ChannelRow
<1>1. channelReqs[r] \in ChannelRequest  BY DEF ChannelTypeOK
<1>2. channelReqs[r].bot \in Bots  BY <1>1 DEF ChannelRequest
<1> QED  BY <1>1, <1>2 DEF ChannelRequest, ChannelTypeOK

\* A request that is begun.
LEMMA ChannelBegins ==
    ASSUME ChannelTypeOK, NEW r \in ChannelRequests, NEW q \in ChannelRequest, ChannelBegin(r, q)
    PROVE  /\ channelReqs' \in [ChannelRequests -> ChannelRequest] /\ channelReqs'[r] = q
           /\ \A s \in ChannelRequests : s # r => channelReqs'[s] = channelReqs[s]
           /\ channelBegun' \in 0 .. MaxChannelRequests
BY ChannelBoundAssumption DEF ChannelTypeOK, ChannelBegin

\* A request that goes elsewhere and keeps everything else.
LEMMA ChannelMoves ==
    ASSUME ChannelTypeOK, NEW r \in ChannelRequests, NEW at \in RequestPlaces,
           channelReqs' = [channelReqs EXCEPT ![r].at = at]
    PROVE  /\ channelReqs' \in [ChannelRequests -> ChannelRequest]
           /\ channelReqs'[r].at = at /\ channelReqs'[r].token = channelReqs[r].token
           /\ channelReqs'[r].row = channelReqs[r].row
           /\ \A s \in ChannelRequests : s # r => channelReqs'[s] = channelReqs[s]
<1>1. channelReqs \in [ChannelRequests -> ChannelRequest]  BY DEF ChannelTypeOK
<1>2. [channelReqs[r] EXCEPT !.at = at] \in ChannelRequest  BY <1>1 DEF ChannelRequest, RequestPlaces
<1>3. channelReqs' = [channelReqs EXCEPT ![r] = [channelReqs[r] EXCEPT !.at = at]]
  BY <1>1 DEF ChannelRequest
<1> QED  BY <1>1, <1>2, <1>3 DEF ChannelRequest

LEMMA ChannelFinishes ==
    ASSUME ChannelTypeOK, NEW r \in ChannelRequests, Finish(r)
    PROVE  /\ channelReqs' \in [ChannelRequests -> ChannelRequest]
           /\ channelReqs'[r].at \in {"idle", "resync"} /\ channelReqs'[r].row = NoChannel
           /\ \A s \in ChannelRequests : s # r => channelReqs'[s] = channelReqs[s]
<1>1. channelReqs \in [ChannelRequests -> ChannelRequest] /\ channelReqs[r].todo \in SUBSET Bots
  BY ChannelTypes DEF ChannelTypeOK
<1> DEFINE q == IF channelReqs[r].todo = {} THEN ChannelIdle ELSE Resyncing(channelReqs[r].todo)
<1>2. q \in ChannelRequest /\ q.at \in {"idle", "resync"} /\ q.row = NoChannel
  BY <1>1, ChannelIdleTyped
<1>3. channelReqs' = [channelReqs EXCEPT ![r] = q]  BY DEF Finish
<1> HIDE DEF q
<1> QED  BY <1>1, <1>2, <1>3

\* The columns of a row after the ORM has written what differs.
LEMMA FlushedColumns ==
    ASSUME NEW row \in ChannelRow, NEW loaded \in ChannelRow, NEW new \in ChannelRow
    PROVE  /\ Flush(row, loaded, new) \in ChannelRow
           /\ \A f \in {"id", "token", "telegramId", "secret", "connected", "status"} :
                 Flush(row, loaded, new)[f] = IF new[f] # loaded[f] THEN new[f] ELSE row[f]
<1> DEFINE F == {"id", "token", "telegramId", "secret", "connected", "status"}
<1>1. DOMAIN row = F  BY DEF ChannelRow
<1> DEFINE g == [f \in F |-> IF new[f] # loaded[f] THEN new[f] ELSE row[f]]
<1>2. Flush(row, loaded, new) = g  BY <1>1 DEF Flush
<1>3. g = [id |-> g.id, token |-> g.token, telegramId |-> g.telegramId, secret |-> g.secret,
           connected |-> g.connected, status |-> g.status]
  OBVIOUS
<1>4. /\ g.id \in Nat /\ g.token \in AnyToken /\ g.telegramId \in AnyToken /\ g.secret \in Nat
      /\ g.connected \in BOOLEAN
      /\ g.status \in {"none", "channel_pending", "active", "failed_validation"}
  BY DEF ChannelRow
<1>5. \A f \in F : g[f] = IF new[f] # loaded[f] THEN new[f] ELSE row[f]  OBVIOUS
<1> HIDE DEF g
<1>6. g \in ChannelRow  BY <1>3, <1>4 DEF ChannelRow
<1> QED  BY <1>2, <1>5, <1>6

LEMMA FlushedOff ==
    ASSUME NEW row \in ChannelRow, NEW new \in ChannelRow, new.connected = FALSE
    PROVE  Flush(row, row, new).connected = FALSE
<1>1. "connected" \in DOMAIN row /\ row.connected \in BOOLEAN  BY DEF ChannelRow
<1>2. Flush(row, row, new).connected = IF new.connected # row.connected THEN new.connected ELSE row.connected
  BY <1>1 DEF Flush
<1> QED  BY <1>1, <1>2

----------------------------------------
\* The request r goes on alone: its types, what it decided by, and the row it holds.
RequestGoesOn(r) ==
    /\ channelReqs' \in [ChannelRequests -> ChannelRequest]
    /\ \A s \in ChannelRequests : s # r => channelReqs'[s] = channelReqs[s]
    /\ channelReqs'[r].at \in {"verify", "checked"} => channelReqs'[r].token \in Tokens
    /\ channelReqs'[r].at = "checked" => channelReqs'[r].token \notin channelReqs'[r].seen
    /\ channelReqs'[r].at = "disconnect" => channelReqs'[r].token = channelReqs'[r].row.token
    /\ \/ channelReqs'[r].row \in {channelReqs[r].row, NoChannel}
       \/ \E b \in Bots : channelReqs'[r].row = channels'[b]
    /\ pendingBots' \subseteq Bots /\ channelBegun' \in 0 .. MaxChannelRequests

\* Neither a row nor a webhook changes.
ChannelsStay == UNCHANGED <<channels, hooks, madeFor, rowsMade>>

LEMMA FinishGoesOn ==
    ASSUME ChannelTypeOK, NEW r \in ChannelRequests, Finish(r),
           pendingBots' \subseteq Bots, channelBegun' = channelBegun
    PROVE  RequestGoesOn(r)
BY ChannelFinishes DEF RequestGoesOn, ChannelTypeOK

LEMMA MoveGoesOn ==
    ASSUME ChannelTypeOK, NEW r \in ChannelRequests,
           NEW at \in RequestPlaces \ {"verify", "checked", "disconnect"},
           channelReqs' = [channelReqs EXCEPT ![r].at = at],
           UNCHANGED <<pendingBots, channelBegun>>
    PROVE  RequestGoesOn(r)
BY ChannelMoves DEF RequestGoesOn, ChannelTypeOK

LEMMA BeginGoesOn ==
    ASSUME ChannelTypeOK, NEW r \in ChannelRequests, NEW q \in ChannelRequest, ChannelBegin(r, q),
           q.at = "verify" => q.token \in Tokens, q.at # "checked",
           q.at = "disconnect" => q.token = q.row.token,
           q.row = NoChannel \/ \E b \in Bots : q.row = channels'[b],
           UNCHANGED pendingBots
    PROVE  RequestGoesOn(r)
BY ChannelBegins DEF RequestGoesOn, ChannelTypeOK

LEMMA ReadingSteps ==
    ASSUME ChannelTypeOK, NEW r \in ChannelRequests,
           \/ \E b \in Bots : SyncRead(r, b) \/ DisconnectRead(r, b) \/ \E t \in Tokens : ConnectRead(r, b, t)
           \/ ResyncAll(r)
    PROVE  RequestGoesOn(r) /\ ChannelsStay
<1>0. /\ \A b \in Bots : channels[b] \in ChannelRow /\ channels[b].token \in AnyToken /\ channels[b].secret \in Nat
      /\ \A t \in Tokens : t \in AnyToken
      /\ {} \in SUBSET Bots
  BY DEF ChannelTypeOK, ChannelRow, AnyToken
<1>1. ASSUME NEW b \in Bots, SyncRead(r, b) PROVE RequestGoesOn(r) /\ ChannelsStay
  <2> DEFINE q == RequestAt("sync", "sync", b, channels[b].token, channels[b].secret, channels[b], {})
  <2>1. q \in ChannelRequest /\ q.at = "sync" /\ q.row = channels[b]
    BY <1>0, RequestAtTyped DEF RequestPlaces, Operations
  <2>2. ChannelBegin(r, q) /\ ChannelsStay /\ UNCHANGED pendingBots  BY <1>1 DEF SyncRead, ChannelsStay
  <2>3. q.row = channels'[b]  BY <2>1, <2>2 DEF ChannelsStay
  <2> HIDE DEF q
  <2> QED  BY <2>1, <2>2, <2>3, BeginGoesOn
<1>2. ASSUME NEW b \in Bots, DisconnectRead(r, b) PROVE RequestGoesOn(r) /\ ChannelsStay
  <2> DEFINE at == IF HasStoredToken(channels[b]) THEN "disconnect" ELSE "cleared"
             q == RequestAt(at, "disconnect", b, channels[b].token, 0, channels[b], {})
  <2>0. at \in RequestPlaces /\ at \in {"disconnect", "cleared"}  BY DEF RequestPlaces
  <2>2. ChannelBegin(r, q) /\ ChannelsStay /\ UNCHANGED pendingBots
    BY <1>2 DEF DisconnectRead, ChannelsStay
  <2> HIDE DEF at
  <2>1. /\ q \in ChannelRequest /\ q.at = at /\ q.row = channels[b] /\ q.token = channels[b].token
    <3>1. channels[b] \in ChannelRow  BY <1>0
    <3>2. channels[b].token \in AnyToken /\ 0 \in Nat /\ "disconnect" \in Operations
      BY <1>0 DEF Operations
    <3> QED  BY <1>0, <2>0, <3>1, <3>2, RequestAtTyped, SMTT(30)
  <2>3. q.row = channels'[b]  BY <2>1, <2>2 DEF ChannelsStay
  <2> HIDE DEF q
  <2> QED  BY <2>0, <2>1, <2>2, <2>3, BeginGoesOn
<1>3. ASSUME NEW b \in Bots, NEW t \in Tokens, ConnectRead(r, b, t) PROVE RequestGoesOn(r) /\ ChannelsStay
  <2> DEFINE q == RequestAt("verify", "connect", b, t, 0, channels[b], {})
  <2>1. q \in ChannelRequest /\ q.at = "verify" /\ q.row = channels[b] /\ q.token = t
    BY <1>0, RequestAtTyped DEF RequestPlaces, Operations
  <2>2. ChannelBegin(r, q) /\ ChannelsStay /\ UNCHANGED pendingBots
    BY <1>3 DEF ConnectRead, ChannelsStay
  <2>3. q.row = channels'[b]  BY <2>1, <2>2 DEF ChannelsStay
  <2> HIDE DEF q
  <2> QED  BY <2>1, <2>2, <2>3, BeginGoesOn
<1>4. CASE ResyncAll(r)
  <2> DEFINE live == {b \in Bots : Live(b)}
  <2>1. live \in SUBSET Bots  OBVIOUS
  <2>2. ChannelBegin(r, Resyncing(live)) /\ ChannelsStay /\ UNCHANGED pendingBots
    BY <1>4 DEF ResyncAll, ChannelsStay
  <2> HIDE DEF live
  <2> QED  BY <2>1, <2>2, ChannelIdleTyped, BeginGoesOn
<1> QED  BY <1>1, <1>2, <1>3, <1>4

LEMMA StayingSteps ==
    ASSUME ChannelTypeOK, ChannelInv, NEW r \in ChannelRequests,
           \/ \E b \in Bots : ResyncNext(r, b)
           \/ ConnectCheck(r) \/ SyncStore(r) \/ SetWebhookRefused(r) \/ ActivateBot(r)
           \/ ChannelError(r) \/ ChannelDie(r)
    PROVE  RequestGoesOn(r) /\ ChannelsStay
<1>0. channelReqs \in [ChannelRequests -> ChannelRequest] /\ pendingBots \subseteq Bots
      /\ channelBegun \in 0 .. MaxChannelRequests
  BY DEF ChannelTypeOK
<1>1. ASSUME NEW b \in Bots, ResyncNext(r, b) PROVE RequestGoesOn(r) /\ ChannelsStay
  <2>0. /\ channels[b] \in ChannelRow /\ channels[b].token \in AnyToken /\ channels[b].secret \in Nat
        /\ channelReqs[r].todo \ {b} \in SUBSET Bots
    BY ChannelTypes DEF ChannelTypeOK, ChannelRow
  <2> DEFINE todo == channelReqs[r].todo \ {b}
             q == IF HasStoredToken(channels[b])
                  THEN RequestAt("sync", "sync", b, channels[b].token, channels[b].secret, channels[b], todo)
                  ELSE IF channelReqs[r].todo = {b} THEN ChannelIdle ELSE Resyncing(todo)
  <2>1. channelReqs' = [channelReqs EXCEPT ![r] = q] /\ ChannelsStay
        /\ UNCHANGED <<pendingBots, channelBegun>>
    BY <1>1 DEF ResyncNext, ChannelsStay
  <2>2. /\ q \in ChannelRequest /\ q.at \in {"sync", "idle", "resync"}
        /\ q.row = NoChannel \/ q.row = channels[b]
    <3> HIDE DEF todo
    <3>0. todo \in SUBSET Bots  BY <2>0 DEF todo
    <3> DEFINE p == RequestAt("sync", "sync", b, channels[b].token, channels[b].secret, channels[b], todo)
    <3>1. p \in ChannelRequest /\ p.at = "sync" /\ p.row = channels[b]
      BY <2>0, <3>0, RequestAtTyped DEF RequestPlaces, Operations
    <3> HIDE DEF p
    <3>2. q = p \/ q = ChannelIdle \/ q = Resyncing(todo)  BY DEF p
    <3> HIDE DEF q
    <3> QED  BY <3>0, <3>1, <3>2, ChannelIdleTyped
  <2> HIDE DEF q
  <2>3. channels'[b] = channels[b]  BY <2>1 DEF ChannelsStay
  <2>4. /\ channelReqs' \in [ChannelRequests -> ChannelRequest] /\ channelReqs'[r] = q
        /\ \A s \in ChannelRequests : s # r => channelReqs'[s] = channelReqs[s]
    BY <1>0, <2>1, <2>2
  <2> QED  BY <1>0, <2>1, <2>2, <2>3, <2>4 DEF RequestGoesOn
<1>2. CASE ConnectCheck(r)
  <2>1. /\ channelReqs[r].at = "verify" /\ ChannelsStay /\ UNCHANGED <<pendingBots, channelBegun>>
    BY <1>2 DEF ConnectCheck, ChannelsStay
  <2>2. CASE AttachedElsewhere(channelReqs[r].bot, channelReqs[r].token)
    <3>1. Finish(r)  BY <1>2, <2>2 DEF ConnectCheck
    <3> QED  BY <1>0, <2>1, <3>1, FinishGoesOn
  <2>3. CASE ~ AttachedElsewhere(channelReqs[r].bot, channelReqs[r].token)
    <3> DEFINE seen == AttachedTo(Bots \ {channelReqs[r].bot})
               q == [channelReqs[r] EXCEPT !.at = "checked", !.seen = seen]
    <3>1. channelReqs[r].token \in Tokens /\ channelReqs[r].token \notin seen
      BY <2>1, <2>3 DEF AttachedElsewhere, ChannelTypeOK
    <3>2. seen \subseteq Tokens  BY DEF AttachedTo, ChannelTypeOK, ChannelRow, AnyToken
    <3>3. channelReqs' = [channelReqs EXCEPT ![r] = q]
      BY <1>0, <1>2, <2>3 DEF ConnectCheck, ChannelRequest
    <3> HIDE DEF seen
    <3>4. /\ q \in ChannelRequest /\ q.at = "checked" /\ q.token = channelReqs[r].token
          /\ q.seen = seen /\ q.row = channelReqs[r].row
      BY <1>0, <3>2, ZenonT(60) DEF ChannelRequest
    <3> HIDE DEF q
    <3>5. /\ channelReqs' \in [ChannelRequests -> ChannelRequest] /\ channelReqs'[r] = q
          /\ \A s \in ChannelRequests : s # r => channelReqs'[s] = channelReqs[s]
      BY <1>0, <3>3, <3>4
    <3> QED  BY <1>0, <2>1, <3>1, <3>4, <3>5 DEF RequestGoesOn
  <2> QED  BY <2>2, <2>3
<1>3. CASE SyncStore(r)
  <2> DEFINE row == channels[channelReqs[r].bot]
             q == [channelReqs[r] EXCEPT !.at = "stored", !.row = row]
  <2>0. row \in ChannelRow /\ channelReqs[r].bot \in Bots  BY ChannelTypes
  <2>1. channelReqs' = [channelReqs EXCEPT ![r] = q] /\ ChannelsStay /\ UNCHANGED <<pendingBots, channelBegun>>
    BY <1>0, <1>3 DEF SyncStore, ChannelRequest, ChannelsStay
  <2>2. q \in ChannelRequest /\ q.at = "stored" /\ q.row = row  BY <1>0, <2>0, ZenonT(60) DEF ChannelRequest
  <2>3. channels'[channelReqs[r].bot] = row  BY <2>1 DEF ChannelsStay
  <2> HIDE DEF q, row
  <2>4. /\ channelReqs' \in [ChannelRequests -> ChannelRequest] /\ channelReqs'[r] = q
        /\ \A s \in ChannelRequests : s # r => channelReqs'[s] = channelReqs[s]
    BY <1>0, <2>1, <2>2
  <2>5. \E b \in Bots : channelReqs'[r].row = channels'[b]  BY <2>0, <2>2, <2>3, <2>4
  <2> QED  BY <1>0, <2>1, <2>2, <2>4, <2>5 DEF RequestGoesOn
<1>4. CASE SetWebhookRefused(r)
  <2>1. /\ channelReqs' = [channelReqs EXCEPT ![r].at = "refused"]
        /\ ChannelsStay /\ UNCHANGED <<pendingBots, channelBegun>>
    BY <1>4 DEF SetWebhookRefused, ChannelsStay
  <2>2. "refused" \in RequestPlaces \ {"verify", "checked", "disconnect"}  BY DEF RequestPlaces
  <2> QED  BY <2>1, <2>2, MoveGoesOn
<1>5. CASE ActivateBot(r) \/ ChannelError(r)
  <2>1. Finish(r) /\ ChannelsStay /\ pendingBots' \subseteq Bots /\ channelBegun' = channelBegun
    BY <1>0, <1>5 DEF ActivateBot, ChannelError, ChannelsStay
  <2> QED  BY <2>1, FinishGoesOn
<1>6. CASE ChannelDie(r)
  <2>1. /\ channelReqs' = [channelReqs EXCEPT ![r] = ChannelIdle]
        /\ ChannelsStay /\ UNCHANGED <<pendingBots, channelBegun>>
    BY <1>6 DEF ChannelDie, ChannelsStay
  <2>2. /\ channelReqs' \in [ChannelRequests -> ChannelRequest] /\ channelReqs'[r] = ChannelIdle
        /\ \A s \in ChannelRequests : s # r => channelReqs'[s] = channelReqs[s]
    BY <1>0, <2>1, ChannelIdleTyped
  <2> QED  BY <1>0, <2>1, <2>2, ChannelIdleTyped DEF RequestGoesOn
<1> QED  BY <1>1, <1>2, <1>3, <1>4, <1>5, <1>6

----------------------------------------
\* Secrets are added, and those that are there stay.
SecretsStay ==
    /\ madeFor' \in Seq(Tokens) /\ Len(madeFor) <= Len(madeFor')
    /\ \A i \in 1 .. Len(madeFor) : madeFor'[i] = madeFor[i]

LEMMA LinkStays ==
    ASSUME ChannelTypeOK, SecretsStay, NEW row \in ChannelRow, Linked(row)
    PROVE  row.secret <= Len(madeFor') /\ row.token = IF row.secret = 0 THEN NoToken ELSE madeFor'[row.secret]
<1>1. row.secret \in Nat /\ row.secret <= Len(madeFor) /\ Len(madeFor) \in Nat /\ Len(madeFor') \in Nat
      /\ Len(madeFor) <= Len(madeFor')
  BY DEF ChannelRow, Linked, ChannelTypeOK, SecretsStay
<1>2. row.token = IF row.secret = 0 THEN NoToken ELSE madeFor[row.secret]  BY DEF Linked, BelongTogether
<1>3. row.secret # 0 => madeFor'[row.secret] = madeFor[row.secret]  BY <1>1 DEF SecretsStay
<1> QED  BY <1>1, <1>2, <1>3

LEMMA SameSecretsStay == ChannelTypeOK /\ madeFor' = madeFor => SecretsStay
BY DEF ChannelTypeOK, SecretsStay

\* A row without a token has no secret, since every secret was made for a token.
LEMMA NoTokenNoSecret ==
    ASSUME ChannelTypeOK, NEW row \in ChannelRow, Linked(row), row.token = NoToken
    PROVE  row.secret = 0
<1>1. row.secret \in Nat /\ Len(madeFor) \in Nat /\ row.secret <= Len(madeFor)
  BY DEF ChannelRow, Linked, ChannelTypeOK
<1>2. \A i \in 1 .. Len(madeFor) : madeFor[i] \in Tokens  BY DEF ChannelTypeOK
<1> QED  BY <1>1, <1>2, NoTokenAssumption DEF Linked, BelongTogether

\* The request r writes the row of its bot b and no webhook.  The row gets a token only by
\* a connection; it comes to life, or dies of a refused token, only when that is right
\* or when the request works with what has changed since.
RowChanges(r, b) ==
    LET q == channelReqs[r]
    IN  /\ Acts(r) /\ UNCHANGED hooks
        /\ channels' \in [Bots -> ChannelRow] /\ rowsMade' \in Nat /\ SecretsStay
        /\ \A c \in Bots : c # b => channels'[c] = channels[c]
        /\ Linked(channels[b])'
        /\ channels'[b].token \in {channels[b].token, NoToken}
           \/ (q.at = "checked" /\ channels'[b].token = q.token)
        /\ Live(b)' => \/ Outdated(r)
                       \/ /\ channels'[b].token = channels[b].token
                          /\ channels'[b].secret = channels[b].secret
                          /\ q.at = "registered" \/ Live(b)
        /\ q.at = "verify" /\ Live(b) => Outdated(r) \/ Live(b)'

\* One row is written.
LEMMA RowPut ==
    ASSUME ChannelTypeOK, NEW b \in Bots, NEW row \in ChannelRow, channels' = [channels EXCEPT ![b] = row]
    PROVE  /\ channels' \in [Bots -> ChannelRow] /\ channels'[b] = row
           /\ \A c \in Bots : c # b => channels'[c] = channels[c]
BY DEF ChannelTypeOK

\* A row is written whose token and secret stay.
LEMMA RowKept ==
    ASSUME ChannelTypeOK, ChannelInv, NEW r \in ChannelRequests, NEW b \in Bots, b = channelReqs[r].bot,
           Acts(r), UNCHANGED <<hooks, rowsMade, madeFor>>,
           NEW row \in ChannelRow, channels' = [channels EXCEPT ![b] = row],
           row.token = channels[b].token, row.secret = channels[b].secret,
           IsLive(row) => Outdated(r) \/ channelReqs[r].at = "registered" \/ Live(b),
           channelReqs[r].at = "verify" /\ Live(b) => Outdated(r) \/ IsLive(row)
    PROVE  RowChanges(r, b)
<1>1. b \in Bots /\ channels[b] \in ChannelRow  BY ChannelTypes
<1>2. channels' \in [Bots -> ChannelRow] /\ channels'[b] = row /\ \A c \in Bots : c # b => channels'[c] = channels[c]
  BY <1>1, RowPut
<1>3. SecretsStay /\ rowsMade' \in Nat  BY SameSecretsStay DEF ChannelTypeOK
<1>4. Linked(channels[b])'
  <2>1. Linked(channels[b])  BY <1>1 DEF ChannelInv
  <2>2. channels'[b].token = channels[b].token /\ channels'[b].secret = channels[b].secret  BY <1>2
  <2> QED  BY <2>1, <2>2 DEF Linked, BelongTogether
<1>5. Live(b)' = IsLive(row)  BY <1>2 DEF Live, IsLive
<1> QED  BY <1>1, <1>2, <1>3, <1>4, <1>5 DEF RowChanges

\* A row is written, or deleted, that has no token.
LEMMA RowGone ==
    ASSUME ChannelTypeOK, NEW r \in ChannelRequests, NEW b \in Bots, b = channelReqs[r].bot,
           Acts(r), UNCHANGED <<hooks, madeFor>>, rowsMade' \in Nat,
           NEW row \in ChannelRow, channels' = [channels EXCEPT ![b] = row],
           row.token = NoToken, row.secret = 0,
           channelReqs[r].at = "verify" /\ Live(b) => Outdated(r)
    PROVE  RowChanges(r, b)
<1>1. channels' \in [Bots -> ChannelRow] /\ channels'[b] = row /\ \A c \in Bots : c # b => channels'[c] = channels[c]
  BY RowPut
<1>2. ~ Live(b)'  BY <1>1 DEF Live, IsLive
<1>3. SecretsStay /\ Len(madeFor') \in Nat  BY SameSecretsStay DEF ChannelTypeOK
<1>4. Linked(channels[b])' /\ channels'[b].token = NoToken  BY <1>1, <1>3 DEF Linked, BelongTogether
<1> QED  BY <1>1, <1>2, <1>3, <1>4 DEF RowChanges

LEMMA ActivateChanges ==
    ASSUME ChannelTypeOK, ChannelInv, NEW r \in ChannelRequests, NEW b \in Bots, b = channelReqs[r].bot,
           Activate(r)
    PROVE  RequestGoesOn(r) /\ RowChanges(r, b)
<1>1. /\ channelReqs[r].at = "registered" /\ UNCHANGED <<hooks, pendingBots, rowsMade, madeFor, channelBegun>>
      /\ pendingBots' \subseteq Bots
  BY DEF Activate, ChannelTypeOK
<1>2. RequestGoesOn(r) /\ Acts(r)
  <2>1. CASE channelReqs[r].op = "connect"
    <3>1. channelReqs' = [channelReqs EXCEPT ![r].at = "connected"]  BY <2>1 DEF Activate
    <3>2. "connected" \in RequestPlaces \ {"verify", "checked", "disconnect"} /\ "connected" \in RequestPlaces
      BY DEF RequestPlaces
    <3> QED  BY <1>1, <3>1, <3>2, MoveGoesOn, ChannelMoves DEF Acts
  <2>2. CASE channelReqs[r].op # "connect"
    <3>1. Finish(r)  BY <2>2 DEF Activate
    <3> QED  BY <1>1, <3>1, FinishGoesOn, ChannelFinishes DEF Acts
  <2> QED  BY <2>1, <2>2
<1> DEFINE q == channelReqs[r].row
           new == [q EXCEPT !.connected = TRUE, !.status = "active"]
           row == Flush(channels[b], q, new)
<1>3. q \in ChannelRow /\ channels[b] \in ChannelRow  BY ChannelTypes
<1>4. channels' = [channels EXCEPT ![b] = row]  BY <1>3 DEF Activate, ChannelTypeOK
<1> HIDE DEF q
<1>5. new \in ChannelRow /\ new.token = q.token /\ new.secret = q.secret  BY <1>3 DEF ChannelRow
<1> HIDE DEF new
<1>6. row \in ChannelRow /\ row.token = channels[b].token /\ row.secret = channels[b].secret
  BY <1>3, <1>5, FlushedColumns
<1> HIDE DEF row
<1> QED  BY <1>1, <1>2, <1>4, <1>6, RowKept

LEMMA MarkChanges ==
    ASSUME ChannelTypeOK, ChannelInv, NEW r \in ChannelRequests, NEW b \in Bots, b = channelReqs[r].bot,
           MarkRegistrationFailed(r)
    PROVE  RequestGoesOn(r) /\ RowChanges(r, b)
<1>1. /\ channelReqs[r].at = "refused" /\ UNCHANGED <<hooks, pendingBots, rowsMade, madeFor, channelBegun>>
      /\ pendingBots' \subseteq Bots /\ Finish(r)
  BY DEF MarkRegistrationFailed, ChannelTypeOK
<1>2. RequestGoesOn(r) /\ Acts(r)  BY <1>1, FinishGoesOn, ChannelFinishes DEF Acts
<1> DEFINE q == channelReqs[r].row
           new == [q EXCEPT !.connected = FALSE, !.status = "channel_pending"]
           row == Flush(channels[b], q, new)
<1>3. q \in ChannelRow /\ channels[b] \in ChannelRow  BY ChannelTypes
<1>4. channels' = [channels EXCEPT ![b] = row]  BY <1>3 DEF MarkRegistrationFailed, ChannelTypeOK
<1>5. channels[b] # q => Outdated(r)  BY DEF Outdated
<1> HIDE DEF q
<1>6. new \in ChannelRow /\ new.token = q.token /\ new.secret = q.secret /\ new.connected = FALSE
  BY <1>3 DEF ChannelRow
<1> HIDE DEF new
<1>7. row \in ChannelRow /\ row.token = channels[b].token /\ row.secret = channels[b].secret
  BY <1>3, <1>6, FlushedColumns
<1>8. IsLive(row) => Outdated(r)
  <2>1. channels[b] = q => row.connected = FALSE  BY <1>3, <1>6, FlushedOff
  <2> QED  BY <1>5, <2>1 DEF IsLive
<1> HIDE DEF row
<1> QED  BY <1>1, <1>2, <1>4, <1>7, <1>8, RowKept

LEMMA DisconnectChanges ==
    ASSUME ChannelTypeOK, ChannelInv, NEW r \in ChannelRequests, NEW b \in Bots, b = channelReqs[r].bot,
           Disconnect(r)
    PROVE  RequestGoesOn(r) /\ RowChanges(r, b)
<1>1. /\ channelReqs[r].at = "cleared" /\ UNCHANGED <<hooks, pendingBots, rowsMade, madeFor, channelBegun>>
      /\ pendingBots' \subseteq Bots /\ Finish(r)
  BY DEF Disconnect, ChannelTypeOK
<1>2. RequestGoesOn(r) /\ Acts(r)  BY <1>1, FinishGoesOn, ChannelFinishes DEF Acts
<1>3. b \in Bots /\ channels[b] \in ChannelRow /\ channels \in [Bots -> ChannelRow]
  BY ChannelTypes DEF ChannelTypeOK
<1>4. CASE SameRow(r)
  <2>1. channels' = [channels EXCEPT ![b] = NoChannel]  BY <1>4 DEF Disconnect
  <2> QED  BY <1>1, <1>2, <1>3, <2>1, NoChannelTyped, RowGone DEF ChannelTypeOK
<1>5. CASE ~ SameRow(r)
  <2>1. channels' = [channels EXCEPT ![b] = channels[b]]  BY <1>3, <1>5 DEF Disconnect
  <2>2. IsLive(channels[b]) => Live(b)  BY DEF Live
  <2> QED  BY <1>1, <1>2, <1>3, <2>1, <2>2, RowKept
<1> QED  BY <1>4, <1>5

\* A refused token: the row keeps what it has, or it has no token afterwards.
LEMMA InvalidChanges ==
    ASSUME ChannelTypeOK, ChannelInv, NEW r \in ChannelRequests, NEW b \in Bots, b = channelReqs[r].bot,
           ConnectInvalid(r)
    PROVE  RequestGoesOn(r) /\ RowChanges(r, b)
<1>1. /\ channelReqs[r].at = "verify" /\ UNCHANGED <<hooks, pendingBots, madeFor, channelBegun>>
      /\ pendingBots' \subseteq Bots /\ Finish(r)
  BY DEF ConnectInvalid, ChannelTypeOK
<1>2. RequestGoesOn(r) /\ Acts(r)  BY <1>1, FinishGoesOn, ChannelFinishes DEF Acts
<1> DEFINE q == channelReqs[r].row
           loaded == IF q.id = 0 THEN channels[b] ELSE q
           id == IF loaded.id = 0 THEN rowsMade + 1 ELSE loaded.id
           failed == NewChannel(id, "failed_validation")
<1>3. /\ q \in ChannelRow /\ channels[b] \in ChannelRow /\ channels \in [Bots -> ChannelRow] /\ rowsMade \in Nat
  BY ChannelTypes DEF ChannelTypeOK
<1>4. channels[b] # q => Outdated(r)  BY DEF Outdated
<1>5. Linked(q) /\ (~ HasStoredToken(q) => q.token = NoToken)  BY DEF ChannelInv, HasStoredToken
<1>6. \/ HasStoredToken(q) /\ UNCHANGED <<channels, rowsMade>>
      \/ /\ ~ HasStoredToken(q)
         /\ channels' = [channels EXCEPT ![b] = IF loaded.id = 0 THEN failed ELSE Flush(channels[b], loaded, failed)]
         /\ rowsMade' = IF loaded.id = 0 THEN rowsMade + 1 ELSE rowsMade
  BY <1>3 DEF ConnectInvalid
<1> HIDE DEF q
<1>7. loaded \in ChannelRow /\ id \in Nat
  <2>1. loaded \in ChannelRow  BY <1>3
  <2>2. loaded.id \in Nat  BY <2>1 DEF ChannelRow
  <2> QED  BY <1>3, <2>1, <2>2
<1>8. failed \in ChannelRow /\ failed.token = NoToken /\ failed.secret = 0
  <2> HIDE DEF id
  <2> QED  BY <1>7, NewChannelTyped
<1>9. q.token = NoToken /\ channels[b] = q => ~ Live(b)  BY DEF Live, IsLive
<1> HIDE DEF failed
<1>10. CASE HasStoredToken(q)
  <2>1. channels' = [channels EXCEPT ![b] = channels[b]] /\ UNCHANGED rowsMade  BY <1>3, <1>6, <1>10
  <2>2. IsLive(channels[b]) = Live(b)  BY DEF Live
  <2> QED  BY <1>1, <1>2, <1>3, <2>1, <2>2, RowKept
<1>11. CASE ~ HasStoredToken(q)
  <2> DEFINE row == IF loaded.id = 0 THEN failed ELSE Flush(channels[b], loaded, failed)
  <2>1. channels' = [channels EXCEPT ![b] = row] /\ rowsMade' = IF loaded.id = 0 THEN rowsMade + 1 ELSE rowsMade
    BY <1>6, <1>11
  <2>2. q.token = NoToken /\ q.secret = 0  BY <1>3, <1>5, <1>11, NoTokenNoSecret
  <2>3. Live(b) => Outdated(r)  BY <1>4, <1>9, <2>2
  <2>4. CASE loaded.id = 0
    <3>1. channels' = [channels EXCEPT ![b] = failed] /\ rowsMade' \in Nat  BY <1>3, <2>1, <2>4
    <3> QED  BY <1>1, <1>2, <1>8, <2>3, <3>1, RowGone
  <2>5. CASE loaded.id # 0
    <3> DEFINE new == Flush(channels[b], loaded, failed)
    <3>1. channels' = [channels EXCEPT ![b] = new] /\ rowsMade' = rowsMade /\ rowsMade' \in Nat
      BY <1>3, <2>1, <2>5
    <3> HIDE DEF row
    <3>2. new \in ChannelRow  BY <1>3, <1>7, <1>8, FlushedColumns
    <3>3. CASE q.id = 0
      <4>1. loaded = channels[b]  BY <3>3
      <4> HIDE DEF loaded
      <4>2. new.token = NoToken /\ new.secret = 0  BY <1>3, <1>7, <1>8, <4>1, FlushedColumns
      <4> HIDE DEF new
      <4> QED  BY <1>1, <1>2, <2>3, <3>1, <3>2, <4>2, RowGone
    <3>4. CASE q.id # 0
      <4>1. loaded = q  BY <3>4
      <4> HIDE DEF loaded
      <4>2. new.token = channels[b].token /\ new.secret = channels[b].secret
        BY <1>3, <1>7, <1>8, <2>2, <4>1, FlushedColumns
      <4> HIDE DEF new
      <4>3. channels[b] = q => ~ IsLive(new)  BY <2>2, <4>2 DEF IsLive
      <4> QED  BY <1>1, <1>2, <1>4, <2>3, <3>1, <3>2, <4>2, <4>3, RowKept
    <3> QED  BY <3>3, <3>4
  <2> QED  BY <2>4, <2>5
<1> QED  BY <1>10, <1>11

\* A connection: a new secret for the token that was checked, and a row that is not live
\* unless the request had read another one.
LEMMA StoreChanges ==
    ASSUME ChannelTypeOK, ChannelInv, NEW r \in ChannelRequests, NEW b \in Bots, b = channelReqs[r].bot,
           ConnectStore(r)
    PROVE  RequestGoesOn(r) /\ RowChanges(r, b)
<1> DEFINE q == channelReqs[r].row
           t == channelReqs[r].token
           s == Len(madeFor) + 1
           new == Unconfirmed(q, t, s)
           row == IF q.id = 0 THEN [new EXCEPT !.id = rowsMade + 1] ELSE StoredToken(channels[b], q, new)
           p == [channelReqs[r] EXCEPT !.at = "stored", !.secret = s, !.row = row]
<1>1. /\ q \in ChannelRow /\ channels[b] \in ChannelRow /\ channels \in [Bots -> ChannelRow] /\ rowsMade \in Nat
      /\ channelReqs \in [ChannelRequests -> ChannelRequest] /\ channelReqs[r] \in ChannelRequest
      /\ pendingBots \subseteq Bots /\ channelBegun \in 0 .. MaxChannelRequests /\ madeFor \in Seq(Tokens)
  BY ChannelTypes DEF ChannelTypeOK
<1>2. /\ channelReqs[r].at = "checked" /\ UNCHANGED <<hooks, pendingBots, channelBegun>>
      /\ channels' = [channels EXCEPT ![b] = row] /\ rowsMade' = (IF q.id = 0 THEN rowsMade + 1 ELSE rowsMade)
      /\ madeFor' = Append(madeFor, t)
  BY DEF ConnectStore
<1>3. channelReqs' = [channelReqs EXCEPT ![r] = p]  BY <1>1 DEF ConnectStore, ChannelRequest
<1>4. t \in Tokens /\ t \in AnyToken /\ s \in Nat /\ s # 0 /\ Linked(q)
  BY <1>1, <1>2 DEF ChannelTypeOK, ChannelInv, AnyToken
<1>5. channels[b] # q => Outdated(r)  BY DEF Outdated
<1>6. s > q.secret  BY <1>1, <1>4 DEF Linked, ChannelRow
<1>7. SecretsStay /\ Len(madeFor') = s /\ madeFor'[s] = t  BY <1>1, <1>2, <1>4 DEF SecretsStay
<1> HIDE DEF q, t, s
<1>8. new \in ChannelRow /\ new.token = t /\ new.secret = s /\ new.connected = FALSE
  BY <1>1, <1>4 DEF Unconfirmed, ChannelRow
<1> HIDE DEF new
<1>9. row \in ChannelRow /\ row.token = t /\ row.secret = s /\ (IsLive(row) => Outdated(r))
  <2>1. CASE q.id = 0
    <3>1. row = [new EXCEPT !.id = rowsMade + 1]  BY <2>1
    <3> HIDE DEF row
    <3>0. rowsMade + 1 \in Nat  BY <1>1
    <3>2. row \in ChannelRow /\ row.token = t /\ row.secret = s /\ row.connected = FALSE
      BY <1>8, <3>0, <3>1 DEF ChannelRow
    <3> QED  BY <3>2 DEF IsLive
  <2>2. CASE q.id # 0
    <3> DEFINE flushed == Flush(channels[b], q, new)
    <3>1. row = [flushed EXCEPT !.token = t]  BY <1>8, <2>2 DEF StoredToken
    <3>2. flushed \in ChannelRow /\ flushed.secret = s
      BY <1>1, <1>6, <1>8, FlushedColumns DEF ChannelRow
    <3>3. channels[b] = q => flushed.connected = FALSE  BY <1>1, <1>8, FlushedOff
    <3> HIDE DEF row, flushed
    <3>4. row \in ChannelRow /\ row.token = t /\ row.secret = s  BY <1>4, <3>1, <3>2 DEF ChannelRow
    <3>5. row.connected = flushed.connected  BY <3>1, <3>2 DEF ChannelRow
    <3> QED  BY <1>5, <3>3, <3>4, <3>5 DEF IsLive
  <2> QED  BY <2>1, <2>2
<1> HIDE DEF row
<1>10. p \in ChannelRequest /\ p.at = "stored" /\ p.row = row  BY <1>1, <1>4, <1>9 DEF ChannelRequest
<1> HIDE DEF p
<1>11. /\ channelReqs' \in [ChannelRequests -> ChannelRequest] /\ channelReqs'[r] = p
       /\ \A c \in ChannelRequests : c # r => channelReqs'[c] = channelReqs[c]
  BY <1>1, <1>3, <1>10
<1>12. /\ channels' \in [Bots -> ChannelRow] /\ channels'[b] = row /\ \A c \in Bots : c # b => channels'[c] = channels[c]
  BY <1>2, <1>9, RowPut
<1>13. RequestGoesOn(r)  BY <1>1, <1>2, <1>10, <1>11, <1>12 DEF RequestGoesOn
<1>14. Acts(r)  BY <1>2, <1>10, <1>11 DEF Acts
<1>15. Linked(channels[b])'  BY <1>4, <1>7, <1>9, <1>12 DEF Linked, BelongTogether
<1>16. Live(b)' => Outdated(r)  BY <1>9, <1>12 DEF Live
<1>17. channels'[b].token = channelReqs[r].token  BY <1>9, <1>12 DEF t
<1>18. rowsMade' \in Nat  BY <1>1, <1>2
<1> QED  BY <1>2, <1>7, <1>12, <1>13, <1>14, <1>15, <1>16, <1>17, <1>18 DEF RowChanges

\* The request r sets or deletes a webhook.  That mutes another channel only where the
\* two share a token, and its own only if it disconnects or is outdated.
HookChanges(r) ==
    /\ Acts(r) /\ UNCHANGED <<channels, madeFor, rowsMade>> /\ hooks' \in [Tokens -> Hook]
    /\ \A b \in Bots : Mute(b)' /\ ~ Mute(b)
          => \/ Outdated(r)
             \/ channelReqs[r].at = "disconnect" /\ channelReqs[r].bot = b
             \/ \E c \in Bots : SharesToken(b, c)

\* Only the webhook of one token changes.
LEMMA MutedByHook ==
    ASSUME ChannelTypeOK, NEW t \in AnyToken, NEW h, hooks' = [hooks EXCEPT ![t] = h],
           UNCHANGED channels, NEW b \in Bots, Mute(b)', ~ Mute(b)
    PROVE  /\ channels[b].token = t /\ t # NoToken
           /\ h # [set |-> TRUE, bot |-> b, secret |-> channels[b].secret]
<1>1. channels'[b] = channels[b] /\ channels[b] \in ChannelRow /\ channels[b].token \in AnyToken
      /\ hooks \in [Tokens -> Hook]
  BY DEF ChannelTypeOK, ChannelRow
<1>2. channels[b].token # NoToken /\ Delivers(b) /\ ~ Delivers(b)'  BY <1>1 DEF Mute, Live, IsLive
<1>3. channels[b].token \in Tokens  BY <1>1, <1>2 DEF AnyToken
<1>4. hooks'[channels[b].token] # hooks[channels[b].token]  BY <1>1, <1>2 DEF Delivers
<1>5. channels[b].token = t  BY <1>1, <1>3, <1>4
<1>6. hooks'[t] = h  BY <1>1, <1>3, <1>5
<1> QED  BY <1>1, <1>2, <1>5, <1>6 DEF Delivers

LEMMA HookSteps ==
    ASSUME ChannelTypeOK, ChannelInv, NEW r \in ChannelRequests, NEW answered \in BOOLEAN,
           SetWebhook(r, answered) \/ DeleteWebhook(r, answered)
    PROVE  RequestGoesOn(r) /\ HookChanges(r)
<1> DEFINE a == channelReqs[r].bot
           t == channelReqs[r].token
<1>1. /\ a \in Bots /\ t \in AnyToken /\ channelReqs[r].secret \in Nat /\ hooks \in [Tokens -> Hook]
      /\ pendingBots \subseteq Bots
  BY ChannelTypes DEF ChannelTypeOK
<1>2. CASE SetWebhook(r, answered)
  <2> DEFINE h == [set |-> TRUE, bot |-> a, secret |-> channelReqs[r].secret]
             at == IF answered THEN "registered" ELSE "refused"
  <2>1. /\ channelReqs[r].at = "stored" /\ hooks' = [hooks EXCEPT ![t] = h]
        /\ channelReqs' = [channelReqs EXCEPT ![r].at = at]
        /\ UNCHANGED <<channels, pendingBots, rowsMade, madeFor, channelBegun>>
    BY <1>2 DEF SetWebhook
  <2>2. /\ at \in RequestPlaces \ {"verify", "checked", "disconnect"} /\ at \in RequestPlaces
        /\ at # "stored"
    BY DEF RequestPlaces
  <2>3. h \in Hook  BY <1>1 DEF Hook
  <2>4. hooks' \in [Tokens -> Hook]
    <3> HIDE DEF h
    <3> QED  BY <1>1, <2>1, <2>3
  <2> HIDE DEF at
  <2>5. RequestGoesOn(r) /\ Acts(r)
    <3>1. RequestGoesOn(r)  BY <2>1, <2>2, MoveGoesOn
    <3>2. channelReqs'[r].at = at  BY <2>1, <2>2, ChannelMoves
    <3> QED  BY <2>1, <2>2, <3>1, <3>2 DEF Acts
  <2>6. ASSUME NEW b \in Bots, Mute(b)', ~ Mute(b)
        PROVE  Outdated(r) \/ \E c \in Bots : SharesToken(b, c)
    <3> HIDE DEF h
    <3>1. /\ channels[b].token = t /\ t # NoToken
          /\ h # [set |-> TRUE, bot |-> b, secret |-> channels[b].secret]
      BY <1>1, <2>1, <2>6, MutedByHook, ZenonT(60)
    <3>2. Outdated(r) \/ <<t, channelReqs[r].secret>> = <<channels[a].token, channels[a].secret>>
      BY <2>1 DEF Outdated
    <3>3. a = b => Outdated(r)  BY <3>1, <3>2 DEF h
    <3>4. a # b => Outdated(r) \/ SharesToken(b, a)  BY <3>1, <3>2 DEF SharesToken, HasStoredToken
    <3> QED  BY <1>1, <3>3, <3>4
  <2> QED  BY <2>1, <2>4, <2>5, <2>6 DEF HookChanges
<1>3. CASE DeleteWebhook(r, answered)
  <2>1. /\ channelReqs[r].at = "disconnect" /\ hooks' = [hooks EXCEPT ![t] = NoHook]
        /\ UNCHANGED <<channels, pendingBots, rowsMade, madeFor, channelBegun>>
        /\ t = channelReqs[r].row.token
    BY <1>3 DEF DeleteWebhook, ChannelInv
  <2>2. NoHook \in Hook  BY SomeBotIsOne DEF NoHook, Hook
  <2>3. hooks' \in [Tokens -> Hook]  BY <1>1, <2>1, <2>2
  <2>4. RequestGoesOn(r) /\ Acts(r)
    <3>1. CASE answered
      <4>1. channelReqs' = [channelReqs EXCEPT ![r].at = "cleared"]  BY <1>3, <3>1 DEF DeleteWebhook
      <4>2. "cleared" \in RequestPlaces \ {"verify", "checked", "disconnect"} /\ "cleared" \in RequestPlaces
        BY DEF RequestPlaces
      <4> QED  BY <2>1, <4>1, <4>2, MoveGoesOn, ChannelMoves DEF Acts
    <3>2. CASE ~ answered
      <4>1. Finish(r)  BY <1>3, <3>2 DEF DeleteWebhook
      <4> QED  BY <1>1, <2>1, <4>1, FinishGoesOn, ChannelFinishes DEF Acts
    <3> QED  BY <3>1, <3>2
  <2>5. ASSUME NEW b \in Bots, Mute(b)', ~ Mute(b)
        PROVE  \/ Outdated(r) \/ channelReqs[r].bot = b
               \/ \E c \in Bots : SharesToken(b, c)
    <3>1. channels[b].token = t /\ t # NoToken  BY <1>1, <2>1, <2>5, MutedByHook, ZenonT(60)
    <3>2. Outdated(r) \/ t = channels[a].token  BY <2>1 DEF Outdated
    <3>3. a # b => Outdated(r) \/ SharesToken(b, a)  BY <3>1, <3>2 DEF SharesToken, HasStoredToken
    <3> QED  BY <1>1, <3>3
  <2> QED  BY <2>1, <2>3, <2>4, <2>5 DEF HookChanges
<1> QED  BY <1>2, <1>3

\* A row is provided: it is not live, and has the token that was there, if any.
RowProvided(b) ==
    /\ UNCHANGED <<hooks, channelReqs, pendingBots, madeFor>> /\ rowsMade' \in Nat
    /\ channelBegun' \in 0 .. MaxChannelRequests
    /\ channels' \in [Bots -> ChannelRow] /\ \A c \in Bots : c # b => channels'[c] = channels[c]
    /\ Linked(channels[b])' /\ ~ Live(b)' /\ channels'[b].token \in {channels[b].token, NoToken}

LEMMA ProvisioningStep ==
    ASSUME ChannelTypeOK, ChannelInv, NEW b \in Bots, StartProvisioning(b)
    PROVE  RowProvided(b)
<1>1. /\ channels[b] \in ChannelRow /\ channels \in [Bots -> ChannelRow] /\ rowsMade \in Nat
      /\ channelBegun \in 0 .. MaxChannelRequests /\ Len(madeFor) \in Nat /\ Linked(channels[b])
  BY DEF ChannelTypeOK, ChannelInv
<1>2. /\ UNCHANGED <<hooks, channelReqs, pendingBots, madeFor>>
      /\ channelBegun' \in 0 .. MaxChannelRequests
  BY <1>1, ChannelBoundAssumption DEF StartProvisioning
<1>3. CASE /\ channels' = [channels EXCEPT ![b] = NewChannel(rowsMade + 1, "channel_pending")]
           /\ rowsMade' = rowsMade + 1
  <2> DEFINE row == NewChannel(rowsMade + 1, "channel_pending")
  <2>1. row \in ChannelRow /\ row.token = NoToken /\ row.secret = 0 /\ rowsMade' \in Nat
    <3>1. rowsMade + 1 \in Nat /\ "channel_pending" \in {"none", "channel_pending", "active", "failed_validation"}
      BY <1>1
    <3> QED  BY <1>3, <3>1, NewChannelTyped
  <2> HIDE DEF row
  <2>2. channels' \in [Bots -> ChannelRow] /\ channels'[b] = row /\ \A c \in Bots : c # b => channels'[c] = channels[c]
    BY <1>3, <2>1, RowPut DEF row
  <2>3. Linked(channels[b])' /\ ~ Live(b)'
    BY <1>1, <1>2, <2>1, <2>2 DEF Linked, BelongTogether, Live, IsLive
  <2> QED  BY <1>2, <2>1, <2>2, <2>3 DEF RowProvided
<1>4. CASE channels' = [channels EXCEPT ![b].status = "channel_pending"] /\ UNCHANGED rowsMade
  <2> DEFINE row == [channels[b] EXCEPT !.status = "channel_pending"]
  <2>1. row \in ChannelRow /\ row.token = channels[b].token /\ row.secret = channels[b].secret
        /\ row.status = "channel_pending"
    BY <1>1 DEF ChannelRow
  <2>2. channels' = [channels EXCEPT ![b] = row]  BY <1>1, <1>4 DEF ChannelRow
  <2> HIDE DEF row
  <2>3. channels' \in [Bots -> ChannelRow] /\ channels'[b] = row /\ \A c \in Bots : c # b => channels'[c] = channels[c]
    BY <2>1, <2>2, RowPut
  <2>4. Linked(channels[b])' /\ ~ Live(b)'
    BY <1>1, <1>2, <2>1, <2>3 DEF Linked, BelongTogether, Live, IsLive
  <2> QED  BY <1>1, <1>2, <1>4, <2>1, <2>3, <2>4 DEF RowProvided
<1> QED  BY <1>3, <1>4 DEF StartProvisioning

----------------------------------------
\* Every step is one of these.
LEMMA ChannelSteps ==
    ASSUME ChannelTypeOK, ChannelInv, ChannelNext
    PROVE  \/ \E b \in Bots : RowProvided(b)
           \/ \E r \in ChannelRequests :
                /\ RequestGoesOn(r)
                /\ \/ ChannelsStay \/ HookChanges(r)
                   \/ \E b \in Bots : b = channelReqs[r].bot /\ RowChanges(r, b)
<1>1. ASSUME NEW b \in Bots, StartProvisioning(b) PROVE RowProvided(b)  BY <1>1, ProvisioningStep
<1>2. ASSUME NEW r \in ChannelRequests,
             \/ \E b \in Bots : SyncRead(r, b) \/ DisconnectRead(r, b) \/ \E t \in Tokens : ConnectRead(r, b, t)
             \/ ResyncAll(r)
      PROVE  RequestGoesOn(r) /\ ChannelsStay
  BY <1>2, ReadingSteps
<1>3. ASSUME NEW r \in ChannelRequests,
             \/ \E b \in Bots : ResyncNext(r, b)
             \/ ConnectCheck(r) \/ SyncStore(r) \/ SetWebhookRefused(r) \/ ActivateBot(r)
             \/ ChannelError(r) \/ ChannelDie(r)
      PROVE  RequestGoesOn(r) /\ ChannelsStay
  BY <1>3, StayingSteps
<1>4. ASSUME NEW r \in ChannelRequests, NEW answered \in BOOLEAN,
             SetWebhook(r, answered) \/ DeleteWebhook(r, answered)
      PROVE  RequestGoesOn(r) /\ HookChanges(r)
  BY <1>4, HookSteps
<1>5. ASSUME NEW r \in ChannelRequests,
             ConnectInvalid(r) \/ ConnectStore(r) \/ MarkRegistrationFailed(r) \/ Activate(r) \/ Disconnect(r)
      PROVE  RequestGoesOn(r) /\ \E b \in Bots : b = channelReqs[r].bot /\ RowChanges(r, b)
  <2>1. PICK b \in Bots : b = channelReqs[r].bot  BY ChannelTypes
  <2>2. RequestGoesOn(r) /\ RowChanges(r, b)
    BY <1>5, <2>1, InvalidChanges, StoreChanges, MarkChanges, ActivateChanges, DisconnectChanges
  <2> QED  BY <2>1, <2>2
<1>6. CASE \E b \in Bots : StartProvisioning(b)  BY <1>1, <1>6
<1>7. ASSUME NEW r \in ChannelRequests,
             \/ \E b \in Bots : \/ SyncRead(r, b) \/ ResyncNext(r, b) \/ DisconnectRead(r, b)
                                \/ \E t \in Tokens : ConnectRead(r, b, t)
             \/ \E answered \in BOOLEAN : SetWebhook(r, answered) \/ DeleteWebhook(r, answered)
             \/ ConnectInvalid(r) \/ ConnectCheck(r) \/ ConnectStore(r) \/ ResyncAll(r) \/ SyncStore(r)
             \/ SetWebhookRefused(r) \/ MarkRegistrationFailed(r) \/ Activate(r) \/ ActivateBot(r)
             \/ Disconnect(r) \/ ChannelError(r) \/ ChannelDie(r)
      PROVE  /\ RequestGoesOn(r)
             /\ \/ ChannelsStay \/ HookChanges(r)
                \/ \E b \in Bots : b = channelReqs[r].bot /\ RowChanges(r, b)
  BY <1>2, <1>3, <1>4, <1>5, <1>7
<1> QED  BY <1>6, <1>7 DEF ChannelNext

\* What the requests hold is linked as the rows are.
LEMMA RequestsStayLinked ==
    ASSUME ChannelTypeOK, ChannelInv, NEW r \in ChannelRequests, RequestGoesOn(r), SecretsStay,
           \A b \in Bots : Linked(channels[b])'
    PROVE  \A s \in ChannelRequests :
              /\ Linked(channelReqs[s].row)'
              /\ channelReqs'[s].at = "checked" => channelReqs'[s].token \notin channelReqs'[s].seen
              /\ channelReqs'[s].at = "disconnect" => channelReqs'[s].token = channelReqs'[s].row.token
              /\ channelReqs'[s].at \in {"verify", "checked"} => channelReqs'[s].token \in Tokens
<1> TAKE s \in ChannelRequests
<1>1. CASE s # r
  <2>1. channelReqs'[s] = channelReqs[s] /\ channelReqs[s].row \in ChannelRow /\ Linked(channelReqs[s].row)
    BY <1>1, ChannelTypes DEF RequestGoesOn, ChannelInv
  <2>2. Linked(channelReqs[s].row)'
    <3> DEFINE row == channelReqs[s].row
    <3>1. PICK held \in ChannelRow : held = row /\ Linked(held)  BY <2>1
    <3>2. held.secret <= Len(madeFor') /\ held.token = IF held.secret = 0 THEN NoToken ELSE madeFor'[held.secret]
      BY <3>1, LinkStays
    <3>3. channelReqs'[s].row = held  BY <2>1, <3>1
    <3> QED  BY <3>2, <3>3 DEF Linked, BelongTogether
  <2>3. /\ channelReqs[s].at = "checked" => channelReqs[s].token \notin channelReqs[s].seen
        /\ channelReqs[s].at = "disconnect" => channelReqs[s].token = channelReqs[s].row.token
        /\ channelReqs[s].at \in {"verify", "checked"} => channelReqs[s].token \in Tokens
    BY DEF ChannelTypeOK, ChannelInv
  <2> QED  BY <2>1, <2>2, <2>3
<1>2. CASE s = r
  <2>1. CASE channelReqs'[r].row = channelReqs[r].row
    <3>1. channelReqs[r].row \in ChannelRow /\ Linked(channelReqs[r].row)
      BY ChannelTypes DEF ChannelInv
    <3>2. PICK held \in ChannelRow : held = channelReqs[r].row /\ Linked(held)  BY <3>1
    <3>3. held.secret <= Len(madeFor') /\ held.token = IF held.secret = 0 THEN NoToken ELSE madeFor'[held.secret]
      BY <3>2, LinkStays
    <3>4. channelReqs'[r].row = held  BY <2>1, <3>2
    <3>5. Linked(channelReqs[r].row)'  BY <3>3, <3>4 DEF Linked, BelongTogether
    <3> QED  BY <1>2, <3>5 DEF RequestGoesOn
  <2>2. CASE channelReqs'[r].row = NoChannel
    <3>1. Len(madeFor') \in Nat  BY DEF SecretsStay
    <3>2. Linked(channelReqs[r].row)'  BY <2>2, <3>1, NoChannelTyped DEF Linked, BelongTogether
    <3> QED  BY <1>2, <3>2 DEF RequestGoesOn
  <2>3. ASSUME NEW b \in Bots, channelReqs'[r].row = channels'[b]
        PROVE  Linked(channelReqs[r].row)'
    <3>1. Linked(channels[b])'  OBVIOUS
    <3> QED  BY <2>3, <3>1 DEF Linked, BelongTogether
  <2>4. CASE \E b \in Bots : channelReqs'[r].row = channels'[b]  BY <1>2, <2>3, <2>4 DEF RequestGoesOn
  <2> QED  BY <2>1, <2>2, <2>4 DEF RequestGoesOn
<1> QED  BY <1>1, <1>2

\* The rows stay linked when one of them is written.
LEMMA RowsStayLinked ==
    ASSUME ChannelTypeOK, ChannelInv, SecretsStay, NEW b \in Bots, Linked(channels[b])',
           \A c \in Bots : c # b => channels'[c] = channels[c]
    PROVE  \A c \in Bots : Linked(channels[c])'
<1> TAKE c \in Bots
<1>1. CASE c # b
  <2>1. PICK held \in ChannelRow : held = channels[c] /\ Linked(held)  BY DEF ChannelTypeOK, ChannelInv
  <2>2. held.secret <= Len(madeFor') /\ held.token = IF held.secret = 0 THEN NoToken ELSE madeFor'[held.secret]
    BY <2>1, LinkStays
  <2>3. channels'[c] = held  BY <1>1, <2>1
  <2> QED  BY <2>2, <2>3 DEF Linked, BelongTogether
<1> QED  BY <1>1

LEMMA ChannelInitially == ChannelInit => ChannelTypeOK /\ ChannelInv
<1> SUFFICES ASSUME ChannelInit PROVE ChannelTypeOK /\ ChannelInv  OBVIOUS
<1>1. NoHook \in Hook  BY SomeBotIsOne DEF NoHook, Hook
<1>2. madeFor = << >> /\ Len(madeFor) = 0  BY DEF ChannelInit
<1>3. ChannelTypeOK
  <2>1. /\ channels \in [Bots -> ChannelRow] /\ hooks \in [Tokens -> Hook]
        /\ channelReqs \in [ChannelRequests -> ChannelRequest]
    BY <1>1, NoChannelTyped, ChannelIdleTyped DEF ChannelInit
  <2>2. \A r \in ChannelRequests : channelReqs[r].at = "idle"  BY ChannelIdleTyped DEF ChannelInit
  <2> QED  BY <2>1, <2>2, ChannelBoundAssumption DEF ChannelInit, ChannelTypeOK
<1>4. Linked(NoChannel)  BY <1>2, NoChannelTyped DEF Linked, BelongTogether
<1>5. ChannelInv  BY <1>4, ChannelIdleTyped DEF ChannelInit, ChannelInv
<1> QED  BY <1>3, <1>5

LEMMA ChannelInductive ==
    ASSUME ChannelTypeOK, ChannelInv, [ChannelNext]_channelVars
    PROVE  (ChannelTypeOK /\ ChannelInv)'
<1>1. ASSUME NEW b \in Bots, RowProvided(b) PROVE (ChannelTypeOK /\ ChannelInv)'
  <2>1. SecretsStay  BY <1>1, SameSecretsStay DEF RowProvided
  <2>2. \A c \in Bots : Linked(channels[c])'  BY <1>1, <2>1, RowsStayLinked DEF RowProvided
  <2>3. ChannelTypeOK'  BY <1>1 DEF RowProvided, ChannelTypeOK
  <2>4. \A r \in ChannelRequests : Linked(channelReqs[r].row)'
    <3> TAKE r \in ChannelRequests
    <3>1. channelReqs'[r].row = channelReqs[r].row /\ madeFor' = madeFor /\ Linked(channelReqs[r].row)
      BY <1>1 DEF RowProvided, ChannelInv
    <3> QED  BY <3>1 DEF Linked, BelongTogether
  <2>5. ChannelInv'  BY <1>1, <2>2, <2>4 DEF RowProvided, ChannelInv
  <2> QED  BY <2>3, <2>5
<1>2. ASSUME NEW r \in ChannelRequests, RequestGoesOn(r), SecretsStay,
             channels' \in [Bots -> ChannelRow], hooks' \in [Tokens -> Hook], rowsMade' \in Nat,
             \A c \in Bots : Linked(channels[c])'
      PROVE  (ChannelTypeOK /\ ChannelInv)'
  <2>1. \A s \in ChannelRequests :
           /\ Linked(channelReqs[s].row)'
           /\ channelReqs'[s].at = "checked" => channelReqs'[s].token \notin channelReqs'[s].seen
           /\ channelReqs'[s].at = "disconnect" => channelReqs'[s].token = channelReqs'[s].row.token
           /\ channelReqs'[s].at \in {"verify", "checked"} => channelReqs'[s].token \in Tokens
    BY <1>2, RequestsStayLinked
  <2>2. ChannelTypeOK'  BY <1>2, <2>1 DEF ChannelTypeOK, RequestGoesOn, SecretsStay
  <2>3. ChannelInv'  BY <1>2, <2>1 DEF ChannelInv
  <2> QED  BY <2>2, <2>3
<1>3. ASSUME UNCHANGED <<channels, madeFor>> PROVE \A c \in Bots : Linked(channels[c])'
  BY <1>3 DEF ChannelInv, Linked, BelongTogether
<1>4. ASSUME NEW r \in ChannelRequests, RequestGoesOn(r), ChannelsStay
      PROVE  (ChannelTypeOK /\ ChannelInv)'
  BY <1>2, <1>3, <1>4, SameSecretsStay DEF ChannelsStay, ChannelTypeOK
<1>5. ASSUME NEW r \in ChannelRequests, RequestGoesOn(r), HookChanges(r)
      PROVE  (ChannelTypeOK /\ ChannelInv)'
  BY <1>2, <1>3, <1>5, SameSecretsStay DEF HookChanges, ChannelTypeOK
<1>6. ASSUME NEW r \in ChannelRequests, RequestGoesOn(r), NEW b \in Bots, RowChanges(r, b)
      PROVE  (ChannelTypeOK /\ ChannelInv)'
  <2>1. /\ SecretsStay /\ channels' \in [Bots -> ChannelRow] /\ rowsMade' \in Nat /\ UNCHANGED hooks
        /\ Linked(channels[b])' /\ \A c \in Bots : c # b => channels'[c] = channels[c]
    BY <1>6 DEF RowChanges
  <2>2. \A c \in Bots : Linked(channels[c])'  BY <2>1, RowsStayLinked
  <2>3. hooks' \in [Tokens -> Hook]  BY <2>1 DEF ChannelTypeOK
  <2> QED  BY <1>2, <1>6, <2>1, <2>2, <2>3
<1>7. CASE ChannelNext  BY <1>1, <1>4, <1>5, <1>6, <1>7, ChannelSteps
<1>8. CASE UNCHANGED channelVars
  BY <1>8 DEF channelVars, ChannelTypeOK, ChannelInv, Linked, BelongTogether
<1> QED  BY <1>7, <1>8

\* The type invariant and the links of rows, secrets and webhooks, in every reachable state.
THEOREM ChannelTypeCorrect == ChannelSpec => [](ChannelTypeOK /\ ChannelInv)
<1>1. ChannelInit => ChannelTypeOK /\ ChannelInv  BY ChannelInitially
<1>2. (ChannelTypeOK /\ ChannelInv) /\ [ChannelNext]_channelVars => (ChannelTypeOK /\ ChannelInv)'
  BY ChannelInductive
<1> QED  BY <1>1, <1>2, PTL DEF ChannelSpec

----------------------------------------
\* What a single step may not do: the bodies of the three action properties.
MutedStep(r, b) ==
    /\ Acts(r)
    /\ \/ Outdated(r) \/ Superseded(r)
       \/ channelReqs[r].at = "disconnect" /\ channelReqs[r].bot = b
       \/ \E c \in Bots : SharesToken(b, c)

MuteStep == \A b \in Bots : Mute(b)' /\ ~ Mute(b) => \E r \in ChannelRequests : MutedStep(r, b)

SharedUnseen(r) ==
    Acts(r) /\ channelReqs[r].at = "checked" /\ channelReqs[r].seen # AttachedTo(Bots \ {channelReqs[r].bot})

ShareStep ==
    \A b, c \in Bots : SharesToken(b, c)' /\ ~ SharesToken(b, c)
        => \/ Mixed(b) \/ Mixed(c)
           \/ \E r \in ChannelRequests : SharedUnseen(r)

RefusedStep ==
    \A r \in ChannelRequests, b \in Bots :
        channelReqs[r].at = "verify" /\ Acts(r) /\ Live(b) /\ ~ Live(b)' => Outdated(r)

\* Rows that get no token come to share none.
LEMMA SharedBefore ==
    ASSUME NEW b \in Bots, NEW c \in Bots, SharesToken(b, c)',
           channels'[b].token \in {channels[b].token, NoToken}, channels'[c].token \in {channels[c].token, NoToken}
    PROVE  SharesToken(b, c)
BY DEF SharesToken, HasStoredToken

LEMMA SameRowSameLife ==
    ASSUME NEW b \in Bots, channels'[b] = channels[b]
    PROVE  /\ Live(b)' <=> Live(b)
           /\ UNCHANGED hooks => (Mute(b)' <=> Mute(b))
BY DEF Mute, Live, IsLive, Delivers

LEMMA ProvisioningHolds ==
    ASSUME ChannelTypeOK, NEW b \in Bots, RowProvided(b)
    PROVE  MuteStep /\ ShareStep /\ RefusedStep
<1>1. \A c \in Bots : channels'[c].token \in {channels[c].token, NoToken}  BY DEF RowProvided
<1>2. ShareStep  BY <1>1, SharedBefore DEF ShareStep
<1>3. MuteStep
  <2>1. ~ Mute(b)'  BY DEF RowProvided, Mute, Live
  <2> QED  BY <2>1, SameRowSameLife DEF MuteStep, RowProvided
<1>4. RefusedStep  BY DEF RefusedStep, RowProvided, Acts
<1> QED  BY <1>2, <1>3, <1>4

LEMMA HookHolds ==
    ASSUME ChannelTypeOK, NEW r \in ChannelRequests, HookChanges(r)
    PROVE  MuteStep /\ ShareStep /\ RefusedStep
<1>1. \A c \in Bots : channels'[c] = channels[c]  BY DEF HookChanges
<1>2. ShareStep  BY <1>1, SharedBefore DEF ShareStep
<1>3. MuteStep  BY DEF MuteStep, MutedStep, HookChanges
<1>4. RefusedStep  BY <1>1, SameRowSameLife DEF RefusedStep
<1> QED  BY <1>2, <1>3, <1>4

LEMMA NoChangeHolds ==
    ASSUME ChannelTypeOK, UNCHANGED <<channels, hooks>>
    PROVE  MuteStep /\ ShareStep /\ RefusedStep
<1>1. \A c \in Bots : channels'[c] = channels[c]  OBVIOUS
<1>2. ShareStep  BY <1>1, SharedBefore DEF ShareStep
<1>3. MuteStep  BY <1>1, SameRowSameLife DEF MuteStep
<1>4. RefusedStep  BY <1>1, SameRowSameLife DEF RefusedStep
<1> QED  BY <1>2, <1>3, <1>4

\* The token that a connection stores was attached to no bot that the request has seen.
LEMMA StoredUnseen ==
    ASSUME ChannelTypeOK, ChannelInv, NEW r \in ChannelRequests, NEW b \in Bots, b = channelReqs[r].bot,
           RowChanges(r, b), NEW c \in Bots, c # b, channels'[b].token = channels'[c].token,
           channels'[c].token # NoToken, channels'[b].token \notin {channels[b].token, NoToken}
    PROVE  Mixed(c) \/ SharedUnseen(r)
<1>1. /\ channelReqs[r].at = "checked" /\ channels'[b].token = channelReqs[r].token
      /\ Acts(r) /\ channels'[c] = channels[c]
  BY DEF RowChanges
<1>2. channelReqs[r].token \in Tokens /\ channelReqs[r].token \notin channelReqs[r].seen
  BY <1>1 DEF ChannelTypeOK, ChannelInv
<1>3. CASE channels[c].telegramId = channels[c].token
  <2>1. channelReqs[r].token = channels[c].telegramId /\ c \in Bots \ {channelReqs[r].bot}
    BY <1>1, <1>3
  <2>2. channelReqs[r].token \in AttachedTo(Bots \ {channelReqs[r].bot})
    BY <1>2, <2>1, NoTokenAssumption DEF AttachedTo
  <2> QED  BY <1>1, <1>2, <2>2 DEF SharedUnseen
<1> QED  BY <1>3 DEF Mixed

LEMMA RowHolds ==
    ASSUME ChannelTypeOK, ChannelInv, NEW r \in ChannelRequests, RequestGoesOn(r),
           NEW b \in Bots, b = channelReqs[r].bot, RowChanges(r, b)
    PROVE  MuteStep /\ ShareStep /\ RefusedStep
<1>1. /\ Acts(r) /\ UNCHANGED hooks /\ \A c \in Bots : c # b => channels'[c] = channels[c]
  BY DEF RowChanges
<1>2. ASSUME NEW c \in Bots, Mute(c)', ~ Mute(c) PROVE MutedStep(r, c)
  <2>1. c = b  BY <1>1, <1>2, SameRowSameLife
  <2>2. Live(b)' /\ ~ Delivers(b)'  BY <1>2, <2>1 DEF Mute
  <2>3. CASE ~ Outdated(r)
    <3>1. /\ channels'[b].token = channels[b].token /\ channels'[b].secret = channels[b].secret
          /\ channelReqs[r].at = "registered" \/ Live(b)
      BY <2>2, <2>3 DEF RowChanges
    <3>2. ~ Delivers(b)  BY <1>1, <2>2, <3>1 DEF Delivers
    <3>3. channelReqs[r].at = "registered"  BY <1>2, <2>1, <3>1, <3>2 DEF Mute
    <3>4. channelReqs[r].token = channels[b].token /\ channelReqs[r].secret = channels[b].secret
      BY <2>3, <3>3 DEF Outdated
    <3>5. Superseded(r)  BY <3>2, <3>3, <3>4 DEF Superseded, Delivers
    <3> QED  BY <1>1, <3>5 DEF MutedStep
  <2> QED  BY <1>1, <2>3 DEF MutedStep
<1>3. ASSUME NEW c \in Bots, NEW d \in Bots, SharesToken(c, d)', ~ SharesToken(c, d)
      PROVE  Mixed(c) \/ Mixed(d) \/ SharedUnseen(r)
  <2>1. /\ c # d /\ channels'[c].token = channels'[d].token /\ channels'[c].token # NoToken
    BY <1>3 DEF SharesToken, HasStoredToken
  <2>2. channels'[b].token \notin {channels[b].token, NoToken}  BY <1>1, <1>3, SharedBefore
  <2>3. CASE c = b  BY <2>1, <2>2, <2>3, StoredUnseen
  <2>4. CASE d = b  BY <2>1, <2>2, <2>4, StoredUnseen
  <2>5. CASE c # b /\ d # b  BY <1>1, <1>3, <2>5, SharedBefore
  <2> QED  BY <2>3, <2>4, <2>5
<1>4. ASSUME NEW s \in ChannelRequests, NEW c \in Bots,
             channelReqs[s].at = "verify", Acts(s), Live(c), ~ Live(c)'
      PROVE  Outdated(s)
  <2>1. s = r  BY <1>4 DEF RequestGoesOn, Acts
  <2>2. c = b  BY <1>1, <1>4, SameRowSameLife
  <2> QED  BY <1>4, <2>1, <2>2 DEF RowChanges
<1> QED  BY <1>2, <1>3, <1>4 DEF MuteStep, ShareStep, RefusedStep

LEMMA ChannelStepHolds ==
    ASSUME ChannelTypeOK, ChannelInv, [ChannelNext]_channelVars
    PROVE  MuteStep /\ ShareStep /\ RefusedStep
<1>1. CASE ChannelNext
  <2>1. CASE \E b \in Bots : RowProvided(b)  BY <2>1, ProvisioningHolds
  <2>2. ASSUME NEW r \in ChannelRequests, RequestGoesOn(r),
               \/ ChannelsStay \/ HookChanges(r)
               \/ \E b \in Bots : b = channelReqs[r].bot /\ RowChanges(r, b)
        PROVE  MuteStep /\ ShareStep /\ RefusedStep
    <3>1. CASE ChannelsStay  BY <3>1, NoChangeHolds DEF ChannelsStay
    <3>2. CASE HookChanges(r)  BY <3>2, HookHolds
    <3>3. CASE \E b \in Bots : b = channelReqs[r].bot /\ RowChanges(r, b)  BY <2>2, <3>3, RowHolds
    <3> QED  BY <2>2, <3>1, <3>2, <3>3
  <2> QED  BY <1>1, <2>1, <2>2, ChannelSteps
<1>2. CASE UNCHANGED channelVars  BY <1>2, NoChangeHolds DEF channelVars
<1> QED  BY <1>1, <1>2

\* However the requests about channels overlap and fail: the secret of a row was made for
\* its token, and a live channel loses its updates, a token comes to serve two bots, or a
\* refused token takes a channel down only by the overlaps that ChannelsHold names.
THEOREM ChannelsAlwaysHold == ChannelSpec => ChannelsHold
<1>1. ChannelTypeOK /\ ChannelInv => SecretBelongsToToken
  BY DEF ChannelInv, SecretBelongsToToken, Linked
<1>2. ChannelTypeOK /\ ChannelInv /\ [ChannelNext]_channelVars => [MuteStep]_channelVars
  BY ChannelStepHolds
<1>3. ChannelTypeOK /\ ChannelInv /\ [ChannelNext]_channelVars => [ShareStep]_channelVars
  BY ChannelStepHolds
<1>4. ChannelTypeOK /\ ChannelInv /\ [ChannelNext]_channelVars => [RefusedStep]_channelVars
  BY ChannelStepHolds
<1>5. MuteOnlyByOverlap <=> [][MuteStep]_channelVars  BY PTL DEF MuteOnlyByOverlap, MuteStep, MutedStep
<1>6. OneBotPerToken <=> [][ShareStep]_channelVars  BY PTL DEF OneBotPerToken, ShareStep, SharedUnseen
<1>7. RefusedTokenKeepsChannel <=> [][RefusedStep]_channelVars
  BY PTL DEF RefusedTokenKeepsChannel, RefusedStep
<1> QED  BY <1>1, <1>2, <1>3, <1>4, <1>5, <1>6, <1>7, ChannelTypeCorrect, PTL DEF ChannelSpec, ChannelsHold

----------------------------------------
\* WidgetConfiguration.

Working == [at : {"idle", "look", "lock", "relook", "insert", "commit", "write"},
            op : {"none", "shown", "get", "patch"}, ask : WidgetPatch, copy : WidgetRow, tries : 0 .. MaxKeyAttempts]

LEMMA NewWidgetTyped ==
    ASSUME NEW k \in Nat
    PROVE  NewWidget(k) \in WidgetRow /\ NewWidget(k).key = k
<1>1. FirstGreeting \in Greetings  BY WidgetAssumption DEF FirstGreeting
<1> QED  BY <1>1 DEF NewWidget, WidgetRow

LEMMA WidgetIdleTyped ==
    WidgetIdle \in Working /\ WidgetIdle.at = "idle" /\ WidgetIdle.op = "none"
<1>1. NothingKept \in WidgetPatch  BY DEF NothingKept, WidgetPatch
<1>2. 0 \in 0 .. MaxKeyAttempts  BY WidgetAssumption
<1>3. NewWidget(0) \in WidgetRow  BY NewWidgetTyped
<1> QED  BY <1>1, <1>2, <1>3 DEF WidgetIdle, Working

LEMMA MergedWidgetTyped ==
    ASSUME NEW row \in WidgetRow, NEW copy \in WidgetRow, NEW ask \in WidgetPatch
    PROVE  /\ MergedWidget(row, copy, ask) \in WidgetRow
           /\ MergedWidget(row, copy, ask).key = row.key
           /\ \A f \in {"enabled", "greeting"} :
                 MergedWidget(row, copy, ask)[f] = IF ask[f] \notin {KeepWidget, copy[f]} THEN ask[f] ELSE row[f]
<1>1. DOMAIN row = {"key", "enabled", "greeting"} /\ DOMAIN ask = {"enabled", "greeting"}
  BY DEF WidgetRow, WidgetPatch
<1>2. /\ row.key \in Nat /\ row.enabled \in BOOLEAN /\ row.greeting \in Greetings
      /\ ask.enabled \in BOOLEAN \cup {KeepWidget} /\ ask.greeting \in Greetings \cup {KeepWidget}
  BY DEF WidgetRow, WidgetPatch
<1>3. /\ MergedWidget(row, copy, ask).key = row.key
      /\ \A f \in {"enabled", "greeting"} :
            MergedWidget(row, copy, ask)[f] = IF ask[f] \notin {KeepWidget, copy[f]} THEN ask[f] ELSE row[f]
  BY <1>1 DEF MergedWidget
<1>4. MergedWidget(row, copy, ask).enabled \in BOOLEAN /\ MergedWidget(row, copy, ask).greeting \in Greetings
  BY <1>2, <1>3
<1>5. /\ DOMAIN MergedWidget(row, copy, ask) = {"key", "enabled", "greeting"}
      /\ MergedWidget(row, copy, ask) = [f \in {"key", "enabled", "greeting"} |-> MergedWidget(row, copy, ask)[f]]
  BY <1>1 DEF MergedWidget
<1>6. MergedWidget(row, copy, ask) \in WidgetRow  BY <1>2, <1>3, <1>4, <1>5 DEF WidgetRow
<1> QED  BY <1>3, <1>6

\* What is common to all steps of a request: the others stand where they stood.
Alone(w) ==
    /\ widgetReqs' \in [WidgetWorkers -> Working]
    /\ \A v \in WidgetWorkers : v # w => widgetReqs'[v] = widgetReqs[v]

LEMMA WidgetTypes ==
    ASSUME WidgetTypeOK
    PROVE  /\ widgetReqs \in [WidgetWorkers -> Working] /\ widgetRows \in Seq(WidgetRow)
           /\ widgetLock \in WidgetWorkers \cup {NoWorker} /\ keysGiven \subseteq Nat
           /\ widgetBegun \in 0 .. MaxWidgetRequests /\ botLives \in BOOLEAN
BY DEF WidgetTypeOK, Working

\* A request is refused or answered.
LEMMA WidgetAnswered ==
    ASSUME WidgetTypeOK, NEW w \in WidgetWorkers, WidgetAnswer(w)
    PROVE  /\ Alone(w) /\ widgetReqs'[w].at = "idle" /\ widgetReqs'[w].op = "none"
           /\ widgetLock' = IF widgetLock = w THEN NoWorker ELSE widgetLock
BY WidgetTypes, WidgetIdleTyped DEF WidgetAnswer, Closed, Alone

LEMMA WidgetShown ==
    ASSUME WidgetTypeOK, NEW w \in WidgetWorkers, NEW row \in WidgetRow, Shows(w, row)
    PROVE  /\ Alone(w) /\ widgetReqs'[w].at = "idle" /\ widgetReqs'[w].op = "shown"
           /\ widgetLock' = IF widgetLock = w THEN NoWorker ELSE widgetLock
           /\ keysGiven' = keysGiven \cup {row.key} /\ row.key \in Nat
<1>1. /\ [WidgetIdle EXCEPT !.op = "shown"] \in Working
      /\ [WidgetIdle EXCEPT !.op = "shown"].at = "idle" /\ [WidgetIdle EXCEPT !.op = "shown"].op = "shown"
  BY WidgetIdleTyped DEF Working
<1>2. /\ widgetReqs'[w] = [WidgetIdle EXCEPT !.op = "shown"]
      /\ Alone(w)
  BY <1>1, WidgetTypes DEF Shows, Alone
<1>3. row.key \in Nat  BY DEF WidgetRow
<1> QED  BY <1>1, <1>2, <1>3, WidgetTypes DEF Alone, Shows, Closed

\* A request goes on: to another step, with a row in hand, or to its next attempt.
LEMMA WidgetGoesOn ==
    ASSUME WidgetTypeOK, NEW w \in WidgetWorkers, NEW at \in {"lock", "relook", "insert", "write"},
           widgetReqs' = [widgetReqs EXCEPT ![w].at = at]
    PROVE  Alone(w) /\ widgetReqs'[w].at = at /\ widgetReqs'[w].op = widgetReqs[w].op
<1>1. widgetReqs[w] \in Working /\ widgetReqs \in [WidgetWorkers -> Working]  BY WidgetTypes
<1> QED  BY <1>1 DEF Alone, Working

LEMMA WidgetTakesRow ==
    ASSUME WidgetTypeOK, NEW w \in WidgetWorkers, NEW at \in {"commit", "write"}, NEW row \in WidgetRow,
           widgetReqs' = [widgetReqs EXCEPT ![w].at = at, ![w].copy = row]
    PROVE  Alone(w) /\ widgetReqs'[w].at = at /\ widgetReqs'[w].op = widgetReqs[w].op
<1>1. widgetReqs[w] \in Working /\ widgetReqs \in [WidgetWorkers -> Working]  BY WidgetTypes
<1> QED  BY <1>1 DEF Alone, Working

LEMMA WidgetTriesAgain ==
    ASSUME WidgetTypeOK, NEW w \in WidgetWorkers, widgetReqs[w].tries + 1 < MaxKeyAttempts,
           widgetReqs' = [widgetReqs EXCEPT ![w].tries = @ + 1]
    PROVE  Alone(w) /\ widgetReqs'[w].at = widgetReqs[w].at /\ widgetReqs'[w].op = widgetReqs[w].op
<1>1. widgetReqs[w] \in Working /\ widgetReqs \in [WidgetWorkers -> Working]  BY WidgetTypes
<1>2. widgetReqs[w].tries + 1 \in 0 .. MaxKeyAttempts  BY <1>1, WidgetAssumption DEF Working
<1> QED  BY <1>1, <1>2 DEF Alone, Working

\* The step of one request keeps the invariant.  Who looks again, inserts or commits holds
\* the lock; who stops doing so gives it back; and the row comes and goes as it may.
LEMMA WidgetStep ==
    ASSUME WidgetTypeOK, WidgetInv, NEW w \in WidgetWorkers, Alone(w),
           widgetReqs'[w].at # "idle" => widgetReqs'[w].op # "shown",
           \/ /\ widgetReqs'[w].at \notin {"relook", "insert", "commit"}
              /\ widgetLock' = widgetLock \/ widgetLock' = (IF widgetLock = w THEN NoWorker ELSE widgetLock)
           \/ widgetLock' = w /\ widgetLock \in {w, NoWorker},
           widgetReqs'[w].at \in {"insert", "commit"} => widgetRows' = << >>,
           widgetBegun' \in 0 .. MaxWidgetRequests, botLives' = botLives, keysGiven' \subseteq Nat,
           widgetRows' \in Seq(WidgetRow), Len(widgetRows') <= 1,
           (\E v \in WidgetWorkers \ {w} : widgetReqs[v].at \in {"insert", "commit"}) => widgetRows' = widgetRows,
           KeyStays'
    PROVE  WidgetTypeOK' /\ WidgetInv'
<1>1. /\ widgetReqs' \in [WidgetWorkers -> Working]
      /\ \A v \in WidgetWorkers : v # w => widgetReqs'[v] = widgetReqs[v]
  BY DEF Alone
<1>2. widgetLock' \in WidgetWorkers \cup {NoWorker} /\ botLives' \in BOOLEAN  BY WidgetTypes
<1>3. WidgetTypeOK'  BY <1>1, <1>2 DEF WidgetTypeOK, Working
<1>4. ASSUME NEW v \in WidgetWorkers, widgetReqs'[v].at \in {"relook", "insert", "commit"}
      PROVE  widgetLock' = v
  <2>1. CASE v = w  BY <1>4, <2>1
  <2>2. CASE v # w
    <3>1. widgetLock = v  BY <1>1, <1>4, <2>2 DEF WidgetInv, OneWidget
    <3> QED  BY <2>2, <3>1, NoWorkerAssumption
  <2> QED  BY <2>1, <2>2
<1>5. ASSUME NEW v \in WidgetWorkers, widgetReqs'[v].at \in {"insert", "commit"}
      PROVE  widgetRows' = << >>
  <2>1. CASE v = w  BY <1>5, <2>1
  <2>2. CASE v # w  BY <1>1, <1>5, <2>2 DEF WidgetInv, OneWidget
  <2> QED  BY <2>1, <2>2
<1>6. OneWidget'  BY <1>4, <1>5 DEF OneWidget
<1>7. \A v \in WidgetWorkers : widgetReqs'[v].at # "idle" => widgetReqs'[v].op # "shown"
  BY <1>1 DEF WidgetInv
<1> QED  BY <1>3, <1>6, <1>7 DEF WidgetInv

LEMMA WidgetFacts ==
    ASSUME WidgetTypeOK, WidgetInv
    PROVE  /\ widgetBegun \in 0 .. MaxWidgetRequests /\ keysGiven \subseteq Nat
           /\ widgetRows \in Seq(WidgetRow) /\ Len(widgetRows) <= 1
           /\ widgetRows # << >> => widgetRows[1] \in WidgetRow /\ Len(widgetRows) = 1
           /\ \A w \in WidgetWorkers :
                 /\ widgetReqs[w].copy \in WidgetRow /\ widgetReqs[w].ask \in WidgetPatch
                 /\ widgetReqs[w].at \in {"relook", "insert", "commit"} => widgetLock = w
                 /\ widgetReqs[w].at \in {"insert", "commit"} => widgetRows = << >>
                 /\ widgetReqs[w].at # "idle" => widgetReqs[w].op # "shown"
<1>1. widgetRows \in Seq(WidgetRow) /\ Len(widgetRows) \in Nat /\ Len(widgetRows) <= 1
  BY WidgetTypes, LenProperties DEF WidgetInv, OneWidget
<1>2. widgetRows # << >> => widgetRows[1] \in WidgetRow /\ Len(widgetRows) = 1
  <2>1. widgetRows # << >> => Len(widgetRows) # 0  BY <1>1, EmptySeq
  <2>2. widgetRows # << >> => 1 \in 1 .. Len(widgetRows) /\ Len(widgetRows) = 1  BY <1>1, <2>1
  <2> QED  BY <1>1, <2>2, ElementOfSeq
<1>3. \A w \in WidgetWorkers : widgetReqs[w].copy \in WidgetRow /\ widgetReqs[w].ask \in WidgetPatch
  BY WidgetTypes DEF Working
<1> QED  BY <1>1, <1>2, <1>3, WidgetTypes DEF WidgetInv, OneWidget

\* A request that leaves the rows alone and shows nothing, or the key that is stored.
LEMMA RowsStay ==
    ASSUME WidgetTypeOK, WidgetInv, NEW w \in WidgetWorkers, Alone(w),
           widgetReqs'[w].at # "idle" => widgetReqs'[w].op # "shown",
           \/ /\ widgetReqs'[w].at \notin {"relook", "insert", "commit"}
              /\ widgetLock' = widgetLock \/ widgetLock' = (IF widgetLock = w THEN NoWorker ELSE widgetLock)
           \/ widgetLock' = w /\ widgetLock \in {w, NoWorker},
           widgetReqs'[w].at \in {"insert", "commit"} => widgetRows = << >>,
           UNCHANGED <<botLives, widgetRows>>, widgetBegun' \in 0 .. MaxWidgetRequests,
           keysGiven' = keysGiven \/ (widgetRows # << >> /\ keysGiven' = keysGiven \cup {widgetRows[1].key})
    PROVE  WidgetTypeOK' /\ WidgetInv'
<1>1. KeyStays'  BY DEF WidgetInv, KeyStays
<1>2. /\ keysGiven \subseteq Nat /\ widgetRows \in Seq(WidgetRow) /\ Len(widgetRows) <= 1
      /\ widgetRows # << >> => widgetRows[1] \in WidgetRow
  BY WidgetFacts
<1>3. widgetRows # << >> => widgetRows[1].key \in Nat  BY <1>2 DEF WidgetRow
<1>4. keysGiven' \subseteq Nat
  <2>1. CASE keysGiven' = keysGiven  BY <1>2, <2>1
  <2>2. CASE widgetRows # << >> /\ keysGiven' = keysGiven \cup {widgetRows[1].key}  BY <1>2, <1>3, <2>2
  <2> QED  BY <2>1, <2>2
<1>5. widgetRows' = widgetRows  OBVIOUS
<1>6. widgetRows' \in Seq(WidgetRow) /\ Len(widgetRows') <= 1  BY <1>2, <1>5
<1> QED  BY <1>1, <1>4, <1>5, <1>6, WidgetStep

LEMMA WidgetAtFirst == WidgetInit => WidgetTypeOK /\ WidgetInv
<1> SUFFICES ASSUME WidgetInit PROVE WidgetTypeOK /\ WidgetInv  OBVIOUS
<1>1. /\ widgetReqs \in [WidgetWorkers -> Working]
      /\ \A w \in WidgetWorkers : widgetReqs[w].at = "idle"
  BY WidgetIdleTyped DEF WidgetInit
<1>2. widgetRows \in Seq(WidgetRow) /\ Len(widgetRows) = 0  BY EmptySeq DEF WidgetInit
<1>3. WidgetTypeOK  BY <1>1, <1>2, WidgetAssumption DEF WidgetInit, WidgetTypeOK, Working
<1>4. OneWidget /\ KeyStays  BY <1>1, <1>2 DEF WidgetInit, OneWidget, KeyStays
<1> QED  BY <1>1, <1>3, <1>4 DEF WidgetInv

LEMMA WidgetBegins ==
    ASSUME WidgetTypeOK, WidgetInv, NEW w \in WidgetWorkers, NEW op \in {"get", "patch"}, NEW ask \in WidgetPatch,
           BeginWidget(w, op, ask)
    PROVE  WidgetTypeOK' /\ WidgetInv'
<1>1. /\ [WidgetIdle EXCEPT !.at = "look", !.op = op, !.ask = ask] \in Working
      /\ [WidgetIdle EXCEPT !.at = "look", !.op = op, !.ask = ask].at = "look"
      /\ [WidgetIdle EXCEPT !.at = "look", !.op = op, !.ask = ask].op = op
  BY WidgetIdleTyped DEF Working
<1>2. /\ widgetReqs'[w] = [WidgetIdle EXCEPT !.at = "look", !.op = op, !.ask = ask]
      /\ Alone(w)
  BY <1>1, WidgetTypes DEF BeginWidget, Alone
<1>3. UNCHANGED <<botLives, widgetRows, widgetLock, keysGiven>> /\ widgetBegun' \in 0 .. MaxWidgetRequests
  BY WidgetTypes, WidgetAssumption DEF BeginWidget
<1> QED  BY <1>1, <1>2, <1>3, RowsStay

\* What HasRow does.
LEMMA RowInHand ==
    ASSUME WidgetTypeOK, WidgetInv, NEW w \in WidgetWorkers, widgetReqs[w].at \in {"look", "relook"},
           widgetRows # << >>, HasRow(w, widgetRows[1]), UNCHANGED <<botLives, widgetRows, widgetBegun>>
    PROVE  WidgetTypeOK' /\ WidgetInv'
<1>1. widgetRows[1] \in WidgetRow /\ widgetBegun' \in 0 .. MaxWidgetRequests /\ widgetReqs[w].op # "shown"
  BY WidgetFacts
<1>2. CASE Shows(w, widgetRows[1])
  <2>1. /\ Alone(w) /\ widgetReqs'[w].at = "idle"
        /\ widgetLock' = IF widgetLock = w THEN NoWorker ELSE widgetLock
        /\ keysGiven' = keysGiven \cup {widgetRows[1].key}
    BY <1>1, <1>2, WidgetShown
  <2> QED  BY <1>1, <2>1, RowsStay
<1>3. CASE /\ widgetReqs' = [widgetReqs EXCEPT ![w].at = "write", ![w].copy = widgetRows[1]]
           /\ UNCHANGED <<widgetLock, keysGiven>>
  <2>1. Alone(w) /\ widgetReqs'[w].at = "write" /\ widgetReqs'[w].op = widgetReqs[w].op
    BY <1>1, <1>3, WidgetTakesRow
  <2> QED  BY <1>1, <1>3, <2>1, RowsStay
<1> QED  BY <1>2, <1>3 DEF HasRow

LEMMA WidgetIsRefused ==
    ASSUME WidgetTypeOK, WidgetInv, NEW w \in WidgetWorkers, WidgetRefused(w),
           UNCHANGED <<botLives, widgetRows, widgetBegun>>
    PROVE  WidgetTypeOK' /\ WidgetInv'
<1>1. /\ Alone(w) /\ widgetReqs'[w].at = "idle" /\ widgetReqs'[w].op = "none" /\ keysGiven' = keysGiven
      /\ widgetLock' = IF widgetLock = w THEN NoWorker ELSE widgetLock
  BY WidgetAnswered DEF WidgetRefused
<1>2. widgetBegun' \in 0 .. MaxWidgetRequests  BY WidgetFacts
<1> QED  BY <1>1, <1>2, RowsStay

LEMMA WidgetLooks ==
    ASSUME WidgetTypeOK, WidgetInv, NEW w \in WidgetWorkers,
           LookForWidget(w) \/ LockWidget(w) \/ LookAgain(w)
    PROVE  WidgetTypeOK' /\ WidgetInv'
<1>1. UNCHANGED <<botLives, widgetRows, widgetBegun>>  BY DEF LookForWidget, LockWidget, LookAgain
<1>2. /\ widgetBegun' \in 0 .. MaxWidgetRequests
      /\ widgetReqs[w].at # "idle" => widgetReqs[w].op # "shown"
      /\ widgetReqs[w].at = "relook" => widgetLock = w
  BY <1>1, WidgetFacts
<1>3. CASE LookForWidget(w)
  <2>1. CASE WidgetRefused(w)  BY <1>1, <2>1, WidgetIsRefused
  <2>2. CASE widgetRows # << >> /\ HasRow(w, widgetRows[1])
    BY <1>1, <1>3, <2>2, RowInHand DEF LookForWidget
  <2>3. CASE widgetReqs' = [widgetReqs EXCEPT ![w].at = "lock"] /\ UNCHANGED <<widgetLock, keysGiven>>
    <3>1. Alone(w) /\ widgetReqs'[w].at = "lock" /\ widgetReqs'[w].op = widgetReqs[w].op
      BY <2>3, WidgetGoesOn
    <3>2. widgetReqs[w].at # "idle"  BY <1>3 DEF LookForWidget
    <3> QED  BY <1>1, <1>2, <2>3, <3>1, <3>2, RowsStay
  <2> QED  BY <1>3, <2>1, <2>2, <2>3 DEF LookForWidget
<1>4. CASE LockWidget(w)
  <2>1. Alone(w) /\ widgetReqs'[w].at = "relook" /\ widgetReqs'[w].op = widgetReqs[w].op
    BY <1>4, WidgetGoesOn DEF LockWidget
  <2>2. widgetReqs[w].at # "idle" /\ widgetLock' = w /\ widgetLock \in {w, NoWorker} /\ keysGiven' = keysGiven
    BY <1>4 DEF LockWidget
  <2> QED  BY <1>1, <1>2, <2>1, <2>2, RowsStay
<1>5. CASE LookAgain(w)
  <2>1. CASE widgetRows # << >>  BY <1>1, <1>5, <2>1, RowInHand DEF LookAgain, FoundUnderLock
  <2>2. CASE widgetRows = << >>
    <3>1. /\ widgetReqs' = [widgetReqs EXCEPT ![w].at = "insert"] /\ UNCHANGED <<widgetLock, keysGiven>>
          /\ widgetReqs[w].at = "relook"
      BY <1>5, <2>2 DEF LookAgain, FoundUnderLock
    <3>2. Alone(w) /\ widgetReqs'[w].at = "insert" /\ widgetReqs'[w].op = widgetReqs[w].op
      BY <3>1, WidgetGoesOn
    <3> QED  BY <1>1, <1>2, <2>2, <3>1, <3>2, RowsStay
  <2> QED  BY <2>1, <2>2
<1> QED  BY <1>3, <1>4, <1>5

LEMMA WidgetInserts ==
    ASSUME WidgetTypeOK, WidgetInv, NEW w \in WidgetWorkers, NEW taken \in BOOLEAN, InsertWidget(w, taken)
    PROVE  WidgetTypeOK' /\ WidgetInv'
<1>1. /\ UNCHANGED <<botLives, widgetRows, widgetBegun>> /\ widgetReqs[w].at = "insert"
      /\ widgetBegun' \in 0 .. MaxWidgetRequests /\ widgetReqs[w].op # "shown"
      /\ widgetLock = w /\ widgetRows = << >> /\ Len(widgetRows) + 1 \in Nat
  BY WidgetFacts DEF InsertWidget
<1>2. CASE /\ widgetReqs' = [widgetReqs EXCEPT ![w].at = "commit", ![w].copy = NewWidget(Len(widgetRows) + 1)]
           /\ UNCHANGED <<widgetLock, keysGiven>>
  <2>1. NewWidget(Len(widgetRows) + 1) \in WidgetRow  BY <1>1, NewWidgetTyped
  <2>2. Alone(w) /\ widgetReqs'[w].at = "commit" /\ widgetReqs'[w].op = widgetReqs[w].op
    BY <1>2, <2>1, WidgetTakesRow
  <2> QED  BY <1>1, <1>2, <2>2, RowsStay
<1>3. CASE /\ widgetReqs[w].tries + 1 < MaxKeyAttempts
           /\ widgetReqs' = [widgetReqs EXCEPT ![w].tries = @ + 1] /\ UNCHANGED <<widgetLock, keysGiven>>
  <2>1. Alone(w) /\ widgetReqs'[w].at = widgetReqs[w].at /\ widgetReqs'[w].op = widgetReqs[w].op
    BY <1>3, WidgetTriesAgain
  <2> QED  BY <1>1, <1>3, <2>1, RowsStay
<1>4. CASE WidgetRefused(w)  BY <1>1, <1>4, WidgetIsRefused
<1> QED  BY <1>2, <1>3, <1>4 DEF InsertWidget

LEMMA WidgetCommits ==
    ASSUME WidgetTypeOK, WidgetInv, NEW w \in WidgetWorkers, CommitWidget(w)
    PROVE  WidgetTypeOK' /\ WidgetInv'
<1>0. PICK row : row = widgetReqs[w].copy  OBVIOUS
<1>1. /\ row \in WidgetRow /\ widgetRows = << >> /\ widgetReqs[w].at = "commit"
      /\ widgetRows' = Append(widgetRows, row) /\ UNCHANGED <<botLives, widgetBegun>>
      /\ widgetBegun' \in 0 .. MaxWidgetRequests /\ widgetReqs[w].op # "shown" /\ keysGiven \subseteq Nat
      /\ widgetLock = w
  BY <1>0, WidgetFacts DEF CommitWidget
<1>2. widgetRows' = <<row>> /\ widgetRows' \in Seq(WidgetRow) /\ Len(widgetRows') = 1 /\ widgetRows'[1] = row
  BY <1>1
<1>3. botLives => keysGiven = {}  BY <1>1 DEF WidgetInv, KeyStays
<1>4. \A v \in WidgetWorkers \ {w} : widgetReqs[v].at \notin {"insert", "commit"}  BY <1>1, WidgetFacts
<1>5. /\ Alone(w) /\ widgetReqs'[w].at \in {"idle", "write"}
      /\ widgetReqs'[w].at # "idle" => widgetReqs'[w].op # "shown"
      /\ widgetLock' = IF widgetLock = w THEN NoWorker ELSE widgetLock
      /\ keysGiven' = keysGiven \/ (keysGiven' = keysGiven \cup {row.key} /\ row.key \in Nat)
  <2>1. CASE Shows(w, row)  BY <1>1, <2>1, WidgetShown
  <2>2. CASE /\ widgetReqs' = [widgetReqs EXCEPT ![w].at = "write"] /\ Closed(w) /\ UNCHANGED keysGiven
    BY <1>1, <2>2, WidgetGoesOn DEF Closed
  <2> QED  BY <1>0, <2>1, <2>2 DEF CommitWidget
<1>6. KeyStays'
  <2> SUFFICES ASSUME botLives, NEW k \in keysGiven' PROVE widgetRows' # << >> /\ widgetRows'[1].key = k
    BY <1>1 DEF KeyStays
  <2>1. k = row.key  BY <1>3, <1>5
  <2> QED  BY <1>2, <2>1
<1>7. keysGiven' \subseteq Nat  BY <1>1, <1>5
<1>9. Len(widgetRows') <= 1  BY <1>2
<1>8. widgetReqs'[w].at \notin {"relook", "insert", "commit"}  BY <1>5
<1> QED  BY <1>1, <1>2, <1>4, <1>5, <1>6, <1>7, <1>8, <1>9, WidgetStep

\* What a PATCH leaves behind.
LEMMA WidgetWritten ==
    ASSUME WidgetTypeOK, WidgetInv, NEW w \in WidgetWorkers, WriteWidget(w), widgetRows # << >>
    PROVE  /\ widgetRows' = [widgetRows EXCEPT ![1] =
                  MergedWidget(widgetRows[1], widgetReqs[w].copy, widgetReqs[w].ask)]
           /\ widgetRows' \in Seq(WidgetRow) /\ Len(widgetRows') = 1
           /\ widgetRows'[1] = MergedWidget(widgetRows[1], widgetReqs[w].copy, widgetReqs[w].ask)
           /\ widgetRows'[1].key = widgetRows[1].key
<1>1. /\ widgetRows \in Seq(WidgetRow) /\ Len(widgetRows) = 1 /\ widgetRows[1] \in WidgetRow
      /\ widgetReqs[w].copy \in WidgetRow /\ widgetReqs[w].ask \in WidgetPatch
  BY WidgetFacts
<1>2. PICK merged : merged = MergedWidget(widgetRows[1], widgetReqs[w].copy, widgetReqs[w].ask)  OBVIOUS
<1>3. merged \in WidgetRow /\ merged.key = widgetRows[1].key  BY <1>1, <1>2, MergedWidgetTyped
<1>4. widgetRows' = [widgetRows EXCEPT ![1] = merged]  BY <1>2 DEF WriteWidget
<1>5. widgetRows' \in Seq(WidgetRow) /\ Len(widgetRows') = 1 /\ widgetRows'[1] = merged
  BY <1>1, <1>3, <1>4
<1> QED  BY <1>2, <1>3, <1>4, <1>5

LEMMA WidgetWrites ==
    ASSUME WidgetTypeOK, WidgetInv, NEW w \in WidgetWorkers, WriteWidget(w)
    PROVE  WidgetTypeOK' /\ WidgetInv'
<1>1. CASE widgetRows = << >>  BY <1>1, WidgetIsRefused DEF WriteWidget
<1>2. CASE widgetRows # << >>
  <2>1. /\ widgetRows' \in Seq(WidgetRow) /\ Len(widgetRows') = 1 /\ widgetRows'[1].key = widgetRows[1].key
        /\ widgetRows' # << >>
    BY <1>2, WidgetWritten
  <2>2. /\ widgetRows[1] \in WidgetRow /\ keysGiven \subseteq Nat
        /\ \A v \in WidgetWorkers : widgetReqs[v].at \notin {"insert", "commit"}
        /\ botLives' = botLives /\ widgetBegun' \in 0 .. MaxWidgetRequests
    BY <1>2, WidgetFacts DEF WriteWidget
  <2>3. /\ Alone(w) /\ widgetReqs'[w].at = "idle"
        /\ widgetLock' = IF widgetLock = w THEN NoWorker ELSE widgetLock
        /\ keysGiven' = keysGiven \cup {widgetRows[1].key} /\ widgetRows[1].key \in Nat
    BY <1>2, <2>2, WidgetShown DEF WriteWidget
  <2>4. KeyStays'  BY <1>2, <2>1, <2>2, <2>3 DEF WidgetInv, KeyStays
  <2>5. keysGiven' \subseteq Nat  BY <2>2, <2>3
  <2>6. Len(widgetRows') <= 1  BY <2>1
  <2> QED  BY <2>1, <2>2, <2>3, <2>4, <2>5, <2>6, WidgetStep
<1> QED  BY <1>1, <1>2

LEMMA BotIsDropped ==
    ASSUME WidgetTypeOK, WidgetInv, DropBot
    PROVE  WidgetTypeOK' /\ WidgetInv'
<1>1. /\ botLives' = FALSE /\ widgetRows' = << >> /\ UNCHANGED <<widgetLock, widgetReqs, keysGiven, widgetBegun>>
      /\ widgetRows' \in Seq(WidgetRow) /\ Len(widgetRows') = 0
  BY EmptySeq DEF DropBot
<1>2. WidgetTypeOK'  BY <1>1 DEF WidgetTypeOK
<1>3. KeyStays' /\ OneWidget'  BY <1>1 DEF WidgetInv, KeyStays, OneWidget
<1>4. \A w \in WidgetWorkers : widgetReqs'[w].at # "idle" => widgetReqs'[w].op # "shown"
  BY <1>1 DEF WidgetInv
<1> QED  BY <1>2, <1>3, <1>4 DEF WidgetInv

LEMMA WidgetKept ==
    ASSUME WidgetTypeOK, WidgetInv, [WidgetNext]_widgetVars
    PROVE  WidgetTypeOK' /\ WidgetInv'
<1>1. ASSUME NEW w \in WidgetWorkers, GetWidget(w) PROVE WidgetTypeOK' /\ WidgetInv'
  <2>1. NothingKept \in WidgetPatch  BY DEF NothingKept, WidgetPatch
  <2> QED  BY <1>1, <2>1, WidgetBegins DEF GetWidget
<1>2. ASSUME NEW w \in WidgetWorkers, NEW ask \in WidgetPatch, PatchWidget(w, ask)
      PROVE  WidgetTypeOK' /\ WidgetInv'
  BY <1>2, WidgetBegins DEF PatchWidget
<1>3. ASSUME NEW w \in WidgetWorkers, WidgetRequestDies(w) PROVE WidgetTypeOK' /\ WidgetInv'
  BY <1>3, WidgetIsRefused DEF WidgetRequestDies
<1>4. CASE UNCHANGED widgetVars
  <2>1. UNCHANGED <<botLives, widgetRows, widgetLock, widgetReqs, keysGiven, widgetBegun>>
    BY <1>4 DEF widgetVars
  <2>2. WidgetTypeOK'  BY <2>1 DEF WidgetTypeOK
  <2>3. OneWidget' /\ KeyStays'  BY <2>1 DEF WidgetInv, OneWidget, KeyStays
  <2>4. \A w \in WidgetWorkers : widgetReqs'[w].at # "idle" => widgetReqs'[w].op # "shown"
    BY <2>1 DEF WidgetInv
  <2> QED  BY <2>2, <2>3, <2>4 DEF WidgetInv
<1>5. CASE WidgetNext
  BY <1>1, <1>2, <1>3, <1>5, WidgetLooks, WidgetInserts, WidgetCommits, WidgetWrites, BotIsDropped, Zenon
     DEF WidgetNext
<1> QED  BY <1>4, <1>5

\* The rows of the widget, the requests and the lock keep their types, and the invariant
\* holds, for any number of requests.
THEOREM WidgetTypeCorrect == WidgetSpec => [](WidgetTypeOK /\ WidgetInv)
<1>1. WidgetInit => WidgetTypeOK /\ WidgetInv  BY WidgetAtFirst
<1>2. (WidgetTypeOK /\ WidgetInv) /\ [WidgetNext]_widgetVars => (WidgetTypeOK /\ WidgetInv)'
  BY WidgetKept
<1> QED  BY <1>1, <1>2, PTL DEF WidgetSpec

LEMMA OthersStand ==
    ASSUME WidgetTypeOK, NEW v \in WidgetWorkers, NEW w \in WidgetWorkers \ {v},
           \/ GetWidget(v) \/ LookForWidget(v) \/ LockWidget(v) \/ LookAgain(v) \/ CommitWidget(v)
           \/ WriteWidget(v) \/ WidgetRequestDies(v)
           \/ (\E ask \in WidgetPatch : PatchWidget(v, ask)) \/ (\E taken \in BOOLEAN : InsertWidget(v, taken))
    PROVE  widgetReqs'[w] = widgetReqs[w]
<1>1. widgetReqs \in [WidgetWorkers -> Working] /\ w # v /\ w \in WidgetWorkers  BY WidgetTypes
<1>2. CASE GetWidget(v) \/ \E ask \in WidgetPatch : PatchWidget(v, ask)
  <2>1. PICK q : widgetReqs' = [widgetReqs EXCEPT ![v] = q]
    BY <1>2, Zenon DEF GetWidget, PatchWidget, BeginWidget
  <2> QED  BY <1>1, <2>1
<1>3. CASE LookForWidget(v) \/ LookAgain(v)
  BY <1>1, <1>3 DEF LookForWidget, LookAgain, HasRow, WidgetRefused, WidgetAnswer, Shows
<1>4. CASE LockWidget(v) \/ CommitWidget(v)  BY <1>1, <1>4 DEF LockWidget, CommitWidget, Shows
<1>5. CASE WriteWidget(v) \/ WidgetRequestDies(v)
  BY <1>1, <1>5 DEF WriteWidget, WidgetRequestDies, WidgetRefused, WidgetAnswer, Shows
<1>6. CASE \E taken \in BOOLEAN : InsertWidget(v, taken)
  <2>1. \/ widgetReqs' = [widgetReqs EXCEPT ![v].at = "commit", ![v].copy = NewWidget(Len(widgetRows) + 1)]
        \/ widgetReqs' = [widgetReqs EXCEPT ![v].tries = @ + 1]
        \/ widgetReqs' = [widgetReqs EXCEPT ![v] = WidgetIdle]
    BY <1>6, Zenon DEF InsertWidget, WidgetRefused, WidgetAnswer
  <2>2. CASE widgetReqs' = [widgetReqs EXCEPT ![v].at = "commit", ![v].copy = NewWidget(Len(widgetRows) + 1)]
    BY <1>1, <2>2
  <2>3. CASE widgetReqs' = [widgetReqs EXCEPT ![v].tries = @ + 1]  BY <1>1, <2>3
  <2>4. CASE widgetReqs' = [widgetReqs EXCEPT ![v] = WidgetIdle]  BY <1>1, <2>4
  <2> QED  BY <2>1, <2>2, <2>3, <2>4
<1> QED  BY <1>2, <1>3, <1>4, <1>5, <1>6

\* However many first requests overlap, a bot has one widget; the key that was shown is
\* good for as long as the bot is there; and a PATCH writes what it was asked for, unless
\* that was changed since it read (get_or_create_widget_config_for_bot).
THEOREM WidgetAlwaysHolds == WidgetSpec => WidgetHolds
<1> DEFINE Asked(w) == widgetReqs[w].at = "write" /\ widgetReqs'[w].op = "shown" =>
        \A f \in {"enabled", "greeting"} :
            LET ask == widgetReqs[w].ask[f]  old == widgetRows[1][f]  new == widgetRows'[1][f] IN
            \/ new = ask
            \/ new = old /\ (ask = KeepWidget \/ widgetReqs[w].copy[f] # old)
<1>1. ASSUME WidgetTypeOK, WidgetInv, [WidgetNext]_widgetVars, NEW w \in WidgetWorkers,
             widgetReqs[w].at = "write", widgetReqs'[w].op = "shown"
      PROVE  WriteWidget(w) /\ widgetRows # << >>
  <2>1. widgetReqs[w].op # "shown"  BY <1>1, WidgetFacts
  <2>2. ~ UNCHANGED widgetVars /\ ~ DropBot  BY <1>1, <2>1 DEF widgetVars, DropBot
  <2>3. PICK v \in WidgetWorkers :
           \/ GetWidget(v) \/ LookForWidget(v) \/ LockWidget(v) \/ LookAgain(v) \/ CommitWidget(v)
           \/ WriteWidget(v) \/ WidgetRequestDies(v)
           \/ (\E ask \in WidgetPatch : PatchWidget(v, ask)) \/ (\E taken \in BOOLEAN : InsertWidget(v, taken))
    BY <1>1, <2>2 DEF WidgetNext
  <2>4. v = w  BY <1>1, <2>1, <2>3, OthersStand
  <2>5. WriteWidget(w) \/ WidgetRequestDies(w)
    <3>1. ~ GetWidget(w) /\ ~ \E ask \in WidgetPatch : PatchWidget(w, ask)
      BY <1>1 DEF GetWidget, PatchWidget, BeginWidget
    <3>2. ~ LookForWidget(w) /\ ~ LockWidget(w) /\ ~ LookAgain(w) /\ ~ CommitWidget(w)
      BY <1>1 DEF LookForWidget, LockWidget, LookAgain, CommitWidget
    <3>3. ~ \E taken \in BOOLEAN : InsertWidget(w, taken)  BY <1>1 DEF InsertWidget
    <3> QED  BY <2>3, <2>4, <3>1, <3>2, <3>3
  <2>6. WidgetRefused(w) => widgetReqs'[w].op = "none"  BY <1>1, WidgetAnswered DEF WidgetRefused
  <2> QED  BY <1>1, <2>5, <2>6 DEF WriteWidget, WidgetRequestDies
<1>2. ASSUME WidgetTypeOK, WidgetInv, [WidgetNext]_widgetVars, NEW w \in WidgetWorkers PROVE Asked(w)
  <2> SUFFICES ASSUME widgetReqs[w].at = "write", widgetReqs'[w].op = "shown", NEW f \in {"enabled", "greeting"}
               PROVE  \/ widgetRows'[1][f] = widgetReqs[w].ask[f]
                      \/ /\ widgetRows'[1][f] = widgetRows[1][f]
                         /\ widgetReqs[w].ask[f] = KeepWidget \/ widgetReqs[w].copy[f] # widgetRows[1][f]
    OBVIOUS
  <2>1. WriteWidget(w) /\ widgetRows # << >>  BY <1>1, <1>2
  <2>2. widgetRows'[1] = MergedWidget(widgetRows[1], widgetReqs[w].copy, widgetReqs[w].ask)
    BY <1>2, <2>1, WidgetWritten
  <2>3. widgetRows[1] \in WidgetRow /\ widgetReqs[w].copy \in WidgetRow /\ widgetReqs[w].ask \in WidgetPatch
    BY <1>2, <2>1, WidgetFacts
  <2>4. \A row, copy \in WidgetRow, ask \in WidgetPatch :
            MergedWidget(row, copy, ask)[f] = IF ask[f] \notin {KeepWidget, copy[f]} THEN ask[f] ELSE row[f]
    BY MergedWidgetTyped
  <2>5. widgetRows'[1][f] = IF widgetReqs[w].ask[f] \notin {KeepWidget, widgetReqs[w].copy[f]}
                            THEN widgetReqs[w].ask[f] ELSE widgetRows[1][f]
    BY <2>2, <2>3, <2>4
  <2> QED  BY <2>5
<1>3. WidgetTypeOK /\ WidgetInv /\ [WidgetNext]_widgetVars => \A w \in WidgetWorkers : Asked(w)  BY <1>2
<1>4. WidgetInv => OneWidget /\ KeyStays  BY DEF WidgetInv
<1> QED  BY <1>3, <1>4, WidgetTypeCorrect, PTL DEF WidgetSpec, WidgetHolds, PatchIsWritten

----------------------------------------
\* WidgetAbuse.  The judged messages, the row and the copies, as functions of the history.
JudgedOf(m, b, i) ==
    {j \in 1 .. i : m[j].refused[b] \cap {"burst", "same"} = {} /\ ~ (b = "redis" /\ "row" \in m[j].failing)}
Bridged(m, b, j, k) == \E l \in JudgedOf(m, b, k - 1) : l >= j /\ m[k].at < m[l].at + RowTtl
Chained(m, b, i, j, k) == m[k].text = m[i].text /\ (k > j /\ b = "redis" => Bridged(m, b, j, k))
RowOf(m, b, i) == {j \in JudgedOf(m, b, i) : \A k \in JudgedOf(m, b, i) : k >= j => Chained(m, b, i, j, k)}
CopiesOf(m, b, text, now) ==
    {j \in 1 .. Len(m) : /\ m[j].refused[b] = {} /\ m[j].text = text
                        /\ m[j].at + SameWindow > now
                        /\ ~ (b = "redis" /\ lenient /\ "same" \in m[j].failing)}
Ordered(m) == \A j \in 1 .. Len(m) : \A k \in j .. Len(m) : m[j].at <= m[k].at

LEMMA HistoryOperators ==
    /\ \A b, i : Judged(b, i) = JudgedOf(messages, b, i)
    /\ \A b, i : InARow(b, i) = RowOf(messages, b, i)
    /\ \A b, t : Copies(b, t) = CopiesOf(messages, b, t, time)
<1>1. \A b, i : Judged(b, i) = JudgedOf(messages, b, i)  BY Zenon DEF Judged, JudgedOf, Before
<1>2. ASSUME NEW b, NEW i, NEW j \in JudgedOf(messages, b, i)
      PROVE  (\A k \in {k \in Judged(b, i) : k >= j} :
                 /\ messages[k].text = messages[i].text
                 /\ k > j /\ b = "redis" => \E l \in Judged(b, k - 1) : l >= j /\ messages[k].at < messages[l].at + RowTtl)
             <=> \A k \in JudgedOf(messages, b, i) : k >= j => Chained(messages, b, i, j, k)
  BY <1>1, Zenon DEF Chained, Bridged
<1>3. \A b, i : InARow(b, i) = RowOf(messages, b, i)  BY <1>1, <1>2, ZenonT(60) DEF InARow, RowOf
<1>4. \A b, t : Copies(b, t) = CopiesOf(messages, b, t, time)  BY Zenon DEF Copies, CopiesOf, Passed
<1> QED  BY <1>1, <1>3, <1>4

LEMMA HistoryOperatorsPrimed ==
    /\ \A b, i : Judged(b, i)' = JudgedOf(messages', b, i)
    /\ \A b, i : InARow(b, i)' = RowOf(messages', b, i)
    /\ \A b, t : lenient' = lenient => Copies(b, t)' = CopiesOf(messages', b, t, time')
<1>1. \A b, i : Judged(b, i)' = JudgedOf(messages', b, i)  BY Zenon DEF Judged, JudgedOf, Before
<1>2. ASSUME NEW b, NEW i, NEW j \in JudgedOf(messages', b, i)
      PROVE  (\A k \in {k \in Judged(b, i)' : k >= j} :
                 /\ messages'[k].text = messages'[i].text
                 /\ k > j /\ b = "redis" => \E l \in Judged(b, k - 1)' : l >= j /\ messages'[k].at < messages'[l].at + RowTtl)
             <=> \A k \in JudgedOf(messages', b, i) : k >= j => Chained(messages', b, i, j, k)
  BY <1>1, Zenon DEF Chained, Bridged
<1>3. \A b, i : InARow(b, i)' = RowOf(messages', b, i)  BY <1>1, <1>2, ZenonT(60) DEF InARow, RowOf
<1>4. ASSUME NEW b, NEW t, lenient' = lenient PROVE Copies(b, t)' = CopiesOf(messages', b, t, time')
  BY <1>4, Zenon DEF Copies, CopiesOf, Passed
<1> QED  BY <1>1, <1>3, <1>4

\* One more message leaves the judgement of the others as it is.
Grown(m, m2) ==
    /\ m \in Seq(HeardMessage) /\ m2 \in Seq(HeardMessage)
    /\ Len(m) \in Nat /\ Len(m2) = Len(m) + 1 /\ \A j \in 1 .. Len(m) : m2[j] = m[j]

LEMMA MessageGrows ==
    ASSUME NEW m \in Seq(HeardMessage), NEW r \in HeardMessage
    PROVE  Grown(m, Append(m, r)) /\ Append(m, r)[Len(m) + 1] = r
BY AppendProperties, LenProperties DEF Grown

LEMMA JudgedGrows ==
    ASSUME NEW m, NEW m2, Grown(m, m2), NEW b \in Backends
    PROVE  /\ \A i \in 0 .. Len(m) : JudgedOf(m2, b, i) = JudgedOf(m, b, i)
           /\ Len(m2) \notin JudgedOf(m2, b, Len(m2)) => JudgedOf(m2, b, Len(m2)) = JudgedOf(m, b, Len(m))
           /\ Len(m2) \in JudgedOf(m2, b, Len(m2)) =>
                 JudgedOf(m2, b, Len(m2)) = JudgedOf(m, b, Len(m)) \cup {Len(m2)}
<1>1. /\ Len(m2) = Len(m) + 1 /\ Len(m) \in Nat
      /\ \A j \in 1 .. Len(m) : m2[j] = m[j]
  BY DEF Grown
<1>2. \A i \in 0 .. Len(m) : JudgedOf(m2, b, i) = JudgedOf(m, b, i)
  <2> SUFFICES ASSUME NEW i \in 0 .. Len(m) PROVE JudgedOf(m2, b, i) = JudgedOf(m, b, i)  OBVIOUS
  <2>1. \A j \in 1 .. i : m2[j] = m[j]  BY <1>1
  <2> QED  BY <2>1, Zenon DEF JudgedOf
<1>3. \A j \in 1 .. Len(m2) : j \in 1 .. Len(m) \/ j = Len(m2)  BY <1>1
<1>4. \A j \in 1 .. Len(m) : j \in JudgedOf(m2, b, Len(m2)) <=> j \in JudgedOf(m2, b, Len(m))
  <2>1. \A j \in 1 .. Len(m) : j \in 1 .. Len(m2)  BY <1>1
  <2> QED  BY <2>1, Zenon DEF JudgedOf
<1>5. JudgedOf(m2, b, Len(m2)) \subseteq 1 .. Len(m2) /\ JudgedOf(m2, b, Len(m)) \subseteq 1 .. Len(m)
  BY Zenon DEF JudgedOf
<1>6. JudgedOf(m2, b, Len(m)) = JudgedOf(m, b, Len(m))  BY <1>1, <1>2
<1>7. Len(m2) \notin JudgedOf(m2, b, Len(m2)) => JudgedOf(m2, b, Len(m2)) = JudgedOf(m, b, Len(m))
  <2> SUFFICES ASSUME Len(m2) \notin JudgedOf(m2, b, Len(m2)), NEW j
               PROVE  j \in JudgedOf(m2, b, Len(m2)) <=> j \in JudgedOf(m2, b, Len(m))
    BY <1>6
  <2> QED  BY <1>3, <1>4, <1>5
<1>8. Len(m2) \in JudgedOf(m2, b, Len(m2)) =>
         JudgedOf(m2, b, Len(m2)) = JudgedOf(m, b, Len(m)) \cup {Len(m2)}
  <2> SUFFICES ASSUME Len(m2) \in JudgedOf(m2, b, Len(m2)), NEW j
               PROVE  j \in JudgedOf(m2, b, Len(m2)) <=> j \in JudgedOf(m2, b, Len(m)) \/ j = Len(m2)
    BY <1>6
  <2> QED  BY <1>3, <1>4, <1>5
<1> QED  BY <1>1, <1>2, <1>7, <1>8

LEMMA RowStays ==
    ASSUME NEW m, NEW m2, Grown(m, m2), NEW b \in Backends, NEW i \in 1 .. Len(m)
    PROVE  /\ \A k \in 1 .. Len(m), j \in Nat : Bridged(m2, b, j, k) <=> Bridged(m, b, j, k)
           /\ RowOf(m2, b, i) = RowOf(m, b, i)
<1>1. /\ Len(m) \in Nat /\ \A j \in 1 .. Len(m) : m2[j] = m[j]
      /\ \A k \in 0 .. Len(m) : JudgedOf(m2, b, k) = JudgedOf(m, b, k)
  <2>1. Len(m) \in Nat /\ \A j \in 1 .. Len(m) : m2[j] = m[j]  BY DEF Grown
  <2>2. \A k \in 0 .. Len(m) : JudgedOf(m2, b, k) = JudgedOf(m, b, k)  BY JudgedGrows
  <2> QED  BY <2>1, <2>2
<1>2. ASSUME NEW k \in 1 .. Len(m), NEW j \in Nat PROVE Bridged(m2, b, j, k) <=> Bridged(m, b, j, k)
  <2>1. JudgedOf(m2, b, k - 1) = JudgedOf(m, b, k - 1)  BY <1>1
  <2>2. \A l \in JudgedOf(m, b, k - 1) : m2[l] = m[l]  BY <1>1 DEF JudgedOf
  <2> QED  BY <1>1, <2>1, <2>2, Zenon DEF Bridged
<1>3. JudgedOf(m2, b, i) = JudgedOf(m, b, i) /\ JudgedOf(m, b, i) \subseteq 1 .. Len(m)
  BY <1>1 DEF JudgedOf
<1>4. \A j, k \in JudgedOf(m, b, i) : Chained(m2, b, i, j, k) <=> Chained(m, b, i, j, k)
  BY <1>1, <1>2, <1>3 DEF Chained
<1> QED  BY <1>2, <1>3, <1>4, Zenon DEF RowOf

\* A message that is judged goes on with the row of the last one that was, or starts one.
GoesOn(m, m2, b, l) ==
    m[l].text = m2[Len(m2)].text /\ (b = "redis" => m2[Len(m2)].at < m[l].at + RowTtl)
IsLast(m, b, l) == l \in JudgedOf(m, b, Len(m)) /\ \A j \in JudgedOf(m, b, Len(m)) : j <= l

LEMMA MessageTyped ==
    ASSUME NEW m \in Seq(HeardMessage), NEW j \in 1 .. Len(m)
    PROVE  m[j] \in HeardMessage /\ m[j].at \in Nat
<1>1. m[j] \in HeardMessage  BY ElementOfSeq
<1> QED  BY <1>1, AbuseAssumption, SMTT(30) DEF HeardMessage, Stamps

LEMMA LaterBridges ==
    ASSUME NEW a \in Nat, NEW earlier \in Nat, NEW later \in Nat, NEW ttl \in Nat, a < earlier + ttl, earlier <= later
    PROVE  a < later + ttl
OBVIOUS

LEMMA FirstRow ==
    ASSUME NEW m, NEW m2, Grown(m, m2), NEW b \in Backends, Len(m2) \in JudgedOf(m2, b, Len(m2)),
           JudgedOf(m, b, Len(m)) = {}
    PROVE  RowOf(m2, b, Len(m2)) = {Len(m2)}
<1>1. JudgedOf(m2, b, Len(m2)) = {Len(m2)}
  <2>1. JudgedOf(m2, b, Len(m2)) = JudgedOf(m, b, Len(m)) \cup {Len(m2)}  BY JudgedGrows
  <2> QED  BY <2>1
<1>2. Chained(m2, b, Len(m2), Len(m2), Len(m2))  BY DEF Chained, Grown
<1> QED  BY <1>1, <1>2 DEF RowOf

LEMMA RowGrows ==
    ASSUME NEW m, NEW m2, Grown(m, m2), Ordered(m2), NEW b \in Backends, Len(m2) \in JudgedOf(m2, b, Len(m2)),
           NEW l, IsLast(m, b, l)
    PROVE  RowOf(m2, b, Len(m2)) = IF GoesOn(m, m2, b, l) THEN RowOf(m, b, l) \cup {Len(m2)} ELSE {Len(m2)}
<1> DEFINE n == Len(m2)
<1>1. /\ m \in Seq(HeardMessage) /\ m2 \in Seq(HeardMessage) /\ Len(m) \in Nat /\ n = Len(m) + 1
      /\ \A j \in 1 .. Len(m) : m2[j] = m[j]
  BY DEF Grown
<1>2. JudgedOf(m, b, Len(m)) \subseteq 1 .. Len(m) /\ l \in 1 .. Len(m) /\ l \in JudgedOf(m, b, Len(m))
  BY DEF JudgedOf, IsLast
<1>3. JudgedOf(m, b, l) = JudgedOf(m, b, Len(m))
  <2>1. \A j \in JudgedOf(m, b, Len(m)) : j \in 1 .. l  BY <1>1, <1>2 DEF IsLast
  <2>2. \A j \in 1 .. l : j \in 1 .. Len(m)  BY <1>1, <1>2
  <2> QED  BY <2>1, <2>2 DEF JudgedOf
<1>4. /\ JudgedOf(m2, b, n) = JudgedOf(m, b, l) \cup {n}
      /\ JudgedOf(m2, b, n - 1) = JudgedOf(m, b, l)
  <2>1. JudgedOf(m2, b, n) = JudgedOf(m, b, Len(m)) \cup {n}  BY JudgedGrows
  <2>2. JudgedOf(m2, b, Len(m)) = JudgedOf(m, b, Len(m))
    <3>1. Len(m) \in 0 .. Len(m)  BY <1>1
    <3> QED  BY <3>1, JudgedGrows
  <2>3. n - 1 = Len(m)  BY <1>1
  <2> QED  BY <1>3, <2>1, <2>2, <2>3
<1>5. \A j \in JudgedOf(m, b, l) : j \in 1 .. Len(m) /\ j <= l /\ j < n  BY <1>1, <1>2, <1>3 DEF IsLast
<1>6. Chained(m2, b, n, n, n)  BY <1>1 DEF Chained
<1>7. ASSUME NEW j \in JudgedOf(m, b, l) PROVE Bridged(m2, b, j, n) <=> m2[n].at < m[l].at + RowTtl
  <2>1. \A k \in JudgedOf(m, b, l) : m2[k] = m[k] /\ m[k].at \in Nat /\ m[k].at <= m[l].at
    <3>1. \A k \in JudgedOf(m, b, l) : k \in 1 .. Len(m2) /\ l \in k .. Len(m2)  BY <1>1, <1>2, <1>5
    <3>2. \A k \in JudgedOf(m, b, l) : m2[k].at <= m2[l].at  BY <3>1 DEF Ordered
    <3> QED  BY <1>1, <1>2, <1>5, <3>2, MessageTyped
  <2>2. l \in JudgedOf(m, b, l) /\ l >= j  BY <1>2, <1>3, <1>5
  <2>3. m2[n].at \in Nat /\ m[l].at \in Nat /\ RowTtl \in Nat
    <3>1. m2[n].at \in Nat  BY <1>1, MessageTyped
    <3>2. m[l].at \in Nat  BY <2>1, <2>2
    <3>3. RowTtl \in Nat  BY AbuseAssumption
    <3> QED  BY <3>1, <3>2, <3>3
  <2>4. Bridged(m2, b, j, n) <=> \E k \in JudgedOf(m, b, l) : k >= j /\ m2[n].at < m2[k].at + RowTtl
    BY <1>4, Zenon DEF Bridged
  <2>5. ASSUME NEW k \in JudgedOf(m, b, l), m2[n].at < m2[k].at + RowTtl PROVE m2[n].at < m[l].at + RowTtl
    <3> HIDE DEF n
    <3>1. m2[k].at \in Nat /\ m2[k].at <= m[l].at  BY <2>1
    <3> QED  BY <2>3, <2>5, <3>1, LaterBridges, Zenon
  <2>6. m2[l].at = m[l].at  BY <2>1, <2>2
  <2> HIDE DEF n
  <2> QED  BY <2>4, <2>2, <2>5, <2>6, Zenon
<1>8. ASSUME NEW j \in JudgedOf(m, b, l), m[l].text = m2[n].text
      PROVE  j \in RowOf(m2, b, n) <=> j \in RowOf(m, b, l) /\ GoesOn(m, m2, b, l)
  <2>1. \A k \in JudgedOf(m, b, l) : Chained(m2, b, n, j, k) <=> Chained(m, b, l, j, k)
    <3>1. \A k \in JudgedOf(m, b, l) : (Bridged(m2, b, j, k) <=> Bridged(m, b, j, k)) /\ m2[k] = m[k]
      <4>1. j \in Nat  BY <1>5
      <4>2. \A k \in JudgedOf(m, b, l) : Bridged(m2, b, j, k) <=> Bridged(m, b, j, k)
        BY <4>1, <1>2, <1>5, RowStays
      <4> QED  BY <4>2, <1>1, <1>5
    <3> QED  BY <1>8, <3>1, Zenon DEF Chained
  <2>2. Chained(m2, b, n, j, n) <=> GoesOn(m, m2, b, l)  BY <1>5, <1>7, <1>8 DEF Chained, GoesOn
  <2>3. n >= j  BY <1>5, <1>1
  <2> HIDE DEF n
  <2> QED  BY <1>4, <2>1, <2>2, <2>3 DEF RowOf
<1>9. ASSUME NEW j \in JudgedOf(m, b, l), m[l].text # m2[n].text PROVE j \notin RowOf(m2, b, n)
  <2>1. l \in JudgedOf(m2, b, n) /\ l >= j /\ m2[l].text # m2[n].text
    BY <1>1, <1>2, <1>3, <1>4, <1>5, <1>9
  <2> HIDE DEF n
  <2> QED  BY <2>1 DEF RowOf, Chained
<1>10. n \in RowOf(m2, b, n)
  <2>1. \A k \in JudgedOf(m2, b, n) : k >= n => k = n  BY <1>1, <1>4, <1>5
  <2> HIDE DEF n
  <2> QED  BY <1>4, <1>6, <2>1 DEF RowOf
<1>11. RowOf(m2, b, n) \subseteq JudgedOf(m, b, l) \cup {n} /\ RowOf(m, b, l) \subseteq JudgedOf(m, b, l)
  BY <1>4 DEF RowOf
<1>12. GoesOn(m, m2, b, l) => m[l].text = m2[n].text  BY DEF GoesOn
<1> HIDE DEF n
<1>13. CASE GoesOn(m, m2, b, l)  BY <1>8, <1>10, <1>11, <1>12, <1>13 DEF n
<1>14. CASE ~ GoesOn(m, m2, b, l)  BY <1>8, <1>9, <1>10, <1>11, <1>14 DEF n
<1> QED  BY <1>13, <1>14

\* A row holds no more messages than were sent; it and the copies are finite.
LEMMA RowFinite ==
    ASSUME NEW m, NEW b, NEW i \in Nat
    PROVE  /\ IsFiniteSet(RowOf(m, b, i)) /\ RowOf(m, b, i) \subseteq 1 .. i
           /\ Cardinality(RowOf(m, b, i)) \in 0 .. i
<1>1. RowOf(m, b, i) \subseteq 1 .. i  BY Zenon DEF RowOf, JudgedOf
<1>2. IsFiniteSet(1 .. i) /\ Cardinality(1 .. i) = i  BY FS_Interval
<1>3. IsFiniteSet(RowOf(m, b, i)) /\ Cardinality(RowOf(m, b, i)) <= i  BY <1>1, <1>2, FS_Subset
<1> QED  BY <1>1, <1>3, FS_CardinalityType

LEMMA CopiesFinite ==
    ASSUME NEW m, Len(m) \in Nat, NEW b, NEW t, NEW now
    PROVE  IsFiniteSet(CopiesOf(m, b, t, now)) /\ Cardinality(CopiesOf(m, b, t, now)) \in Nat
<1>1. CopiesOf(m, b, t, now) \subseteq 1 .. Len(m)  BY Zenon DEF CopiesOf
<1>2. IsFiniteSet(1 .. Len(m))  BY FS_Interval
<1> QED  BY <1>1, <1>2, FS_Subset, FS_CardinalityType

\* What the three checks say of a message.
LEMMA ReachedBy ==
    ASSUME NEW b, NEW text, NEW failing
    PROVE  /\ Reached(b, text, "burst", failing)
           /\ Reached(b, text, "same", failing) <=> ~ RefusedBy(b, text, "burst", failing)
           /\ Reached(b, text, "row", failing) <=>
                 ~ RefusedBy(b, text, "burst", failing) /\ ~ RefusedBy(b, text, "same", failing)
<1>1. Before["burst"] = {} /\ Before["same"] = {"burst"} /\ Before["row"] = {"burst", "same"}
  BY DEF Before
<1> QED  BY <1>1 DEF Reached

LEMMA FullBy ==
    ASSUME NEW b, NEW text
    PROVE  /\ Full(b, text, "burst") <=> BurstFull(b)
           /\ Full(b, text, "same") <=> SameFull(b, text)
           /\ Full(b, text, "row") <=> StreakWith(b, text) >= RowLimit
BY DEF Full

LEMMA JudgementOfMessage ==
    ASSUME NEW b \in Backends, NEW text, NEW failing \in SUBSET Checks
    PROVE  /\ Refusals(b, text, failing) \subseteq Checks
           /\ (/\ Refusals(b, text, failing) \cap {"burst", "same"} = {}
               /\ ~ (b = "redis" /\ "row" \in failing)) <=> CountsRow(b, text, failing)
           /\ CountsRow(b, text, failing) => ("row" \in Refusals(b, text, failing) <=> StreakWith(b, text) >= RowLimit)
           /\ Refusals(b, text, failing) = {} /\ ~ (b = "redis" /\ lenient /\ "same" \in failing) =>
                 CountsSame(b, text, failing) /\ ~ SameFull(b, text)
<1>1. "burst" \in Refusals(b, text, failing) <=> RefusedBy(b, text, "burst", failing)
  BY ReachedBy DEF Refusals, Checks
<1>2. "same" \in Refusals(b, text, failing) <=>
         ~ RefusedBy(b, text, "burst", failing) /\ RefusedBy(b, text, "same", failing)
  BY ReachedBy DEF Refusals, Checks
<1>3. "row" \in Refusals(b, text, failing) <=>
         Reached(b, text, "row", failing) /\ RefusedBy(b, text, "row", failing)
  BY DEF Refusals, Checks
<1>4. Refusals(b, text, failing) \cap {"burst", "same"} = {} <=> Reached(b, text, "row", failing)
  BY <1>1, <1>2, ReachedBy
<1>5. (/\ Refusals(b, text, failing) \cap {"burst", "same"} = {}
       /\ ~ (b = "redis" /\ "row" \in failing)) <=> CountsRow(b, text, failing)
  BY <1>4 DEF CountsRow, Counts
<1>6. CountsRow(b, text, failing) => ("row" \in Refusals(b, text, failing) <=> StreakWith(b, text) >= RowLimit)
  BY <1>3, FullBy DEF CountsRow, Counts, RefusedBy
<1>7. ASSUME Refusals(b, text, failing) = {}, ~ (b = "redis" /\ lenient /\ "same" \in failing)
      PROVE  CountsSame(b, text, failing) /\ ~ SameFull(b, text)
  <2>1. ~ RefusedBy(b, text, "burst", failing) /\ ~ RefusedBy(b, text, "same", failing)
    BY <1>1, <1>2, <1>7
  <2>2. ~ (b = "redis" /\ "same" \in failing) /\ ~ Full(b, text, "same")  BY <1>7, <2>1 DEF RefusedBy
  <2> QED  BY <2>1, <2>2, ReachedBy, FullBy DEF CountsSame, Counts
<1>8. Refusals(b, text, failing) \subseteq Checks  BY DEF Refusals
<1> QED  BY <1>5, <1>6, <1>7, <1>8

\* Without an error.
LEMMA JudgementWithoutError ==
    ASSUME NEW b \in Backends, NEW text
    PROVE  /\ Counts(b, text, "burst", {})
           /\ CountsSame(b, text, {}) <=> ~ BurstFull(b) /\ (b = "memory" \/ ~ SameFull(b, text))
           /\ CountsRow(b, text, {}) <=> ~ BurstFull(b) /\ ~ SameFull(b, text)
           /\ Refusals(b, text, {}) = {} <=>
                 ~ BurstFull(b) /\ ~ SameFull(b, text) /\ ~ StreakWith(b, text) >= RowLimit
<1>1. \A c \in Checks : RefusedBy(b, text, c, {}) <=> Full(b, text, c)  BY DEF RefusedBy
<1>2. {"burst", "same", "row"} = Checks  BY DEF Checks
<1>3. /\ Counts(b, text, "burst", {})
      /\ CountsSame(b, text, {}) <=> ~ BurstFull(b) /\ (b = "memory" \/ ~ SameFull(b, text))
      /\ CountsRow(b, text, {}) <=> ~ BurstFull(b) /\ ~ SameFull(b, text)
  BY <1>1, <1>2, ReachedBy, FullBy DEF Counts, CountsSame, CountsRow
<1>4. /\ "burst" \in Refusals(b, text, {}) <=> BurstFull(b)
      /\ "same" \in Refusals(b, text, {}) <=> ~ BurstFull(b) /\ SameFull(b, text)
      /\ "row" \in Refusals(b, text, {}) <=> ~ BurstFull(b) /\ ~ SameFull(b, text) /\ StreakWith(b, text) >= RowLimit
  BY <1>1, <1>2, ReachedBy, FullBy DEF Refusals
<1>5. Refusals(b, text, {}) \subseteq {"burst", "same", "row"}  BY <1>2 DEF Refusals
<1> QED  BY <1>3, <1>4, <1>5

\* A message is appended to the history.
LEMMA MessageIsAppended ==
    ASSUME AbuseTypeOK, MessagesInOrder, NEW text \in Wordings, NEW failing \in SUBSET Checks, Message(text, failing)
    PROVE  /\ Grown(messages, messages') /\ Ordered(messages') /\ lenient' = lenient /\ time' = time /\ cleared' = cleared
           /\ messages'[Len(messages')] = [text |-> text, at |-> time, failing |-> failing,
                                           refused |-> [b \in Backends |-> Refusals(b, text, failing)]]
           /\ Len(messages') <= MaxMessages
           /\ \A j \in 1 .. Len(messages') : messages'[j].at <= time
<1> DEFINE r == [text |-> text, at |-> time, failing |-> failing,
                 refused |-> [b \in Backends |-> Refusals(b, text, failing)]]
<1>1. [b \in Backends |-> Refusals(b, text, failing)] \in [Backends -> SUBSET Checks]
  BY JudgementOfMessage, Zenon
<1>2. r \in HeardMessage  BY <1>1 DEF HeardMessage, AbuseTypeOK
<1>3. /\ messages' = Append(messages, r) /\ Len(messages) < MaxMessages /\ lenient' = lenient /\ time' = time
      /\ cleared' = cleared /\ MaxMessages \in Nat
  BY AbuseAssumption DEF Message
<1>4. messages \in Seq(HeardMessage)  BY DEF MessagesInOrder
<1>5. r.at = time  OBVIOUS
<1> HIDE DEF r
<1>6. Grown(messages, messages') /\ messages'[Len(messages) + 1] = r  BY <1>2, <1>3, <1>4, MessageGrows
<1>7. /\ Len(messages) \in Nat /\ Len(messages') = Len(messages) + 1
      /\ \A j \in 1 .. Len(messages) : messages'[j] = messages[j]
  BY <1>6 DEF Grown
<1>8. /\ \A j \in 1 .. Len(messages) : messages[j].at <= time
      /\ \A j \in 1 .. Len(messages) : \A k \in j .. Len(messages) : messages[j].at <= messages[k].at
  BY <1>4 DEF MessagesInOrder
<1>9. messages'[Len(messages')] = r /\ Len(messages') <= MaxMessages  BY <1>3, <1>6, <1>7
<1>10. time \in Nat  BY AbuseAssumption DEF AbuseTypeOK, Stamps
<1>11. \A j \in 1 .. Len(messages') : messages'[j].at <= time  BY <1>5, <1>7, <1>8, <1>9, <1>10
<1>12. Ordered(messages')
  <2> SUFFICES ASSUME NEW j \in 1 .. Len(messages'), NEW k \in j .. Len(messages')
               PROVE  messages'[j].at <= messages'[k].at
    BY DEF Ordered
  <2>1. CASE k = Len(messages')  BY <1>5, <1>9, <1>11, <2>1
  <2>2. CASE k # Len(messages')
    <3>1. j \in 1 .. Len(messages) /\ k \in j .. Len(messages) /\ k \in 1 .. Len(messages)
      BY <1>7, <2>2
    <3> QED  BY <1>7, <1>8, <3>1
  <2> QED  BY <2>1, <2>2
<1> QED  BY <1>3, <1>6, <1>9, <1>11, <1>12 DEF r

Hit == [at |-> time, id |-> Len(messages) + 1]

\* What it writes to the counters.
LEMMA MessageWrites ==
    ASSUME AbuseTypeOK, NEW text \in Wordings, NEW failing \in SUBSET Checks, Message(text, failing), NEW b \in Backends
    PROVE  /\ burst'[b] = IF Counts(b, text, "burst", failing) /\ ~ BurstFull(b)
                          THEN Within(burst[b], BurstWindow) \cup {Hit} ELSE burst[b]
           /\ streak'[b] = IF CountsRow(b, text, failing)
                           THEN [text |-> {text}, count |-> StreakWith(b, text), at |-> time] ELSE streak[b]
<1>1. burst'[b] = IF Counts(b, text, "burst", failing) /\ ~ BurstFull(b)
                  THEN Within(burst[b], BurstWindow) \cup {Hit} ELSE burst[b]
  BY DEF Message, Hit
<1>2. streak'[b] = IF CountsRow(b, text, failing)
                   THEN [text |-> {text}, count |-> StreakWith(b, text), at |-> time] ELSE streak[b]
  BY DEF Message
<1> QED  BY <1>1, <1>2

LEMMA CopyIsWritten ==
    ASSUME AbuseTypeOK, NEW text \in Wordings, NEW failing \in SUBSET Checks, Message(text, failing),
           NEW b \in Backends, NEW t \in Wordings
    PROVE  same'[b][t] = IF t = text /\ CountsSame(b, text, failing)
                         THEN Within(same[b][t], SameWindow) \cup {Hit} ELSE same[b][t]
<1>1. same'[b] = IF CountsSame(b, text, failing)
                 THEN [same[b] EXCEPT ![text] = Within(same[b][text], SameWindow) \cup {Hit}] ELSE same[b]
  BY DEF Message, Hit
<1>2. same[b] \in [Wordings -> SUBSET Entry]  BY DEF AbuseTypeOK
<1> QED  BY <1>1, <1>2

LEMMA StreakTyped ==
    ASSUME MessagesInOrder, NEW b \in Backends, NEW text
    PROVE  /\ StreakWith(b, text) \in 1 .. Len(messages) + 1
           /\ streak[b] \in [text : SUBSET Wordings, count : 0 .. Len(messages), at : Stamps]
<1>1. streak[b] \in [text : SUBSET Wordings, count : 0 .. Len(messages), at : Stamps] /\ Len(messages) \in Nat
  BY LenProperties DEF MessagesInOrder
<1>2. streak[b].count \in 0 .. Len(messages)  BY <1>1
<1> QED  BY <1>1, <1>2 DEF StreakWith

LEMMA WithinFinite ==
    ASSUME NEW stored, IsFiniteSet(stored), NEW window, NEW hit
    PROVE  /\ Within(stored, window) \subseteq stored /\ IsFiniteSet(Within(stored, window))
           /\ IsFiniteSet(Within(stored, window) \cup {hit})
<1>1. Within(stored, window) \subseteq stored  BY DEF Within
<1> QED  BY <1>1, FS_Subset, FS_AddElement

LEMMA FewFail ==
    ASSUME NEW failing \in SUBSET Checks
    PROVE  IsFiniteSet(failing) /\ Cardinality(failing) \in Nat
<1>1. Checks = {"burst"} \cup {"same"} \cup {"row"}  BY DEF Checks
<1>2. IsFiniteSet({"burst"})  BY FS_Singleton
<1>3. IsFiniteSet({"burst"} \cup {"same"})  BY <1>2, FS_AddElement, Zenon
<1>4. IsFiniteSet(Checks)  BY <1>1, <1>3, FS_AddElement, ZenonT(60)
<1>5. IsFiniteSet(failing)  BY <1>4, FS_Subset
<1> QED  BY <1>5, FS_CardinalityType

LEMMA MessageTypes ==
    ASSUME AbuseTypeOK, MessagesInOrder, NEW text \in Wordings, NEW failing \in SUBSET Checks, Message(text, failing)
    PROVE  AbuseTypeOK' /\ MessagesInOrder'
<1>1. /\ time \in Stamps /\ Stamps \subseteq Nat /\ faults \in 0 .. MaxFaults /\ MaxFaults \in Nat /\ MaxMessages \in Nat
      /\ burst \in [Backends -> SUBSET Entry] /\ same \in [Backends -> [Wordings -> SUBSET Entry]]
      /\ {lenient, cleared} \subseteq BOOLEAN
  BY AbuseAssumption DEF AbuseTypeOK, Stamps
<1>2. /\ Grown(messages, messages') /\ Ordered(messages') /\ lenient' = lenient /\ time' = time /\ cleared' = cleared
      /\ Len(messages') <= MaxMessages
      /\ \A j \in 1 .. Len(messages') : messages'[j].at <= time
  BY MessageIsAppended
<1>3. /\ messages' \in Seq(HeardMessage) /\ Len(messages) \in Nat /\ Len(messages') = Len(messages) + 1
      /\ Len(messages) < MaxMessages
  BY <1>2 DEF Grown, Message
<1>4. Hit \in Entry  BY <1>1, <1>3 DEF Hit, Entry
<1>5. faults' \in 0 .. MaxFaults
  <2>1. Cardinality(failing) \in Nat  BY FewFail
  <2> QED  BY <1>1, <2>1 DEF Message
<1>6. \A stored \in SUBSET Entry : \A window : Within(stored, window) \cup {Hit} \in SUBSET Entry
  BY <1>4 DEF Within
<1>7. \A b \in Backends : IsFiniteSet(burst[b]) /\ \A t \in Wordings : IsFiniteSet(same[b][t])
  BY DEF MessagesInOrder
<1>8. burst' \in [Backends -> SUBSET Entry] /\ \A b \in Backends : IsFiniteSet(burst'[b])
  <2>1. DOMAIN burst' = Backends /\ burst' = [b \in Backends |-> burst'[b]]  BY DEF Message
  <2>2. ASSUME NEW b \in Backends PROVE burst'[b] \in SUBSET Entry /\ IsFiniteSet(burst'[b])
    <3>1. CASE Counts(b, text, "burst", failing) /\ ~ BurstFull(b)
      <4>1. burst'[b] = Within(burst[b], BurstWindow) \cup {Hit}  BY <3>1, MessageWrites
      <4>2. IsFiniteSet(Within(burst[b], BurstWindow) \cup {Hit})  BY <1>7, WithinFinite
      <4> QED  BY <1>1, <1>6, <4>1, <4>2
    <3>2. CASE ~ (Counts(b, text, "burst", failing) /\ ~ BurstFull(b))
      <4>1. burst'[b] = burst[b]  BY <3>2, MessageWrites
      <4> QED  BY <1>1, <1>7, <4>1
    <3> QED  BY <3>1, <3>2
  <2> QED  BY <2>1, <2>2
<1>9. /\ same' \in [Backends -> [Wordings -> SUBSET Entry]]
      /\ \A b \in Backends : \A t \in Wordings : IsFiniteSet(same'[b][t])
  <2>1. DOMAIN same' = Backends /\ same' = [b \in Backends |-> same'[b]]  BY DEF Message
  <2>2. ASSUME NEW b \in Backends, NEW t \in Wordings PROVE same'[b][t] \in SUBSET Entry /\ IsFiniteSet(same'[b][t])
    <3>0. same'[b][t] = IF t = text /\ CountsSame(b, text, failing)
                        THEN Within(same[b][t], SameWindow) \cup {Hit} ELSE same[b][t]
      BY CopyIsWritten
    <3>1. CASE t = text /\ CountsSame(b, text, failing)
      <4>1. same'[b][t] = Within(same[b][t], SameWindow) \cup {Hit}  BY <3>0, <3>1
      <4>2. IsFiniteSet(Within(same[b][t], SameWindow) \cup {Hit})  BY <1>7, WithinFinite
      <4> QED  BY <1>1, <1>6, <4>1, <4>2
    <3>2. CASE ~ (t = text /\ CountsSame(b, text, failing))
      <4>1. same'[b][t] = same[b][t]  BY <3>0, <3>2
      <4> QED  BY <1>1, <1>7, <4>1
    <3> QED  BY <3>1, <3>2
  <2>3. ASSUME NEW b \in Backends PROVE same'[b] = [t \in Wordings |-> same'[b][t]]
    <3>1. \/ same'[b] = same[b]
          \/ same'[b] = [same[b] EXCEPT ![text] = Within(same[b][text], SameWindow) \cup {Hit}]
      BY DEF Message, Hit
    <3>2. same[b] = [t \in Wordings |-> same[b][t]]  BY <1>1
    <3> QED  BY <3>1, <3>2
  <2> QED  BY <2>1, <2>2, <2>3
<1>10. streak' \in [Backends -> [text : SUBSET Wordings, count : 0 .. Len(messages'), at : Stamps]]
  <2>1. DOMAIN streak' = Backends /\ streak' = [b \in Backends |-> streak'[b]]  BY DEF Message
  <2>2. ASSUME NEW b \in Backends
        PROVE  streak'[b] \in [text : SUBSET Wordings, count : 0 .. Len(messages'), at : Stamps]
    <3>1. StreakWith(b, text) \in 0 .. Len(messages')  BY <1>3, StreakTyped
    <3>2. streak[b] \in [text : SUBSET Wordings, count : 0 .. Len(messages'), at : Stamps]
      <4>1. 0 .. Len(messages) \subseteq 0 .. Len(messages')  BY <1>3
      <4> QED  BY <4>1, StreakTyped
    <3>3. streak'[b] = IF CountsRow(b, text, failing)
                       THEN [text |-> {text}, count |-> StreakWith(b, text), at |-> time] ELSE streak[b]
      BY MessageWrites
    <3> QED  BY <1>1, <3>1, <3>2, <3>3
  <2> QED  BY <2>1, <2>2
<1>11. \A b \in Backends : streak'[b].text \subseteq Wordings /\ streak'[b].count \in 0 .. MaxMessages /\ streak'[b].at \in Stamps
  <2>1. 0 .. Len(messages') \subseteq 0 .. MaxMessages  BY <1>1, <1>2, <1>3
  <2> QED  BY <1>10, <2>1
<1>12. AbuseTypeOK'  BY <1>1, <1>2, <1>5, <1>8, <1>9, <1>11 DEF AbuseTypeOK
<1>13. DOMAIN messages' = 1 .. Len(messages')  BY <1>3
<1> QED  BY <1>2, <1>3, <1>8, <1>9, <1>10, <1>12, <1>13 DEF MessagesInOrder, Ordered

\* The copies that have passed are among the stored ones.
LEMMA CopiesFit ==
    ASSUME NEW b, NEW t,
           \A j \in CopiesOf(messages, b, t, time) : [at |-> messages[j].at, id |-> j] \in same[b][t],
           IsFiniteSet(same[b][t])
    PROVE  /\ \A j \in CopiesOf(messages, b, t, time) :
                 [at |-> messages[j].at, id |-> j] \in Within(same[b][t], SameWindow)
           /\ Cardinality(CopiesOf(messages, b, t, time)) <= Cardinality(Within(same[b][t], SameWindow))
<1> DEFINE C == CopiesOf(messages, b, t, time)
           W == Within(same[b][t], SameWindow)
           f == [j \in C |-> [at |-> messages[j].at, id |-> j]]
<1>1. \A j \in C : messages[j].at + SameWindow > time  BY DEF CopiesOf
<1>2. \A j \in C : [at |-> messages[j].at, id |-> j] \in W  BY <1>1 DEF Within
<1>3. IsFiniteSet(W)  BY WithinFinite
<1>4. f \in Injection(C, W)
  <2>1. f \in [C -> W]  BY <1>2
  <2>2. \A i, j \in C : f[i] = f[j] => i = j
    <3>1. \A j \in C : f[j].id = j  OBVIOUS
    <3> HIDE DEF f
    <3> QED  BY <3>1
  <2> HIDE DEF f, C, W
  <2> QED  BY <2>1, <2>2 DEF Injection, IsInjective
<1> HIDE DEF f, C, W
<1>5. Cardinality(C) <= Cardinality(W)  BY <1>3, <1>4, FS_Injection
<1> QED  BY <1>2, <1>5 DEF C, W

LEMMA StoredFinite ==
    ASSUME MessagesInOrder, NEW b \in Backends, NEW t \in Wordings
    PROVE  /\ IsFiniteSet(same[b][t]) /\ IsFiniteSet(Within(same[b][t], SameWindow))
           /\ Cardinality(Within(same[b][t], SameWindow)) \in Nat
<1>1. IsFiniteSet(same[b][t])  BY DEF MessagesInOrder
<1> QED  BY <1>1, WithinFinite, FS_CardinalityType

LEMMA MessageIsStored ==
    ASSUME AbuseTypeOK, MessagesInOrder, CopiesAreStored,
           NEW text \in Wordings, NEW failing \in SUBSET Checks, Message(text, failing)
    PROVE  CopiesAreStored'
<1>0. /\ Grown(messages, messages') /\ lenient' = lenient /\ time' = time /\ cleared' = cleared
      /\ messages'[Len(messages')] = [text |-> text, at |-> time, failing |-> failing,
                                      refused |-> [b \in Backends |-> Refusals(b, text, failing)]]
  BY MessageIsAppended
<1> DEFINE n == Len(messages')
<1>1. /\ Len(messages) \in Nat /\ n = Len(messages) + 1
      /\ \A j \in 1 .. Len(messages) : messages'[j] = messages[j]
  BY <1>0 DEF Grown
<1> SUFFICES ASSUME NEW b \in Backends, NEW t \in Wordings, Keeps(b)
             PROVE  /\ \A j \in CopiesOf(messages', b, t, time) : [at |-> messages'[j].at, id |-> j] \in same'[b][t]
                    /\ Cardinality(CopiesOf(messages', b, t, time)) <= SameLimit - (IF b = "memory" THEN 1 ELSE 0)
  BY <1>0, HistoryOperatorsPrimed, Zenon DEF CopiesAreStored, Keeps
<1> DEFINE C == CopiesOf(messages, b, t, time)
           C2 == CopiesOf(messages', b, t, time)
           W == Within(same[b][t], SameWindow)
<1>2. /\ \A j \in C : [at |-> messages[j].at, id |-> j] \in same[b][t]
      /\ Cardinality(C) <= SameLimit - (IF b = "memory" THEN 1 ELSE 0)
  BY HistoryOperators, Zenon DEF CopiesAreStored
<1>3. IsFiniteSet(same[b][t]) /\ Cardinality(W) \in Nat /\ IsFiniteSet(C) /\ Cardinality(C) \in Nat
  BY <1>1, StoredFinite, CopiesFinite
<1>4. (\A j \in C : [at |-> messages[j].at, id |-> j] \in W) /\ Cardinality(C) <= Cardinality(W)
  BY <1>2, <1>3, CopiesFit
<1>5. \A j \in 1 .. Len(messages) : j \in C2 <=> j \in C
  <2>1. \A j \in 1 .. Len(messages) : j \in 1 .. Len(messages')  BY <1>1
  <2> HIDE DEF n
  <2> QED  BY <1>1, <2>1 DEF CopiesOf
<1>6. C2 \subseteq 1 .. n /\ C \subseteq 1 .. Len(messages)  BY DEF CopiesOf
<1>7. ASSUME n \in C2 PROVE t = text /\ CountsSame(b, text, failing) /\ ~ SameFull(b, text)
  <2>1. /\ messages'[n].refused[b] = {} /\ messages'[n].text = t
        /\ ~ (b = "redis" /\ lenient /\ "same" \in messages'[n].failing)
    BY <1>7 DEF CopiesOf
  <2>2. Refusals(b, text, failing) = {} /\ text = t /\ ~ (b = "redis" /\ lenient /\ "same" \in failing)
    BY <1>0, <2>1
  <2> QED  BY <2>2, JudgementOfMessage
<1>8. same'[b][t] = IF t = text /\ CountsSame(b, text, failing) THEN W \cup {Hit} ELSE same[b][t]
  BY CopyIsWritten
<1>9. \A j \in C : [at |-> messages[j].at, id |-> j] \in same'[b][t]  BY <1>2, <1>4, <1>8
<1>10. ASSUME NEW j \in C2 PROVE [at |-> messages'[j].at, id |-> j] \in same'[b][t]
  <2>1. CASE j = n
    <3>1. [at |-> messages'[n].at, id |-> n] = Hit  BY <1>0, <1>1 DEF Hit
    <3>2. Hit \in same'[b][t]  BY <1>7, <1>8, <1>10, <2>1
    <3> QED  BY <2>1, <3>1, <3>2
  <2>2. CASE j # n
    <3>1. j \in 1 .. Len(messages)  BY <1>1, <1>6, <1>10, <2>2
    <3>2. j \in C /\ messages'[j] = messages[j]  BY <1>1, <1>5, <1>10, <3>1
    <3> QED  BY <1>9, <3>2
  <2> QED  BY <2>1, <2>2
<1>11. Cardinality(C2) <= SameLimit - (IF b = "memory" THEN 1 ELSE 0)
  <2>1. CASE n \in C2
    <3>1. C2 = C \cup {n} /\ n \notin C  BY <1>1, <1>5, <1>6, <2>1
    <3>2. Cardinality(C2) = Cardinality(C) + 1
      <4> HIDE DEF C, C2, n
      <4> QED  BY <1>3, <3>1, FS_AddElement
    <3>3. ~ Cardinality(W) + (IF b = "memory" THEN 1 ELSE 0) >= SameLimit  BY <1>7, <2>1 DEF SameFull
    <3> HIDE DEF C, C2, W
    <3>4. SameLimit \in Nat  BY AbuseAssumption
    <3> QED  BY <1>3, <1>4, <3>2, <3>3, <3>4
  <2>2. CASE n \notin C2
    <3>1. C2 = C
      <4>1. \A j \in 1 .. n : j # n => j \in 1 .. Len(messages)  BY <1>1
      <4>2. \A j \in 1 .. Len(messages) : j \in 1 .. n  BY <1>1
      <4> HIDE DEF C, C2, n
      <4> QED  BY <1>5, <1>6, <2>2, <4>1, <4>2
    <3> QED  BY <1>2, <3>1
  <2> QED  BY <2>1, <2>2
<1> QED  BY <1>10, <1>11

\* The counter of the row tells how long the row is.
LEMMA StreakIsLength ==
    ASSUME AbuseTypeOK, MessagesInOrder, RowIsCounted, NEW b \in Backends, Keeps(b),
           NEW text \in Wordings, NEW failing \in SUBSET Checks, Message(text, failing)
    PROVE  /\ CountsRow(b, text, failing) <=> Len(messages') \in JudgedOf(messages', b, Len(messages'))
           /\ CountsRow(b, text, failing) => StreakWith(b, text) = Cardinality(RowOf(messages', b, Len(messages')))
<1>0. /\ Grown(messages, messages') /\ Ordered(messages')
      /\ messages'[Len(messages')] = [text |-> text, at |-> time, failing |-> failing,
                                      refused |-> [c \in Backends |-> Refusals(c, text, failing)]]
  BY MessageIsAppended
<1> DEFINE n == Len(messages')
<1>1. Len(messages) \in Nat /\ n = Len(messages) + 1 /\ \A j \in 1 .. Len(messages) : messages'[j] = messages[j]
  BY <1>0 DEF Grown
<1>2. /\ messages'[n].refused[b] = Refusals(b, text, failing) /\ messages'[n].failing = failing
      /\ messages'[n].text = text /\ messages'[n].at = time
  BY <1>0
<1>3. n \in JudgedOf(messages', b, n) <=> CountsRow(b, text, failing)
  <2>1. n \in 1 .. n  BY <1>1
  <2>2. n \in JudgedOf(messages', b, n) <=>
           messages'[n].refused[b] \cap {"burst", "same"} = {} /\ ~ (b = "redis" /\ "row" \in messages'[n].failing)
    BY <2>1 DEF JudgedOf
  <2> HIDE DEF n
  <2> QED  BY <1>2, <2>2, JudgementOfMessage
<1>4. ASSUME CountsRow(b, text, failing)
      PROVE  StreakWith(b, text) = Cardinality(RowOf(messages', b, n))
  <2>0. n \in JudgedOf(messages', b, n)  BY <1>3, <1>4
  <2>1. \/ JudgedOf(messages, b, Len(messages)) = {} /\ streak[b].text = {}
        \/ \E l \in JudgedOf(messages, b, Len(messages)) :
              (\A j \in JudgedOf(messages, b, Len(messages)) : j <= l) /\ streak[b] = Counted(b, l)
    BY HistoryOperators, Zenon DEF RowIsCounted
  <2>2. CASE JudgedOf(messages, b, Len(messages)) = {} /\ streak[b].text = {}
    <3>1. RowOf(messages', b, n) = {n}  BY <1>0, <2>0, <2>2, FirstRow
    <3>2. StreakWith(b, text) = 1  BY <2>2 DEF StreakWith
    <3> HIDE DEF n
    <3> QED  BY <3>1, <3>2, FS_Singleton
  <2>3. CASE \E l \in JudgedOf(messages, b, Len(messages)) :
                (\A j \in JudgedOf(messages, b, Len(messages)) : j <= l) /\ streak[b] = Counted(b, l)
    <3>1. PICK l \in JudgedOf(messages, b, Len(messages)) :
             (\A j \in JudgedOf(messages, b, Len(messages)) : j <= l) /\ streak[b] = Counted(b, l)
      BY <2>3, Zenon
    <3>2. IsLast(messages, b, l) /\ l \in 1 .. Len(messages)  BY <3>1 DEF IsLast, JudgedOf
    <3>3. /\ streak[b].text = {messages[l].text} /\ streak[b].at = messages[l].at
          /\ streak[b].count = Cardinality(RowOf(messages, b, l))
      BY <3>1, HistoryOperators DEF Counted
    <3>4. RowOf(messages', b, n) = IF GoesOn(messages, messages', b, l) THEN RowOf(messages, b, l) \cup {n} ELSE {n}
      BY <1>0, <2>0, <3>2, RowGrows
    <3>5. GoesOn(messages, messages', b, l) <=>
             streak[b].text = {text} /\ (b = "memory" \/ time < streak[b].at + RowTtl)
      <4>1. b = "redis" \/ b = "memory"  BY DEF Backends
      <4> QED  BY <1>2, <3>3, <4>1 DEF GoesOn
    <3>6. IsFiniteSet(RowOf(messages, b, l)) /\ RowOf(messages, b, l) \subseteq 1 .. l
      BY <3>2, RowFinite
    <3>7. n \notin RowOf(messages, b, l)  BY <1>1, <3>2, <3>6
    <3> HIDE DEF n
    <3>8. CASE GoesOn(messages, messages', b, l)
      <4>1. StreakWith(b, text) = Cardinality(RowOf(messages, b, l)) + 1
        BY <3>3, <3>5, <3>8 DEF StreakWith
      <4>2. RowOf(messages', b, n) = RowOf(messages, b, l) \cup {n}  BY <3>4, <3>8
      <4>3. Cardinality(RowOf(messages, b, l) \cup {n}) = Cardinality(RowOf(messages, b, l)) + 1
        BY <3>6, <3>7, FS_AddElement
      <4> QED  BY <4>1, <4>2, <4>3
    <3>9. CASE ~ GoesOn(messages, messages', b, l)
      <4>1. StreakWith(b, text) = 1  BY <3>5, <3>9 DEF StreakWith
      <4>2. RowOf(messages', b, n) = {n}  BY <3>4, <3>9
      <4> QED  BY <4>1, <4>2, FS_Singleton
    <3> QED  BY <3>8, <3>9
  <2> QED  BY <2>1, <2>2, <2>3
<1> QED  BY <1>3, <1>4

LEMMA MessageIsCounted ==
    ASSUME AbuseTypeOK, MessagesInOrder, RowIsCounted,
           NEW text \in Wordings, NEW failing \in SUBSET Checks, Message(text, failing)
    PROVE  RowIsCounted'
<1>0. /\ Grown(messages, messages') /\ cleared' = cleared
      /\ messages'[Len(messages')] = [text |-> text, at |-> time, failing |-> failing,
                                      refused |-> [c \in Backends |-> Refusals(c, text, failing)]]
  BY MessageIsAppended
<1>1. PICK n \in Nat : n = Len(messages')  BY <1>0 DEF Grown
<1>2. /\ Len(messages) \in Nat /\ n = Len(messages) + 1
      /\ \A j \in 1 .. Len(messages) : messages'[j] = messages[j]
  BY <1>0, <1>1 DEF Grown
<1>3. \A b, l : Counted(b, l)' = [text |-> {messages'[l].text}, count |-> Cardinality(RowOf(messages', b, l)),
                                  at |-> messages'[l].at]
  BY HistoryOperatorsPrimed, Zenon DEF Counted
<1>4. \A b, l : Counted(b, l) = [text |-> {messages[l].text}, count |-> Cardinality(RowOf(messages, b, l)),
                                 at |-> messages[l].at]
  BY HistoryOperators, Zenon DEF Counted
<1> SUFFICES ASSUME NEW b \in Backends, Keeps(b)
             PROVE  \/ JudgedOf(messages', b, n) = {} /\ streak'[b].text = {}
                    \/ \E l \in JudgedOf(messages', b, n) :
                          (\A j \in JudgedOf(messages', b, n) : j <= l) /\ streak'[b] = Counted(b, l)'
  BY <1>0, <1>1, HistoryOperatorsPrimed, Zenon DEF RowIsCounted, Keeps
<1>5. streak'[b] = IF CountsRow(b, text, failing)
                   THEN [text |-> {text}, count |-> StreakWith(b, text), at |-> time] ELSE streak[b]
  BY MessageWrites
<1>6. CountsRow(b, text, failing) <=> n \in JudgedOf(messages', b, n)  BY <1>1, StreakIsLength
<1>7. CASE CountsRow(b, text, failing)
  <2>1. messages'[n].text = text /\ messages'[n].at = time  BY <1>0, <1>1
  <2>2. StreakWith(b, text) = Cardinality(RowOf(messages', b, n))  BY <1>1, <1>7, StreakIsLength
  <2>3. \A j \in JudgedOf(messages', b, n) : j <= n  BY DEF JudgedOf
  <2>4. streak'[b] = Counted(b, n)'  BY <1>3, <1>5, <1>7, <2>1, <2>2
  <2> QED  BY <1>6, <1>7, <2>3, <2>4
<1>8. CASE ~ CountsRow(b, text, failing)
  <2>1. JudgedOf(messages', b, n) = JudgedOf(messages, b, Len(messages))
    BY <1>0, <1>1, <1>6, <1>8, JudgedGrows
  <2>2. streak'[b] = streak[b]  BY <1>5, <1>8
  <2>3. \A l \in JudgedOf(messages, b, Len(messages)) : Counted(b, l)' = Counted(b, l)
    <3> SUFFICES ASSUME NEW l \in JudgedOf(messages, b, Len(messages)) PROVE Counted(b, l)' = Counted(b, l)
      OBVIOUS
    <3>1. l \in 1 .. Len(messages)  BY DEF JudgedOf
    <3>2. messages'[l] = messages[l]  BY <1>2, <3>1
    <3>3. RowOf(messages', b, l) = RowOf(messages, b, l)  BY <1>0, <3>1, RowStays
    <3> QED  BY <1>3, <1>4, <3>2, <3>3, Zenon
  <2>4. \/ JudgedOf(messages, b, Len(messages)) = {} /\ streak[b].text = {}
        \/ \E l \in JudgedOf(messages, b, Len(messages)) :
              (\A j \in JudgedOf(messages, b, Len(messages)) : j <= l) /\ streak[b] = Counted(b, l)
    BY HistoryOperators, Zenon DEF RowIsCounted
  <2> QED  BY <2>1, <2>2, <2>3, <2>4, Zenon
<1> QED  BY <1>7, <1>8

LEMMA NoFaultYet ==
    ASSUME AbuseTypeOK, NEW text, NEW failing \in SUBSET Checks, Message(text, failing), faults' = 0
    PROVE  faults = 0 /\ failing = {}
<1>1. IsFiniteSet(failing) /\ Cardinality(failing) \in Nat  BY FewFail
<1>2. faults \in Nat /\ faults' = faults + Cardinality(failing)
  BY AbuseAssumption DEF AbuseTypeOK, Message
<1>3. faults = 0 /\ Cardinality(failing) = 0  BY <1>1, <1>2
<1> QED  BY <1>1, <1>3, FS_EmptySet

\* What is full in Redis is full in the process.
LEMMA FullInMemory ==
    ASSUME MessagesInOrder, MemoryHasAll, faults = 0, ~ cleared, NEW t \in Wordings
    PROVE  /\ BurstFull("redis") <=> BurstFull("memory")
           /\ ~ SameFull("memory", t) => ~ SameFull("redis", t)
           /\ Within(same["redis"][t], SameWindow) \subseteq Within(same["memory"][t], SameWindow)
<1>1. /\ burst["redis"] = burst["memory"]
      /\ Within(same["redis"][t], SameWindow) \subseteq same["memory"][t]
  BY Zenon DEF MemoryHasAll
<1>2. Within(same["redis"][t], SameWindow) \subseteq Within(same["memory"][t], SameWindow)
  BY <1>1 DEF Within
<1>3. "redis" \in Backends /\ "memory" \in Backends  BY DEF Backends
<1>4. /\ IsFiniteSet(Within(same["memory"][t], SameWindow))
      /\ Cardinality(Within(same["memory"][t], SameWindow)) \in Nat
      /\ Cardinality(Within(same["redis"][t], SameWindow)) \in Nat
  BY <1>3, StoredFinite
<1>5. Cardinality(Within(same["redis"][t], SameWindow)) <= Cardinality(Within(same["memory"][t], SameWindow))
  BY <1>2, <1>4, FS_Subset
<1>6. SameLimit \in Nat  BY AbuseAssumption
<1>7. ~ SameFull("memory", t) => ~ SameFull("redis", t)  BY <1>4, <1>5, <1>6 DEF SameFull
<1> QED  BY <1>1, <1>2, <1>7 DEF BurstFull

LEMMA MessageIsStopped ==
    ASSUME AbuseTypeOK, MessagesInOrder, CopiesAreStored, RowIsCounted, MemoryHasAll,
           NEW text \in Wordings, NEW failing \in SUBSET Checks, Message(text, failing)
    PROVE  RepetitionIsStopped'
<1>0. /\ Grown(messages, messages') /\ cleared' = cleared /\ lenient' = lenient /\ time' = time
      /\ messages'[Len(messages')] = [text |-> text, at |-> time, failing |-> failing,
                                      refused |-> [c \in Backends |-> Refusals(c, text, failing)]]
  BY MessageIsAppended
<1>1. PICK n \in Nat : n = Len(messages')  BY <1>0 DEF Grown
<1>2. /\ Len(messages) \in Nat /\ n = Len(messages) + 1
      /\ \A j \in 1 .. Len(messages) : messages'[j] = messages[j]
  BY <1>0, <1>1 DEF Grown
<1>3. Newest' = {n}  BY <1>1, <1>2 DEF Newest
<1>4. /\ messages'[n].text = text /\ messages'[n].at = time /\ messages'[n].failing = failing
      /\ \A b \in Backends : messages'[n].refused[b] = Refusals(b, text, failing)
  BY <1>0, <1>1
<1>5. CopiesPerWindow'
  <2> SUFFICES ASSUME NEW b \in Backends, ~ (b = "memory" /\ cleared)
               PROVE  Cardinality({j \in 1 .. n : /\ messages'[j].refused[b] = {}
                                                  /\ messages'[j].text = messages'[n].text
                                                  /\ messages'[j].at + SameWindow > messages'[n].at
                                                  /\ ~ (b = "redis" /\ lenient /\ "same" \in messages'[j].failing)})
                         <= SameLimit - (IF b = "memory" THEN 1 ELSE 0)
    BY <1>0, <1>3, Zenon DEF CopiesPerWindow, Passed
  <2>1. {j \in 1 .. n : /\ messages'[j].refused[b] = {}
                        /\ messages'[j].text = messages'[n].text
                        /\ messages'[j].at + SameWindow > messages'[n].at
                        /\ ~ (b = "redis" /\ lenient /\ "same" \in messages'[j].failing)}
        = CopiesOf(messages', b, text, time)
    BY <1>1, <1>4, Zenon DEF CopiesOf
  <2>2. Keeps(b)  BY DEF Keeps, Backends
  <2>3. CopiesAreStored'  BY MessageIsStored
  <2>4. Cardinality(CopiesOf(messages', b, text, time)) <= SameLimit - (IF b = "memory" THEN 1 ELSE 0)
    BY <1>0, <2>2, <2>3, HistoryOperatorsPrimed, Zenon DEF CopiesAreStored, Keeps
  <2> QED  BY <2>1, <2>4
<1>6. RowIsStopped'
  <2> SUFFICES ASSUME NEW b \in Backends, n \in JudgedOf(messages', b, n), ~ (b = "memory" /\ cleared)
               PROVE  "row" \in messages'[n].refused[b] <=> Cardinality(RowOf(messages', b, n)) >= RowLimit
    BY <1>0, <1>3, HistoryOperatorsPrimed, Zenon DEF RowIsStopped
  <2>1. Keeps(b)  BY DEF Keeps, Backends
  <2>2. CountsRow(b, text, failing) /\ StreakWith(b, text) = Cardinality(RowOf(messages', b, n))
    BY <1>1, <2>1, StreakIsLength
  <2>3. "row" \in Refusals(b, text, failing) <=> StreakWith(b, text) >= RowLimit
    BY <2>2, JudgementOfMessage
  <2> QED  BY <1>4, <2>2, <2>3
<1>7. MemoryIsStricter'
  <2> SUFFICES ASSUME ~ cleared, ~ faults' > 0,
                      \A j \in 1 .. n - 1 : messages'[j].refused["memory"] = {} <=> messages'[j].refused["redis"] = {},
                      messages'[n].refused["memory"] = {}
               PROVE  messages'[n].refused["redis"] = {}
    BY <1>0, <1>3, Zenon DEF MemoryIsStricter, Passed
  <2>1. "redis" \in Backends /\ "memory" \in Backends  BY DEF Backends
  <2>2. faults = 0 /\ failing = {}
    <3>1. faults' = 0
      <4>1. AbuseTypeOK'  BY MessageTypes
      <4>2. faults' \in Nat  BY <4>1, AbuseAssumption DEF AbuseTypeOK
      <4> QED  BY <4>2
    <3> QED  BY <3>1, NoFaultYet
  <2>3. AgreeSoFar
    <3>1. \A j \in 1 .. Len(messages) : j \in 1 .. n - 1  BY <1>2
    <3> QED  BY <1>2, <3>1 DEF AgreeSoFar, Passed
  <2>4. ~ BurstFull("memory") /\ ~ SameFull("memory", text) /\ ~ StreakWith("memory", text) >= RowLimit
    BY <1>4, <2>1, <2>2, JudgementWithoutError
  <2>5. ~ BurstFull("redis") /\ ~ SameFull("redis", text)  BY <2>2, <2>4, FullInMemory
  <2>6. StreakWith("memory", text) \in Nat /\ StreakWith("redis", text) \in Nat /\ RowLimit \in Nat
    <3>1. StreakWith("memory", text) \in 1 .. Len(messages) + 1 /\ StreakWith("redis", text) \in 1 .. Len(messages) + 1
      BY <2>1, StreakTyped
    <3> QED  BY <1>2, <3>1, AbuseAssumption
  <2>7. StreakWith("memory", text) < RowLimit  BY <2>4, <2>6
  <2>8. StreakWith("redis", text) <= StreakWith("memory", text)
    BY <2>2, <2>3, <2>7, Zenon DEF MemoryHasAll
  <2>9. ~ StreakWith("redis", text) >= RowLimit  BY <2>6, <2>7, <2>8
  <2> QED  BY <1>4, <2>1, <2>2, <2>5, <2>9, JudgementWithoutError
<1> QED  BY <1>5, <1>6, <1>7 DEF RepetitionIsStopped

LEMMA StreakAfter ==
    ASSUME AbuseTypeOK, NEW b \in Backends, NEW t \in Wordings,
           NEW text \in Wordings, NEW failing \in SUBSET Checks, Message(text, failing)
    PROVE  StreakWith(b, t)' = IF CountsRow(b, text, failing)
                               THEN IF t = text THEN StreakWith(b, text) + 1 ELSE 1
                               ELSE StreakWith(b, t)
<1>1. time' = time /\ time \in Nat /\ RowTtl \in Nat /\ RowTtl > 0
  <2>1. time' = time  BY DEF Message
  <2>2. time \in Nat  BY AbuseAssumption DEF AbuseTypeOK, Stamps
  <2>3. RowTtl \in Nat \ {0}  BY AbuseAssumption
  <2> QED  BY <2>1, <2>2, <2>3
<1>2. streak'[b] = IF CountsRow(b, text, failing)
                   THEN [text |-> {text}, count |-> StreakWith(b, text), at |-> time] ELSE streak[b]
  BY MessageWrites
<1>3. StreakWith(b, t)' = IF streak'[b].text = {t} /\ (b = "memory" \/ time < streak'[b].at + RowTtl)
                          THEN streak'[b].count + 1 ELSE 1
  BY <1>1, Zenon DEF StreakWith
<1>4. StreakWith(b, t) = IF streak[b].text = {t} /\ (b = "memory" \/ time < streak[b].at + RowTtl)
                         THEN streak[b].count + 1 ELSE 1
  BY Zenon DEF StreakWith
<1>5. CASE CountsRow(b, text, failing)
  <2>1. streak'[b].text = {text} /\ streak'[b].count = StreakWith(b, text) /\ streak'[b].at = time
    BY <1>2, <1>5
  <2>2. time < time + RowTtl  BY <1>1
  <2>3. streak'[b].text = {t} <=> t = text  BY <2>1
  <2> QED  BY <1>3, <1>5, <2>1, <2>2, <2>3, Zenon
<1>6. CASE ~ CountsRow(b, text, failing)  BY <1>2, <1>3, <1>4, <1>6, Zenon
<1> QED  BY <1>5, <1>6

LEMMA MessageIsInMemory ==
    ASSUME AbuseTypeOK, MessagesInOrder, MemoryHasAll,
           NEW text \in Wordings, NEW failing \in SUBSET Checks, Message(text, failing)
    PROVE  MemoryHasAll'
<1> SUFFICES ASSUME faults' = 0
             PROVE  /\ burst'["redis"] = burst'["memory"]
                    /\ ~ cleared' => \A t \in Wordings : Within(same["redis"][t], SameWindow)' \subseteq same'["memory"][t]
                    /\ ~ cleared' /\ AgreeSoFar' =>
                          \A t \in Wordings :
                              StreakWith("memory", t)' < RowLimit => StreakWith("redis", t)' <= StreakWith("memory", t)'
  BY Zenon DEF MemoryHasAll
<1>1. faults = 0 /\ failing = {}  BY NoFaultYet
<1>2. /\ "redis" \in Backends /\ "memory" \in Backends
  BY DEF Backends
<1>3. burst["redis"] = burst["memory"] /\ (BurstFull("redis") <=> BurstFull("memory"))
  BY <1>1, Zenon DEF MemoryHasAll, BurstFull
<1>4. /\ Counts("redis", text, "burst", failing) /\ Counts("memory", text, "burst", failing)
      /\ CountsSame("redis", text, failing) <=> ~ BurstFull("redis") /\ ~ SameFull("redis", text)
      /\ CountsSame("memory", text, failing) <=> ~ BurstFull("memory")
      /\ \A b \in Backends : CountsRow(b, text, failing) <=> ~ BurstFull(b) /\ ~ SameFull(b, text)
      /\ \A b \in Backends : Refusals(b, text, failing) = {} <=>
            ~ BurstFull(b) /\ ~ SameFull(b, text) /\ ~ StreakWith(b, text) >= RowLimit
  BY <1>1, <1>2, JudgementWithoutError
<1>5. burst'["redis"] = burst'["memory"]
  <2>1. \A b \in Backends : burst'[b] = IF Counts(b, text, "burst", failing) /\ ~ BurstFull(b)
                                        THEN Within(burst[b], BurstWindow) \cup {Hit} ELSE burst[b]
    BY MessageWrites
  <2> QED  BY <1>2, <1>3, <1>4, <2>1, Zenon
<1>6. /\ Grown(messages, messages') /\ cleared' = cleared /\ time' = time
      /\ messages'[Len(messages')] = [text |-> text, at |-> time, failing |-> failing,
                                      refused |-> [c \in Backends |-> Refusals(c, text, failing)]]
  BY MessageIsAppended
<1>7. ASSUME ~ cleared, NEW t \in Wordings PROVE Within(same["redis"][t], SameWindow)' \subseteq same'["memory"][t]
  <2>1. /\ ~ SameFull("memory", t) => ~ SameFull("redis", t)
        /\ Within(same["redis"][t], SameWindow) \subseteq Within(same["memory"][t], SameWindow)
    BY <1>1, <1>7, FullInMemory
  <2>2. \A b \in Backends : same'[b][t] = IF t = text /\ CountsSame(b, text, failing)
                                          THEN Within(same[b][t], SameWindow) \cup {Hit} ELSE same[b][t]
    BY CopyIsWritten
  <2>3. SUFFICES ASSUME NEW h \in same'["redis"][t], h.at + SameWindow > time PROVE h \in same'["memory"][t]
    BY <1>6 DEF Within
  <2>4. Within(same["memory"][t], SameWindow) \subseteq same["memory"][t]  BY DEF Within
  <2>5. h \in same["redis"][t] => h \in Within(same["redis"][t], SameWindow)  BY <2>3 DEF Within
  <2>6. \/ h \in Within(same["redis"][t], SameWindow)
        \/ h = Hit /\ t = text /\ CountsSame("redis", text, failing)
    BY <1>2, <2>2, <2>3, <2>5
  <2> QED  BY <1>2, <1>3, <1>4, <2>1, <2>2, <2>4, <2>6
<1>8. ASSUME ~ cleared, AgreeSoFar', NEW t \in Wordings, StreakWith("memory", t)' < RowLimit
      PROVE  StreakWith("redis", t)' <= StreakWith("memory", t)'
  <2>1. /\ Len(messages) \in Nat /\ Len(messages') = Len(messages) + 1
        /\ \A j \in 1 .. Len(messages) : messages'[j] = messages[j]
    BY <1>6 DEF Grown
  <2>2. \A j \in 1 .. Len(messages') : messages'[j].refused["memory"] = {} <=> messages'[j].refused["redis"] = {}
    BY <1>8, Zenon DEF AgreeSoFar, Passed
  <2>3. AgreeSoFar
    <3>1. \A j \in 1 .. Len(messages) : j \in 1 .. Len(messages')  BY <2>1
    <3> QED  BY <2>1, <2>2, <3>1, Zenon DEF AgreeSoFar, Passed
  <2>4. Refusals("memory", text, failing) = {} <=> Refusals("redis", text, failing) = {}
    <3>1. Len(messages') \in 1 .. Len(messages')  BY <2>1
    <3>2. /\ messages'[Len(messages')].refused["memory"] = Refusals("memory", text, failing)
          /\ messages'[Len(messages')].refused["redis"] = Refusals("redis", text, failing)
      BY <1>2, <1>6
    <3> QED  BY <2>2, <3>1, <3>2, Zenon
  <2>5. ASSUME NEW w \in Wordings
        PROVE  /\ StreakWith("memory", w) \in Nat \ {0} /\ StreakWith("redis", w) \in Nat \ {0} /\ RowLimit \in Nat
               /\ StreakWith("memory", w) < RowLimit => StreakWith("redis", w) <= StreakWith("memory", w)
    <3>1. StreakWith("memory", w) \in 1 .. Len(messages) + 1 /\ StreakWith("redis", w) \in 1 .. Len(messages) + 1
      BY <1>2, StreakTyped
    <3>2. StreakWith("memory", w) < RowLimit => StreakWith("redis", w) <= StreakWith("memory", w)
      BY <1>1, <1>8, <2>3, Zenon DEF MemoryHasAll
    <3> QED  BY <2>1, <3>1, <3>2, AbuseAssumption
  <2>6. \A b \in Backends : StreakWith(b, t)' = IF CountsRow(b, text, failing)
                                                THEN IF t = text THEN StreakWith(b, text) + 1 ELSE 1
                                                ELSE StreakWith(b, t)
    BY StreakAfter
  <2>7. CountsRow("memory", text, failing) => CountsRow("redis", text, failing)
    <3>1. ~ SameFull("memory", text) => ~ SameFull("redis", text)  BY <1>1, <1>8, FullInMemory
    <3> QED  BY <1>2, <1>3, <1>4, <3>1
  <2>8. CASE CountsRow("memory", text, failing)
    <3>1. /\ StreakWith("memory", t)' = IF t = text THEN StreakWith("memory", text) + 1 ELSE 1
          /\ StreakWith("redis", t)' = IF t = text THEN StreakWith("redis", text) + 1 ELSE 1
      BY <1>2, <2>6, <2>7, <2>8
    <3>2. CASE t = text  BY <1>8, <2>5, <3>1, <3>2
    <3>3. CASE t # text  BY <3>1, <3>3
    <3> QED  BY <3>2, <3>3
  <2>9. CASE ~ CountsRow("memory", text, failing) /\ CountsRow("redis", text, failing)
    <3>1. StreakWith("memory", t)' = StreakWith("memory", t)  BY <1>2, <2>6, <2>9
    <3>2. StreakWith("redis", t)' = IF t = text THEN StreakWith("redis", text) + 1 ELSE 1
      BY <1>2, <2>6, <2>9
    <3>3. StreakWith("redis", text) >= RowLimit
      <4>1. Refusals("memory", text, failing) # {}  BY <1>2, <1>4, <2>9
      <4> QED  BY <1>2, <1>4, <2>4, <2>9, <4>1
    <3>4. ~ StreakWith("memory", text) < RowLimit  BY <2>5, <3>3
    <3>5. CASE t = text  BY <1>8, <3>1, <3>4, <3>5
    <3>6. CASE t # text  BY <2>5, <3>1, <3>2, <3>6
    <3> QED  BY <3>5, <3>6
  <2>10. CASE ~ CountsRow("memory", text, failing) /\ ~ CountsRow("redis", text, failing)
    <3>1. StreakWith("memory", t)' = StreakWith("memory", t) /\ StreakWith("redis", t)' = StreakWith("redis", t)
      BY <1>2, <2>6, <2>10
    <3> QED  BY <1>8, <2>5, <3>1
  <2> QED  BY <2>7, <2>8, <2>9, <2>10
<1> QED  BY <1>5, <1>6, <1>7, <1>8, Zenon

\* Time passes, and nothing else.
LEMMA TickKeeps == ASSUME AbuseTypeOK, AbuseInv, AbuseTick PROVE AbuseTypeOK' /\ AbuseInv'
<1>1. /\ time' = time + 1 /\ time < MaxAbuseTime /\ lenient' = lenient /\ burst' = burst /\ same' = same
      /\ streak' = streak /\ messages' = messages /\ cleared' = cleared /\ faults' = faults
  BY DEF AbuseTick
<1>2. time \in Nat /\ time' \in Stamps  BY <1>1, AbuseAssumption DEF AbuseTypeOK, Stamps
<1>3. AbuseTypeOK'  BY <1>1, <1>2 DEF AbuseTypeOK
<1>4. MessagesInOrder /\ CopiesAreStored /\ RowIsCounted /\ MemoryHasAll /\ RepetitionIsStopped
  BY DEF AbuseInv
<1>5. Len(messages) \in Nat /\ DOMAIN messages = 1 .. Len(messages) /\ messages \in Seq(HeardMessage)
  BY <1>4, LenProperties DEF MessagesInOrder
<1>6. MessagesInOrder'
  <2>1. \A j \in 1 .. Len(messages) : messages[j].at <= time'
    <3> SUFFICES ASSUME NEW j \in 1 .. Len(messages) PROVE messages[j].at <= time'  OBVIOUS
    <3>1. messages[j].at <= time /\ messages[j].at \in Nat
      BY <1>4, <1>5, MessageTyped DEF MessagesInOrder
    <3> QED  BY <1>1, <1>2, <3>1
  <2> QED  BY <1>1, <1>4, <1>5, <2>1 DEF MessagesInOrder
<1>7. CopiesAreStored'
  <2> SUFFICES ASSUME NEW b \in Backends, NEW t \in Wordings, Keeps(b)
               PROVE  /\ \A j \in CopiesOf(messages, b, t, time') : [at |-> messages[j].at, id |-> j] \in same[b][t]
                      /\ Cardinality(CopiesOf(messages, b, t, time')) <= SameLimit - (IF b = "memory" THEN 1 ELSE 0)
    BY <1>1, HistoryOperatorsPrimed, Zenon DEF CopiesAreStored, Keeps
  <2>1. /\ \A j \in CopiesOf(messages, b, t, time) : [at |-> messages[j].at, id |-> j] \in same[b][t]
        /\ Cardinality(CopiesOf(messages, b, t, time)) <= SameLimit - (IF b = "memory" THEN 1 ELSE 0)
    BY <1>4, HistoryOperators, Zenon DEF CopiesAreStored
  <2>2. CopiesOf(messages, b, t, time') \subseteq CopiesOf(messages, b, t, time)
    <3> SUFFICES ASSUME NEW j \in CopiesOf(messages, b, t, time') PROVE j \in CopiesOf(messages, b, t, time)
      OBVIOUS
    <3>1. /\ j \in 1 .. Len(messages) /\ messages[j].refused[b] = {} /\ messages[j].text = t
          /\ messages[j].at + SameWindow > time'
          /\ ~ (b = "redis" /\ lenient /\ "same" \in messages[j].failing)
      BY DEF CopiesOf
    <3>2. messages[j].at \in Nat /\ SameWindow \in Nat  BY <1>5, <3>1, MessageTyped, AbuseAssumption
    <3>3. messages[j].at + SameWindow > time  BY <1>1, <1>2, <3>1, <3>2
    <3> QED  BY <3>1, <3>3 DEF CopiesOf
  <2>3. /\ IsFiniteSet(CopiesOf(messages, b, t, time)) /\ Cardinality(CopiesOf(messages, b, t, time)) \in Nat
        /\ Cardinality(CopiesOf(messages, b, t, time')) \in Nat
    BY <1>5, CopiesFinite
  <2>4. Cardinality(CopiesOf(messages, b, t, time')) <= Cardinality(CopiesOf(messages, b, t, time))
    BY <2>2, <2>3, FS_Subset
  <2>5. Cardinality(CopiesOf(messages, b, t, time')) <= SameLimit - (IF b = "memory" THEN 1 ELSE 0)
    BY <2>1, <2>3, <2>4, AbuseAssumption
  <2> QED  BY <2>1, <2>2, <2>5
<1>8. RowIsCounted'
  <2>1. \A b, l : Counted(b, l)' = Counted(b, l)
    BY <1>1, HistoryOperators, HistoryOperatorsPrimed, Zenon DEF Counted
  <2>2. \A b : Judged(b, Len(messages))' = Judged(b, Len(messages))  BY <1>1, Zenon DEF Judged
  <2> QED  BY <1>1, <1>4, <2>1, <2>2, Zenon DEF RowIsCounted, Keeps
<1>9. MemoryHasAll'
  <2> SUFFICES ASSUME faults = 0
               PROVE  /\ burst["redis"] = burst["memory"]
                      /\ ~ cleared => \A t \in Wordings : Within(same["redis"][t], SameWindow)' \subseteq same["memory"][t]
                      /\ ~ cleared /\ AgreeSoFar =>
                            \A t \in Wordings :
                                StreakWith("memory", t)' < RowLimit => StreakWith("redis", t)' <= StreakWith("memory", t)'
    BY <1>1, Zenon DEF MemoryHasAll, AgreeSoFar, Passed
  <2>1. burst["redis"] = burst["memory"]  BY <1>4, Zenon DEF MemoryHasAll
  <2>2. ASSUME ~ cleared, NEW t \in Wordings PROVE Within(same["redis"][t], SameWindow)' \subseteq same["memory"][t]
    <3>1. Within(same["redis"][t], SameWindow) \subseteq same["memory"][t]
      BY <1>4, <2>2, Zenon DEF MemoryHasAll
    <3> SUFFICES ASSUME NEW h \in same["redis"][t], h.at + SameWindow > time' PROVE h \in same["memory"][t]
      BY <1>1 DEF Within
    <3>2. h \in Entry  BY DEF AbuseTypeOK, Backends
    <3>3. h.at \in Nat /\ SameWindow \in Nat  BY <3>2, AbuseAssumption DEF Entry, Stamps
    <3>4. h.at + SameWindow > time  BY <1>1, <1>2, <3>3
    <3> QED  BY <3>1, <3>4 DEF Within
  <2>3. ASSUME ~ cleared, AgreeSoFar, NEW t \in Wordings, StreakWith("memory", t)' < RowLimit
        PROVE  StreakWith("redis", t)' <= StreakWith("memory", t)'
    <3>1. StreakWith("memory", t)' = StreakWith("memory", t)  BY <1>1, Zenon DEF StreakWith
    <3>2. StreakWith("redis", t) <= StreakWith("memory", t)  BY <1>4, <2>3, <3>1, Zenon DEF MemoryHasAll
    <3>3. StreakWith("redis", t) \in 1 .. Len(messages) + 1 /\ StreakWith("memory", t) \in 1 .. Len(messages) + 1
      BY <1>4, StreakTyped DEF Backends
    <3>4. StreakWith("redis", t)' = StreakWith("redis", t) \/ StreakWith("redis", t)' = 1
      <4>1. StreakWith("redis", t)' = IF streak["redis"].text = {t} /\ time' < streak["redis"].at + RowTtl
                                      THEN streak["redis"].count + 1 ELSE 1
        BY <1>1 DEF StreakWith
      <4>2. CASE streak["redis"].text = {t} /\ time' < streak["redis"].at + RowTtl
        <5>1. streak["redis"].at \in Nat /\ RowTtl \in Nat
          BY <1>4, StreakTyped, AbuseAssumption, SMTT(30) DEF Backends, Stamps
        <5>2. time < streak["redis"].at + RowTtl  BY <1>1, <1>2, <4>2, <5>1
        <5> QED  BY <4>1, <4>2, <5>2 DEF StreakWith
      <4> QED  BY <4>1, <4>2
    <3> QED  BY <1>5, <3>1, <3>2, <3>3, <3>4
  <2> QED  BY <2>1, <2>2, <2>3, Zenon
<1>10. RepetitionIsStopped'
  <2>1. CopiesPerWindow' /\ MemoryIsStricter'
    BY <1>1, <1>4, ZenonT(60) DEF RepetitionIsStopped, CopiesPerWindow, MemoryIsStricter, Newest, Passed
  <2>2. \A b, i : Judged(b, i)' = Judged(b, i) /\ InARow(b, i)' = InARow(b, i)
    BY <1>1, HistoryOperators, HistoryOperatorsPrimed, Zenon
  <2>3. RowIsStopped'  BY <1>1, <1>4, <2>2, Zenon DEF RepetitionIsStopped, RowIsStopped, Newest
  <2> QED  BY <2>1, <2>3 DEF RepetitionIsStopped
<1> QED  BY <1>3, <1>6, <1>7, <1>8, <1>9, <1>10 DEF AbuseInv

\* The maps of the process are emptied: the counters of Redis stay.
LEMMA ClearKeeps == ASSUME AbuseTypeOK, AbuseInv, ClearMaps PROVE AbuseTypeOK' /\ AbuseInv'
<1>1. /\ cleared' = TRUE /\ lenient' = lenient /\ time' = time /\ burst' = burst /\ messages' = messages /\ faults' = faults
      /\ \/ same' = [same EXCEPT !["memory"] = [t \in Wordings |-> {}]] /\ streak' = streak
         \/ streak' = [streak EXCEPT !["memory"] = NoStreak] /\ same' = same
  BY DEF ClearMaps
<1>2. MessagesInOrder /\ CopiesAreStored /\ RowIsCounted /\ MemoryHasAll /\ RepetitionIsStopped
  BY DEF AbuseInv
<1>3. /\ same \in [Backends -> [Wordings -> SUBSET Entry]] /\ Backends = {"redis", "memory"}
      /\ streak \in [Backends -> [text : SUBSET Wordings, count : 0 .. Len(messages), at : Stamps]]
      /\ Len(messages) \in Nat /\ messages \in Seq(HeardMessage) /\ Len(messages) <= MaxMessages
  BY <1>2, LenProperties DEF AbuseTypeOK, Backends, MessagesInOrder
<1>4. NoStreak \in [text : SUBSET Wordings, count : 0 .. Len(messages), at : Stamps]
  BY <1>3, AbuseAssumption DEF NoStreak, Stamps
<1>5. same' \in [Backends -> [Wordings -> SUBSET Entry]] /\ same'["redis"] = same["redis"]
  BY <1>1, <1>3
<1>6. /\ streak' \in [Backends -> [text : SUBSET Wordings, count : 0 .. Len(messages), at : Stamps]]
      /\ streak'["redis"] = streak["redis"]
  BY <1>1, <1>3, <1>4
<1>7. AbuseTypeOK'
  <2>1. 0 .. Len(messages) \subseteq 0 .. MaxMessages  BY <1>3, AbuseAssumption
  <2>2. \A b \in Backends : streak'[b].text \subseteq Wordings /\ streak'[b].count \in 0 .. MaxMessages /\ streak'[b].at \in Stamps
    BY <1>6, <2>1
  <2> QED  BY <1>1, <1>5, <2>2 DEF AbuseTypeOK
<1>8. MessagesInOrder'
  <2>1. \A b \in Backends, t \in Wordings : IsFiniteSet(same'[b][t])
    <3> SUFFICES ASSUME NEW b \in Backends, NEW t \in Wordings PROVE IsFiniteSet(same'[b][t])  OBVIOUS
    <3>1. IsFiniteSet(same[b][t])  BY <1>2, StoredFinite
    <3>2. same'[b][t] = same[b][t] \/ same'[b][t] = {}  BY <1>1, <1>3
    <3> QED  BY <3>1, <3>2, FS_EmptySet
  <2> QED  BY <1>1, <1>2, <1>6, <2>1 DEF MessagesInOrder
<1>9. CopiesAreStored'
  <2> SUFFICES ASSUME NEW t \in Wordings
               PROVE  /\ \A j \in CopiesOf(messages, "redis", t, time) : [at |-> messages[j].at, id |-> j] \in same["redis"][t]
                      /\ Cardinality(CopiesOf(messages, "redis", t, time)) <= SameLimit - (IF "redis" = "memory" THEN 1 ELSE 0)
    <3>1. \A b \in Backends : Keeps(b)' => b = "redis"  BY <1>1 DEF Keeps
    <3> QED  BY <1>1, <1>5, <3>1, HistoryOperatorsPrimed, ZenonT(60) DEF CopiesAreStored
  <2>1. "redis" \in Backends /\ Keeps("redis")  BY <1>3 DEF Keeps
  <2> QED  BY <1>2, <2>1, HistoryOperators, Zenon DEF CopiesAreStored
<1>10. /\ \A b, l : Counted(b, l)' = Counted(b, l)
       /\ \A b, i : Judged(b, i)' = Judged(b, i) /\ InARow(b, i)' = InARow(b, i)
  BY <1>1, HistoryOperators, HistoryOperatorsPrimed, Zenon DEF Counted
<1>11. RowIsCounted'
  <2>1. "redis" \in Backends /\ Keeps("redis")  BY <1>3 DEF Keeps
  <2>2. \A b \in Backends : Keeps(b)' => b = "redis"  BY <1>1 DEF Keeps
  <2>3. messages' = messages  BY <1>1
  <2>4. \/ Judged("redis", Len(messages)) = {} /\ streak["redis"].text = {}
        \/ \E l \in Judged("redis", Len(messages)) :
              (\A j \in Judged("redis", Len(messages)) : j <= l) /\ streak["redis"] = Counted("redis", l)
    BY <1>2, <2>1, Zenon DEF RowIsCounted
  <2>5. \/ Judged("redis", Len(messages))' = {} /\ streak'["redis"].text = {}
        \/ \E l \in Judged("redis", Len(messages))' :
              (\A j \in Judged("redis", Len(messages))' : j <= l) /\ streak'["redis"] = Counted("redis", l)'
    BY <1>6, <1>10, <2>3, <2>4, Zenon
  <2> SUFFICES ASSUME NEW b \in Backends, Keeps(b)'
               PROVE  \/ Judged(b, Len(messages))' = {} /\ streak'[b].text = {}
                      \/ \E l \in Judged(b, Len(messages))' :
                            (\A j \in Judged(b, Len(messages))' : j <= l) /\ streak'[b] = Counted(b, l)'
    BY Zenon DEF RowIsCounted
  <2>6. b = "redis"  BY <2>2
  <2> QED  BY <2>5, <2>6, Zenon
<1>12. MemoryHasAll'
  <2>1. faults = 0 => burst["redis"] = burst["memory"]  BY <1>2, Zenon DEF MemoryHasAll
  <2> QED  BY <1>1, <2>1, Zenon DEF MemoryHasAll
<1>13. RepetitionIsStopped'
  <2>1. MemoryIsStricter'  BY <1>1 DEF MemoryIsStricter
  <2>2. CopiesPerWindow'  BY <1>1, <1>2, ZenonT(60) DEF RepetitionIsStopped, CopiesPerWindow, Newest, Passed
  <2>3. RowIsStopped'  BY <1>1, <1>2, <1>10, Zenon DEF RepetitionIsStopped, RowIsStopped, Newest
  <2> QED  BY <2>1, <2>2, <2>3 DEF RepetitionIsStopped
<1> QED  BY <1>7, <1>8, <1>9, <1>11, <1>12, <1>13 DEF AbuseInv

LEMMA AbuseAtFirst == AbuseInit => AbuseTypeOK /\ AbuseInv
<1> SUFFICES ASSUME AbuseInit PROVE AbuseTypeOK /\ AbuseInv  OBVIOUS
<1>1. /\ messages = << >> /\ time = 0 /\ faults = 0 /\ cleared = FALSE /\ lenient \in BOOLEAN
      /\ burst = [b \in Backends |-> {}] /\ same = [b \in Backends |-> [t \in Wordings |-> {}]]
      /\ streak = [b \in Backends |-> NoStreak]
  BY DEF AbuseInit
<1>2. /\ MaxMessages \in Nat /\ MaxFaults \in Nat /\ MaxAbuseTime \in Nat
      /\ SameLimit \in Nat \ {0} /\ RowLimit \in Nat \ {0}
  BY AbuseAssumption
<1>3. 0 \in Stamps /\ NoStreak \in [text : SUBSET Wordings, count : 0 .. 0, at : Stamps]
  BY <1>2 DEF Stamps, NoStreak
<1>4. AbuseTypeOK
  <2>1. \A b \in Backends : streak[b] = NoStreak  BY <1>1
  <2>2. \A b \in Backends : streak[b].text \subseteq Wordings /\ streak[b].count \in 0 .. MaxMessages /\ streak[b].at \in Stamps
    BY <1>2, <1>3, <2>1 DEF NoStreak
  <2>3. {lenient, cleared} \subseteq BOOLEAN /\ time \in Stamps /\ faults \in 0 .. MaxFaults
    <3>1. time = 0 /\ faults = 0 /\ cleared = FALSE /\ lenient \in BOOLEAN  BY <1>1
    <3>2. 0 \in 0 .. MaxFaults  BY <1>2
    <3> QED  BY <1>3, <3>1, <3>2
  <2>4. burst \in [Backends -> SUBSET Entry]  BY <1>1
  <2>5. same \in [Backends -> [Wordings -> SUBSET Entry]]  BY <1>1
  <2> QED  BY <2>2, <2>3, <2>4, <2>5, Zenon DEF AbuseTypeOK
<1>5. /\ Len(messages) = 0 /\ DOMAIN messages = {} /\ messages \in Seq(HeardMessage) /\ 1 .. Len(messages) = {}
  BY <1>1
<1>6. MessagesInOrder
  <2>1. streak \in [Backends -> [text : SUBSET Wordings, count : 0 .. Len(messages), at : Stamps]]
    BY <1>1, <1>3, <1>5
  <2>2. \A b \in Backends : IsFiniteSet(burst[b]) /\ \A t \in Wordings : IsFiniteSet(same[b][t])
    BY <1>1, FS_EmptySet
  <2> QED  BY <1>2, <1>5, <2>1, <2>2 DEF MessagesInOrder
<1>7. CopiesAreStored
  <2> SUFFICES ASSUME NEW b \in Backends, NEW t \in Wordings
               PROVE  Copies(b, t) = {} /\ 0 <= SameLimit - (IF b = "memory" THEN 1 ELSE 0)
    BY FS_EmptySet DEF CopiesAreStored
  <2>1. Copies(b, t) = {}  BY <1>5, Zenon DEF Copies
  <2> QED  BY <1>2, <2>1
<1>8. RowIsCounted
  <2>1. \A b : Judged(b, Len(messages)) = {}  BY <1>5, Zenon DEF Judged
  <2>2. \A b \in Backends : streak[b].text = {}  BY <1>1 DEF NoStreak
  <2> QED  BY <2>1, <2>2, Zenon DEF RowIsCounted
<1>9. MemoryHasAll
  <2>1. "redis" \in Backends /\ "memory" \in Backends  BY DEF Backends
  <2>2. burst["redis"] = burst["memory"]  BY <1>1, <2>1
  <2>3. \A t \in Wordings : Within(same["redis"][t], SameWindow) \subseteq same["memory"][t]
    BY <1>1, <2>1 DEF Within
  <2>4. \A t : StreakWith("redis", t) = 1 /\ StreakWith("memory", t) = 1
    BY <1>1, <2>1 DEF StreakWith, NoStreak
  <2> QED  BY <2>2, <2>3, <2>4 DEF MemoryHasAll
<1>10. RepetitionIsStopped
  <2>1. Newest = {}  BY <1>5 DEF Newest
  <2> QED  BY <2>1 DEF RepetitionIsStopped, CopiesPerWindow, RowIsStopped, MemoryIsStricter
<1> QED  BY <1>4, <1>6, <1>7, <1>8, <1>9, <1>10 DEF AbuseInv

LEMMA AbuseKept == ASSUME AbuseTypeOK, AbuseInv, [AbuseNext]_abuseVars PROVE AbuseTypeOK' /\ AbuseInv'
<1>1. ASSUME NEW text \in Wordings, NEW failing \in SUBSET Checks, Message(text, failing)
      PROVE  AbuseTypeOK' /\ AbuseInv'
  <2>1. MessagesInOrder /\ CopiesAreStored /\ RowIsCounted /\ MemoryHasAll  BY DEF AbuseInv
  <2>2. AbuseTypeOK' /\ MessagesInOrder'  BY <1>1, <2>1, MessageTypes
  <2>3. CopiesAreStored'  BY <1>1, <2>1, MessageIsStored
  <2>4. RowIsCounted'  BY <1>1, <2>1, MessageIsCounted
  <2>5. MemoryHasAll'  BY <1>1, <2>1, MessageIsInMemory
  <2>6. RepetitionIsStopped'  BY <1>1, <2>1, MessageIsStopped
  <2> QED  BY <2>2, <2>3, <2>4, <2>5, <2>6 DEF AbuseInv
<1>2. CASE UNCHANGED abuseVars
  <2>0. /\ lenient' = lenient /\ time' = time /\ burst' = burst /\ same' = same /\ streak' = streak
        /\ messages' = messages /\ cleared' = cleared /\ faults' = faults
    BY <1>2 DEF abuseVars
  <2>1. AbuseTypeOK'  BY <2>0 DEF AbuseTypeOK
  <2>2. \A b, i : Judged(b, i)' = Judged(b, i) /\ InARow(b, i)' = InARow(b, i)
    BY <2>0, HistoryOperators, HistoryOperatorsPrimed, Zenon
  <2>3. \A b, t : Copies(b, t)' = Copies(b, t)  BY <2>0, HistoryOperators, HistoryOperatorsPrimed, Zenon
  <2>4. MessagesInOrder'  BY <2>0 DEF AbuseInv, MessagesInOrder
  <2>5. CopiesAreStored'  BY <2>0, <2>3, Zenon DEF AbuseInv, CopiesAreStored, Keeps
  <2>6. RowIsCounted'
    <3>1. \A b : Judged(b, Len(messages))' = Judged(b, Len(messages))  BY <2>0, Zenon DEF Judged
    <3> QED  BY <2>0, <2>2, <3>1, Zenon DEF AbuseInv, RowIsCounted, Counted, Keeps
  <2>7. MemoryHasAll'  BY <2>0, Zenon DEF AbuseInv, MemoryHasAll, AgreeSoFar, Within, StreakWith, Passed
  <2>8. CopiesPerWindow' /\ MemoryIsStricter'
    BY <2>0, ZenonT(60) DEF AbuseInv, RepetitionIsStopped, CopiesPerWindow, MemoryIsStricter, Newest, Passed
  <2>9. RowIsStopped'  BY <2>0, <2>2, Zenon DEF AbuseInv, RepetitionIsStopped, RowIsStopped, Newest
  <2> QED  BY <2>1, <2>4, <2>5, <2>6, <2>7, <2>8, <2>9 DEF AbuseInv, RepetitionIsStopped
<1>3. CASE AbuseNext
  <2>1. {{}} \cup {{c} : c \in Checks} \subseteq SUBSET Checks  OBVIOUS
  <2>2. CASE \E text \in Wordings, failing \in {{}} \cup {{c} : c \in Checks} : Message(text, failing)
    BY <1>1, <2>1, <2>2
  <2>3. CASE ClearMaps  BY <2>3, ClearKeeps
  <2>4. CASE AbuseTick  BY <2>4, TickKeeps
  <2> QED  BY <1>3, <2>2, <2>3, <2>4 DEF AbuseNext
<1> QED  BY <1>2, <1>3

\* The counters and the history keep their types, and what the counters say of the history
\* holds, for any number of messages, windows and limits.
THEOREM AbuseTypeCorrect == AbuseSpec => [](AbuseTypeOK /\ AbuseInv)
<1>1. (AbuseTypeOK /\ AbuseInv) /\ [AbuseNext]_abuseVars => (AbuseTypeOK /\ AbuseInv)'  BY AbuseKept
<1> QED  BY <1>1, AbuseAtFirst, PTL DEF AbuseSpec

\* However refused and accepted messages and the errors of Redis mix, a window holds no more
\* copies of a text than the limit, a text is refused as a repetition exactly if it was sent
\* so many times in a row, and the process lets none pass that Redis refuses
\* (enforce_public_widget_chat_turn).
THEOREM RepetitionIsAlwaysStopped == AbuseSpec => []RepetitionIsStopped
<1>1. AbuseInv => RepetitionIsStopped  BY DEF AbuseInv
<1> QED  BY <1>1, AbuseTypeCorrect, PTL

----------------------------------------
\* LeadAlerts: the link.

LinkSound == LinkTypeOK /\ LinkInv

LEMMA LinkBegins == AlertInit => LinkSound
<1> SUFFICES ASSUME AlertInit PROVE LinkSound  OBVIOUS
<1>1. /\ chat = NoChat /\ code = NoCode /\ codes = 0 /\ given = {} /\ lateCodes = {} /\ linkCalls = 0
      /\ linkReqs = [w \in LinkWorkers |-> LinkIdle]
  BY Zenon DEF AlertInit
<1>2. 0 \in 0 .. MaxCodes /\ 0 \in 0 .. MaxLinkCalls  BY AlertAssumption
<1>3. LinkIdle \in LinkRequest /\ LinkIdle.at = "idle"  BY <1>2 DEF LinkIdle, LinkRequest, NoCode
<1> QED  BY <1>1, <1>2, <1>3 DEF LinkSound, LinkTypeOK, LinkInv, NoCode

LEMMA LinkRequestFields ==
    ASSUME NEW r \in LinkRequest
    PROVE  r.at \in {"idle", "store", "start"} /\ r.code \in 0 .. MaxCodes /\ r.chat \in Chats \cup {NoChat}
BY Zenon DEF LinkRequest

LEMMA LinkRequestMoves ==
    ASSUME LinkSound, NEW w \in LinkWorkers, NEW r \in LinkRequest, linkReqs' = [linkReqs EXCEPT ![w] = r],
           r.at # "idle" => r.code # NoCode
    PROVE  /\ linkReqs' \in [LinkWorkers -> LinkRequest]
           /\ \A v \in LinkWorkers : linkReqs'[v].at # "idle" => linkReqs'[v].code # NoCode
<1>1. /\ linkReqs \in [LinkWorkers -> LinkRequest]
      /\ \A v \in LinkWorkers : linkReqs[v].at # "idle" => linkReqs[v].code # NoCode
  BY DEF LinkSound, LinkTypeOK, LinkInv
<1>2. \A v \in LinkWorkers : linkReqs'[v] = IF v = w THEN r ELSE linkReqs[v]  BY <1>1
<1> QED  BY <1>1, <1>2

\* A link code is stored late or before a chat is linked; a /start carries a code.
LEMMA LinkStepIsSound ==
    ASSUME LinkSound, LinkNext
    PROVE  LinkSound'
<1>1. /\ chat \in Chats \cup {NoChat} /\ code \in 0 .. MaxCodes /\ codes \in 0 .. MaxCodes
      /\ given \subseteq 1 .. MaxCodes /\ lateCodes \subseteq 1 .. MaxCodes
      /\ linkCalls \in 0 .. MaxLinkCalls /\ linkReqs \in [LinkWorkers -> LinkRequest]
      /\ chat # NoChat /\ code # NoCode => code \in lateCodes
      /\ \A v \in LinkWorkers : linkReqs[v].at # "idle" => linkReqs[v].code # NoCode
  BY DEF LinkSound, LinkTypeOK, LinkInv
<1>2. MaxCodes \in Nat /\ MaxLinkCalls \in Nat /\ NoCode = 0  BY AlertAssumption DEF NoCode
<1>3. linkCalls < MaxLinkCalls /\ linkCalls' = linkCalls + 1 => linkCalls' \in 0 .. MaxLinkCalls
  BY <1>1, <1>2
<1>4. ASSUME NEW w \in LinkWorkers
      PROVE  linkReqs[w] \in LinkRequest /\ LinkIdle \in LinkRequest /\ LinkIdle.at = "idle"
  BY <1>1, <1>2 DEF LinkIdle, LinkRequest
<1>5. ASSUME NEW w \in LinkWorkers, ReadLink(w) PROVE LinkSound'
  <2>1. /\ linkCalls' \in 0 .. MaxLinkCalls /\ UNCHANGED <<chat, code, lateCodes>>
    BY <1>3, <1>5 DEF ReadLink, BeginLink
  <2>2. CASE UNCHANGED <<linkReqs, codes>> /\ given' \subseteq given \cup ({code} \ {NoCode})
    <3>1. given' \subseteq 1 .. MaxCodes  BY <1>1, <1>2, <2>2
    <3> QED  BY <1>1, <2>1, <2>2, <3>1 DEF LinkSound, LinkTypeOK, LinkInv
  <2>3. CASE /\ codes < MaxCodes /\ codes' = codes + 1 /\ given' = given
             /\ linkReqs' = [linkReqs EXCEPT ![w] = [at |-> "store", code |-> codes + 1, chat |-> NoChat]]
    <3>1. codes + 1 \in 0 .. MaxCodes  BY <1>1, <1>2, <2>3
    <3>2. [at |-> "store", code |-> codes + 1, chat |-> NoChat] \in LinkRequest  BY <3>1 DEF LinkRequest
    <3>4. codes + 1 # NoCode  BY <1>1, <1>2
    <3>3. /\ linkReqs' \in [LinkWorkers -> LinkRequest]
          /\ \A v \in LinkWorkers : linkReqs'[v].at # "idle" => linkReqs'[v].code # NoCode
      BY <2>3, <3>2, <3>4, LinkRequestMoves
    <3> QED  BY <1>1, <2>1, <2>3, <3>1, <3>3 DEF LinkSound, LinkTypeOK, LinkInv
  <2>4. \/ UNCHANGED <<linkReqs, codes>> /\ given' \subseteq given \cup ({code} \ {NoCode})
        \/ /\ codes < MaxCodes /\ codes' = codes + 1 /\ given' = given
           /\ linkReqs' = [linkReqs EXCEPT ![w] = [at |-> "store", code |-> codes + 1, chat |-> NoChat]]
    BY <1>5 DEF ReadLink
  <2> QED  BY <2>2, <2>3, <2>4
<1>6. ASSUME NEW w \in LinkWorkers, StoreCode(w) PROVE LinkSound'
  <2>1. /\ linkReqs[w].at = "store" /\ code' = linkReqs[w].code /\ given' = given \cup {linkReqs[w].code}
        /\ lateCodes' = IF chat = NoChat THEN lateCodes ELSE lateCodes \cup {linkReqs[w].code}
        /\ linkReqs' = [linkReqs EXCEPT ![w] = LinkIdle] /\ UNCHANGED <<chat, codes, linkCalls>>
    BY <1>6 DEF StoreCode
  <2>2. linkReqs[w].code \in 1 .. MaxCodes
    <3>1. linkReqs[w].code \in 0 .. MaxCodes /\ linkReqs[w].code # 0
      BY <1>1, <1>2, <1>4, <2>1, LinkRequestFields
    <3> QED  BY <1>2, <3>1
  <2>3. /\ linkReqs' \in [LinkWorkers -> LinkRequest]
        /\ \A v \in LinkWorkers : linkReqs'[v].at # "idle" => linkReqs'[v].code # NoCode
    BY <1>4, <2>1, LinkRequestMoves
  <2>4. code' \in 0 .. MaxCodes /\ given' \subseteq 1 .. MaxCodes /\ lateCodes' \subseteq 1 .. MaxCodes
    <3>1. PICK k \in 1 .. MaxCodes : k = linkReqs[w].code  BY <2>2
    <3>2. code' = k /\ given' = given \cup {k} /\ (lateCodes' = lateCodes \/ lateCodes' = lateCodes \cup {k})
      BY <2>1, <3>1
    <3>3. k \in 0 .. MaxCodes  BY <1>2
    <3> QED  BY <1>1, <3>2, <3>3
  <2>5. chat' # NoChat /\ code' # NoCode => code' \in lateCodes'  BY <2>1
  <2> QED  BY <1>1, <2>1, <2>3, <2>4, <2>5 DEF LinkSound, LinkTypeOK, LinkInv
<1>7. ASSUME NEW w \in LinkWorkers, NEW c \in Chats, NEW k \in given, ReadStart(w, c, k) PROVE LinkSound'
  <2>1. /\ linkCalls' \in 0 .. MaxLinkCalls /\ UNCHANGED <<chat, code, codes, given, lateCodes>>
    BY <1>3, <1>7 DEF ReadStart, BeginLink
  <2>2. CASE linkReqs' = linkReqs  BY <1>1, <2>1, <2>2 DEF LinkSound, LinkTypeOK, LinkInv
  <2>3. CASE linkReqs' = [linkReqs EXCEPT ![w] = [at |-> "start", code |-> k, chat |-> c]]
    <3>1. k \in 0 .. MaxCodes /\ k # NoCode  BY <1>1, <1>2
    <3>2. [at |-> "start", code |-> k, chat |-> c] \in LinkRequest  BY <3>1 DEF LinkRequest
    <3>3. /\ linkReqs' \in [LinkWorkers -> LinkRequest]
          /\ \A v \in LinkWorkers : linkReqs'[v].at # "idle" => linkReqs'[v].code # NoCode
      BY <2>3, <3>1, <3>2, LinkRequestMoves
    <3> QED  BY <1>1, <2>1, <3>3 DEF LinkSound, LinkTypeOK, LinkInv
  <2> QED  BY <1>7, <2>2, <2>3 DEF ReadStart
<1>8. ASSUME NEW w \in LinkWorkers, StoreStart(w) PROVE LinkSound'
  <2>1. /\ linkReqs[w].at = "start" /\ chat' = linkReqs[w].chat /\ code' = NoCode
        /\ linkReqs' = [linkReqs EXCEPT ![w] = LinkIdle] /\ UNCHANGED <<codes, given, lateCodes, linkCalls>>
    BY <1>8 DEF StoreStart, CodeAfterStart
  <2>2. chat' \in Chats \cup {NoChat}  BY <1>4, <2>1, LinkRequestFields
  <2>3. /\ linkReqs' \in [LinkWorkers -> LinkRequest]
        /\ \A v \in LinkWorkers : linkReqs'[v].at # "idle" => linkReqs'[v].code # NoCode
    BY <1>4, <2>1, LinkRequestMoves
  <2> QED  BY <1>1, <1>2, <2>1, <2>2, <2>3 DEF LinkSound, LinkTypeOK, LinkInv
<1>9. ASSUME NEW w \in LinkWorkers, LinkRequestDies(w) PROVE LinkSound'
  <2>1. linkReqs' = [linkReqs EXCEPT ![w] = LinkIdle] /\ UNCHANGED <<chat, code, codes, given, lateCodes, linkCalls>>
    BY <1>9 DEF LinkRequestDies
  <2>2. /\ linkReqs' \in [LinkWorkers -> LinkRequest]
        /\ \A v \in LinkWorkers : linkReqs'[v].at # "idle" => linkReqs'[v].code # NoCode
    BY <1>4, <2>1, LinkRequestMoves
  <2> QED  BY <1>1, <2>1, <2>2 DEF LinkSound, LinkTypeOK, LinkInv
<1>10. ASSUME Unlink_ PROVE LinkSound'
  <2>1. /\ linkCalls' \in 0 .. MaxLinkCalls /\ chat' = NoChat /\ code' = NoCode
        /\ UNCHANGED <<codes, given, lateCodes, linkReqs>>
    BY <1>3, <1>10 DEF Unlink_
  <2> QED  BY <1>1, <1>2, <2>1 DEF LinkSound, LinkTypeOK, LinkInv
<1> QED  BY <1>5, <1>6, <1>7, <1>8, <1>9, <1>10 DEF LinkNext

----------------------------------------
\* LeadAlerts: the delivery.

RouteSound == RouteTypeOK /\ DeliveryIsWhole /\ \A l \in NewLeads : DeliveryIsNoted(l)

\* What a step about one lead leaves alone.
OnlyLead(m) ==
    /\ UNCHANGED <<target, wants>>
    /\ \A l \in NewLeads \ {m} : /\ leads'[l] = leads[l] /\ bell'[l] = bell[l]
                                /\ deliveries'[l] = deliveries[l] /\ arrived'[l] = arrived[l]

\* A step that rightly moves the delivery of one lead whose row is not there yet.
LeadMoves(m) ==
    /\ RouteTypeOK' /\ OnlyLead(m) /\ IsWhole(m)' /\ DeliveryIsNoted(m)' /\ ~ leads[m].routed

RouteTypes ==
    /\ MaxSends \in Nat \ {0} /\ wants \subseteq Channels
    /\ leads \in [NewLeads -> LeadRow] /\ deliveries \in [NewLeads -> DeliveryState]
    /\ bell \in [NewLeads -> {"none", "unread", "read"}] /\ arrived \in [NewLeads -> 0 .. MaxSends]

LEMMA RouteTypesHold ==
    ASSUME RouteSound
    PROVE  RouteTypes
BY AlertAssumption, Zenon DEF RouteSound, RouteTypeOK, RouteTypes

LeadIsTyped(l) ==
    /\ leads[l].there \in BOOLEAN /\ leads[l].routed \in BOOLEAN /\ leads[l].telegram \in TelegramStates
    /\ leads[l].attempts \in 0 .. MaxSends /\ leads[l].events \subseteq {"inbox"} \cup Channels
    /\ deliveries[l].at \in {"idle", "send", "mail", "commit", "done", "failed"}
    /\ deliveries[l].attempts \in 0 .. MaxSends /\ deliveries[l].telegram \in TelegramStates
    /\ deliveries[l].events \subseteq {"inbox"} \cup Channels
    /\ bell[l] \in {"none", "unread", "read"} /\ arrived[l] \in 0 .. MaxSends

LEMMA LeadTypes ==
    ASSUME RouteSound, NEW l \in NewLeads
    PROVE  LeadIsTyped(l)
<1>1. /\ leads[l] \in LeadRow /\ deliveries[l] \in DeliveryState
      /\ bell[l] \in {"none", "unread", "read"} /\ arrived[l] \in 0 .. MaxSends
  BY RouteTypesHold DEF RouteTypes
<1>2. /\ leads[l].there \in BOOLEAN /\ leads[l].routed \in BOOLEAN /\ leads[l].telegram \in TelegramStates
      /\ leads[l].attempts \in 0 .. MaxSends /\ leads[l].events \subseteq {"inbox"} \cup Channels
  BY <1>1, Zenon DEF LeadRow
<1>3. /\ deliveries[l].at \in {"idle", "send", "mail", "commit", "done", "failed"}
      /\ deliveries[l].attempts \in 0 .. MaxSends /\ deliveries[l].telegram \in TelegramStates
      /\ deliveries[l].events \subseteq {"inbox"} \cup Channels
  BY <1>1, Zenon DEF DeliveryState
<1> QED  BY <1>1, <1>2, <1>3, Zenon DEF LeadIsTyped

LEMMA RouteBegins == AlertInit => RouteSound
<1> SUFFICES ASSUME AlertInit PROVE RouteSound  OBVIOUS
<1>1. /\ target \in BOOLEAN /\ wants \subseteq Channels
      /\ leads = [l \in NewLeads |-> NewLead] /\ bell = [l \in NewLeads |-> "none"]
      /\ deliveries = [l \in NewLeads |-> NotBegun] /\ arrived = [l \in NewLeads |-> 0]
  BY Zenon DEF AlertInit
<1>2. 0 \in 0 .. MaxSends  BY AlertAssumption
<1>3. NewLead \in LeadRow /\ NotBegun \in DeliveryState
  BY <1>2 DEF NewLead, NotBegun, LeadRow, DeliveryState, TelegramStates
<1>4. RouteTypeOK  BY <1>1, <1>2, <1>3 DEF RouteTypeOK
<1>5. ~ NewLead.routed /\ NewLead.events = {} /\ NewLead.telegram = "none" /\ NotBegun.at = "idle"
  BY DEF NewLead, NotBegun
<1>6. ASSUME NEW l \in NewLeads PROVE IsWhole(l) /\ DeliveryIsNoted(l)
  BY <1>1, <1>5 DEF IsWhole, DeliveryIsNoted
<1> QED  BY <1>4, <1>6 DEF RouteSound, DeliveryIsWhole

\* What a row of a lead tells when it is committed, and what it did not tell before.
LEMMA OtherLeadStays ==
    ASSUME NEW l \in NewLeads, IsWhole(l), DeliveryIsNoted(l), UNCHANGED wants,
           leads'[l].routed = leads[l].routed, leads'[l].telegram = leads[l].telegram,
           leads'[l].attempts = leads[l].attempts, leads'[l].events = leads[l].events,
           bell'[l] # "none" <=> bell[l] # "none", deliveries'[l] = deliveries[l], arrived'[l] = arrived[l]
    PROVE  IsWhole(l)' /\ DeliveryIsNoted(l)'
<1>1. IsWhole(l)'  BY DEF IsWhole
<1>2. DeliveryIsNoted(l)'  BY DEF DeliveryIsNoted, NotedAs
<1> QED  BY <1>1, <1>2

LEMMA MoveIsSound ==
    ASSUME RouteSound, NEW m \in NewLeads, LeadMoves(m)
    PROVE  RouteSound'
<1>1. UNCHANGED wants  BY DEF LeadMoves, OnlyLead
<1>2. ASSUME NEW l \in NewLeads, l # m PROVE IsWhole(l)' /\ DeliveryIsNoted(l)'
  <2>1. /\ leads'[l] = leads[l] /\ bell'[l] = bell[l] /\ deliveries'[l] = deliveries[l] /\ arrived'[l] = arrived[l]
    BY <1>2 DEF LeadMoves, OnlyLead
  <2>2. IsWhole(l) /\ DeliveryIsNoted(l)  BY DEF RouteSound, DeliveryIsWhole
  <2> QED  BY <1>1, <2>1, <2>2, OtherLeadStays
<1>3. IsWhole(m)' /\ DeliveryIsNoted(m)' /\ RouteTypeOK'  BY Zenon DEF LeadMoves
<1>4. \A l \in NewLeads : IsWhole(l)' /\ DeliveryIsNoted(l)'  BY <1>2, <1>3
<1> QED  BY <1>3, <1>4 DEF RouteSound, DeliveryIsWhole

\* A step that writes only what a delivery has noted.
LEMMA NoteMoves ==
    ASSUME RouteSound, NEW m \in NewLeads, NEW d \in DeliveryState, NEW n \in 0 .. MaxSends,
           UNCHANGED <<target, wants, leads, bell>>,
           deliveries' = [deliveries EXCEPT ![m] = d], arrived' = [arrived EXCEPT ![m] = n],
           deliveries[m].at # "done", d.at \notin {"done", "idle"},
           d.at = "send" => n <= d.attempts /\ d.attempts < MaxSends /\ d.events = {"inbox"},
           d.at \in {"mail", "commit"} => NotedAs(d, n)
    PROVE  LeadMoves(m)
<1>1. RouteTypes /\ RouteTypeOK /\ IsWhole(m) /\ DeliveryIsNoted(m)
  BY RouteTypesHold DEF RouteSound, DeliveryIsWhole
<1>2. /\ deliveries'[m] = d /\ arrived'[m] = n /\ leads' = leads /\ bell' = bell /\ wants' = wants /\ target' = target
      /\ \A l \in NewLeads \ {m} : deliveries'[l] = deliveries[l] /\ arrived'[l] = arrived[l]
      /\ deliveries' \in [NewLeads -> DeliveryState] /\ arrived' \in [NewLeads -> 0 .. MaxSends]
  BY <1>1 DEF RouteTypes
<1>3. ~ leads[m].routed  BY <1>1 DEF DeliveryIsNoted
<1>4. IsWhole(m)'  BY <1>1, <1>2, <1>3 DEF IsWhole
<1>5. NotedAs(d, n)' <=> NotedAs(d, n)  BY <1>2 DEF NotedAs
<1>6. DeliveryIsNoted(m)'
  <2>1. d.at \in {"mail", "commit"} => NotedAs(d, n)'  BY <1>5
  <2>2. d.at \in {"mail", "commit"} => NotedAs(deliveries[m], arrived[m])'  BY <1>2, <2>1 DEF NotedAs
  <2> QED  BY <1>2, <1>3, <2>2 DEF DeliveryIsNoted
<1>7. OnlyLead(m) /\ RouteTypeOK'  BY <1>1, <1>2, Zenon DEF OnlyLead, RouteTypeOK
<1> QED  BY <1>3, <1>4, <1>6, <1>7 DEF LeadMoves

LEMMA ArrivedAsItWas ==
    ASSUME RouteSound, NEW m \in NewLeads, UNCHANGED arrived
    PROVE  arrived' = [arrived EXCEPT ![m] = arrived[m]]
BY RouteTypesHold DEF RouteTypes

LEMMA RouteLeadMoves ==
    ASSUME RouteSound, NEW m \in NewLeads, RouteLead(m)
    PROVE  LeadMoves(m)
<1> DEFINE routed == [at |-> IF NotTried = "none" THEN "send" ELSE "mail", attempts |-> 0, telegram |-> NotTried,
                      events |-> IF NotTried = "none" THEN {"inbox"} ELSE {"inbox"} \cup {"telegram"}]
           d == IF ~ leads[m].there THEN [NotBegun EXCEPT !.at = "failed"] ELSE routed
<1>1. /\ deliveries[m].at = "idle" /\ ~ leads[m].routed /\ UNCHANGED <<target, wants, leads, bell, arrived>>
      /\ deliveries' = [deliveries EXCEPT ![m] = d]
  BY Zenon DEF RouteLead, WithEvent
<1>2. LeadIsTyped(m) /\ RouteTypes /\ DeliveryIsNoted(m)  BY LeadTypes, RouteTypesHold DEF RouteSound
<1>3. arrived[m] = 0 /\ 0 \in 0 .. MaxSends /\ 0 < MaxSends
  BY <1>1, <1>2 DEF DeliveryIsNoted, RouteTypes
<1>4. NotTried \in {"none", "skipped_owner_pref", "skipped_no_target"}  BY DEF NotTried
<1>5. ASSUME leads[m].there, NotTried = "none"
      PROVE  d \in DeliveryState /\ d.at = "send" /\ d.attempts = 0 /\ d.events = {"inbox"}
  BY <1>3, <1>5 DEF DeliveryState, TelegramStates
<1>6. ASSUME leads[m].there, NotTried # "none"
      PROVE  /\ d \in DeliveryState /\ d.at = "mail" /\ d.attempts = 0 /\ d.events = {"inbox", "telegram"}
             /\ d.telegram = NotTried
  <2>1. d = [at |-> "mail", attempts |-> 0, telegram |-> NotTried, events |-> {"inbox", "telegram"}]
    BY <1>6
  <2>2. NotTried \in TelegramStates  BY <1>4 DEF TelegramStates
  <2> HIDE DEF d
  <2> QED  BY <1>3, <2>1, <2>2 DEF DeliveryState, Channels
<1>7. ASSUME ~ leads[m].there PROVE d \in DeliveryState /\ d.at = "failed"
  BY <1>3, <1>7 DEF DeliveryState, TelegramStates, NotBegun
<1> HIDE DEF d
<1>8. d \in DeliveryState /\ d.at \in {"send", "mail", "failed"}  BY <1>5, <1>6, <1>7
<1>9. d.at = "send" => arrived[m] <= d.attempts /\ d.attempts < MaxSends /\ d.events = {"inbox"}
  BY <1>3, <1>5, <1>6, <1>7
<1>10. d.at = "mail" => NotedAs(d, arrived[m])
  <2> SUFFICES ASSUME d.at = "mail" PROVE NotedAs(d, arrived[m])  OBVIOUS
  <2>1. leads[m].there /\ NotTried # "none"  BY <1>5, <1>7
  <2>2. d.attempts = 0 /\ d.events = {"inbox", "telegram"} /\ d.telegram \in {"skipped_owner_pref", "skipped_no_target"}
    BY <1>4, <1>6, <2>1
  <2> QED  BY <1>3, <2>2 DEF NotedAs, TelegramStates
<1>11. arrived' = [arrived EXCEPT ![m] = arrived[m]] /\ arrived[m] \in 0 .. MaxSends
  BY <1>1, <1>3, ArrivedAsItWas
<1> QED  BY <1>1, <1>8, <1>9, <1>10, <1>11, NoteMoves

LEMMA SendAlertMoves ==
    ASSUME RouteSound, NEW m \in NewLeads, NEW answer \in {"ok", "refused", "busy", "lost", "unreadable"},
           NEW taken \in BOOLEAN, SendAlert(m, answer, taken)
    PROVE  LeadMoves(m)
<1> DEFINE k == deliveries[m].attempts + 1
           more == TriesAgain(answer) /\ k < MaxSends
           tries == IF answer = "unreadable" THEN 0 ELSE k
           again == [deliveries[m] EXCEPT !.attempts = k]
           over == [at |-> "mail", attempts |-> tries, telegram |-> Tried(answer), events |-> deliveries[m].events \cup {"telegram"}]
           d == IF more THEN again ELSE over
           n == arrived[m] + IF taken THEN 1 ELSE 0
<1>1. /\ deliveries[m].at = "send" /\ taken \in Arrives(answer) /\ UNCHANGED <<target, wants, leads, bell>>
      /\ arrived' = [arrived EXCEPT ![m] = n]
      /\ deliveries' = [deliveries EXCEPT ![m] = d]
  <2>1. m \in DOMAIN deliveries /\ m \in DOMAIN arrived  BY RouteTypesHold DEF RouteTypes
  <2> QED  BY <2>1, Zenon DEF SendAlert, WithEvent
<1>2. LeadIsTyped(m) /\ RouteTypes /\ DeliveryIsNoted(m) /\ deliveries[m] \in DeliveryState
  BY LeadTypes, RouteTypesHold DEF RouteSound, RouteTypes
<1>3. /\ deliveries[m].attempts \in 0 .. MaxSends /\ arrived[m] \in 0 .. MaxSends /\ MaxSends \in Nat \ {0}
      /\ deliveries[m].attempts < MaxSends /\ arrived[m] <= deliveries[m].attempts /\ deliveries[m].events = {"inbox"}
  BY <1>1, <1>2 DEF DeliveryIsNoted, LeadIsTyped, RouteTypes
<1>4. k \in 1 .. MaxSends /\ n \in 0 .. MaxSends /\ n <= k  BY <1>3
<1>5. answer = "ok" => taken  BY <1>1 DEF Arrives
<1>6. taken => n \in 1 .. k  BY <1>3
<1> HIDE DEF k, n
<1>7. tries \in 0 .. MaxSends  BY <1>3, <1>4
<1> HIDE DEF tries
<1>8. again \in DeliveryState /\ again.at = "send" /\ again.attempts = k /\ again.events = {"inbox"}
  BY <1>1, <1>2, <1>3, <1>4 DEF DeliveryState
<1>9. over \in DeliveryState /\ over.at = "mail" /\ over.events = {"inbox", "telegram"} /\ over.attempts = tries
      /\ over.telegram = Tried(answer)
  <2>1. Tried(answer) \in TelegramStates  BY DEF Tried, TelegramStates
  <2>2. over = [at |-> "mail", attempts |-> tries, telegram |-> Tried(answer), events |-> {"inbox", "telegram"}]
    BY <1>3
  <2> HIDE DEF over
  <2> QED  BY <1>7, <2>1, <2>2 DEF DeliveryState, Channels
<1>10. NotedAs(over, n)
  <2>1. Tried(answer) \in {"delivered", "failed"} /\ (Tried(answer) = "delivered" => answer = "ok")
    BY DEF Tried
  <2>2. answer = "ok" => tries = k  BY DEF tries
  <2>3. Tried(answer) = "delivered" => n \in 1 .. tries  BY <1>5, <1>6, <2>1, <2>2
  <2> HIDE DEF over
  <2> QED  BY <1>9, <2>1, <2>3 DEF NotedAs, TelegramStates
<1>11. more => k < MaxSends  OBVIOUS
<1> HIDE DEF again, over, more
<1>12. d = again \/ d = over  OBVIOUS
<1>13. d = again => k < MaxSends  BY <1>8, <1>9, <1>11
<1>14. d \in DeliveryState /\ d.at \in {"send", "mail"}  BY <1>8, <1>9, <1>12
<1>15. d.at = "send" => n <= d.attempts /\ d.attempts < MaxSends /\ d.events = {"inbox"}
  BY <1>4, <1>8, <1>9, <1>12, <1>13
<1>16. d.at = "mail" => NotedAs(d, n)  BY <1>8, <1>10, <1>12
<1> HIDE DEF d
<1> QED  BY <1>1, <1>4, <1>14, <1>15, <1>16, NoteMoves

LEMMA MailAlertMoves ==
    ASSUME RouteSound, NEW m \in NewLeads, MailAlert(m)
    PROVE  LeadMoves(m)
<1> DEFINE e == IF "email" \in wants THEN deliveries[m].events \cup {"email"} ELSE deliveries[m].events
           d == [deliveries[m] EXCEPT !.at = "commit", !.events = e]
<1>1. /\ deliveries[m].at = "mail" /\ UNCHANGED <<target, wants, leads, bell, arrived>>
      /\ deliveries' = [deliveries EXCEPT ![m] = d]
  <2>1. m \in DOMAIN deliveries  BY RouteTypesHold DEF RouteTypes
  <2> QED  BY <2>1, Zenon DEF MailAlert, WithEvent
<1>2. LeadIsTyped(m) /\ DeliveryIsNoted(m) /\ deliveries[m] \in DeliveryState
  BY LeadTypes, RouteTypesHold DEF RouteSound, RouteTypes
<1>3. NotedAs(deliveries[m], arrived[m]) /\ deliveries[m].events = {"inbox", "telegram"}
  BY <1>1, <1>2 DEF DeliveryIsNoted, NotedAs
<1>4. e = {"inbox", "telegram"} \cup (wants \cap {"email"})  BY <1>3
<1>5. e \subseteq {"inbox"} \cup Channels  BY <1>4 DEF Channels
<1> HIDE DEF e
<1>6. d \in DeliveryState /\ d.at = "commit" /\ d.events = e /\ d.telegram = deliveries[m].telegram
      /\ d.attempts = deliveries[m].attempts
  BY <1>2, <1>5 DEF DeliveryState
<1> HIDE DEF d
<1>7. NotedAs(d, arrived[m])  BY <1>3, <1>4, <1>6 DEF NotedAs
<1>8. arrived' = [arrived EXCEPT ![m] = arrived[m]] /\ arrived[m] \in 0 .. MaxSends
  BY <1>1, <1>2, ArrivedAsItWas DEF LeadIsTyped
<1>9. deliveries[m].at # "done" /\ d.at \notin {"done", "idle", "send"}  BY <1>1, <1>6
<1> QED  BY <1>1, <1>6, <1>7, <1>8, <1>9, NoteMoves

LEMMA DeliveryFailsMoves ==
    ASSUME RouteSound, NEW m \in NewLeads, DeliveryFails(m)
    PROVE  LeadMoves(m)
<1> DEFINE d == [deliveries[m] EXCEPT !.at = "failed"]
<1>1. /\ deliveries[m].at \in {"send", "mail", "commit"} /\ UNCHANGED <<target, wants, leads, bell, arrived>>
      /\ deliveries' = [deliveries EXCEPT ![m] = d]
  <2>1. m \in DOMAIN deliveries  BY RouteTypesHold DEF RouteTypes
  <2> QED  BY <2>1, Zenon DEF DeliveryFails, Step
<1>2. LeadIsTyped(m) /\ deliveries[m] \in DeliveryState  BY LeadTypes, RouteTypesHold DEF RouteTypes
<1>3. d \in DeliveryState /\ d.at = "failed"  BY <1>2 DEF DeliveryState
<1> HIDE DEF d
<1>4. arrived' = [arrived EXCEPT ![m] = arrived[m]] /\ arrived[m] \in 0 .. MaxSends
  BY <1>1, <1>2, ArrivedAsItWas DEF LeadIsTyped
<1> QED  BY <1>1, <1>3, <1>4, NoteMoves

LEMMA CommitDeliveryMoves ==
    ASSUME RouteSound, NEW m \in NewLeads, CommitDelivery(m)
    PROVE  LeadMoves(m)
<1> DEFINE e == deliveries[m]
           d == [e EXCEPT !.at = "done"]
           r == [there |-> TRUE, routed |-> TRUE, telegram |-> e.telegram, attempts |-> e.attempts, events |-> e.events]
<1>1. /\ e.at = "commit" /\ leads' = [leads EXCEPT ![m] = r] /\ bell' = [bell EXCEPT ![m] = "unread"]
      /\ deliveries' = [deliveries EXCEPT ![m] = d] /\ UNCHANGED <<target, wants, arrived>>
  <2>1. m \in DOMAIN deliveries  BY RouteTypesHold DEF RouteTypes
  <2> QED  BY <2>1, Zenon DEF CommitDelivery, StoresAt, Rings, Step
<1>2. LeadIsTyped(m) /\ RouteTypes /\ RouteTypeOK /\ DeliveryIsNoted(m) /\ e \in DeliveryState
  BY LeadTypes, RouteTypesHold DEF RouteSound, RouteTypes
<1>3. NotedAs(e, arrived[m]) /\ ~ leads[m].routed  BY <1>1, <1>2 DEF DeliveryIsNoted
<1>4. e.events = {"inbox", "telegram"} \cup (wants \cap {"email"})  BY <1>1, <1>3 DEF NotedAs
<1>5. e.telegram \in TelegramStates /\ e.attempts \in 0 .. MaxSends /\ e.events \subseteq {"inbox"} \cup Channels
  BY <1>2, Zenon DEF LeadIsTyped
<1>6. d \in DeliveryState /\ d.at = "done"  BY <1>2 DEF DeliveryState
<1>7. r \in LeadRow  BY <1>5, Zenon DEF LeadRow
<1>8. /\ r.routed /\ r.telegram = e.telegram /\ r.attempts = e.attempts /\ r.events = e.events
  OBVIOUS
<1> HIDE DEF d, r
<1>9. /\ leads'[m] = r /\ bell'[m] = "unread" /\ deliveries'[m] = d /\ arrived'[m] = arrived[m] /\ wants' = wants
      /\ \A l \in NewLeads \ {m} : /\ leads'[l] = leads[l] /\ bell'[l] = bell[l]
                                   /\ deliveries'[l] = deliveries[l] /\ arrived'[l] = arrived[l]
      /\ leads' \in [NewLeads -> LeadRow] /\ bell' \in [NewLeads -> {"none", "unread", "read"}]
      /\ deliveries' \in [NewLeads -> DeliveryState]
  BY <1>1, <1>2, <1>6, <1>7 DEF RouteTypes
<1>10. OnlyLead(m) /\ RouteTypeOK'  BY <1>1, <1>2, <1>9, Zenon DEF OnlyLead, RouteTypeOK
<1>11. IsWhole(m)'  BY <1>3, <1>4, <1>8, <1>9 DEF IsWhole, NotedAs
<1>12. DeliveryIsNoted(m)'  BY <1>6, <1>8, <1>9 DEF DeliveryIsNoted
<1> QED  BY <1>3, <1>10, <1>11, <1>12 DEF LeadMoves

LEMMA LoseLeadsIsSound ==
    ASSUME RouteSound, LoseLeads
    PROVE  RouteSound' /\ UNCHANGED <<arrived, bell>>
           /\ \A l \in NewLeads : leads'[l] = [leads[l] EXCEPT !.there = FALSE]
<1>1. /\ leads' = [l \in NewLeads |-> [leads[l] EXCEPT !.there = FALSE]]
      /\ UNCHANGED <<target, wants, bell, deliveries, arrived>>
  BY DEF LoseLeads
<1>2. RouteTypes /\ RouteTypeOK  BY RouteTypesHold DEF RouteSound
<1>3. ASSUME NEW l \in NewLeads
      PROVE  /\ leads'[l] = [leads[l] EXCEPT !.there = FALSE] /\ leads'[l] \in LeadRow
             /\ leads'[l].routed = leads[l].routed /\ leads'[l].telegram = leads[l].telegram
             /\ leads'[l].attempts = leads[l].attempts /\ leads'[l].events = leads[l].events
  <2>1. leads[l] \in LeadRow  BY <1>2 DEF RouteTypes
  <2>2. leads'[l] = [leads[l] EXCEPT !.there = FALSE]  BY <1>1
  <2> QED  BY <2>1, <2>2, Zenon DEF LeadRow
<1>4. leads' \in [NewLeads -> LeadRow]  BY <1>1, <1>3
<1>5. RouteTypeOK'  BY <1>1, <1>2, <1>4, Zenon DEF RouteTypeOK
<1>6. ASSUME NEW l \in NewLeads PROVE IsWhole(l)' /\ DeliveryIsNoted(l)'
  <2>1. IsWhole(l) /\ DeliveryIsNoted(l)  BY DEF RouteSound, DeliveryIsWhole
  <2>2. bell'[l] = bell[l] /\ deliveries'[l] = deliveries[l] /\ arrived'[l] = arrived[l] /\ UNCHANGED wants
    BY <1>1
  <2> QED  BY <1>3, <2>1, <2>2, OtherLeadStays
<1> QED  BY <1>1, <1>3, <1>5, <1>6 DEF RouteSound, DeliveryIsWhole

LEMMA MarkReadIsSound ==
    ASSUME RouteSound, NEW marked \in SUBSET NewLeads, MarkRead(marked)
    PROVE  RouteSound' /\ UNCHANGED <<arrived, leads>> /\ \A l \in NewLeads : bell[l] = "read" => bell'[l] = "read"
<1>1. /\ bell' = [l \in NewLeads |-> IF l \in marked /\ bell[l] = "unread" THEN "read" ELSE bell[l]]
      /\ UNCHANGED <<target, wants, leads, deliveries, arrived>>
  BY DEF MarkRead
<1>2. RouteTypes /\ RouteTypeOK  BY RouteTypesHold DEF RouteSound
<1>3. ASSUME NEW l \in NewLeads
      PROVE  /\ bell'[l] \in {"none", "unread", "read"} /\ (bell'[l] # "none" <=> bell[l] # "none")
             /\ bell[l] = "read" => bell'[l] = "read"
  <2>1. bell[l] \in {"none", "unread", "read"}  BY <1>2 DEF RouteTypes
  <2> QED  BY <1>1, <2>1
<1>4. bell' \in [NewLeads -> {"none", "unread", "read"}]  BY <1>1, <1>3
<1>5. RouteTypeOK'  BY <1>1, <1>2, <1>4, Zenon DEF RouteTypeOK
<1>6. ASSUME NEW l \in NewLeads PROVE IsWhole(l)' /\ DeliveryIsNoted(l)'
  <2>1. IsWhole(l) /\ DeliveryIsNoted(l)  BY DEF RouteSound, DeliveryIsWhole
  <2>2. leads'[l] = leads[l] /\ deliveries'[l] = deliveries[l] /\ arrived'[l] = arrived[l] /\ UNCHANGED wants
    BY <1>1
  <2> QED  BY <1>3, <2>1, <2>2, OtherLeadStays
<1> QED  BY <1>1, <1>3, <1>5, <1>6 DEF RouteSound, DeliveryIsWhole

\* What a step may do to a lead that has been delivered.
DeliveredIsKept ==
    \A l \in NewLeads : leads[l].routed =>
        /\ leads'[l] \in {leads[l], [leads[l] EXCEPT !.there = FALSE]} /\ arrived'[l] = arrived[l]
        /\ bell[l] = "read" => bell'[l] = "read"

LEMMA RouteStepIsSound ==
    ASSUME RouteSound, DeliveryNext
    PROVE  RouteSound' /\ DeliveredIsKept
<1>1. ASSUME NEW m \in NewLeads, LeadMoves(m) PROVE RouteSound' /\ DeliveredIsKept
  <2>1. ~ leads[m].routed  BY <1>1 DEF LeadMoves
  <2>2. ASSUME NEW l \in NewLeads, l # m
        PROVE  leads'[l] = leads[l] /\ bell'[l] = bell[l] /\ arrived'[l] = arrived[l]
    BY <1>1, <2>2 DEF LeadMoves, OnlyLead
  <2>3. DeliveredIsKept  BY <2>1, <2>2 DEF DeliveredIsKept
  <2> QED  BY <1>1, <2>3, MoveIsSound
<1>2. ASSUME NEW m \in NewLeads, \/ RouteLead(m) \/ MailAlert(m) \/ CommitDelivery(m) \/ DeliveryFails(m)
      PROVE  LeadMoves(m)
  BY <1>2, RouteLeadMoves, MailAlertMoves, CommitDeliveryMoves, DeliveryFailsMoves
<1>3. ASSUME NEW marked \in SUBSET NewLeads, MarkRead(marked) PROVE RouteSound' /\ DeliveredIsKept
  <2>1. RouteSound' /\ UNCHANGED <<arrived, leads>> /\ \A l \in NewLeads : bell[l] = "read" => bell'[l] = "read"
    BY <1>3, MarkReadIsSound
  <2> QED  BY <2>1 DEF DeliveredIsKept
<1>4. ASSUME LoseLeads PROVE RouteSound' /\ DeliveredIsKept
  <2>1. /\ RouteSound' /\ UNCHANGED <<arrived, bell>>
        /\ \A l \in NewLeads : leads'[l] = [leads[l] EXCEPT !.there = FALSE]
    BY <1>4, LoseLeadsIsSound
  <2> QED  BY <2>1 DEF DeliveredIsKept
<1>5. CASE \E m \in NewLeads : RouteLead(m) \/ MailAlert(m) \/ CommitDelivery(m) \/ DeliveryFails(m)
  BY <1>1, <1>2, <1>5
<1>6. CASE \E m \in NewLeads : MarkRead({m})  BY <1>3, <1>6
<1>7. CASE \E m \in NewLeads : \E answer \in {"ok", "refused", "busy", "lost", "unreadable"}, taken \in BOOLEAN :
              SendAlert(m, answer, taken)
  BY <1>1, <1>7, SendAlertMoves
<1>8. CASE MarkRead(NewLeads)  BY <1>3, <1>8
<1> QED  BY <1>4, <1>5, <1>6, <1>7, <1>8 DEF DeliveryNext

LEMMA LinkLeavesRoute == ASSUME LinkNext PROVE UNCHANGED routeVars
BY DEF LinkNext, ReadLink, StoreCode, StoreStart, LinkRequestDies, ReadStart, Unlink_, routeVars

LEMMA RouteLeavesLink == ASSUME DeliveryNext PROVE UNCHANGED linkVars
BY DEF DeliveryNext, RouteLead, MailAlert, CommitDelivery, DeliveryFails, MarkRead, SendAlert, LoseLeads, linkVars

LEMMA LinkRests == ASSUME LinkSound, UNCHANGED linkVars PROVE LinkSound'
BY DEF LinkSound, LinkTypeOK, LinkInv, linkVars

LEMMA RouteRests == ASSUME RouteSound, UNCHANGED routeVars PROVE RouteSound' /\ DeliveredIsKept
<1>1. UNCHANGED <<target, wants, leads, bell, deliveries, arrived>>  BY DEF routeVars
<1>2. RouteTypeOK'  BY <1>1, Zenon DEF RouteSound, RouteTypeOK
<1>3. ASSUME NEW l \in NewLeads PROVE IsWhole(l)' /\ DeliveryIsNoted(l)'
  <2>1. IsWhole(l) /\ DeliveryIsNoted(l)  BY DEF RouteSound, DeliveryIsWhole
  <2> QED  BY <1>1, <2>1, OtherLeadStays
<1> QED  BY <1>1, <1>2, <1>3 DEF RouteSound, DeliveryIsWhole, DeliveredIsKept

LEMMA AlertStep ==
    ASSUME LinkSound, RouteSound, [AlertNext]_alertVars
    PROVE  LinkSound' /\ RouteSound' /\ DeliveredIsKept
<1>1. CASE LinkNext  BY <1>1, LinkStepIsSound, LinkLeavesRoute, RouteRests
<1>2. CASE DeliveryNext  BY <1>2, RouteStepIsSound, RouteLeavesLink, LinkRests
<1>3. CASE UNCHANGED alertVars
  <2>1. UNCHANGED linkVars /\ UNCHANGED routeVars  BY <1>3 DEF alertVars, linkVars, routeVars
  <2> QED  BY <2>1, LinkRests, RouteRests
<1> QED  BY <1>1, <1>2, <1>3 DEF AlertNext

\* The invariant of the link and the deliveries: a code beside a linked chat was stored
\* late, and what a delivery has noted has happened and is not in the row before its commit.
THEOREM AlertInvariant == AlertSpec => [](AlertTypeOK /\ AlertInv)
<1>1. AlertInit => LinkSound /\ RouteSound  BY LinkBegins, RouteBegins
<1>2. LinkSound /\ RouteSound /\ [AlertNext]_alertVars => (LinkSound /\ RouteSound)'  BY AlertStep
<1>3. LinkSound /\ RouteSound => AlertTypeOK /\ AlertInv
  BY Zenon DEF LinkSound, RouteSound, AlertTypeOK, AlertInv
<1> QED  BY <1>1, <1>2, <1>3, PTL DEF AlertSpec

\* One code links one chat unless requests overlap, a delivery is stored as a whole or not
\* at all, and nothing of it is done or changed after that: for any requests, chats, leads
\* and number of attempts.
THEOREM AlertsAlwaysHold == AlertSpec => AlertsHold
<1>1. AlertInit => LinkSound /\ RouteSound  BY LinkBegins, RouteBegins
<1>2. LinkSound /\ RouteSound /\ [AlertNext]_alertVars => (LinkSound /\ RouteSound)'  BY AlertStep
<1>3. ASSUME LinkSound
      PROVE  \A w \in LinkWorkers :
                chat # NoChat /\ chat' \notin {chat, NoChat} /\ linkReqs[w].at = "start" /\ linkReqs'[w].at = "idle"
                => linkReqs[w].code # code \/ linkReqs[w].code \in lateCodes
  BY <1>3 DEF LinkSound, LinkInv
<1>4. LinkSound /\ RouteSound /\ [AlertNext]_alertVars => DeliveredIsKept  BY AlertStep
<1>5. RouteSound => DeliveryIsWhole  BY DEF RouteSound
<1>6. AlertSpec => [](LinkSound /\ RouteSound)  BY <1>1, <1>2, PTL DEF AlertSpec
<1>7. AlertSpec => OneChatPerCode  BY <1>3, <1>6, PTL DEF AlertSpec, OneChatPerCode
<1>8. AlertSpec => DeliveredOnce  BY <1>4, <1>6, PTL DEF AlertSpec, DeliveredOnce, DeliveredIsKept
<1>9. AlertSpec => []DeliveryIsWhole  BY <1>5, <1>6, PTL
<1> QED  BY <1>7, <1>8, <1>9 DEF AlertsHold

----------------------------------------
\* BotLifecycle.

BotSound == BotTypeOK /\ \A w \in BotWorkers : RequestIsSound(botReqs[w])

LEMMA BotRequestFields ==
    ASSUME NEW q \in BotRequest
    PROVE  /\ q.at \in {"idle", "ask", "write", "log", "resync", "link", "wake"}
           /\ q.op \in {"none", "patch", "archive", "delete", "connect"}
           /\ q.ask \in BotAsk /\ q.copy \in BotColumns /\ q.link \in ChannelState /\ q.sawLive \in BOOLEAN
           /\ q.result \in BotColumns
BY Zenon DEF BotRequest

LEMMA ColumnFields ==
    ASSUME NEW c \in BotColumns
    PROVE  c.status \in BotStatus /\ c.name \in BotNames /\ DOMAIN c = {"status", "name"}
BY DEF BotColumns

LEMMA AskFields ==
    ASSUME NEW a \in BotAsk
    PROVE  a.status \in BotStatus \cup {KeepField} /\ a.name \in BotNames \cup {KeepField}
BY DEF BotAsk

BotTypes ==
    /\ onTelegram \in BOOLEAN /\ botThere \in BOOLEAN /\ unlogged \in BOOLEAN /\ crossed \in BOOLEAN
    /\ botRow \in BotColumns /\ botChannel \in ChannelState /\ botTrail \in Seq(TrailEntry)
    /\ botReqs \in [BotWorkers -> BotRequest] /\ channelRows \in Nat /\ botBegun \in 0 .. MaxBotRequests

LEMMA BotTypesHold == BotTypeOK <=> BotTypes
BY Zenon DEF BotTypeOK, BotTypes

\* An UPDATE writes what was asked for where that is not the copy, and leaves the rest.
LEMMA WrittenColumns ==
    ASSUME NEW row \in BotColumns, NEW copy \in BotColumns, NEW ask \in BotAsk, NEW new, new = Written(row, copy, ask)
    PROVE  /\ new \in BotColumns
           /\ \A f \in {"status", "name"} : new[f] = IF ask[f] \notin {KeepField, copy[f]} THEN ask[f] ELSE row[f]
<1>1. DOMAIN row = {"status", "name"}  BY ColumnFields
<1>2. new = [f \in {"status", "name"} |-> IF ask[f] \notin {KeepField, copy[f]} THEN ask[f] ELSE row[f]]
  BY <1>1 DEF Written
<1>3. \A f \in {"status", "name"} : new[f] = IF ask[f] \notin {KeepField, copy[f]} THEN ask[f] ELSE row[f]
  BY <1>2
<1>4. new.status \in BotStatus /\ new.name \in BotNames  BY <1>3, ColumnFields, AskFields
<1>5. new = [status |-> new.status, name |-> new.name]  BY <1>2
<1>6. new \in BotColumns  BY <1>4, <1>5 DEF BotColumns
<1> QED  BY <1>3, <1>6

LEMMA FirstNameIsName == FirstName \in BotNames
BY BotAssumption DEF FirstName

IsWritten(new, row, copy, ask) ==
    /\ new \in BotColumns
    /\ \A f \in {"status", "name"} : new[f] = IF ask[f] \notin {KeepField, copy[f]} THEN ask[f] ELSE row[f]

LEMMA ColumnsAreWritten ==
    ASSUME NEW row \in BotColumns, NEW copy \in BotColumns, NEW ask \in BotAsk
    PROVE  IsWritten(Written(row, copy, ask), row, copy, ask)
BY WrittenColumns DEF IsWritten

LEMMA IdleIsTyped ==
    /\ BotIdle \in BotRequest /\ BotIdle.at = "idle" /\ BotIdle.op = "none" /\ NothingAsked \in BotAsk
<1>1. [status |-> "draft", name |-> FirstName] \in BotColumns
  BY FirstNameIsName DEF BotColumns, BotStatus
<1>2. NothingAsked \in BotAsk /\ NoLink \in ChannelState
  BY DEF NothingAsked, BotAsk, NoLink, ChannelState
<1> QED  BY <1>1, <1>2 DEF BotIdle, BotRequest

LEMMA RequestsAreSound == BotSound <=> BotTypes /\ \A w \in BotWorkers : RequestIsSound(botReqs[w])
BY BotTypesHold DEF BotSound

\* One request moves on.
LEMMA BotRequestMoves ==
    ASSUME BotSound, NEW w \in BotWorkers, NEW r \in BotRequest, botReqs' = [botReqs EXCEPT ![w] = r],
           RequestIsSound(r), UNCHANGED onTelegram
    PROVE  /\ botReqs' \in [BotWorkers -> BotRequest] /\ botReqs'[w] = r
           /\ \A v \in BotWorkers \ {w} : botReqs'[v] = botReqs[v]
           /\ \A v \in BotWorkers : RequestIsSound(botReqs[v])'
<1>1. botReqs \in [BotWorkers -> BotRequest] /\ \A v \in BotWorkers : RequestIsSound(botReqs[v])
  BY RequestsAreSound DEF BotTypes
<1>2. /\ botReqs' \in [BotWorkers -> BotRequest] /\ botReqs'[w] = r
      /\ \A v \in BotWorkers \ {w} : botReqs'[v] = botReqs[v]
  BY <1>1
<1>3. ASSUME NEW v \in BotWorkers PROVE RequestIsSound(botReqs[v])'
  <2>1. RequestIsSound(botReqs[v]) /\ (botReqs'[v] = r \/ botReqs'[v] = botReqs[v])  BY <1>1, <1>2
  <2> QED  BY <2>1, Zenon DEF RequestIsSound
<1> QED  BY <1>2, <1>3

LEMMA BotStarts == BotInit => BotSound /\ TrailInv
<1> SUFFICES ASSUME BotInit PROVE BotSound /\ TrailInv  OBVIOUS
<1>1. /\ onTelegram \in BOOLEAN /\ botThere = TRUE /\ botChannel = NoLink /\ botTrail = << >>
      /\ botReqs = [w \in BotWorkers |-> BotIdle] /\ channelRows = 0 /\ unlogged = FALSE /\ crossed = FALSE
      /\ botBegun = 0
  BY Zenon DEF BotInit
<1>2. botRow \in BotColumns
  <2>1. PICK s \in {"channel_pending", "draft", "active"} : botRow = [status |-> s, name |-> FirstName]
    BY DEF BotInit
  <2>2. s \in BotStatus  BY DEF BotStatus
  <2> QED  BY <2>1, <2>2, FirstNameIsName, Zenon DEF BotColumns
<1>3. NoLink \in ChannelState /\ 0 \in 0 .. MaxBotRequests
  BY BotBoundAssumption DEF NoLink, ChannelState
<1>4. \A w \in BotWorkers : botReqs[w] = BotIdle  BY <1>1, Zenon
<1>5. botReqs \in [BotWorkers -> BotRequest]  BY <1>1, IdleIsTyped
<1>6. BotTypes
  <2>1. /\ << >> \in Seq(TrailEntry) /\ 0 \in Nat
    OBVIOUS
  <2> QED  BY <1>1, <1>2, <1>3, <1>5, <2>1, Zenon DEF BotTypes
<1>7. RequestIsSound(BotIdle)  BY IdleIsTyped DEF RequestIsSound
<1>8. TrailInv
  <2>1. ASSUME NEW w \in BotWorkers PROVE CopyIsFresh(w) /\ OwesEntry(w)
    BY <1>4, IdleIsTyped DEF CopyIsFresh, OwesEntry, Entering
  <2>2. TrailTellsBot  BY <1>1 DEF TrailTellsBot
  <2> QED  BY <2>1, <2>2 DEF TrailInv
<1> QED  BY <1>4, <1>6, <1>7, <1>8, RequestsAreSound

\* A step that commits nothing of the bot and owes no entry.
LEMMA QuietKeepsTrail ==
    ASSUME TrailInv, NEW w \in BotWorkers, NEW r, botReqs'[w] = r,
           \A v \in BotWorkers \ {w} : botReqs'[v] = botReqs[v],
           UNCHANGED <<botThere, botRow, botTrail>>, ~ unlogged' => ~ unlogged, ~ crossed' => ~ crossed,
           r.at # "log", unlogged' \/ botReqs[w].at # "log",
           r.at \in {"ask", "write"} /\ ~ unlogged /\ ~ crossed => botThere /\ r.copy = botRow
    PROVE  TrailInv'
<1> SUFFICES ASSUME ~ unlogged', ~ crossed'
             PROVE  TrailTellsBot' /\ \A v \in BotWorkers : CopyIsFresh(v)' /\ OwesEntry(v)'
  BY DEF TrailInv
<1>1. ~ unlogged /\ ~ crossed /\ TrailTellsBot /\ \A v \in BotWorkers : CopyIsFresh(v) /\ OwesEntry(v)
  BY DEF TrailInv
<1>2. botReqs[w].at # "log" /\ botThere' = botThere /\ botRow' = botRow /\ botTrail' = botTrail  OBVIOUS
<1>3. \A v \in BotWorkers : botReqs'[v].at = "log" <=> botReqs[v].at = "log"  BY <1>2
<1>4. TrailTellsBot'  BY <1>1, <1>2, <1>3 DEF TrailTellsBot
<1>5. ASSUME NEW v \in BotWorkers PROVE CopyIsFresh(v)' /\ OwesEntry(v)'
  <2>1. CASE v = w  BY <1>1, <1>2, <2>1 DEF CopyIsFresh, OwesEntry, Entering
  <2>2. CASE v # w
    <3>1. botReqs'[v] = botReqs[v] /\ CopyIsFresh(v) /\ OwesEntry(v)  BY <1>1, <2>2
    <3> QED  BY <1>2, <1>3, <3>1 DEF CopyIsFresh, OwesEntry, Entering
  <2> QED  BY <2>1, <2>2
<1> QED  BY <1>4, <1>5

\* A request commits: as long as it crosses none, it began where the trail ends.
LEMMA CommitKeepsTrail ==
    ASSUME TrailInv, \A v \in BotWorkers : RequestIsSound(botReqs[v]), NEW w \in BotWorkers, NEW r, botReqs'[w] = r,
           \A v \in BotWorkers \ {w} : botReqs'[v] = botReqs[v],
           UNCHANGED <<botTrail, unlogged>>, Crosses(w), botThere,
           botReqs[w].at = "write", botReqs[w].op \in {"patch", "archive", "delete"},
           r.at = "log", r.op = botReqs[w].op, r.copy = botReqs[w].copy,
           IF r.op = "delete" THEN ~ botThere' ELSE botThere' /\ r.result = botRow'
    PROVE  TrailInv'
<1> SUFFICES ASSUME ~ unlogged', ~ crossed'
             PROVE  TrailTellsBot' /\ \A v \in BotWorkers : CopyIsFresh(v)' /\ OwesEntry(v)'
  BY DEF TrailInv
<1>1. ~ unlogged /\ ~ crossed /\ \A v \in BotWorkers \ {w} : ~ Entering(v)  BY Zenon DEF Crosses
<1>2. TrailTellsBot /\ CopyIsFresh(w)  BY <1>1 DEF TrailInv
<1>3. \A v \in BotWorkers \ {w} : botReqs[v].at # "log"  BY <1>1 DEF RequestIsSound, Entering
<1>4. botReqs[w].copy = botRow  BY <1>2 DEF CopyIsFresh, Entering
<1>5. botTrail # << >> => botTrail[Len(botTrail)].after = botRow
  <2>1. \A v \in BotWorkers : botReqs[v].at # "log"  BY <1>3
  <2> QED  BY <1>1, <1>2, <2>1 DEF TrailTellsBot
<1>6. TrailTellsBot'  BY <1>1, <1>2 DEF TrailTellsBot
<1>7. ASSUME NEW v \in BotWorkers PROVE CopyIsFresh(v)' /\ OwesEntry(v)'
  <2>1. CASE v = w
    <3>1. CopyIsFresh(w)'  BY DEF CopyIsFresh
    <3>2. OwesEntry(w)'  BY <1>3, <1>4, <1>5 DEF OwesEntry
    <3> QED  BY <2>1, <3>1, <3>2
  <2>2. CASE v # w
    <3>1. botReqs'[v] = botReqs[v] /\ ~ Entering(v) /\ botReqs[v].at # "log"  BY <1>1, <1>3, <2>2
    <3> QED  BY <3>1 DEF CopyIsFresh, OwesEntry, Entering
  <2> QED  BY <2>1, <2>2
<1> QED  BY <1>6, <1>7

\* The entry that a request owes follows the trail.
LEMMA EntryKeepsTrail ==
    ASSUME TrailInv, botTrail \in Seq(TrailEntry), NEW w \in BotWorkers, NEW r, botReqs'[w] = r,
           \A v \in BotWorkers \ {w} : botReqs'[v] = botReqs[v],
           UNCHANGED <<botThere, botRow, unlogged, crossed>>, botReqs[w].at = "log", r.at \in {"idle", "resync"},
           NEW e \in TrailEntry, botTrail' = Append(botTrail, e), e.op = botReqs[w].op, e.before = botReqs[w].copy,
           e.after = botReqs[w].result
    PROVE  TrailInv'
<1> SUFFICES ASSUME ~ unlogged', ~ crossed'
             PROVE  TrailTellsBot' /\ \A v \in BotWorkers : CopyIsFresh(v)' /\ OwesEntry(v)'
  BY DEF TrailInv
<1>1. ~ unlogged /\ ~ crossed /\ TrailTellsBot /\ \A v \in BotWorkers : CopyIsFresh(v) /\ OwesEntry(v)
  BY DEF TrailInv
<1>2. /\ \A v \in BotWorkers \ {w} : botReqs[v].at # "log"
      /\ IF e.op = "delete" THEN ~ botThere ELSE botThere /\ e.after = botRow
      /\ botTrail # << >> => botTrail[Len(botTrail)].after = e.before
  BY <1>1 DEF OwesEntry
<1> DEFINE n == Len(botTrail)
<1>3. /\ n \in Nat /\ Len(botTrail') = n + 1 /\ botTrail'[n + 1] = e
      /\ \A i \in 1 .. n : botTrail'[i] = botTrail[i]
  <2>1. n \in Nat  BY LenProperties
  <2> QED  BY <2>1, AppendProperties
<1>4. n > 0 => botTrail # << >> /\ botTrail[n].after = e.before  BY <1>2, <1>3
<1>5. \A i \in 1 .. n - 1 : botTrail[i + 1].before = botTrail[i].after  BY <1>1 DEF TrailTellsBot
<1> HIDE DEF n
<1>6. ASSUME NEW i \in 1 .. n PROVE botTrail'[i + 1].before = botTrail'[i].after
  <2>1. CASE i = n  BY <1>3, <1>4, <2>1
  <2>2. CASE i # n
    <3>1. i \in 1 .. n - 1 /\ i \in 1 .. n /\ i + 1 \in 1 .. n  BY <1>3, <2>2
    <3> QED  BY <1>3, <1>5, <3>1
  <2> QED  BY <2>1, <2>2
<1>7. Len(botTrail') - 1 = n  BY <1>3
<1>8. TrailTellsBot'
  <2>1. \A i \in 1 .. Len(botTrail') - 1 : botTrail'[i + 1].before = botTrail'[i].after  BY <1>6, <1>7
  <2>2. botTrail'[Len(botTrail')] = e  BY <1>3
  <2>3. IF botThere' THEN botTrail'[Len(botTrail')].after = botRow' ELSE botTrail'[Len(botTrail')].op = "delete"
    BY <1>2, <2>2
  <2> QED  BY <2>1, <2>3 DEF TrailTellsBot
<1>9. ASSUME NEW v \in BotWorkers PROVE CopyIsFresh(v)' /\ OwesEntry(v)'
  <2>1. CASE v = w  BY <2>1 DEF CopyIsFresh, OwesEntry, Entering
  <2>2. CASE v # w
    <3>1. botReqs'[v] = botReqs[v] /\ CopyIsFresh(v) /\ botReqs[v].at # "log"  BY <1>1, <1>2, <2>2
    <3> QED  BY <3>1 DEF CopyIsFresh, OwesEntry, Entering
  <2> QED  BY <2>1, <2>2
<1> QED  BY <1>8, <1>9

\* What every step keeps to.
ArchiveStep ==
    botRow.status = "archived" /\ botRow'.status # "archived"
        => \E w \in BotWorkers :
            /\ WritesBot(w)
            /\ \/ botReqs[w].op = "patch" /\ botReqs[w].ask.status \notin {KeepField, "archived"}
               \/ botReqs[w].op = "connect" /\ botReqs[w].copy.status = "channel_pending"
ActiveStep ==
    onTelegram /\ botRow.status # "active" /\ botRow'.status = "active"
        => \E w \in BotWorkers : WritesBot(w) /\ botReqs[w].sawLive
AskedStep ==
    \A w \in BotWorkers, f \in {"status", "name"} :
        /\ botReqs[w].at = "write" /\ botReqs'[w].at = "log" /\ botReqs[w].ask[f] # KeepField
        => botRow'[f] = botReqs[w].ask[f] \/ botReqs[w].copy[f] # botRow[f]
Kept == BotSound' /\ TrailInv' /\ ArchiveStep /\ ActiveStep /\ AskedStep

\* The types of what a step writes beside its request.
Besides ==
    /\ UNCHANGED onTelegram /\ botThere' \in BOOLEAN /\ unlogged' \in BOOLEAN /\ crossed' \in BOOLEAN
    /\ botRow' \in BotColumns /\ botChannel' \in ChannelState /\ botTrail' \in Seq(TrailEntry)
    /\ channelRows' \in Nat /\ botBegun' \in 0 .. MaxBotRequests

LEMMA SoundMove ==
    ASSUME BotSound, NEW w \in BotWorkers, NEW r \in BotRequest, botReqs' = [botReqs EXCEPT ![w] = r],
           RequestIsSound(r), Besides
    PROVE  /\ BotSound' /\ botReqs'[w] = r
           /\ \A v \in BotWorkers \ {w} : botReqs'[v] = botReqs[v]
<1>1. /\ botReqs' \in [BotWorkers -> BotRequest] /\ botReqs'[w] = r
      /\ \A v \in BotWorkers \ {w} : botReqs'[v] = botReqs[v]
      /\ \A v \in BotWorkers : RequestIsSound(botReqs[v])'
  BY BotRequestMoves DEF Besides
<1>2. BotTypes /\ onTelegram' = onTelegram  BY RequestsAreSound DEF Besides
<1>3. BotTypes'  BY <1>1, <1>2, Zenon DEF BotTypes, Besides
<1>4. BotTypeOK'  BY <1>3, Zenon DEF BotTypeOK, BotTypes
<1>5. BotSound'  BY <1>1, <1>4 DEF BotSound
<1> QED  BY <1>1, <1>5

LEMMA QuietMove ==
    ASSUME BotSound, TrailInv, NEW w \in BotWorkers, NEW r \in BotRequest, botReqs' = [botReqs EXCEPT ![w] = r],
           RequestIsSound(r), Besides,
           UNCHANGED <<botThere, botRow, botTrail>>, ~ unlogged' => ~ unlogged, ~ crossed' => ~ crossed,
           r.at # "log", unlogged' \/ botReqs[w].at # "log",
           r.at \in {"ask", "write"} /\ ~ unlogged /\ ~ crossed => botThere /\ r.copy = botRow
    PROVE  Kept
<1>1. /\ BotSound' /\ botReqs'[w] = r
      /\ \A v \in BotWorkers \ {w} : botReqs'[v] = botReqs[v]
  BY SoundMove
<1>2. TrailInv'  BY <1>1, QuietKeepsTrail
<1>3. botRow' = botRow  OBVIOUS
<1>4. ArchiveStep /\ ActiveStep  BY <1>3 DEF ArchiveStep, ActiveStep
<1>5. AskedStep
  <2>1. \A v \in BotWorkers : ~ (botReqs[v].at = "write" /\ botReqs'[v].at = "log")  BY <1>1
  <2> QED  BY <2>1 DEF AskedStep
<1> QED  BY <1>1, <1>2, <1>4, <1>5 DEF Kept

LEMMA BotFacts ==
    ASSUME BotSound
    PROVE  /\ BotTypes /\ \A w \in BotWorkers : RequestIsSound(botReqs[w]) /\ botReqs[w] \in BotRequest
           /\ MaxBotRequests \in Nat
BY RequestsAreSound, BotBoundAssumption DEF BotTypes

LEMMA BeginKeepsBot ==
    ASSUME BotSound, TrailInv, NEW w \in BotWorkers, NEW op \in {"patch", "archive", "delete", "connect"},
           NEW ask \in BotAsk, NEW at \in {"ask", "write", "link"}, BeginBot(w, op, ask, at),
           UNCHANGED <<onTelegram, botThere, botRow, botChannel, botTrail, channelRows, unlogged, crossed>>,
           at = "link" => op = "connect" /\ ask = [NothingAsked EXCEPT !.status = "active"],
           at # "link" => op # "connect",
           op = "archive" => ask = [NothingAsked EXCEPT !.status = "archived"],
           op = "delete" => ask = NothingAsked,
           at = "write" => ~ (ask.status = "active" /\ onTelegram)
    PROVE  Kept
<1> DEFINE link == IF op = "patch" /\ onTelegram THEN botChannel ELSE BotIdle.link
           r == [BotIdle EXCEPT !.at = at, !.op = op, !.ask = ask, !.copy = botRow, !.link = link]
<1>1. BotTypes /\ MaxBotRequests \in Nat  BY BotFacts
<1>2. /\ botThere /\ botReqs[w].at = "idle" /\ botBegun < MaxBotRequests /\ botBegun' = botBegun + 1
      /\ botReqs' = [botReqs EXCEPT ![w] = r]
  BY Zenon DEF BeginBot
<1>3. link \in ChannelState  BY <1>1, IdleIsTyped, BotRequestFields DEF BotTypes
<1> HIDE DEF link
<1>4. /\ r \in BotRequest /\ r.at = at /\ r.op = op /\ r.ask = ask /\ r.copy = botRow
  BY <1>1, <1>3, IdleIsTyped DEF BotRequest, BotTypes
<1> HIDE DEF r
<1>5. RequestIsSound(r)  BY <1>4 DEF RequestIsSound
<1>6. botBegun' \in 0 .. MaxBotRequests  BY <1>1, <1>2 DEF BotTypes
<1>7. Besides  BY <1>1, <1>6, Zenon DEF Besides, BotTypes
<1>8. /\ UNCHANGED <<botThere, botRow, botTrail>> /\ (~ unlogged' => ~ unlogged) /\ (~ crossed' => ~ crossed)
      /\ r.at # "log" /\ botReqs[w].at # "log"
      /\ r.at \in {"ask", "write"} /\ ~ unlogged /\ ~ crossed => botThere /\ r.copy = botRow
  BY <1>2, <1>4
<1> QED  BY <1>2, <1>4, <1>5, <1>7, <1>8, QuietMove

LEMMA BeginsKeepBot ==
    ASSUME BotSound, TrailInv, NEW w \in BotWorkers,
           \/ \E patch \in BotPatch \ {NothingAsked} : PatchRead(w, patch)
           \/ ArchiveRead(w) \/ DeleteRead(w) \/ LinkRead(w)
    PROVE  Kept
<1>1. NothingAsked \in BotAsk /\ NothingAsked.status = KeepField /\ KeepField # "active" /\ KeepField # "archived"
  BY IdleIsTyped, BotAssumption DEF NothingAsked
<1>2. ASSUME NEW s \in BotStatus
      PROVE  [NothingAsked EXCEPT !.status = s] \in BotAsk /\ [NothingAsked EXCEPT !.status = s].status = s
  BY <1>1 DEF BotAsk
<1>3. "active" \in BotStatus /\ "archived" \in BotStatus  BY DEF BotStatus
<1>4. ASSUME NEW patch \in BotPatch, PatchRead(w, patch) PROVE Kept
  <2>1. patch \in BotAsk  BY BotBoundAssumption DEF BotPatch, BotAsk, BotStatus
  <2> DEFINE at == IF ChecksChannel(patch) THEN "ask" ELSE "write"
  <2>2. /\ BeginBot(w, "patch", patch, at)
        /\ UNCHANGED <<onTelegram, botThere, botRow, botChannel, botTrail, channelRows, unlogged, crossed>>
    BY <1>4 DEF PatchRead
  <2>3. at \in {"ask", "write"} /\ (at = "write" => ~ (patch.status = "active" /\ onTelegram))
    BY DEF ChecksChannel
  <2> HIDE DEF at
  <2> QED  BY <2>1, <2>2, <2>3, BeginKeepsBot
<1>5. ASSUME ArchiveRead(w) PROVE Kept
  <2> DEFINE a == [NothingAsked EXCEPT !.status = "archived"]
  <2>1. /\ BeginBot(w, "archive", a, "write")
        /\ UNCHANGED <<onTelegram, botThere, botRow, botChannel, botTrail, channelRows, unlogged, crossed>>
    BY <1>5 DEF ArchiveRead
  <2>2. a \in BotAsk /\ a.status # "active"  BY <1>2, <1>3
  <2> QED  BY <2>1, <2>2, BeginKeepsBot
<1>6. ASSUME DeleteRead(w) PROVE Kept
  <2>1. /\ BeginBot(w, "delete", NothingAsked, "write")
        /\ UNCHANGED <<onTelegram, botThere, botRow, botChannel, botTrail, channelRows, unlogged, crossed>>
    BY <1>6 DEF DeleteRead
  <2> QED  BY <1>1, <2>1, BeginKeepsBot
<1>7. ASSUME LinkRead(w) PROVE Kept
  <2> DEFINE a == [NothingAsked EXCEPT !.status = "active"]
  <2>1. /\ BeginBot(w, "connect", a, "link")
        /\ UNCHANGED <<onTelegram, botThere, botRow, botChannel, botTrail, channelRows, unlogged, crossed>>
    BY <1>7 DEF LinkRead
  <2>2. a \in BotAsk  BY <1>2, <1>3
  <2> QED  BY <2>1, <2>2, BeginKeepsBot
<1> QED  BY <1>4, <1>5, <1>6, <1>7

\* Back to rest: what is left to say is what becomes of the other variables.
LEMMA AnswerMove ==
    ASSUME BotSound, TrailInv, NEW w \in BotWorkers, BotAnswer(w), Besides,
           UNCHANGED <<botThere, botRow, botTrail>>, ~ unlogged' => ~ unlogged, ~ crossed' => ~ crossed,
           unlogged' \/ botReqs[w].at # "log"
    PROVE  Kept
<1>1. botReqs' = [botReqs EXCEPT ![w] = BotIdle]  BY DEF BotAnswer
<1>2. BotIdle \in BotRequest /\ BotIdle.at = "idle" /\ RequestIsSound(BotIdle)
  BY IdleIsTyped DEF RequestIsSound
<1> QED  BY <1>1, <1>2, QuietMove

LEMMA AskKeepsBot ==
    ASSUME BotSound, TrailInv, NEW w \in BotWorkers, AskChannel(w)
    PROVE  Kept
<1>1. BotTypes /\ RequestIsSound(botReqs[w]) /\ botReqs[w] \in BotRequest  BY BotFacts
<1>2. /\ botReqs[w].at = "ask"
      /\ UNCHANGED <<onTelegram, botThere, botRow, botChannel, botTrail, channelRows, unlogged, crossed, botBegun>>
  BY DEF AskChannel
<1>3. Besides  BY <1>1, <1>2, Zenon DEF Besides, BotTypes
<1> DEFINE r == [botReqs[w] EXCEPT !.at = "write", !.sawLive = TRUE]
<1>4. CASE botReqs' = [botReqs EXCEPT ![w] = r]
  <2>1. /\ r \in BotRequest /\ r.at = "write" /\ r.op = botReqs[w].op /\ r.ask = botReqs[w].ask
        /\ r.copy = botReqs[w].copy /\ r.sawLive
    BY <1>1 DEF BotRequest
  <2> HIDE DEF r
  <2>2. RequestIsSound(r)  BY <1>1, <1>2, <2>1 DEF RequestIsSound
  <2>3. ~ unlogged /\ ~ crossed => botThere /\ r.copy = botRow
    <3>1. Entering(w)  BY <1>1, <1>2 DEF Entering, RequestIsSound
    <3> QED  BY <1>2, <2>1, <3>1 DEF TrailInv, CopyIsFresh
  <2> QED  BY <1>2, <1>3, <1>4, <2>1, <2>2, <2>3, QuietMove
<1>5. CASE BotAnswer(w)  BY <1>2, <1>3, <1>5, AnswerMove
<1>6. botReqs' = [botReqs EXCEPT ![w] = r] \/ BotAnswer(w)  BY <1>1 DEF AskChannel, BotTypes
<1> QED  BY <1>4, <1>5, <1>6

LEMMA UpdateKeepsBot ==
    ASSUME BotSound, TrailInv, NEW w \in BotWorkers, UpdateBot(w)
    PROVE  Kept
<1> DEFINE q == botReqs[w]  row == Written(botRow, q.copy, q.ask)  r == [q EXCEPT !.at = "log", !.result = row]
<1>1. BotTypes /\ RequestIsSound(q) /\ q \in BotRequest  BY BotFacts
<1>2. /\ q.at = "write" /\ q.op \in {"patch", "archive"}
      /\ UNCHANGED <<onTelegram, botThere, botChannel, botTrail, channelRows, unlogged, botBegun>>
  BY DEF UpdateBot
<1>3. q.copy \in BotColumns /\ q.ask \in BotAsk /\ botRow \in BotColumns
  BY <1>1, BotRequestFields DEF BotTypes
<1>4. /\ row \in BotColumns
      /\ \A f \in {"status", "name"} : row[f] = IF q.ask[f] \notin {KeepField, q.copy[f]} THEN q.ask[f] ELSE botRow[f]
  <2>1. IsWritten(row, botRow, q.copy, q.ask)  BY <1>3, ColumnsAreWritten
  <2> HIDE DEF row
  <2> QED  BY <2>1 DEF IsWritten
<1>5. CASE ~ botThere
  <2>1. BotAnswer(w) /\ UNCHANGED <<botRow, crossed>>  BY <1>5 DEF UpdateBot
  <2>2. Besides  BY <1>1, <1>2, <2>1, Zenon DEF Besides, BotTypes
  <2> QED  BY <1>2, <2>1, <2>2, AnswerMove
<1>6. CASE botThere
  <2>1. botRow' = row /\ Crosses(w)  BY <1>6 DEF UpdateBot
  <2>2. botReqs' = [botReqs EXCEPT ![w] = r]  BY <1>1, <1>6 DEF UpdateBot, BotTypes
  <2>3. /\ r \in BotRequest /\ r.at = "log" /\ r.op = q.op /\ r.ask = q.ask /\ r.copy = q.copy /\ r.result = row
    <3> HIDE DEF row
    <3> QED  BY <1>1, <1>4 DEF BotRequest
  <2> HIDE DEF r, row
  <2>4. RequestIsSound(r)  BY <1>1, <1>2, <2>3 DEF RequestIsSound
  <2>5. crossed' \in BOOLEAN  BY <2>1, Zenon DEF Crosses
  <2>6. Besides  BY <1>1, <1>2, <1>4, <2>1, <2>5, Zenon DEF Besides, BotTypes
  <2>7. BotSound' /\ botReqs'[w] = r /\ \A v \in BotWorkers \ {w} : botReqs'[v] = botReqs[v]
    BY <2>2, <2>3, <2>4, <2>6, SoundMove
  <2>8. TrailInv'
    <3>1. \A v \in BotWorkers : RequestIsSound(botReqs[v])  BY BotFacts
    <3>2. IF r.op = "delete" THEN ~ botThere' ELSE botThere' /\ r.result = botRow'
      BY <1>2, <1>6, <2>1, <2>3
    <3> QED  BY <1>2, <1>6, <2>1, <2>3, <2>7, <3>1, <3>2, CommitKeepsTrail
  <2>9. WritesBot(w)  BY <1>2, <2>3, <2>7 DEF WritesBot
  <2>10. row.status = IF q.ask.status \notin {KeepField, q.copy.status} THEN q.ask.status ELSE botRow.status
    BY <1>4
  <2>11. ArchiveStep
    <3>1. SUFFICES ASSUME botRow.status = "archived", botRow'.status # "archived"
                   PROVE  q.op = "patch" /\ q.ask.status \notin {KeepField, "archived"}
      BY <2>9 DEF ArchiveStep
    <3>2. q.ask.status \notin {KeepField, "archived"}  BY <2>1, <2>10, <3>1
    <3>3. q.op = "archive" => q.ask.status = "archived"  BY <1>1, IdleIsTyped DEF RequestIsSound, BotAsk
    <3> QED  BY <1>2, <3>2, <3>3
  <2>12. ActiveStep
    <3>1. SUFFICES ASSUME onTelegram, botRow.status # "active", botRow'.status = "active" PROVE q.sawLive
      BY <2>9 DEF ActiveStep
    <3>2. q.ask.status = "active"  BY <2>1, <2>10, <3>1
    <3> QED  BY <1>1, <1>2, <3>1, <3>2 DEF RequestIsSound
  <2>13. AskedStep
    <3> SUFFICES ASSUME NEW v \in BotWorkers, NEW f \in {"status", "name"},
                        botReqs[v].at = "write", botReqs'[v].at = "log", botReqs[v].ask[f] # KeepField
                 PROVE  botRow'[f] = botReqs[v].ask[f] \/ botReqs[v].copy[f] # botRow[f]
      BY DEF AskedStep
    <3>1. v = w  BY <2>7
    <3> QED  BY <1>4, <2>1, <3>1
  <2> QED  BY <2>7, <2>8, <2>11, <2>12, <2>13 DEF Kept
<1> QED  BY <1>5, <1>6

LEMMA DeleteKeepsBot ==
    ASSUME BotSound, TrailInv, NEW w \in BotWorkers, DeleteBotRow(w)
    PROVE  Kept
<1> DEFINE q == botReqs[w]  r == [q EXCEPT !.at = "log"]
<1>1. BotTypes /\ RequestIsSound(q) /\ q \in BotRequest  BY BotFacts
<1>2. /\ q.at = "write" /\ q.op = "delete" /\ botThere' = FALSE /\ botChannel' = NoLink
      /\ UNCHANGED <<onTelegram, botRow, botTrail, channelRows, unlogged, botBegun>>
  BY DEF DeleteBotRow
<1>3. NoLink \in ChannelState  BY DEF NoLink, ChannelState
<1>4. CASE ~ botThere
  <2>1. BotAnswer(w) /\ UNCHANGED crossed  BY <1>4 DEF DeleteBotRow
  <2>2. Besides  BY <1>1, <1>2, <1>3, <2>1, Zenon DEF Besides, BotTypes
  <2>3. botThere' = botThere  BY <1>1, <1>2, <1>4, Zenon DEF BotTypes
  <2> QED  BY <1>2, <2>1, <2>2, <2>3, AnswerMove
<1>5. CASE botThere
  <2>1. botReqs' = [botReqs EXCEPT ![w] = r] /\ Crosses(w)
    BY <1>1, <1>5 DEF DeleteBotRow, BotGo, BotTypes
  <2>2. r \in BotRequest /\ r.at = "log" /\ r.op = q.op /\ r.ask = q.ask /\ r.copy = q.copy
    BY <1>1 DEF BotRequest
  <2> HIDE DEF r
  <2>3. RequestIsSound(r)  BY <1>1, <1>2, <2>2 DEF RequestIsSound
  <2>4. crossed' \in BOOLEAN  BY <2>1, Zenon DEF Crosses
  <2>5. Besides  BY <1>1, <1>2, <1>3, <2>4, Zenon DEF Besides, BotTypes
  <2>6. BotSound' /\ botReqs'[w] = r /\ \A v \in BotWorkers \ {w} : botReqs'[v] = botReqs[v]
    BY <2>1, <2>2, <2>3, <2>5, SoundMove
  <2>7. TrailInv'
    <3>1. \A v \in BotWorkers : RequestIsSound(botReqs[v])  BY BotFacts
    <3>2. IF r.op = "delete" THEN ~ botThere' ELSE botThere' /\ r.result = botRow'  BY <1>2, <2>2
    <3> QED  BY <1>2, <1>5, <2>1, <2>2, <2>6, <3>1, <3>2, CommitKeepsTrail
  <2>8. ArchiveStep /\ ActiveStep  BY <1>2 DEF ArchiveStep, ActiveStep
  <2>9. AskedStep
    <3> SUFFICES ASSUME NEW v \in BotWorkers, NEW f \in {"status", "name"},
                        botReqs[v].at = "write", botReqs'[v].at = "log", botReqs[v].ask[f] # KeepField
                 PROVE  FALSE
      BY DEF AskedStep
    <3>1. v = w  BY <2>6
    <3>2. q.ask = NothingAsked  BY <1>1, <1>2 DEF RequestIsSound
    <3>3. NothingAsked[f] = KeepField  BY DEF NothingAsked
    <3> QED  BY <3>1, <3>2, <3>3
  <2> QED  BY <2>6, <2>7, <2>8, <2>9 DEF Kept
<1> QED  BY <1>4, <1>5

LEMMA LogKeepsBot ==
    ASSUME BotSound, TrailInv, NEW w \in BotWorkers, LogChange(w)
    PROVE  Kept
<1> DEFINE q == botReqs[w]  e == [op |-> q.op, before |-> q.copy, after |-> q.result]
           r == [BotIdle EXCEPT !.at = "resync", !.link = q.link]
<1>1. BotTypes /\ RequestIsSound(q) /\ q \in BotRequest  BY BotFacts
<1>2. /\ q.at = "log"
      /\ UNCHANGED <<onTelegram, botThere, botRow, botChannel, channelRows, unlogged, crossed, botBegun>>
  BY DEF LogChange
<1>3. q.op \in {"patch", "archive", "delete"}  BY <1>1, <1>2 DEF RequestIsSound
<1>4. botTrail' = Append(botTrail, e)  BY <1>3 DEF LogChange, LeavesEntry
<1>5. e \in TrailEntry /\ e.op = q.op /\ e.before = q.copy /\ e.after = q.result
  <2>1. q.copy \in BotColumns /\ q.result \in BotColumns  BY <1>1, BotRequestFields
  <2> QED  BY <1>3, <2>1 DEF TrailEntry
<1> HIDE DEF e
<1>6. PICK s \in BotRequest : botReqs' = [botReqs EXCEPT ![w] = s] /\ s.at \in {"idle", "resync"}
  <2>1. r \in BotRequest /\ r.at = "resync"  BY <1>1, IdleIsTyped, BotRequestFields DEF BotRequest
  <2>2. botReqs' = [botReqs EXCEPT ![w] = r] \/ botReqs' = [botReqs EXCEPT ![w] = BotIdle]
    BY DEF LogChange, BotAnswer
  <2> HIDE DEF r
  <2> QED  BY <2>1, <2>2, IdleIsTyped
<1>7. RequestIsSound(s)
  <2>1. s.op = "none"
    <3>1. BotIdle \in BotRequest /\ BotIdle.op = "none" /\ r.op = "none"  BY IdleIsTyped DEF BotRequest
    <3>2. botReqs' = [botReqs EXCEPT ![w] = r] \/ botReqs' = [botReqs EXCEPT ![w] = BotIdle]
      BY DEF LogChange, BotAnswer
    <3> HIDE DEF r
    <3>3. botReqs \in [BotWorkers -> BotRequest]  BY <1>1 DEF BotTypes
    <3>4. s = r \/ s = BotIdle  BY <1>6, <3>2, <3>3
    <3> QED  BY <3>1, <3>4
  <2> QED  BY <1>6, <2>1 DEF RequestIsSound
<1>8. Besides
  <2>1. botTrail' \in Seq(TrailEntry)  BY <1>1, <1>4, <1>5, AppendProperties DEF BotTypes
  <2> QED  BY <1>1, <1>2, <2>1, Zenon DEF Besides, BotTypes
<1>9. BotSound' /\ botReqs'[w] = s /\ \A v \in BotWorkers \ {w} : botReqs'[v] = botReqs[v]
  BY <1>6, <1>7, <1>8, SoundMove
<1>10. TrailInv'
  <2>1. botTrail \in Seq(TrailEntry)  BY <1>1 DEF BotTypes
  <2> QED  BY <1>2, <1>4, <1>5, <1>6, <1>9, <2>1, EntryKeepsTrail
<1>11. ArchiveStep /\ ActiveStep  BY <1>2 DEF ArchiveStep, ActiveStep
<1>12. AskedStep
  <2>1. \A v \in BotWorkers : ~ (botReqs[v].at = "write" /\ botReqs'[v].at = "log")  BY <1>6, <1>9
  <2> QED  BY <2>1 DEF AskedStep
<1> QED  BY <1>9, <1>10, <1>11, <1>12 DEF Kept

LEMMA LinkKeepsBot ==
    ASSUME BotSound, TrailInv, NEW w \in BotWorkers, NEW inUse \in BOOLEAN, Link(w, inUse)
    PROVE  Kept
<1> DEFINE q == botReqs[w]  row == IF botChannel.row = 0 THEN channelRows + 1 ELSE botChannel.row
           copy == IF inUse THEN q.copy ELSE botRow  r == [q EXCEPT !.at = "wake", !.copy = copy, !.sawLive = TRUE]
<1>1. BotTypes /\ RequestIsSound(q) /\ q \in BotRequest  BY BotFacts
<1>2. q.at = "link" /\ UNCHANGED <<onTelegram, botThere, botRow, botTrail, unlogged, crossed, botBegun>>
  BY DEF Link
<1>3. row \in Nat  BY <1>1 DEF BotTypes, ChannelState
<1>4. CASE botThere
  <2>1. /\ botChannel' = [row |-> row, live |-> TRUE]
        /\ channelRows' = IF botChannel.row = 0 THEN row ELSE channelRows
    BY <1>4 DEF Link
  <2>2. botReqs' = [botReqs EXCEPT ![w] = r]  BY <1>1, <1>4 DEF Link, BotTypes
  <2>3. copy \in BotColumns  BY <1>1, BotRequestFields DEF BotTypes
  <2> HIDE DEF row, copy
  <2>4. r \in BotRequest /\ r.at = "wake" /\ r.op = q.op /\ r.ask = q.ask /\ r.sawLive
    BY <1>1, <2>3 DEF BotRequest
  <2>5. botChannel' \in ChannelState /\ channelRows' \in Nat
    BY <1>1, <1>3, <2>1 DEF ChannelState, BotTypes
  <2> HIDE DEF r
  <2>6. RequestIsSound(r)  BY <1>1, <1>2, <2>4 DEF RequestIsSound
  <2>7. Besides  BY <1>1, <1>2, <2>5, Zenon DEF Besides, BotTypes
  <2> QED  BY <1>2, <2>2, <2>4, <2>6, <2>7, QuietMove
<1>5. CASE ~ botThere
  <2>1. BotAnswer(w) /\ UNCHANGED <<botChannel, channelRows>>  BY <1>5 DEF Link
  <2>2. Besides  BY <1>1, <1>2, <2>1, Zenon DEF Besides, BotTypes
  <2> QED  BY <1>2, <2>1, <2>2, AnswerMove
<1> QED  BY <1>4, <1>5

\* A woken bot leaves no entry, so that the trail owes nothing from here on.
LEMMA WakeKeepsBot ==
    ASSUME BotSound, TrailInv, NEW w \in BotWorkers, WakeBot(w)
    PROVE  Kept
<1> DEFINE q == botReqs[w]  row == Written(botRow, q.copy, q.ask)
<1>1. BotTypes /\ RequestIsSound(q) /\ q \in BotRequest  BY BotFacts
<1>2. /\ q.at = "wake" /\ BotAnswer(w)
      /\ UNCHANGED <<onTelegram, botThere, botChannel, botTrail, channelRows, botBegun>>
  BY DEF WakeBot
<1>3. q.copy \in BotColumns /\ q.ask \in BotAsk /\ botRow \in BotColumns
  BY <1>1, BotRequestFields DEF BotTypes
<1>4. row \in BotColumns
  <2>1. IsWritten(row, botRow, q.copy, q.ask)  BY <1>3, ColumnsAreWritten
  <2> QED  BY <2>1 DEF IsWritten
<1>5. CASE botThere /\ WaitsForChannel(q.copy)
  <2>1. botRow' = row /\ unlogged' = TRUE /\ Crosses(w)  BY <1>5 DEF WakeBot
  <2>2. crossed' \in BOOLEAN  BY <2>1, Zenon DEF Crosses
  <2> HIDE DEF row
  <2>3. Besides  BY <1>1, <1>2, <1>4, <2>1, <2>2, Zenon DEF Besides, BotTypes
  <2>4. /\ BotIdle \in BotRequest /\ BotIdle.at = "idle" /\ RequestIsSound(BotIdle)
        /\ botReqs' = [botReqs EXCEPT ![w] = BotIdle]
    BY <1>2, IdleIsTyped DEF RequestIsSound, BotAnswer
  <2>5. BotSound' /\ botReqs'[w] = BotIdle /\ \A v \in BotWorkers \ {w} : botReqs'[v] = botReqs[v]
    BY <2>3, <2>4, SoundMove
  <2>6. TrailInv'  BY <2>1 DEF TrailInv
  <2>7. WritesBot(w)  BY <1>2, <2>4, <2>5 DEF WritesBot
  <2>8. q.op = "connect" /\ q.sawLive /\ q.copy.status = "channel_pending"
    BY <1>1, <1>2, <1>5 DEF RequestIsSound, WaitsForChannel
  <2>9. ArchiveStep  BY <2>7, <2>8 DEF ArchiveStep
  <2>10. ActiveStep  BY <2>7, <2>8 DEF ActiveStep
  <2>11. AskedStep
    <3>1. \A v \in BotWorkers : ~ (botReqs[v].at = "write" /\ botReqs'[v].at = "log")  BY <2>4, <2>5
    <3> QED  BY <3>1 DEF AskedStep
  <2> QED  BY <2>5, <2>6, <2>9, <2>10, <2>11 DEF Kept
<1>6. CASE ~ (botThere /\ WaitsForChannel(q.copy))
  <2>1. UNCHANGED <<botRow, unlogged, crossed>>  BY <1>6 DEF WakeBot
  <2>2. Besides  BY <1>1, <1>2, <2>1, Zenon DEF Besides, BotTypes
  <2> QED  BY <1>2, <2>1, <2>2, AnswerMove
<1> QED  BY <1>5, <1>6

LEMMA EndsKeepBot ==
    ASSUME BotSound, TrailInv, NEW w \in BotWorkers,
           LogFails(w) \/ BotRequestDies(w) \/ (\E taken \in BOOLEAN : ResyncAfterSave(w, taken))
    PROVE  Kept
<1>1. BotTypes  BY BotFacts
<1>2. ASSUME LogFails(w) PROVE Kept
  <2>1. /\ unlogged' = TRUE /\ BotAnswer(w)
        /\ UNCHANGED <<onTelegram, botThere, botRow, botChannel, botTrail, channelRows, crossed, botBegun>>
    BY <1>2 DEF LogFails
  <2>2. Besides  BY <1>1, <2>1, Zenon DEF Besides, BotTypes
  <2> QED  BY <2>1, <2>2, AnswerMove
<1>3. ASSUME BotRequestDies(w) PROVE Kept
  <2>1. /\ unlogged' = (unlogged \/ botReqs[w].at = "log") /\ BotAnswer(w)
        /\ UNCHANGED <<onTelegram, botThere, botRow, botChannel, botTrail, channelRows, crossed, botBegun>>
    BY <1>3 DEF BotRequestDies
  <2>2. unlogged' \in BOOLEAN  BY <2>1, Zenon
  <2>3. Besides  BY <1>1, <2>1, <2>2, Zenon DEF Besides, BotTypes
  <2>4. (~ unlogged' => ~ unlogged) /\ (unlogged' \/ botReqs[w].at # "log")  BY <2>1, Zenon
  <2> QED  BY <2>1, <2>3, <2>4, AnswerMove
<1>4. ASSUME NEW taken \in BOOLEAN, ResyncAfterSave(w, taken) PROVE Kept
  <2>1. /\ botReqs[w].at = "resync" /\ BotAnswer(w)
        /\ UNCHANGED <<onTelegram, botThere, botRow, botTrail, channelRows, unlogged, crossed, botBegun>>
    BY <1>4 DEF ResyncAfterSave
  <2>2. botChannel' = [botChannel EXCEPT !.live = taken] \/ botChannel' = botChannel
    BY <1>4 DEF ResyncAfterSave
  <2>3. botChannel' \in ChannelState  BY <1>1, <2>2 DEF BotTypes, ChannelState
  <2>4. Besides  BY <1>1, <2>1, <2>3, Zenon DEF Besides, BotTypes
  <2> QED  BY <2>1, <2>4, AnswerMove
<1> QED  BY <1>2, <1>3, <1>4

\* A step that leaves every request where it is changes nothing of the bot itself.
LEMMA StillKeepsBot ==
    ASSUME BotSound, TrailInv, UNCHANGED <<botReqs, botThere, botRow, botTrail, unlogged, crossed>>, Besides
    PROVE  Kept
<1>1. BotTypes /\ \A w \in BotWorkers : RequestIsSound(botReqs[w])  BY BotFacts
<1>2. BotSound'
  <2>1. BotTypes'  BY <1>1, Zenon DEF BotTypes, Besides
  <2>2. BotTypeOK'  BY <2>1, Zenon DEF BotTypeOK, BotTypes
  <2>3. \A w \in BotWorkers : RequestIsSound(botReqs[w])'
    <3>1. botReqs' = botReqs /\ onTelegram' = onTelegram  BY DEF Besides
    <3> QED  BY <1>1, <3>1, Zenon DEF RequestIsSound
  <2> QED  BY <2>2, <2>3 DEF BotSound
<1>3. TrailInv'  BY Zenon DEF TrailInv, TrailTellsBot, CopyIsFresh, OwesEntry, Entering
<1>4. ArchiveStep /\ ActiveStep /\ AskedStep  BY DEF ArchiveStep, ActiveStep, AskedStep
<1> QED  BY <1>2, <1>3, <1>4 DEF Kept

LEMMA UnlinkKeepsBot ==
    ASSUME BotSound, TrailInv, NEW kept \in BOOLEAN, Unlink(kept)
    PROVE  Kept
<1>1. BotTypes /\ MaxBotRequests \in Nat  BY BotFacts
<1>2. /\ botBegun < MaxBotRequests /\ botBegun' = botBegun + 1
      /\ botChannel' = [botChannel EXCEPT !.live = FALSE] \/ botChannel' = NoLink
      /\ UNCHANGED <<onTelegram, botThere, botRow, botTrail, botReqs, channelRows, unlogged, crossed>>
  BY DEF Unlink
<1>3. botChannel' \in ChannelState /\ botBegun' \in 0 .. MaxBotRequests
  <2>1. botBegun' \in 0 .. MaxBotRequests  BY <1>1, <1>2 DEF BotTypes
  <2>2. botChannel \in ChannelState  BY <1>1 DEF BotTypes
  <2>3. [botChannel EXCEPT !.live = FALSE] \in ChannelState /\ NoLink \in ChannelState
    BY <2>2 DEF ChannelState, NoLink
  <2> QED  BY <1>2, <2>1, <2>3
<1>4. Besides  BY <1>1, <1>2, <1>3, Zenon DEF Besides, BotTypes
<1> QED  BY <1>2, <1>4, StillKeepsBot

LEMMA BotSteps ==
    ASSUME BotSound, TrailInv, [BotNext]_botVars
    PROVE  Kept
<1>1. CASE BotNext
  <2>1. ASSUME NEW w \in BotWorkers,
               \/ \E patch \in BotPatch \ {NothingAsked} : PatchRead(w, patch)
               \/ ArchiveRead(w) \/ DeleteRead(w) \/ LinkRead(w)
        PROVE  Kept
    BY <2>1, BeginsKeepBot
  <2>2. ASSUME NEW w \in BotWorkers, AskChannel(w) PROVE Kept  BY <2>2, AskKeepsBot
  <2>3. ASSUME NEW w \in BotWorkers, UpdateBot(w) PROVE Kept  BY <2>3, UpdateKeepsBot
  <2>4. ASSUME NEW w \in BotWorkers, DeleteBotRow(w) PROVE Kept  BY <2>4, DeleteKeepsBot
  <2>5. ASSUME NEW w \in BotWorkers, LogChange(w) PROVE Kept  BY <2>5, LogKeepsBot
  <2>6. ASSUME NEW w \in BotWorkers, WakeBot(w) PROVE Kept  BY <2>6, WakeKeepsBot
  <2>7. ASSUME NEW w \in BotWorkers,
               LogFails(w) \/ BotRequestDies(w) \/ (\E taken \in BOOLEAN : ResyncAfterSave(w, taken))
        PROVE  Kept
    BY <2>7, EndsKeepBot
  <2>8. ASSUME NEW w \in BotWorkers, NEW inUse \in BOOLEAN, Link(w, inUse) PROVE Kept
    BY <2>8, LinkKeepsBot
  <2>9. ASSUME NEW kept \in BOOLEAN, Unlink(kept) PROVE Kept  BY <2>9, UnlinkKeepsBot
  <2> QED  BY <1>1, <2>1, <2>2, <2>3, <2>4, <2>5, <2>6, <2>7, <2>8, <2>9, Zenon DEF BotNext
<1>2. CASE UNCHANGED botVars
  <2>1. BotTypes  BY BotFacts
  <2>2. UNCHANGED <<onTelegram, botThere, botRow, botChannel, botTrail, botReqs, channelRows, unlogged, crossed, botBegun>>
    BY <1>2, Zenon DEF botVars
  <2>3. Besides  BY <2>1, <2>2, Zenon DEF Besides, BotTypes
  <2> QED  BY <2>2, <2>3, StillKeepsBot
<1> QED  BY <1>1, <1>2

\* Whatever requests overlap, fail or die, the rows, the requests and the audit trail of
\* a bot agree as BotInv says (bot_service.py, bot_repository.py).
THEOREM BotInvariant == BotSpec => []BotInv
<1>1. BotInit => BotSound /\ TrailInv  BY BotStarts
<1>2. BotSound /\ TrailInv /\ [BotNext]_botVars => (BotSound /\ TrailInv)'  BY BotSteps DEF Kept
<1>3. BotSound /\ TrailInv => BotInv  BY DEF BotInv, BotSound
<1> QED  BY <1>1, <1>2, <1>3, PTL DEF BotSpec

\* An archived bot stays archived unless it is asked back, a bot on Telegram becomes
\* active only after a look at its channel, what was asked for is written unless the
\* field has changed meanwhile, and the audit trail tells the bot as long as no commits
\* cross and none goes without its entry.
THEOREM BotsAlwaysHold == BotSpec => BotsHold
<1>1. BotInit => BotSound /\ TrailInv  BY BotStarts
<1>2. BotSound /\ TrailInv /\ [BotNext]_botVars => (BotSound /\ TrailInv)'  BY BotSteps DEF Kept
<1>3. BotSpec => [](BotSound /\ TrailInv)  BY <1>1, <1>2, PTL DEF BotSpec
<1>4. BotSound /\ TrailInv => TrailTellsBot
  <2> SUFFICES ASSUME TrailInv PROVE TrailTellsBot  OBVIOUS
  <2> QED  BY DEF TrailInv, TrailTellsBot
<1>5. BotSpec => []TrailTellsBot  BY <1>3, <1>4, PTL
<1>6. BotSpec => ArchiveIsKept
  <2>1. BotSound /\ TrailInv /\ [BotNext]_botVars => ArchiveStep  BY BotSteps DEF Kept
  <2>2. BotSpec => [][ArchiveStep]_botVars  BY <1>3, <2>1, PTL DEF BotSpec
  <2> QED  BY <2>2 DEF ArchiveIsKept, ArchiveStep
<1>7. BotSpec => ActiveSawItsChannel
  <2>1. BotSound /\ TrailInv /\ [BotNext]_botVars => ActiveStep  BY BotSteps DEF Kept
  <2>2. BotSpec => [][ActiveStep]_botVars  BY <1>3, <2>1, PTL DEF BotSpec
  <2> QED  BY <2>2 DEF ActiveSawItsChannel, ActiveStep
<1>8. BotSpec => AskedIsWritten
  <2>1. BotSound /\ TrailInv /\ [BotNext]_botVars => AskedStep  BY BotSteps DEF Kept
  <2>2. BotSpec => [][AskedStep]_botVars  BY <1>3, <2>1, PTL DEF BotSpec
  <2> QED  BY <2>2 DEF AskedIsWritten, AskedStep
<1> QED  BY <1>5, <1>6, <1>7, <1>8 DEF BotsHold

----------------------------------------
\* OwnerSetup.

\* For any number of requests of an owner, of the process that routes new leads, and of
\* Telegram, all that an owner may rely on holds at once: bot, widget and alerts.
THEOREM OwnersAlwaysHold == BotSpec /\ WidgetSpec /\ AlertSpec => OwnersHold
BY BotsAlwaysHold, WidgetAlwaysHolds, AlertsAlwaysHold DEF OwnersHold
================================================================================
