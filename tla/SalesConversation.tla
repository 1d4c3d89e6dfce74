--------------------------- MODULE SalesConversation ---------------------------
(***************************************************************************)
(* The turns of sales conversations with one bot, the leads they capture   *)
(* and the alerts to the bot's owner                                       *)
(* (app/services/sales_conversation_orchestrator.py, question_planner.py,  *)
(* sales_lead_capture_turn.py, lead_creation_service.py,                   *)
(* lead_owner_delivery_router.py).  A turn reads the conversation row,     *)
(* waits for the classifier and the database, plans the next row from what *)
(* it has read, may insert a lead, and commits row and lead together       *)
(* without looking at the row again; the owner is alerted after that.      *)
(***************************************************************************)
EXTENDS ConversationStateMachine, FiniteSets

CONSTANTS
    Convs,      \* the bot's conversations
    NoConv,
    Turns,      \* the messages the backend handles at one time
    Phones,     \* the normalized phone numbers visitors may give
    NoPhone,
    Required,   \* the number of required fields of the bot's niche
    MaxFaults   \* bound: the turns that die or fail to commit

ASSUME ConvsAssumption == NoConv \notin Convs
ASSUME PhonesAssumption == NoPhone \notin Phones
ASSUME BoundsAssumption == Required \in Nat /\ MaxFaults \in Nat

VARIABLES
    conv,    \* the committed conversation rows
    lead,    \* the committed lead of each conversation: the unique index
             \* on conversation_id admits one
    turn,    \* what each turn is doing
    alerts,  \* the alerts sent for the lead of each conversation
    faults,
    overlapped  \* history: the conversations of which one turn began before
                \* another had committed

vars == <<conv, lead, turn, alerts, faults, overlapped>>

\* The required fields, in the order in which the flow asks for them.
Fields == 1..Required
NoField == 0

Row == [state : States, filled : SUBSET Fields, target : Fields \cup {NoField},
        phone : Phones \cup {NoPhone}, flags : SUBSET Flags,
        captured : Convs \cup {NoConv}]  \* __captured_lead_id, if capture is done
NewRow == [state |-> "start", filled |-> {}, target |-> NoField,
           phone |-> NoPhone, flags |-> {}, captured |-> NoConv]
Lead == [status : {"none", "open", "closed"}, phone : Phones \cup {NoPhone}, routed : BOOLEAN]
Idle == [at |-> "idle", conv |-> NoConv, row |-> NewRow, created |-> FALSE]

Init ==
    /\ conv = [c \in Convs |-> NewRow]
    /\ lead = [c \in Convs |-> [status |-> "none", phone |-> NoPhone, routed |-> FALSE]]
    /\ turn = [t \in Turns |-> Idle]
    /\ alerts = [c \in Convs |-> 0]
    /\ faults = 0
    /\ overlapped = {}

-----------------------------------------------------------------------------
\* What a reply adds to the collected data: the answer to the question asked
\* last, and a phone number; a value once present stays.
\* Mutant: the answer replaces the answers before it.
ApplyUserReplyReplaces(row, answers, phone) ==
    [row EXCEPT !.filled = IF answers THEN {row.target} \ {NoField} ELSE @,
                !.phone = IF @ = NoPhone THEN phone ELSE @]

ApplyUserReply(row, answers, phone) ==
    [row EXCEPT !.filled = IF answers THEN @ \cup ({row.target} \ {NoField}) ELSE @,
                !.phone = IF @ = NoPhone THEN phone ELSE @]

\* The question planner asks for the first missing field while it gathers.
FirstMissing(filled) ==
    IF filled = Fields THEN NoField
    ELSE CHOOSE f \in Fields \ filled : \A g \in Fields \ filled : f <= g

PlanNextQuestion(state, filled) ==
    IF state \in {"start", "fallback", "qualification"} THEN FirstMissing(filled) ELSE NoField

\* Mutant: the canned reply and the full turn both move the funnel.
PipelineTwice(row, known) ==
    LET flags == row.flags \cup IF row.filled = Fields THEN {"qualification_complete"} ELSE {}
        next(s) == TransitionState(<< >>, s, known, FALSE, flags)
        last  == next(next(row.state))
    IN  [row EXCEPT !.state = last, !.flags = flags,
                    !.target = PlanNextQuestion(last, row.filled)]

\* One step of the funnel.  The only flag a turn ever sets is the completion of
\* the qualification, and the machine is never given the states before.
RunPipeline(row, known) ==
    LET flags == row.flags \cup IF row.filled = Fields THEN {"qualification_complete"} ELSE {}
        next  == TransitionState(<< >>, row.state, known, FALSE, flags)
    IN  [row EXCEPT !.state = next, !.flags = flags,
                    !.target = PlanNextQuestion(next, row.filled)]

\* A lead needs a late stage, the required fields and a phone.
EligibleStates == {"offer", "objection_handling", "closing", "completed"}
Eligible(row) == row.state \in EligibleStates /\ row.filled = Fields /\ row.phone # NoPhone

OpenWithPhone(phone) == {c \in Convs : lead[c].status = "open" /\ lead[c].phone = phone}

-----------------------------------------------------------------------------
Uncommitted(c) == {t \in Turns : turn[t].conv = c /\ turn[t].at \notin {"deliver", "stamp"}}

Start(t, c, row) ==
    /\ turn[t].at = "idle"
    /\ turn' = [turn EXCEPT ![t] = [at |-> "read", conv |-> c, row |-> row, created |-> FALSE]]
    /\ overlapped' = IF Uncommitted(c) = {} THEN overlapped ELSE overlapped \cup {c}
    /\ UNCHANGED <<conv, lead, alerts, faults>>

\* The message is stored and the conversation row is read, once; nothing keeps
\* another turn of the conversation from being on its way.
Begin(t, c) == Start(t, c, conv[c])

\* The planned row, and whether a lead is still to be captured.
Plan(t, row) ==
    turn' = [turn EXCEPT ![t].row = row,
        ![t].at = IF row.captured = NoConv /\ Eligible(row) THEN "lookup" ELSE "commit"]

\* A greeting, or a message that the early safeguards stop: the canned reply
\* still moves the funnel, with an unknown intent.
RunCannedTurn(t) ==
    /\ turn[t].at = "read"
    /\ Plan(t, RunPipeline(turn[t].row, FALSE))
    /\ UNCHANGED <<conv, lead, alerts, faults, overlapped>>

\* Any other message: classified, searched for answers and run through the
\* funnel; the safeguards after the search change only the reply.
RunTurn(t, known, answers, phone) ==
    /\ turn[t].at = "read"
    /\ Plan(t, RunPipeline(ApplyUserReply(turn[t].row, answers, phone), known))
    /\ UNCHANGED <<conv, lead, alerts, faults, overlapped>>

Capture(t, c) == turn' = [turn EXCEPT ![t].row.captured = c, ![t].at = "commit"]
GoTo(t, at) == turn' = [turn EXCEPT ![t].at = at]

\* An earlier lead of the conversation is taken over; a payload of low quality
\* is not worth one.
LookUpLead(t) ==
    LET c == turn[t].conv
    IN  /\ turn[t].at = "lookup"
        /\ IF lead[c].status # "none" THEN Capture(t, c) ELSE GoTo(t, "phone") \/ GoTo(t, "commit")
        /\ UNCHANGED <<conv, lead, alerts, faults, overlapped>>

\* An open lead with the same phone stands for this conversation too.
CheckPhone(t) ==
    /\ turn[t].at = "phone"
    /\ LET same == OpenWithPhone(turn[t].row.phone)
       IN  IF same # {} THEN \E c \in same : Capture(t, c) ELSE GoTo(t, "insert")
    /\ UNCHANGED <<conv, lead, alerts, faults, overlapped>>

\* Mutant: there is no unique index, a second row is inserted.
InsertLeadAlways(t) ==
    /\ turn[t].at = "insert"
    /\ turn' = [turn EXCEPT ![t].row.captured = turn[t].conv, ![t].created = TRUE, ![t].at = "commit"]
    /\ UNCHANGED <<conv, lead, alerts, faults, overlapped>>

\* The insert waits for another turn's uncommitted lead of the conversation; it
\* collides with a committed one, and the turn takes that one over.
InsertLead(t) ==
    LET c == turn[t].conv
    IN  /\ turn[t].at = "insert"
        /\ \A u \in Turns : turn[u].conv = c => ~ (turn[u].created /\ turn[u].at = "commit")
        /\ turn' = [turn EXCEPT ![t].row.captured = c, ![t].at = "commit",
                                ![t].created = (lead[c].status = "none")]
        /\ UNCHANGED <<conv, lead, alerts, faults, overlapped>>

\* What is left of a turn that has committed a lead: its delivery.
Delivering(c) == [at |-> "deliver", conv |-> c, row |-> NewRow, created |-> FALSE]

\* Mutant: the mark of a captured lead is set after the data were written.
CommitTurnForgetsMark(t) ==
    LET c == turn[t].conv
    IN  /\ turn[t].at = "commit"
        /\ conv' = [conv EXCEPT ![c] = [turn[t].row EXCEPT !.captured = conv[c].captured]]
        /\ lead' = IF turn[t].created
                   THEN [lead EXCEPT ![c] = [status |-> "open", phone |-> turn[t].row.phone,
                                             routed |-> FALSE]]
                   ELSE lead
        /\ turn' = [turn EXCEPT ![t] = IF turn[t].created THEN Delivering(c) ELSE Idle]
        /\ UNCHANGED <<alerts, faults, overlapped>>

\* The row is overwritten with what was planned, and the lead with its phone
\* appears in the same commit.
CommitTurn(t) ==
    LET c == turn[t].conv
    IN  /\ turn[t].at = "commit"
        /\ conv' = [conv EXCEPT ![c] = turn[t].row]
        /\ lead' = IF turn[t].created
                   THEN [lead EXCEPT ![c] = [status |-> "open", phone |-> turn[t].row.phone,
                                             routed |-> FALSE]]
                   ELSE lead
        /\ turn' = [turn EXCEPT ![t] = IF turn[t].created THEN Delivering(c) ELSE Idle]
        /\ UNCHANGED <<alerts, faults, overlapped>>

\* After the commit, the owner is told by dashboard, Telegram and e-mail.
SendAlert(t) ==
    /\ turn[t].at = "deliver"
    /\ alerts' = [alerts EXCEPT ![turn[t].conv] = @ + 1]
    /\ GoTo(t, "stamp")
    /\ UNCHANGED <<conv, lead, faults, overlapped>>

\* Mutant: the stamp is never committed.
StampDeliveryLost(t) ==
    /\ turn[t].at = "stamp"
    /\ turn' = [turn EXCEPT ![t] = Idle]
    /\ UNCHANGED <<conv, lead, alerts, faults, overlapped>>

\* owner_inbox_routed_at and the outcome are committed.
StampDelivery(t) ==
    /\ turn[t].at = "stamp"
    /\ lead' = [lead EXCEPT ![turn[t].conv].routed = TRUE]
    /\ turn' = [turn EXCEPT ![t] = Idle]
    /\ UNCHANGED <<conv, alerts, faults, overlapped>>

\* The process dies, or the database fails and the transaction is rolled back,
\* an inserted lead with it; nobody resumes the turn or its delivery.
Fault(t) ==
    /\ turn[t].at # "idle" /\ faults < MaxFaults
    /\ turn' = [turn EXCEPT ![t] = Idle]
    /\ faults' = faults + 1
    /\ UNCHANGED <<conv, lead, alerts, overlapped>>

\* The owner closes a lead as won or lost, for good.
CloseLead(c) ==
    /\ lead[c].status = "open"
    /\ lead' = [lead EXCEPT ![c].status = "closed"]
    /\ UNCHANGED <<conv, turn, alerts, faults, overlapped>>

Step(t) ==
    \/ RunCannedTurn(t)
    \/ \E known, answers \in BOOLEAN, phone \in Phones \cup {NoPhone} :
           RunTurn(t, known, answers, phone)
    \/ LookUpLead(t) \/ CheckPhone(t) \/ InsertLead(t)
    \/ CommitTurn(t) \/ SendAlert(t) \/ StampDelivery(t)

Next ==
    \/ \E t \in Turns, c \in Convs : Begin(t, c)
    \/ \E t \in Turns : Step(t) \/ Fault(t)
    \/ \E c \in Convs : CloseLead(c)

Spec == Init /\ [][Next]_vars

-----------------------------------------------------------------------------
TypeOK ==
    /\ conv \in [Convs -> Row]
    /\ lead \in [Convs -> Lead]
    /\ turn \in [Turns -> [at : {"idle", "read", "lookup", "phone", "insert",
                                 "commit", "deliver", "stamp"},
                           conv : Convs \cup {NoConv}, row : Row, created : BOOLEAN]]
    /\ \A t \in Turns : turn[t].at # "idle" => turn[t].conv \in Convs
    /\ alerts \in [Convs -> Nat]
    /\ faults \in 0..MaxFaults
    /\ overlapped \subseteq Convs

Captured(c) == lead[c].status # "none"

\* __captured_lead_id never names a lead that was rolled back: the flag and the
\* row it stands for are committed together, whichever turns race or die.
CaptureIsReal == \A c \in Convs : conv[c].captured # NoConv => Captured(conv[c].captured)

\* The owner is told of a lead at most once, and only of one that is committed.
AlertedOnce == \A c \in Convs : alerts[c] <= 1 /\ (alerts[c] = 1 => Captured(c))

\* A committed lead that nobody is routing to its owner was left by a fault.
NoLeadForgotten ==
    \A c \in Convs :
        Captured(c) /\ ~ lead[c].routed
            /\ (\A t \in Turns : ~ (turn[t].at \in {"deliver", "stamp"} /\ turn[t].conv = c))
        => faults > 0

\* What the funnel can really reach: no turn sets the flags that lead out of
\* the offer or into the clarification.
FunnelStopsAtOffer ==
    \A c \in Convs : conv[c].state \in {"start", "qualification", "fallback", "offer"}

\* While the turns of a conversation do not overlap, its committed states follow
\* ALLOWED_TRANSITIONS, though the moves are planned from an earlier read.
FunnelMoves ==
    [][\A c \in Convs \ overlapped : conv'[c] # conv[c] =>
           conv'[c].state \in AllowedTransitions[conv[c].state]]_vars

\* While they do not overlap, no turn loses an answer, the phone number or the
\* mark of a captured lead that an earlier turn has stored.
AnswersKept ==
    [][\A c \in Convs \ overlapped :
         /\ conv[c].filled \subseteq conv'[c].filled
         /\ conv[c].phone # NoPhone => conv'[c].phone = conv[c].phone
         /\ conv[c].captured # NoConv => conv'[c].captured = conv[c].captured]_vars

\* While they do not overlap, a conversation with a lead row carries the mark:
\* a turn that dies between the insert and the commit leaves neither.
MarkedWhileApart == \A c \in Convs \ overlapped : Captured(c) => conv[c].captured # NoConv

\* The inductive strengthening.  What a row may become in one turn; what is true
\* of a turn by itself; and that one turn at most owns the delivery of a lead,
\* and one at most is under way in a conversation without overlaps.
Follows(old, new) ==
    /\ new.state \in AllowedTransitions[old.state]
    /\ old.filled \subseteq new.filled
    /\ old.phone # NoPhone => new.phone = old.phone
    /\ old.captured # NoConv => new.captured = old.captured

OnTheWay(row) ==
    /\ row.state \in {"start", "qualification", "fallback", "offer"}
    /\ row.flags \subseteq {"qualification_complete"}

TurnSound(q) ==
    /\ q.at = "idle" => q = Idle
    /\ OnTheWay(q.row)
    /\ q.row.captured # NoConv => q.created \/ Captured(q.row.captured)
    /\ q.at \in {"lookup", "phone", "insert"} => q.row.captured = NoConv
    /\ q.created => q.at = "commit" /\ q.row.captured = q.conv /\ ~ Captured(q.conv)
    /\ q.at = "deliver" => Captured(q.conv) /\ alerts[q.conv] = 0
    /\ q.at = "stamp" => Captured(q.conv)
    /\ q.conv \notin overlapped =>
           /\ q.at = "read" => q.row = conv[q.conv]
           /\ q.at \in {"lookup", "phone", "insert", "commit"} => Follows(conv[q.conv], q.row)

Delivers(q) == q.created \/ q.at = "deliver"

SalesInv ==
    /\ \A t \in Turns : TurnSound(turn[t])
    /\ \A t, u \in Turns :
           Delivers(turn[t]) /\ Delivers(turn[u]) /\ turn[t].conv = turn[u].conv => t = u
    /\ \A c \in Convs \ overlapped : \A t, u \in Uncommitted(c) : t = u
    /\ \A c \in Convs : OnTheWay(conv[c])
    /\ CaptureIsReal
    /\ AlertedOnce
    /\ NoLeadForgotten
    /\ MarkedWhileApart
=============================================================================
