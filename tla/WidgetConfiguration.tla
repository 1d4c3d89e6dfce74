-------------------------- MODULE WidgetConfiguration --------------------------
(***************************************************************************)
(* The widget of one bot (app/services/widget_config_service.py,           *)
(* app/api/v1/bot_widget.py).  The first GET or PATCH makes its row, with  *)
(* the public key that the owner puts into his site; nothing but a lock of *)
(* the transaction and a second look keeps two first requests from making  *)
(* two.  A PATCH writes what differs from the copy it has read.            *)
(***************************************************************************)
EXTENDS Naturals, Sequences

CONSTANTS
    WidgetWorkers,
    Greetings,           \* welcome_text
    KeepWidget,          \* a field that a PATCH does not mention
    MaxKeyAttempts,      \* _MAX_PUBLIC_KEY_FLUSH_ATTEMPTS
    MaxWidgetRequests    \* bound: the requests that are begun

ASSUME WidgetAssumption ==
    /\ Greetings # {} /\ KeepWidget \notin Greetings \cup BOOLEAN
    /\ MaxKeyAttempts \in Nat \ {0} /\ MaxWidgetRequests \in Nat

VARIABLES
    botLives,
    widgetRows,       \* the widgets of the bot, the oldest first: what is committed
    widgetLock,       \* who holds the lock of the bot, or nobody
    widgetReqs,
    keysGiven,        \* the keys that an answer has shown to the owner
    widgetBegun

widgetVars == <<botLives, widgetRows, widgetLock, widgetReqs, keysGiven, widgetBegun>>

NoWorker == "nobody"
ASSUME NoWorkerAssumption == NoWorker \notin WidgetWorkers

FirstGreeting == CHOOSE g \in Greetings : TRUE
WidgetRow == [key : Nat, enabled : BOOLEAN, greeting : Greetings]
NewWidget(k) == [key |-> k, enabled |-> TRUE, greeting |-> FirstGreeting]
WidgetPatch == [enabled : BOOLEAN \cup {KeepWidget}, greeting : Greetings \cup {KeepWidget}]
NothingKept == [enabled |-> KeepWidget, greeting |-> KeepWidget]
WidgetIdle == [at |-> "idle", op |-> "none", ask |-> NothingKept, copy |-> NewWidget(0), tries |-> 0]

WidgetInit ==
    /\ botLives = TRUE /\ widgetRows = << >> /\ widgetLock = NoWorker
    /\ widgetReqs = [w \in WidgetWorkers |-> WidgetIdle]
    /\ keysGiven = {} /\ widgetBegun = 0

\* The end of a request is the end of its transaction, which holds the lock.
Closed(w) == widgetLock' = IF widgetLock = w THEN NoWorker ELSE widgetLock
WidgetAnswer(w) == widgetReqs' = [widgetReqs EXCEPT ![w] = WidgetIdle] /\ Closed(w)
Shows(w, row) ==
    /\ widgetReqs' = [widgetReqs EXCEPT ![w] = [WidgetIdle EXCEPT !.op = "shown"]] /\ Closed(w)
    /\ keysGiven' = keysGiven \cup {row.key}
WidgetRefused(w) == WidgetAnswer(w) /\ UNCHANGED keysGiven

\* With a row in hand a GET is answered, and a PATCH goes on with that copy.
HasRow(w, row) ==
    IF widgetReqs[w].op = "get" THEN Shows(w, row)
    ELSE /\ widgetReqs' = [widgetReqs EXCEPT ![w].at = "write", ![w].copy = row]
         /\ UNCHANGED <<widgetLock, keysGiven>>

BeginWidget(w, op, ask) ==
    /\ widgetReqs[w].at = "idle" /\ widgetBegun < MaxWidgetRequests
    /\ widgetBegun' = widgetBegun + 1
    /\ widgetReqs' = [widgetReqs EXCEPT ![w] = [WidgetIdle EXCEPT !.at = "look", !.op = op, !.ask = ask]]
    /\ UNCHANGED <<botLives, widgetRows, widgetLock, keysGiven>>

GetWidget(w) == BeginWidget(w, "get", NothingKept)
PatchWidget(w, ask) == BeginWidget(w, "patch", ask)

\* 404 if the bot is gone; its first widget, if it has one.
LookForWidget(w) ==
    /\ widgetReqs[w].at = "look"
    /\ IF ~ botLives THEN WidgetRefused(w)
       ELSE IF widgetRows # << >> THEN HasRow(w, widgetRows[1])
       ELSE /\ widgetReqs' = [widgetReqs EXCEPT ![w].at = "lock"]
            /\ UNCHANGED <<widgetLock, keysGiven>>
    /\ UNCHANGED <<botLives, widgetRows, widgetBegun>>

LockWidget(w) ==
    /\ widgetReqs[w].at = "lock" /\ widgetLock = NoWorker
    /\ widgetLock' = w
    /\ widgetReqs' = [widgetReqs EXCEPT ![w].at = "relook"]
    /\ UNCHANGED <<botLives, widgetRows, keysGiven, widgetBegun>>

\* Mutant: who has waited for the lock does not look again.
FoundUnderLockNever(rows) == FALSE

FoundUnderLock(rows) == rows # << >>

LookAgain(w) ==
    /\ widgetReqs[w].at = "relook"
    /\ IF FoundUnderLock(widgetRows) THEN HasRow(w, widgetRows[1])
       ELSE /\ widgetReqs' = [widgetReqs EXCEPT ![w].at = "insert"]
            /\ UNCHANGED <<widgetLock, keysGiven>>
    /\ UNCHANGED <<botLives, widgetRows, widgetBegun>>

\* The row in a savepoint of its own: the key may be taken by the widget of another
\* bot, and the bot may have gone, which looks the same; four attempts in all.
InsertWidget(w, taken) ==
    LET fresh == Len(widgetRows) + 1
        fails == taken \/ ~ botLives
    IN  /\ widgetReqs[w].at = "insert"
        /\ IF ~ fails
           THEN /\ widgetReqs' = [widgetReqs EXCEPT ![w].at = "commit", ![w].copy = NewWidget(fresh)]
                /\ UNCHANGED <<widgetLock, keysGiven>>
           ELSE IF widgetReqs[w].tries + 1 < MaxKeyAttempts
           THEN /\ widgetReqs' = [widgetReqs EXCEPT ![w].tries = @ + 1]
                /\ UNCHANGED <<widgetLock, keysGiven>>
           ELSE WidgetRefused(w)
        /\ UNCHANGED <<botLives, widgetRows, widgetBegun>>

\* The commit also gives the lock back, before a PATCH goes on.
CommitWidget(w) ==
    LET row == widgetReqs[w].copy
    IN  /\ widgetReqs[w].at = "commit"
        /\ widgetRows' = Append(widgetRows, row)
        /\ IF widgetReqs[w].op = "get" THEN Shows(w, row)
           ELSE /\ widgetReqs' = [widgetReqs EXCEPT ![w].at = "write"]
                /\ Closed(w) /\ UNCHANGED keysGiven
        /\ UNCHANGED <<botLives, widgetBegun>>

\* Mutant: every field is written, those that were not asked for from the copy.
MergedWidgetWhole(row, copy, ask) ==
    [f \in DOMAIN row |-> IF f \in DOMAIN ask /\ ask[f] # KeepWidget THEN ask[f] ELSE copy[f]]

\* UPDATE of the fields whose new value is not that of the copy.
MergedWidget(row, copy, ask) ==
    [f \in DOMAIN row |-> IF f \in DOMAIN ask /\ ask[f] \notin {KeepWidget, copy[f]} THEN ask[f] ELSE row[f]]

\* update_widget_config_for_bot looks the bot and the row up again, but keeps the copy.
\* A PATCH of nothing is answered; one of a row that has gone is refused.
WriteWidget(w) ==
    LET q == widgetReqs[w]
    IN  /\ q.at = "write"
        /\ IF widgetRows = << >> THEN WidgetRefused(w) /\ UNCHANGED widgetRows
           ELSE /\ widgetRows' = [widgetRows EXCEPT ![1] = MergedWidget(@, q.copy, q.ask)]
                /\ Shows(w, widgetRows[1])
        /\ UNCHANGED <<botLives, widgetBegun>>

\* The bot goes with its widgets; an insert that is not committed holds it.
DropBot ==
    /\ botLives /\ \A w \in WidgetWorkers : widgetReqs[w].at # "commit"
    /\ botLives' = FALSE /\ widgetRows' = << >>
    /\ UNCHANGED <<widgetLock, widgetReqs, keysGiven, widgetBegun>>

WidgetRequestDies(w) ==
    /\ widgetReqs[w].at # "idle"
    /\ WidgetRefused(w)
    /\ UNCHANGED <<botLives, widgetRows, widgetBegun>>

WidgetNext ==
    \/ \E w \in WidgetWorkers :
        \/ GetWidget(w) \/ LookForWidget(w) \/ LockWidget(w) \/ LookAgain(w) \/ CommitWidget(w) \/ WriteWidget(w)
        \/ WidgetRequestDies(w)
        \/ \E ask \in WidgetPatch : PatchWidget(w, ask)
        \/ \E taken \in BOOLEAN : InsertWidget(w, taken)
    \/ DropBot

WidgetSpec == WidgetInit /\ [][WidgetNext]_widgetVars

-----------------------------------------------------------------------------
WidgetTypeOK ==
    /\ botLives \in BOOLEAN /\ widgetRows \in Seq(WidgetRow)
    /\ widgetLock \in WidgetWorkers \cup {NoWorker}
    /\ widgetReqs \in [WidgetWorkers -> [at : {"idle", "look", "lock", "relook", "insert", "commit", "write"},
                                         op : {"none", "shown", "get", "patch"}, ask : WidgetPatch, copy : WidgetRow,
                                         tries : 0 .. MaxKeyAttempts]]
    /\ keysGiven \subseteq Nat /\ widgetBegun \in 0 .. MaxWidgetRequests

\* Between the second look and the commit of its row a request is alone, so that a bot
\* never has two widgets (get_or_create_widget_config_for_bot).
OneWidget ==
    /\ Len(widgetRows) <= 1
    /\ \A w \in WidgetWorkers : widgetReqs[w].at \in {"relook", "insert", "commit"} => widgetLock = w
    /\ \A w \in WidgetWorkers : widgetReqs[w].at \in {"insert", "commit"} => widgetRows = << >>

\* The key in the site of the owner is good for as long as the bot is there.
KeyStays == botLives => \A k \in keysGiven : widgetRows # << >> /\ widgetRows[1].key = k

\* A row changes only in the fields that a PATCH asks for; and when it is answered
\* these are as asked, unless they have been changed since it read them.
PatchIsWritten ==
    [][\A w \in WidgetWorkers : widgetReqs[w].at = "write" /\ widgetReqs'[w].op = "shown" =>
        \A f \in {"enabled", "greeting"} :
            LET ask == widgetReqs[w].ask[f]  old == widgetRows[1][f]  new == widgetRows'[1][f] IN
            \/ new = ask
            \/ new = old /\ (ask = KeepWidget \/ widgetReqs[w].copy[f] # old)]_widgetVars

\* What an owner may rely on for the widget of a bot (widget_config_service.py).
WidgetHolds == [](OneWidget /\ KeyStays) /\ PatchIsWritten

\* The inductive invariant behind WidgetHolds; a request that is not answered shows nothing.
WidgetInv ==
    /\ OneWidget /\ KeyStays
    /\ \A w \in WidgetWorkers : widgetReqs[w].at # "idle" => widgetReqs[w].op # "shown"
=============================================================================
