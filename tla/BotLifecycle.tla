----------------------------- MODULE BotLifecycle -----------------------------
(***************************************************************************)
(* The status and the fields of one bot (app/services/bot_service.py,      *)
(* app/repositories/bot_repository.py): PATCH, archive, delete, and the    *)
(* connection of its channel, which wakes a bot that waits for it.  A      *)
(* request works on the copy of the bot and of its channel that it has     *)
(* loaded; the ORM writes the fields that differ from that copy.  The      *)
(* entry of the audit trail is a transaction of its own.                   *)
(***************************************************************************)
EXTENDS Naturals, Sequences

CONSTANTS
    BotWorkers,
    BotNames,         \* what a client may call the bot
    KeepField,        \* a field that a PATCH does not mention
    AskedStatuses,    \* the statuses that a PATCH asks for
    MaxBotRequests    \* bound: the requests that are begun

ASSUME BotAssumption ==
    /\ BotNames # {} /\ KeepField \notin BotNames
    /\ KeepField \notin {"draft", "active", "paused", "archived", "channel_pending"}
ASSUME BotBoundAssumption ==
    /\ MaxBotRequests \in Nat
    /\ AskedStatuses \subseteq {"draft", "active", "paused", "archived", "channel_pending"}

VARIABLES
    onTelegram,    \* the primary channel of the bot is Telegram, or both
    botThere,
    botRow,
    botChannel,    \* the row of its channel, 0 without one, and whether it is live
    botTrail,      \* the audit entries of the bot, in the order of their commits
    botReqs,
    channelRows,   \* the rows that its channel has had
    unlogged,      \* history: a change has lost its entry, or is one that has none
    crossed,       \* history: a request has committed between the reading and the entry of another
    botBegun

botVars == <<onTelegram, botThere, botRow, botChannel, botTrail, botReqs, channelRows, unlogged, crossed, botBegun>>

BotStatus == {"draft", "active", "paused", "archived", "channel_pending"}
BotColumns == [status : BotStatus, name : BotNames]
ChannelState == [row : Nat, live : BOOLEAN]
NoLink == [row |-> 0, live |-> FALSE]
BotPatch == [status : AskedStatuses \cup {KeepField}, name : BotNames \cup {KeepField}]
NothingAsked == [status |-> KeepField, name |-> KeepField]
FirstName == CHOOSE n \in BotNames : TRUE

BotIdle == [at |-> "idle", op |-> "none", ask |-> NothingAsked, copy |-> [status |-> "draft", name |-> FirstName],
            link |-> NoLink, sawLive |-> FALSE, result |-> [status |-> "draft", name |-> FirstName]]

\* create_bot_for_user: without a channel, on the web, or with a channel to come.
BotInit ==
    /\ onTelegram \in BOOLEAN
    /\ botThere = TRUE
    /\ \E s \in IF onTelegram THEN {"channel_pending"} ELSE {"draft", "active"} :
          botRow = [status |-> s, name |-> FirstName]
    /\ botChannel = NoLink /\ botTrail = << >>
    /\ botReqs = [w \in BotWorkers |-> BotIdle]
    /\ channelRows = 0 /\ unlogged = FALSE /\ crossed = FALSE /\ botBegun = 0

BotGo(w, at) == botReqs' = [botReqs EXCEPT ![w].at = at]
BotAnswer(w) == botReqs' = [botReqs EXCEPT ![w] = BotIdle]
BeginBot(w, op, ask, at) ==
    /\ botThere /\ botReqs[w].at = "idle" /\ botBegun < MaxBotRequests
    /\ botBegun' = botBegun + 1
    /\ botReqs' = [botReqs EXCEPT ![w] = [BotIdle EXCEPT !.at = at, !.op = op, !.ask = ask, !.copy = botRow,
                                              !.link = IF op = "patch" /\ onTelegram THEN botChannel ELSE @]]

\* A request that is about to leave an entry has read the row by now.
Entering(w) == botReqs[w].op \in {"patch", "archive", "delete"} /\ botReqs[w].at \in {"ask", "write", "log"}
Crosses(w) == crossed' = (crossed \/ \E v \in BotWorkers \ {w} : Entering(v))

-----------------------------------------------------------------------------
\* Mutant: a bot is set to active whatever its channel is.
ChecksChannelNever(patch) == FALSE

\* Only the way back to active asks for the channel.
ChecksChannel(patch) == patch.status = "active" /\ onTelegram

\* PATCH reads the bot and its channel; POST archive and DELETE read the bot.
PatchRead(w, patch) ==
    /\ BeginBot(w, "patch", patch, IF ChecksChannel(patch) THEN "ask" ELSE "write")
    /\ UNCHANGED <<onTelegram, botThere, botRow, botChannel, botTrail, channelRows, unlogged, crossed>>

ArchiveRead(w) ==
    /\ BeginBot(w, "archive", [NothingAsked EXCEPT !.status = "archived"], "write")
    /\ UNCHANGED <<onTelegram, botThere, botRow, botChannel, botTrail, channelRows, unlogged, crossed>>

DeleteRead(w) ==
    /\ BeginBot(w, "delete", NothingAsked, "write")
    /\ UNCHANGED <<onTelegram, botThere, botRow, botChannel, botTrail, channelRows, unlogged, crossed>>

\* The row of the channel is looked up again, but the copy that came with the bot stays.
LinkSeen(link) == IF botChannel.row = link.row THEN link.live ELSE botChannel.live

\* get_telegram_integration_status: 404 if the bot has gone, 400 if its channel is not live.
AskChannel(w) ==
    /\ botReqs[w].at = "ask"
    /\ IF botThere /\ LinkSeen(botReqs[w].link)
       THEN botReqs' = [botReqs EXCEPT ![w].at = "write", ![w].sawLive = TRUE]
       ELSE BotAnswer(w)
    /\ UNCHANGED <<onTelegram, botThere, botRow, botChannel, botTrail, channelRows, unlogged, crossed, botBegun>>

\* Mutant: every field is written, those that were not asked for from the copy.
WrittenWhole(row, copy, ask) == [f \in DOMAIN row |-> IF ask[f] # KeepField THEN ask[f] ELSE copy[f]]

\* UPDATE of the fields whose new value is not that of the copy.
Written(row, copy, ask) == [f \in DOMAIN row |-> IF ask[f] \notin {KeepField, copy[f]} THEN ask[f] ELSE row[f]]

\* update_bot, archive_bot: the row as it now is goes into the answer and the entry.
UpdateBot(w) ==
    LET q == botReqs[w]  row == Written(botRow, q.copy, q.ask)
    IN  /\ q.at = "write" /\ q.op \in {"patch", "archive"}
        /\ IF botThere
           THEN /\ botRow' = row
                /\ botReqs' = [botReqs EXCEPT ![w].at = "log", ![w].result = row]
                /\ Crosses(w)
           ELSE BotAnswer(w) /\ UNCHANGED <<botRow, crossed>>
        /\ UNCHANGED <<onTelegram, botThere, botChannel, botTrail, channelRows, unlogged, botBegun>>

\* The bot goes with everything that belongs to it; Telegram is not told.
DeleteBotRow(w) ==
    /\ botReqs[w].at = "write" /\ botReqs[w].op = "delete"
    /\ IF botThere THEN BotGo(w, "log") /\ Crosses(w) ELSE BotAnswer(w) /\ UNCHANGED crossed
    /\ botThere' = FALSE /\ botChannel' = NoLink
    /\ UNCHANGED <<onTelegram, botRow, botTrail, channelRows, unlogged, botBegun>>

-----------------------------------------------------------------------------
\* Mutant: an archived bot leaves no entry.
LeavesEntryUnlessArchived(q) == q.op # "archive"

LeavesEntry(q) == q.op \in {"patch", "archive", "delete"}

\* _safe_audit_log: a second commit.  The save of a Telegram bot then refreshes its webhook.
LogChange(w) ==
    LET q == botReqs[w]
    IN  /\ q.at = "log"
        /\ botTrail' = IF LeavesEntry(q) THEN Append(botTrail, [op |-> q.op, before |-> q.copy, after |-> q.result])
                       ELSE botTrail
        /\ IF q.op = "patch" /\ onTelegram
           THEN botReqs' = [botReqs EXCEPT ![w] = [BotIdle EXCEPT !.at = "resync", !.link = q.link]]
           ELSE BotAnswer(w)
        /\ UNCHANGED <<onTelegram, botThere, botRow, botChannel, channelRows, unlogged, crossed, botBegun>>

\* The entry cannot be written.  The rollback spoils the copy that the answer is made
\* of: the change stays and the client reads an error; only a deletion is confirmed.
LogFails(w) ==
    /\ botReqs[w].at = "log"
    /\ unlogged' = TRUE
    /\ BotAnswer(w)
    /\ UNCHANGED <<onTelegram, botThere, botRow, botChannel, botTrail, channelRows, crossed, botBegun>>

\* Best effort: Telegram takes the webhook of the channel or not; a row that is gone,
\* like every other error, ends the attempt.
ResyncAfterSave(w, taken) ==
    /\ botReqs[w].at = "resync"
    /\ botChannel' = IF LinkSeen(botReqs[w].link) /\ botChannel.row # 0 THEN [botChannel EXCEPT !.live = taken]
                     ELSE botChannel
    /\ BotAnswer(w)
    /\ UNCHANGED <<onTelegram, botThere, botRow, botTrail, channelRows, unlogged, crossed, botBegun>>

-----------------------------------------------------------------------------
\* POST connect, or the creation of the bot, which holds a copy of it all along.
LinkRead(w) ==
    /\ BeginBot(w, "connect", [NothingAsked EXCEPT !.status = "active"], "link")
    /\ UNCHANGED <<onTelegram, botThere, botRow, botChannel, botTrail, channelRows, unlogged, crossed>>

\* The webhook is set and the row of the channel live; the bot is looked up once more,
\* which changes nothing as long as the first copy is in use.
Link(w, inUse) ==
    LET row == IF botChannel.row = 0 THEN channelRows + 1 ELSE botChannel.row
        copy == IF inUse THEN botReqs[w].copy ELSE botRow
    IN  /\ botReqs[w].at = "link"
        /\ IF botThere
           THEN /\ botChannel' = [row |-> row, live |-> TRUE]
                /\ channelRows' = IF botChannel.row = 0 THEN row ELSE channelRows
                /\ botReqs' = [botReqs EXCEPT ![w].at = "wake", ![w].copy = copy, ![w].sawLive = TRUE]
           ELSE BotAnswer(w) /\ UNCHANGED <<botChannel, channelRows>>
        /\ UNCHANGED <<onTelegram, botThere, botRow, botTrail, unlogged, crossed, botBegun>>

\* Mutant: every bot whose channel is connected is active.
WaitsForChannelAlways(copy) == onTelegram

WaitsForChannel(copy) == copy.status = "channel_pending" /\ onTelegram

\* A change of the status that leaves no entry.
WakeBot(w) ==
    LET q == botReqs[w]
    IN  /\ q.at = "wake"
        /\ IF botThere /\ WaitsForChannel(q.copy)
           THEN botRow' = Written(botRow, q.copy, q.ask) /\ unlogged' = TRUE /\ Crosses(w)
           ELSE UNCHANGED <<botRow, unlogged, crossed>>
        /\ BotAnswer(w)
        /\ UNCHANGED <<onTelegram, botThere, botChannel, botTrail, channelRows, botBegun>>

\* Another request disconnects the channel, or Telegram refuses its webhook.
Unlink(kept) ==
    /\ botBegun < MaxBotRequests /\ botChannel.row # 0
    /\ botBegun' = botBegun + 1
    /\ botChannel' = IF kept THEN [botChannel EXCEPT !.live = FALSE] ELSE NoLink
    /\ UNCHANGED <<onTelegram, botThere, botRow, botTrail, botReqs, channelRows, unlogged, crossed>>

\* A request fails or dies before its commit, or after it without an entry.
BotRequestDies(w) ==
    /\ botReqs[w].at # "idle"
    /\ unlogged' = (unlogged \/ botReqs[w].at = "log")
    /\ BotAnswer(w)
    /\ UNCHANGED <<onTelegram, botThere, botRow, botChannel, botTrail, channelRows, crossed, botBegun>>

BotNext ==
    \/ \E w \in BotWorkers :
        \/ \E patch \in BotPatch \ {NothingAsked} : PatchRead(w, patch)
        \/ ArchiveRead(w) \/ DeleteRead(w) \/ LinkRead(w) \/ AskChannel(w) \/ UpdateBot(w) \/ DeleteBotRow(w)
        \/ LogChange(w) \/ LogFails(w) \/ WakeBot(w) \/ BotRequestDies(w)
        \/ \E yes \in BOOLEAN : ResyncAfterSave(w, yes) \/ Link(w, yes)
    \/ \E kept \in BOOLEAN : Unlink(kept)

BotSpec == BotInit /\ [][BotNext]_botVars

-----------------------------------------------------------------------------
TrailEntry == [op : {"patch", "archive", "delete"}, before : BotColumns, after : BotColumns]
BotAsk == [status : BotStatus \cup {KeepField}, name : BotNames \cup {KeepField}]
BotRequest == [at : {"idle", "ask", "write", "log", "resync", "link", "wake"},
               op : {"none", "patch", "archive", "delete", "connect"},
               ask : BotAsk, copy : BotColumns, link : ChannelState, sawLive : BOOLEAN, result : BotColumns]

BotTypeOK ==
    /\ {onTelegram, botThere, unlogged, crossed} \subseteq BOOLEAN
    /\ botRow \in BotColumns /\ botChannel \in ChannelState /\ botTrail \in Seq(TrailEntry)
    /\ botReqs \in [BotWorkers -> BotRequest] /\ channelRows \in Nat /\ botBegun \in 0 .. MaxBotRequests

WritesBot(w) == botReqs[w].at \in {"write", "wake"} /\ botReqs'[w] # botReqs[w]

\* An archived bot, which answers nobody, comes back only if a PATCH names another
\* status, or if a connection was under way that had read the bot before it was
\* archived (_connect_telegram_for_bot_impl): no other change of its fields revives it.
ArchiveIsKept ==
    [][botRow.status = "archived" /\ botRow'.status # "archived"
        => \E w \in BotWorkers :
            /\ WritesBot(w)
            /\ \/ botReqs[w].op = "patch" /\ botReqs[w].ask.status \notin {KeepField, "archived"}
               \/ botReqs[w].op = "connect" /\ botReqs[w].copy.status = "channel_pending"]_botVars

\* A bot on Telegram becomes active only by a request that has seen its channel live
\* (update_bot_for_user); it may have been disconnected since.
ActiveSawItsChannel ==
    [][onTelegram /\ botRow.status # "active" /\ botRow'.status = "active"
        => \E w \in BotWorkers : WritesBot(w) /\ botReqs[w].sawLive]_botVars

\* What was asked for is what the row says after the commit, unless the field has been
\* changed since the request read it: then it may not be written at all, and an archive
\* is confirmed of a bot that is active (BotRepository.update_bot).
AskedIsWritten ==
    [][\A w \in BotWorkers, f \in {"status", "name"} :
        /\ botReqs[w].at = "write" /\ botReqs'[w].at = "log" /\ botReqs[w].ask[f] # KeepField
        => botRow'[f] = botReqs[w].ask[f] \/ botReqs[w].copy[f] # botRow[f]]_botVars

\* Without a loss, a woken bot or requests that cross, each entry begins where the one
\* before it ended, and the last one tells how the bot is (_safe_audit_log).
TrailTellsBot ==
    (~ unlogged /\ ~ crossed) =>
        /\ \A i \in 1 .. Len(botTrail) - 1 : botTrail[i + 1].before = botTrail[i].after
        /\ (botTrail # << >> /\ \A w \in BotWorkers : botReqs[w].at # "log") =>
              IF botThere THEN botTrail[Len(botTrail)].after = botRow ELSE botTrail[Len(botTrail)].op = "delete"

\* What an owner may rely on, whichever requests overlap (bot_service.py).
BotsHold == ArchiveIsKept /\ ActiveSawItsChannel /\ AskedIsWritten /\ []TrailTellsBot

-----------------------------------------------------------------------------
\* The strengthening that makes BotsHold inductive.  What a request is about to do is
\* what its operation asks for, and it wakes a bot on Telegram only after a look at its
\* channel.
RequestIsSound(q) ==
    /\ q.at \in {"ask", "write", "log"} => q.op \in {"patch", "archive", "delete"}
    /\ q.at \in {"link", "wake"} => q.op = "connect" /\ q.ask = [NothingAsked EXCEPT !.status = "active"]
    /\ q.at = "wake" => q.sawLive
    /\ q.op = "archive" => q.ask = [NothingAsked EXCEPT !.status = "archived"]
    /\ q.op = "delete" => q.ask = NothingAsked
    /\ q.at = "write" /\ q.ask.status = "active" /\ onTelegram => q.sawLive

\* As long as no commits cross and none goes without its entry, a copy is the row until
\* its request commits, one request at most owes an entry, and the trail ends where
\* that request began.
CopyIsFresh(w) == Entering(w) /\ botReqs[w].at # "log" => botThere /\ botReqs[w].copy = botRow
OwesEntry(w) ==
    LET q == botReqs[w]
    IN  q.at = "log" =>
            /\ \A v \in BotWorkers \ {w} : botReqs[v].at # "log"
            /\ IF q.op = "delete" THEN ~ botThere ELSE botThere /\ q.result = botRow
            /\ botTrail # << >> => botTrail[Len(botTrail)].after = q.copy

TrailInv ==
    (~ unlogged /\ ~ crossed) => TrailTellsBot /\ \A w \in BotWorkers : CopyIsFresh(w) /\ OwesEntry(w)

BotInv == BotTypeOK /\ TrailInv /\ \A w \in BotWorkers : RequestIsSound(botReqs[w])
=============================================================================
