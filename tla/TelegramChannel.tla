----------------------------- MODULE TelegramChannel -----------------------------
(***************************************************************************)
(* The Telegram channel of a bot (app/services/telegram_config_service.py, *)
(* app/api/v1/bot_telegram.py, app/models/telegram_config.py).  A request  *)
(* reads the row of its bot, talks to Telegram, and commits between the    *)
(* calls.  The ORM writes the attributes that differ from what it has      *)
(* loaded, by the row's id, and the commits of two requests interleave     *)
(* with their calls of setWebhook.  A token stands for the Telegram bot it *)
(* belongs to; a webhook secret is named by its number.                    *)
(***************************************************************************)
EXTENDS Naturals, Sequences, FiniteSets

CONSTANTS
    Bots,
    Tokens,
    NoToken,
    ChannelRequests,
    MaxChannelRequests   \* bound: the requests that are begun

ASSUME NoTokenAssumption == NoToken \notin Tokens
ASSUME SomeBotAssumption == Bots # {}
ASSUME ChannelBoundAssumption == MaxChannelRequests \in Nat

VARIABLES
    channels,      \* the rows of telegram_configs
    hooks,         \* Telegram: the webhook of each token, the bot and the secret
    channelReqs,
    pendingBots,   \* the bots whose own status is channel_pending
    rowsMade,
    madeFor,       \* the token for which each secret was made
    channelBegun

channelVars == <<channels, hooks, channelReqs, pendingBots, rowsMade, madeFor, channelBegun>>

AnyToken == Tokens \cup {NoToken}

ChannelRow == [id : Nat, token : AnyToken, telegramId : AnyToken, secret : Nat,
               connected : BOOLEAN, status : {"none", "channel_pending", "active", "failed_validation"}]
NewChannel(id, status) == [id |-> id, token |-> NoToken, telegramId |-> NoToken, secret |-> 0,
                           connected |-> FALSE, status |-> status]
NoChannel == NewChannel(0, "none")
Hook == [set : BOOLEAN, bot : Bots, secret : Nat]
ChannelRequest == [at : {"idle", "verify", "checked", "sync", "stored", "refused", "registered", "connected",
                         "disconnect", "cleared", "resync"},
                   op : {"none", "connect", "sync", "disconnect"},
                   bot : Bots, token : AnyToken, secret : Nat, row : ChannelRow, todo : SUBSET Bots,
                   seen : SUBSET Tokens]

SomeBot == CHOOSE b \in Bots : TRUE
NoHook == [set |-> FALSE, bot |-> SomeBot, secret |-> 0]
RequestAt(at, op, b, token, secret, row, todo) ==
    [at |-> at, op |-> op, bot |-> b, token |-> token, secret |-> secret, row |-> row, todo |-> todo,
     seen |-> {}]
ChannelIdle == RequestAt("idle", "none", SomeBot, NoToken, 0, NoChannel, {})
Resyncing(todo) == RequestAt("resync", "none", SomeBot, NoToken, 0, NoChannel, todo)

ChannelInit ==
    /\ channels = [b \in Bots |-> NoChannel]
    /\ hooks = [t \in Tokens |-> NoHook]
    /\ channelReqs = [r \in ChannelRequests |-> ChannelIdle]
    /\ pendingBots = Bots
    /\ rowsMade = 0
    /\ madeFor = << >>
    /\ channelBegun = 0

HasStoredToken(row) == row.token # NoToken

IsLive(row) == row.token # NoToken /\ row.connected /\ row.status = "active"
Live(b) == IsLive(channels[b])

\* An update that Telegram sends for the token passes the check of its secret.
Delivers(b) == hooks[channels[b].token] = [set |-> TRUE, bot |-> b, secret |-> channels[b].secret]

\* The row after an UPDATE of the attributes that differ from those loaded.
Flush(row, loaded, new) == [f \in DOMAIN row |-> IF new[f] # loaded[f] THEN new[f] ELSE row[f]]

ChannelBegin(r, request) ==
    /\ channelReqs[r].at = "idle" /\ channelBegun < MaxChannelRequests
    /\ channelReqs' = [channelReqs EXCEPT ![r] = request]
    /\ channelBegun' = channelBegun + 1

\* The request is over, or the bulk resync goes on with its next bot.
Finish(r) ==
    channelReqs' = [channelReqs EXCEPT ![r] =
        IF @.todo = {} THEN ChannelIdle ELSE Resyncing(@.todo)]

\* The row of the request's bot is still the one that it has loaded.
SameRow(r) == channels[channelReqs[r].bot].id = channelReqs[r].row.id

-----------------------------------------------------------------------------
\* POST provisioning/start: a row without a token, or a second chance for one that failed.
StartProvisioning(b) ==
    LET row == channels[b]
    IN  /\ channelBegun < MaxChannelRequests
        /\ \/ /\ row.id = 0
              /\ channels' = [channels EXCEPT ![b] = NewChannel(rowsMade + 1, "channel_pending")]
              /\ rowsMade' = rowsMade + 1
           \/ /\ row.status = "failed_validation" /\ ~ IsLive(row)
              /\ channels' = [channels EXCEPT ![b].status = "channel_pending"]
              /\ UNCHANGED rowsMade
        /\ channelBegun' = channelBegun + 1
        /\ UNCHANGED <<hooks, channelReqs, pendingBots, madeFor>>

\* POST connect: the row is read, then Telegram is asked about the token.
ConnectRead(r, b, t) ==
    /\ ChannelBegin(r, RequestAt("verify", "connect", b, t, 0, channels[b], {}))
    /\ UNCHANGED <<channels, hooks, pendingBots, rowsMade, madeFor>>

\* Telegram does not know the token: the row says so unless one was stored.  A row
\* that was not there is looked up once more.
ConnectInvalid(r) ==
    LET q == channelReqs[r]
        loaded == IF q.row.id = 0 THEN channels[q.bot] ELSE q.row
        failed == NewChannel(IF loaded.id = 0 THEN rowsMade + 1 ELSE loaded.id, "failed_validation")
    IN  /\ q.at = "verify"
        /\ \/ /\ HasStoredToken(q.row)
              /\ UNCHANGED <<channels, rowsMade>>
           \/ /\ ~ HasStoredToken(q.row)
              /\ loaded.id = channels[q.bot].id
              /\ channels' = [channels EXCEPT ![q.bot] = IF loaded.id = 0 THEN failed ELSE Flush(@, loaded, failed)]
              /\ rowsMade' = IF loaded.id = 0 THEN rowsMade + 1 ELSE rowsMade
        /\ Finish(r)
        /\ UNCHANGED <<hooks, pendingBots, madeFor, channelBegun>>

\* The Telegram bots of the rows, by the ids in their metadata.
AttachedTo(bots) == {channels[c].telegramId : c \in bots} \ {NoToken}

\* Mutant: the other bots are not looked up.
AttachedNowhere(b, t) == FALSE

AttachedElsewhere(b, t) == t \in AttachedTo(Bots \ {b})

ConnectCheck(r) ==
    LET q == channelReqs[r]
    IN  /\ q.at = "verify"
        /\ IF AttachedElsewhere(q.bot, q.token) THEN Finish(r)
           ELSE channelReqs' = [channelReqs EXCEPT ![r].at = "checked", ![r].seen = AttachedTo(Bots \ {q.bot})]
        /\ UNCHANGED <<channels, hooks, pendingBots, rowsMade, madeFor, channelBegun>>

\* What the request wants the row to be until Telegram has taken the webhook.
Unconfirmed(row, t, s) ==
    [row EXCEPT !.token = t, !.telegramId = t, !.secret = s, !.connected = FALSE, !.status = "channel_pending"]

\* Mutant: the token is written only when it differs from the one that was loaded.
StoredIfChanged(row, loaded, new) == Flush(row, loaded, new)

\* The ciphertext of a token is new each time, so the token is always written.
StoredToken(row, loaded, new) == [Flush(row, loaded, new) EXCEPT !.token = new.token]

\* The token and a new secret are committed before setWebhook is called.
ConnectStore(r) ==
    LET q == channelReqs[r]
        s == Len(madeFor) + 1
        new == Unconfirmed(q.row, q.token, s)
        row == IF q.row.id = 0 THEN [new EXCEPT !.id = rowsMade + 1]
               ELSE StoredToken(channels[q.bot], q.row, new)
    IN  /\ q.at = "checked" /\ SameRow(r)
        /\ channels' = [channels EXCEPT ![q.bot] = row]
        /\ rowsMade' = IF q.row.id = 0 THEN rowsMade + 1 ELSE rowsMade
        /\ madeFor' = Append(madeFor, q.token)
        /\ channelReqs' = [channelReqs EXCEPT ![r].at = "stored", ![r].secret = s, ![r].row = row]
        /\ UNCHANGED <<hooks, pendingBots, channelBegun>>

\* POST webhook/sync: a row with a token; token and secret are kept for the call.
SyncRead(r, b) ==
    /\ HasStoredToken(channels[b])
    /\ ChannelBegin(r, RequestAt("sync", "sync", b, channels[b].token, channels[b].secret, channels[b], {}))
    /\ UNCHANGED <<channels, hooks, pendingBots, rowsMade, madeFor>>

\* POST webhooks/resync-all: the live bots are listed first, then synced one by one.
ResyncAll(r) ==
    LET live == {b \in Bots : Live(b)}
    IN  /\ live # {}
        /\ ChannelBegin(r, Resyncing(live))
        /\ UNCHANGED <<channels, hooks, pendingBots, rowsMade, madeFor>>

ResyncNext(r, b) ==
    LET q == channelReqs[r]
    IN  /\ q.at = "resync" /\ b \in q.todo
        /\ channelReqs' = [channelReqs EXCEPT ![r] =
               IF HasStoredToken(channels[b])
               THEN RequestAt("sync", "sync", b, channels[b].token, channels[b].secret, channels[b], q.todo \ {b})
               ELSE IF q.todo = {b} THEN ChannelIdle ELSE Resyncing(q.todo \ {b})]
        /\ UNCHANGED <<channels, hooks, pendingBots, rowsMade, madeFor, channelBegun>>

\* The address is committed and the row loaded anew; the token and the secret are not.
SyncStore(r) ==
    /\ channelReqs[r].at = "sync" /\ SameRow(r)
    /\ channelReqs' = [channelReqs EXCEPT ![r].at = "stored", ![r].row = channels[channelReqs[r].bot]]
    /\ UNCHANGED <<channels, hooks, pendingBots, rowsMade, madeFor, channelBegun>>

\* setWebhook is taken, with its answer or without.
SetWebhook(r, answered) ==
    LET q == channelReqs[r]
    IN  /\ q.at = "stored"
        /\ hooks' = [hooks EXCEPT ![q.token] = [set |-> TRUE, bot |-> q.bot, secret |-> q.secret]]
        /\ channelReqs' = [channelReqs EXCEPT ![r].at = IF answered THEN "registered" ELSE "refused"]
        /\ UNCHANGED <<channels, pendingBots, rowsMade, madeFor, channelBegun>>

SetWebhookRefused(r) ==
    /\ channelReqs[r].at = "stored"
    /\ channelReqs' = [channelReqs EXCEPT ![r].at = "refused"]
    /\ UNCHANGED <<channels, hooks, pendingBots, rowsMade, madeFor, channelBegun>>

MarkRegistrationFailed(r) ==
    LET q == channelReqs[r]
    IN  /\ q.at = "refused" /\ SameRow(r)
        /\ channels' = [channels EXCEPT ![q.bot] =
               Flush(@, q.row, [q.row EXCEPT !.connected = FALSE, !.status = "channel_pending"])]
        /\ Finish(r)
        /\ UNCHANGED <<hooks, pendingBots, rowsMade, madeFor, channelBegun>>

Activate(r) ==
    LET q == channelReqs[r]
    IN  /\ q.at = "registered" /\ SameRow(r)
        /\ channels' = [channels EXCEPT ![q.bot] =
               Flush(@, q.row, [q.row EXCEPT !.connected = TRUE, !.status = "active"])]
        /\ IF q.op = "connect" THEN channelReqs' = [channelReqs EXCEPT ![r].at = "connected"] ELSE Finish(r)
        /\ UNCHANGED <<hooks, pendingBots, rowsMade, madeFor, channelBegun>>

\* The bot itself has waited for its channel.
ActivateBot(r) ==
    /\ channelReqs[r].at = "connected"
    /\ pendingBots' = pendingBots \ {channelReqs[r].bot}
    /\ Finish(r)
    /\ UNCHANGED <<channels, hooks, rowsMade, madeFor, channelBegun>>

\* POST disconnect: the webhook goes first, then the row.
DisconnectRead(r, b) ==
    /\ channels[b].id # 0
    /\ ChannelBegin(r, RequestAt(IF HasStoredToken(channels[b]) THEN "disconnect" ELSE "cleared",
                                 "disconnect", b, channels[b].token, 0, channels[b], {}))
    /\ UNCHANGED <<channels, hooks, pendingBots, rowsMade, madeFor>>

DeleteWebhook(r, answered) ==
    LET q == channelReqs[r]
    IN  /\ q.at = "disconnect"
        /\ hooks' = [hooks EXCEPT ![q.token] = NoHook]
        /\ IF answered THEN channelReqs' = [channelReqs EXCEPT ![r].at = "cleared"] ELSE Finish(r)
        /\ UNCHANGED <<channels, pendingBots, rowsMade, madeFor, channelBegun>>

\* A row that is gone already is no error.
Disconnect(r) ==
    LET q == channelReqs[r]
    IN  /\ q.at = "cleared"
        /\ channels' = IF SameRow(r) THEN [channels EXCEPT ![q.bot] = NoChannel] ELSE channels
        /\ Finish(r)
        /\ UNCHANGED <<hooks, pendingBots, rowsMade, madeFor, channelBegun>>

\* The row is gone or new, the database fails, or Telegram does not answer.
ChannelError(r) ==
    /\ channelReqs[r].at \notin {"idle", "resync"}
    /\ Finish(r)
    /\ UNCHANGED <<channels, hooks, pendingBots, rowsMade, madeFor, channelBegun>>

ChannelDie(r) ==
    /\ channelReqs[r].at # "idle"
    /\ channelReqs' = [channelReqs EXCEPT ![r] = ChannelIdle]
    /\ UNCHANGED <<channels, hooks, pendingBots, rowsMade, madeFor, channelBegun>>

ChannelNext ==
    \/ \E b \in Bots : StartProvisioning(b)
    \/ \E r \in ChannelRequests :
        \/ \E b \in Bots : \/ SyncRead(r, b) \/ ResyncNext(r, b) \/ DisconnectRead(r, b)
                           \/ \E t \in Tokens : ConnectRead(r, b, t)
        \/ \E answered \in BOOLEAN : SetWebhook(r, answered) \/ DeleteWebhook(r, answered)
        \/ ConnectInvalid(r) \/ ConnectCheck(r) \/ ConnectStore(r) \/ ResyncAll(r) \/ SyncStore(r)
        \/ SetWebhookRefused(r) \/ MarkRegistrationFailed(r) \/ Activate(r) \/ ActivateBot(r)
        \/ Disconnect(r) \/ ChannelError(r) \/ ChannelDie(r)

ChannelSpec == ChannelInit /\ [][ChannelNext]_channelVars

-----------------------------------------------------------------------------
ChannelTypeOK ==
    /\ channels \in [Bots -> ChannelRow]
    /\ hooks \in [Tokens -> Hook]
    /\ channelReqs \in [ChannelRequests -> ChannelRequest]
    /\ \A r \in ChannelRequests : channelReqs[r].at \in {"verify", "checked"} => channelReqs[r].token \in Tokens
    /\ pendingBots \subseteq Bots
    /\ rowsMade \in Nat /\ channelBegun \in 0 .. MaxChannelRequests
    /\ madeFor \in Seq(Tokens)

\* The secret that admits updates was made for the token that answers them, however
\* the writes of two requests mix in one row (_connect_telegram_for_bot_impl writes
\* both; the check and the reply read both from one row).
BelongTogether(token, secret) == token = IF secret = 0 THEN NoToken ELSE madeFor[secret]
SecretBelongsToToken == \A b \in Bots : BelongTogether(channels[b].token, channels[b].secret)

\* The request works with a row that has changed since, or with its old token and secret.
Outdated(r) ==
    LET q == channelReqs[r]  row == channels[q.bot]
    IN  row # q.row \/ (q.at \in {"stored", "registered"} /\ <<q.token, q.secret>> # <<row.token, row.secret>>)
Acts(r) == channelReqs'[r] # channelReqs[r]

SharesToken(b, c) == b # c /\ HasStoredToken(channels[b]) /\ channels[b].token = channels[c].token

\* Telegram does not hold the webhook any more that the request has registered.
Superseded(r) ==
    LET q == channelReqs[r]
    IN  q.at = "registered" /\ hooks[q.token] # [set |-> TRUE, bot |-> q.bot, secret |-> q.secret]

Mute(b) == Live(b) /\ ~ Delivers(b)

\* A channel that counts as live loses its updates only while it is disconnected, by
\* a request that overlaps another one (the commits around set_webhook), or to another
\* bot with its token.
MuteOnlyByOverlap ==
    [][\A b \in Bots : Mute(b)' /\ ~ Mute(b)
        => \E r \in ChannelRequests :
            /\ Acts(r)
            /\ \/ Outdated(r) \/ Superseded(r)
               \/ channelReqs[r].at = "disconnect" /\ channelReqs[r].bot = b
               \/ \E c \in Bots : SharesToken(b, c)]_channelVars

\* The id in the metadata is not that of the stored token: two connections were mixed.
Mixed(b) == channels[b].telegramId # channels[b].token

\* One Telegram bot is attached to two bots only by a connection that was checked
\* before the other one was stored, or if two connections of one bot were mixed
\* (_telegram_id_attached_elsewhere holds no lock and trusts the metadata).
OneBotPerToken ==
    [][\A b, c \in Bots : SharesToken(b, c)' /\ ~ SharesToken(b, c)
        => \/ Mixed(b) \/ Mixed(c)
           \/ \E r \in ChannelRequests :
                Acts(r) /\ channelReqs[r].at = "checked" /\ channelReqs[r].seen # AttachedTo(Bots \ {channelReqs[r].bot})]_channelVars

\* A token that Telegram refuses does not take a live channel down, unless a connection
\* was made while the token was looked up (_upsert_failed_validation_row).
RefusedTokenKeepsChannel ==
    [][\A r \in ChannelRequests, b \in Bots :
        channelReqs[r].at = "verify" /\ Acts(r) /\ Live(b) /\ ~ Live(b)' => Outdated(r)]_channelVars

\* What an owner may rely on, whichever requests overlap (telegram_config_service.py):
\* secret and token match, a live channel hears its updates, a token serves one bot,
\* and a refused token does no harm, but for the overlaps that each part names.
ChannelsHold ==
    []SecretBelongsToToken /\ MuteOnlyByOverlap /\ OneBotPerToken /\ RefusedTokenKeepsChannel

\* The inductive invariant behind ChannelsHold: every row, also one that a request holds
\* a copy of, has a secret that was made for its token, a connection was checked, and a
\* disconnection deletes the webhook of the row it has read.
Linked(row) == row.secret <= Len(madeFor) /\ BelongTogether(row.token, row.secret)

ChannelInv ==
    /\ \A b \in Bots : Linked(channels[b])
    /\ \A r \in ChannelRequests :
          /\ Linked(channelReqs[r].row)
          /\ channelReqs[r].at = "checked" => channelReqs[r].token \notin channelReqs[r].seen
          /\ channelReqs[r].at = "disconnect" => channelReqs[r].token = channelReqs[r].row.token
=============================================================================
