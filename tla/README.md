# BotForge AI: a verification project in TLA+

This directory holds TLA+ models of the BotForge AI platform (the repository
`phoenix-ai-finance`: a FastAPI backend under `src/app`, the session code of its
web client under `src/frontend`), the TLC configurations that check them on
small instances, and proofs, checked by the TLA+ proof system, that hold for
every value of the models' constants.  Paths below are relative to `src/app`
unless they begin with `src/`.

Contents: [the system](#1-the-system), [the modules](#2-the-modules),
[the runs](#3-the-runs), [the proofs](#4-the-proofs),
[disagreements found](#5-where-the-code-and-its-words-disagree),
[what is not modelled](#6-what-is-not-modelled),
[what is left](#7-what-is-left).

## 1. The system

Owners create chat bots, upload PDFs that the bots answer from, and publish a bot
as a web widget or a Telegram bot.  Visitors talk to it; a bot of the sales kind
leads the conversation through a funnel, captures a lead and tells its owner,
who then works the lead in a small CRM.  Plans limit what an owner may use, and
Stripe webhooks keep the plan up to date.  Superadmins moderate users and bots,
send campaigns and keep flags, coupons and tickets.  A set of finance
calculators advises on taxes, locations and loans.

The backend is a set of stateless API processes (asyncio, several requests at a
time in each), worker processes for knowledge files, one Postgres database
(isolation READ COMMITTED), one optional Redis, and an object store.  Three facts
about it shape every module:

- **One session per request.** All services of a request share one SQLAlchemy
  session with `autoflush=False` and `expire_on_commit=False` (`core/db.py`).  A
  `commit` anywhere in a helper commits the work of all of them, and ends the
  transaction with whatever locks it had; a request that never commits changes
  nothing, whatever it answers.  An object that was read stays as it was read; an
  `UPDATE` writes the columns whose value differs from that, whatever the row
  says by then.
- **Almost no locks.** Only the creation of bots and of widget configurations
  take an advisory lock (`services/bot_service.py:83`,
  `services/widget_config_service.py:28`).  Elsewhere the code relies on unique
  indexes, on conditional updates, on the row lock of an early flush, or on
  nothing.
- **No outbox.** What follows a commit (a Redis job, an alert, a mailing, a Redis
  record of an event) is done afterwards by the same process, and is lost with it.

An action of a model is therefore one step that others can see: a committed
transaction, a flush that takes a lock, one Redis command, one call of a service
outside, or a read whose result is used later.

### Components

| component | state it keeps | operations | what is hard about it | modules |
|---|---|---|---|---|
| knowledge ingestion | `knowledge_files`, `knowledge_chunks`, Redis list of jobs, objects | upload, claim, extract, replace chunks, count failures, retry, give up, cascade | workers race for duplicate jobs; a crash between any two steps; enqueue after commit | `KnowledgeIngestion`, `KnowledgeFileLifecycle` |
| knowledge text and retrieval | `knowledge_chunks.text` | split pages, three searches, fill the budget of a prompt | off-by-ones at paragraph, chunk and budget edges | `KnowledgeText` |
| bots and their quota | `bots`, `subscriptions.plan_slug`, advisory lock, audit trail | create, clone, PATCH, archive, delete, connect | the lock is only as long as its transaction; audit in a second one | `BotQuota`, `BotLifecycle` |
| Stripe billing | `subscriptions`, Redis keys of seen events | checkout, five webhook handlers, admin override | events late, lost, repeated; commit before record | `StripeBilling` |
| sales conversation | `conversations`, `leads` | one turn: read, classify, plan, capture, commit, alert | turns of one visitor overlap; the row is written back whole | `SalesConversation`, `ConversationStateMachine`, `SalesGuards` |
| leads of an owner | `leads`, `lead_events`, `owner_notifications`, link codes | PATCH, lists, delivery by bell, Telegram, mail | validated against a stale read; one commit after three channels | `LeadPipeline`, `LeadAlerts`, `Listings` |
| sessions and tokens | `refresh_sessions`, Redis tokens, cookies, browser storage | log in, refresh, log out, reset, suspend, delete | rotation races with revocation; two tabs with one token | `AuthSessions`, `BrowserSessions` |
| second factor | `user_totp` | set up, activate, verify, spend a recovery code | a JSON column read, changed and written back | `TwoFactor` |
| provider sign-in | `users`, `oauth_accounts` | resolve, link, register, verify | two unique keys decide between requests | `OAuthSignIn` |
| chat turns and threads | `conversations`, `messages`, usage log | get or create, count, call, store | collision and recovery; limits that are read and not held | `ChatTurns`, `ModelCalls` |
| Telegram channel | `telegram_configs`, Telegram's own record | connect, resync, disconnect | two records of one secret, commits between calls | `TelegramChannel` |
| widget | `widget_configs`, Redis or process counters | get or create, PATCH, abuse heuristics | lock and second look; one rule written twice | `WidgetConfiguration`, `WidgetAbuse` |
| rate limits, reply caches | Redis | sliding windows, keys that expire, lists | clock and script in two round trips; restarts | `RateLimits`, `ReplyCache` |
| administration | users, bots, campaigns, flags, coupons, tickets, logs, audit | moderate, mail, edit | overlapping superadmins, dead background tasks, missing commits | `AdminOffice`, `OfficeCatalog`, `Campaigns`, `Listings` |
| finance calculators | none | tax regimes, business plan, comparison, credit | thresholds and roundings | `FinanceAdvice` |

How they interact: the upload handler and the workers meet in Redis and in
`knowledge_files`; deleting a bot removes its rows under running workers and
requests; the plan that Stripe's events write is the one bot creation counts
against; a sales turn creates the lead that the pipeline then edits and the
alerts tell of, and closing the lead decides whether its phone number still
counts as known for the next conversation; suspending a user changes what his
refresh may do.  Each of these meeting points is an action or a constant of
the modules on either side: `DeleteBot` in `KnowledgeIngestion`, `ChangePlan` in
`BotQuota`, `OverridePlan` in `StripeBilling`, `CloseLead` in
`SalesConversation`, the suspensions of `AuthSessions` and `OAuthSignIn`.

### What correctness means

- *Ingestion:* a file is worked on by one worker at a time; its text is
  searchable only when complete, and all of it is; no file that still has work to
  do is forgotten unless a fault lost its job; the end of a file is final.
- *Quota:* parallel requests do not exceed the plan; no request waits for ever.
- *Billing:* when Stripe has delivered everything the row says what Stripe says;
  a customer is never forgotten; the row follows one subscription and changes it
  only for a reason.
- *Sales:* no answer, phone number or captured lead of an earlier turn is lost;
  the owner is told of each lead once; the funnel moves as the table allows; the
  safeguards hold however long the conversation is.
- *Identity:* a family of sessions has one live member, what was revoked stays
  revoked, a password or factor is replaced only by who proved the old one, and
  a sign-in reaches the account of its identity.
- *Edits:* a column changes only as somebody asked, every change is on the
  trail, and the trail says nothing that did not happen.
- *Limits:* what passes a limit did so by an overlap that can be named.

Almost all of these hold with an exception, and the exception is the point: a
property says which overlap, lost answer or death it needs.  The hazards, each
at its line, are in `PROJECT.json`.

## 2. The modules

The exact lines of each definition are in the `map` of `PROJECT.json`.
Definitions introduced with "Mutant of" are not part of any specification: each
is the form a plausible bug would give the definition that follows it, kept so
that every property is known to be able to fail.  Variables called "history" are
read by properties only.

### KnowledgeIngestion, KnowledgeFileLifecycle

A file is identified with the upload request that creates it, since its id is a
fresh uuid.  `upload` is where that request stands (`AdmitUpload`, `StoreBlob`,
`InsertRow`, `Schedule`, with a failing form of each); `status`, `failures` and
`chunks` are the database; `blobs` the object store; `queue` the Redis list; `pc`
and `job` each worker's loop.  A worker's step is `Pop` (BRPOP), `Claim` (the
`UPDATE ... WHERE status IN ('uploaded','failed')`) or `Skip`, `Extract`,
`Persist` (old chunks out, new chunks in, row ready, in one transaction) or
`FailRun`, then `Record` (failure count, dead letter at the limit) and `Requeue`.
Faults: a process dies at any point (`Crash`, `ApiCrash`), the loop swallows an
exception (`Abandon`), a push raises although it may have arrived
(`PushRaises`), the Redis client sends a command twice (`Push`), the database
refuses the insert (`InsertFails`).  `lost` and `runs` are history: which jobs a
fault dropped, how often each file was run.  `DeleteBot` removes rows and chunks
at any time and leaves objects, jobs and workers behind, as the foreign keys do.

Refinement: `Lifecycle` instantiates `KnowledgeFileLifecycle`, what an owner is
promised about one file, with the state read off the row and the request, and
the searchable files with the chunks joined with ready rows, which is how a
retrieval finds them.

The invariants that the proofs induct on (`...Inv`; here `IngestionInv` and
`RunsInv`) stand after the properties of the modules they are about, those of
`SalesGuards`, `FinanceAdvice` and `KnowledgeText` with their proofs.  Each was put to
TLC on the instances of its run before it was proved.

### KnowledgeText

A `task` is one call of the splitter, of the searches with the selection that
follows them, or of the text for one turn; its `outcome` is computed in one step.
A page is a sequence of characters: each visible one is its own number, so that
a lost, doubled or moved one shows, beside a blank and a line break; whether a
page is counted at the rate of CJK text is a flag.  Paragraphs, lines and
windows of an oversized line, packing, overlaps, and the counting of tokens
follow the code, each loop of it as a recursive function with one operator for
its body (`NextWindow`, `AddUnit`, `SelectHit`).  What Postgres finds for each of
the three searches, and in which order, is an input.

### BotQuota, BotLifecycle

`BotQuota` is one owner.  A request takes the advisory lock, counts, reads the
plan (and provisions the free row if there is none, which commits), decides, and
inserts; a bot with a Telegram token is then linked outside the lock and deleted
again if Telegram refuses.  `EndTransaction` releases the lock at every commit
and rollback.  `granted` and `provisioner` are history.  `ChangePlan` is whatever
else writes the plan; it never removes the row.

`BotLifecycle` is one bot after its creation: requests load it and its channel,
write the fields that differ from their copy (`Written`), commit, and write the
audit entry in a second transaction (`LeavesEntry`), which may fail.  The
connection of a channel wakes a bot that waits for it (`WaitsForChannel`) from
the copy it loaded before it spoke to Telegram.

### StripeBilling

One user.  Stripe's own state of each subscription and the events it creates are
the environment, with snapshots as Stripe sends them: an event carries the
subscription as it was.  A webhook request receives an event (and looks it up in
Redis), reads the row, commits the changed columns, records the event, answers;
`Fail` ends it anywhere between.  `Delivery` says how kind the network is:
oldest first one at a time, any order one at a time, or any order in parallel.
`Flush` is the session's write of changed columns only.

### ConversationStateMachine, SalesConversation, SalesGuards

`TransitionState` is the function of the code, table and candidate included.  A
turn of `SalesConversation` is `Begin` (the row is read once), `RunTurn` or
`RunCannedTurn` (everything between the read and the write, the classifier's
outcome chosen freely), `LookUpLead`, `CheckPhone`, `InsertLead`, `CommitTurn`
(the flow columns whole, the lead in the same commit), `SendAlert`,
`StampDelivery`; `Fault` ends it anywhere.  `overlapped` is history:
conversations of which two turns ever overlapped.  No code keeps them apart, and
the properties that need it say so.  `InsertLead` waits for another turn's
uncommitted row in the unique index, and takes over the committed one, as
Postgres and the code's recovery do.

`SalesGuards` follows one conversation turn by turn, in order, and looks into
the turn: the guards before the search for answers (rate, repeated text), the
input filter, the classifier, the slot loop after the search, the planner's
question, the planner of replies, the burst limiter of model calls, and which
of model, cache or canned text the reply comes from.  Any turn may be lost
before its commit.  The row keeps the last `TimesKept` times of turns (40 in the
code), and a turn drops those outside its window; since times only grow, the ones
that stay (`Young`) are the last ones.

### LeadPipeline, LeadAlerts, Listings

A PATCH of `LeadPipeline` is `Read` (with the check of the policy), `Write` (the
UPDATE of the changed columns, which takes the row lock, and the refresh after
it), `Commit` (row and timeline together) or `Fail`.  A status and one other
column stand for the rest, since every other column is treated alike.

`LeadAlerts` has two parts that share no variable in the code either: `LinkNext`,
by which codes are shown, stored and spent by a chat's `/start`, and
`DeliveryNext`, the router that runs after the commit of a lead: bell, Telegram
with up to `MaxSends` attempts whose answers may be lost, mail, and the one
commit of row and events, during which the lead's row is locked.

`OwnerSetup` is only the sum of `BotLifecycle`, `WidgetConfiguration` and
`LeadAlerts`: what an owner may rely on for all that he sets up (`OwnersHold`).

`Listings` reads a table page by page, each page and each total its own
statement, while rows are inserted, deleted and moved: by offset until the total
is reached, by the cursor of the leads, or down the timeline.  Rows with equal
keys come in any order unless the list breaks the tie.

### AuthSessions, BrowserSessions, TwoFactor, OAuthSignIn

`AuthSessions` holds accounts, refresh sessions and mailed reset tokens.  A
refresh is `RefreshRead`, `RefreshUser` and `RefreshCommit`, a reset
`ResetStart` (the GETDEL), `ResetPassword` and `ResetRevoke` in two commits, a
reuse of a rotated token `RefreshReuse`; sign-in, log-outs, change of password,
deletion, suspension and expiry run beside them, and `AuthFail` ends a request
anywhere.  A password is named by the number of its writing.

`BrowserSessions` is the other end: tabs of one browser with React state, the
pair of tokens in local storage or in cookies (`mode`), the access token that
expires, the exchange that a tab's calls share (`_refreshPromise`), the repeat
of the call after a 401, log-out, reload, and answers that are lost.  The server
handles each request at once and judges tokens as `AuthSessions` does.

`TwoFactor` is the row `user_totp` and requests that read it, decide, and write
columns.  `OAuthSignIn` is the resolution of a provider's callback (identity,
then e-mail, then a new account), restarted when a unique key refuses its
insert (`Candidates`, `Conflicts`), beside registration, verification, deletion
and suspension.

### ChatTurns, ModelCalls, ReplyCache

A turn of `ChatTurns` finds or inserts its thread under the partial unique index
(uncommitted until the visitor's message is, so that a second request waits),
counts the conversations of the month (widget after, Telegram before its own
insert), sums the tokens, calls the model, stores and answers; it dies anywhere.
`ModelCalls` opens up one call: the greeting filter, caches and embeddings,
Gemini with its repeated 429s or Ollama, the parsing of usage, the commits, the
usage row and the error taxonomy.  `ReplyCache` is the two caches themselves:
exact keys that expire, the list of embeddings that LPUSH fills and LTRIM cuts,
settings that change while old replies are alive.

### TelegramChannel, WidgetConfiguration, WidgetAbuse, RateLimits

`TelegramChannel` keeps the rows of `telegram_configs` beside Telegram's own
record of each token's webhook.  Connect, sync, the bulk resync and disconnect
read a row, call Telegram, and commit between the calls; an answer may be
refused or lost after it took effect.  A secret is the number of its making, and
`madeFor` the tokens that secrets were made for, in that order.

`WidgetConfiguration` is get-or-create with the lock of its transaction and the
second look behind it, and PATCH from a copy, while the bot may be deleted.
`WidgetAbuse` puts each message to the process's lists and to Redis at once and
compares; `RateLimits` does the same with one key of the sliding-window limiter,
where a call of Redis is `LoadScript`, `ReadTime` and `EvalScript`, calls overlap,
answers are lost and Redis restarts with or without its data.

### Campaigns, AdminOffice, OfficeCatalog

`Campaigns` is one campaign: requests that read it, decide and commit, and the
background task that mails with the text it was given and commits the outcome;
it may die at any recipient.  A mail is accepted, refused, or accepted with the
answer lost (`Answers`): `ResendEmailClient.send` reports the last two alike, so
what the task counts (`sent`) is less than what has arrived (`mailed`, history).
`reached` and `unheard` are history too: whom a task has reached, and the mails of
mailings that heard no acceptance at all, after which the campaign is open to edits
and to another mailing.  `AdminOffice` has the requests of superadmins with
the objects of their sessions, the row locks that each flush takes, deadlocks
that Postgres breaks, and a trail that shows with its commit (or, for the single
endpoints, never).  `OfficeCatalog` has rows with a unique key (flags, coupons),
rows without (tickets, webhook logs), overlapping calls on them and the trail.

### FinanceAdvice

A step is one question with its answer: tax regimes of a turnover, the business
plan of a rent, staff, capital and city, the comparison of cities, the schedule
of a loan, the load of a credit.  Roundings are kept; floats are taken as exact:
the rate of a month is a fraction in its lowest terms (`Reduced`), and the amounts
of a schedule are whole multiples of one over its `ScaleOf`.  `ForGood` is the
number of months that the comparison of cities puts in place of a payback that
never comes, so a city that takes longer still ranks behind one that never pays.

### The MC modules

Modules whose variables are disjoint, and which meet in the code nowhere, are
checked in one run: `MCKnowledgeIngestion`, `MCOffice`, `MCRequests`,
`MCServices` and `MCLimits` put them side by side, a variable `focus` picks one
for each behaviour, and the others stay in their initial states.  Each part is
thus checked exactly as if it were alone, and liveness of a part is asked for
under the fairness of its own actions.  `MCBotQuota` and
`MCSalesConversation` give values and symmetry only; `MCStripeBilling` adds the
initial states of `stripe_serial`, where a user may already have paid, so that its
few events reach further.

### The Proofs modules

`KnowledgeIngestionProofs` (with the theorems of `KnowledgeText`), `BotQuotaProofs` (with the theorems of `AdminOffice` and
`OfficeCatalog`), `StripeBillingProofs` (with the theorems of `FinanceAdvice`),
`SalesConversationProofs` (with the theorems of `ConversationStateMachine` and `SalesGuards`),
`LeadPipelineProofs` (with the theorems of `Listings`), `AuthSessionsProofs`,
`ConversationProofs` (of `ChatTurns`, `ModelCalls`, `ReplyCache` and `RateLimits`)
and `ServicesProofs` (of `Campaigns`, `TwoFactor`, `TelegramChannel`, `WidgetAbuse` and all of `OwnerSetup`) hold theorems only; section 4.  The theorems of
`OAuthSignIn` and `BrowserSessions` are in `AuthSessionsProofs`.

## 3. The runs

All bounds are constants given in the `.cfg`; no run replaces a definition.

| run | checks | bounds | what it shows |
|---|---|---|---|
| `ingestion` | `ClaimExclusive`, `StoresAgree`, `NoSilentStall`, `RunsBounded`, `SettledIsFinal`, `ImplementsLifecycle`, `EventuallySettled`; `TextHolds` | 2 files of one bot, 2 workers, 2 attempts, one duplicated push, all faults; pages of up to 5 characters, two pages of up to 2, chunks of 2 and 3 | queue, claims and retries give every file the abstract lifecycle and an end; splitter and selection lose nothing |
| `sales` | `AlertedOnce`, `NoLeadForgotten`, `MarkedWhileApart`, `FunnelMoves`, `AnswersKept`, no deadlock | 2 conversations, 2 turns at a time, 1 phone, 1 required field, 1 fault | what racing turns can and cannot break |
| `stripe_serial` | `CustomerKept`, `RowFollowsEvents`, `EveryEventSettles` | 2 subscriptions, 2 paid plans, 4 events of a new user or after a paid checkout, any order one at a time, 1 failed delivery or (new user) 1 override | what holds whatever the order of events, and that each is answered |
| `office` | `Mirrors`; `OfficeHolds`; `CatalogHolds`; `ListingsHold`; `OwnersHold` | billing: 1 subscription, 2 plans, 7 events in order, 2 failures, 1 override; 2 superadmins, 3 requests; 2 ids, 3 calls; 3 rows, 2 changes, pages of 2; 2 overlapping requests, 3 in all, on a bot and on its widget; 2 codes, 4 calls on the link; 2 leads, 3 attempts | ordered billing mirrors Stripe; overlapping edits, moderation, lists, widgets and alerts |
| `requests` | `AccountsAreSound`; `ThreadsAreSound`, `LimitsPassedByOverlap`; `CallsAreAccounted`; `QuotaKept`, `OneOverAtMost`; `EveryRequestIsAnswered` | 2 sign-ins at a time, 3 in all, 3 accounts, 2 identities; 2 turns at a time, 3 in all, limit 2; 2 calls, 4 attempts; 3 creations under plans of 1 and 2 | unique keys, retries and limits under overlap; everybody is answered |
| `services` | `SessionsHold`, `AccessHolds`; `SecondFactorHolds`; `ChannelsHold`; `CampaignIsSentOnce`; `HistoryHolds`; `SafeguardsHold`; `BrowserHolds`; `FinanceHolds` | 2 overlapping requests of each service, 3 to 6 in all; 3 sessions; 4 messages of a conversation; 2 tabs, 3 calls, 3 pairs; a grid of inputs around every threshold | read, change, write back: what still holds, and what each exception needs |
| `limits` | `RepetitionIsStopped`; `LimiterHolds`; `CacheHolds` | 2 calls at a time, 4 in all, limit 2, 3 ticks, 1 restart; 4 messages, 2 wordings; 2 turns at a time, 3 in all, 2 entries | windows, heuristics and caches in Redis and in the process |
| `bot_quota_first` | `LimitHolds` fails | 2 requests | section 5 |
| `stripe_two` | `LimitsOfActiveSubscription` fails | 2 subscriptions, in order | section 5 |
| `sales_ack` | `AckKeepsQualification` fails | 4 messages | section 5 |
| `browser_logout` | `LogOutClearsCookies` fails | 1 tab, 2 calls | section 5 |
| `moderation_lost` | `AnsweredIsDone` fails | 2 requests | section 5 |

Names ending in `Holds` are conjunctions of named parts, one promise each, stated
with its comment in the module; among them:

- *sessions:* `OneLivePerFamily`, `ResetEndsOldSessions`; `EndedFamilyStaysEnded`, `SuspendedGetsNoSession`, `ReasonIsKept`,
  `PasswordIsProved`; in the browser `ReuseIsRaced` (the server cries theft only
  after two tabs raced or an answer was lost), `LogOutClearsStorage`,
  `GivesUpDead`;
- *channels:* `SecretBelongsToToken`, `MuteOnlyByOverlap`, `OneBotPerToken`,
  `RefusedTokenKeepsChannel`;
- *limits:* `WindowKeepsLimit`, `RetryIsEnough`, `AgreesWithMemory`,
  `ScriptStaysLost`; *caches:* `CachedReplyFits`, `OldSettingsRunOut`,
  `NewestIsServed`;
- *safeguards:* `RateKept`, `SlotLoopIsBroken`, `BurstKept`,
  `ValuesWereAskedFor`, `NudgeKeepsQuestion`;
- *administration:* `TrailTellsTruth`, `LastOfficerFallsByOverlap`; `KeysUnique`,
  `ResolvedIsStamped`, `TrailInOrder`, `ChangesAreAskedFor`;
- *lists:* `CursorShowsAllOnce`, `OffsetLosesByChangesOnly`,
  `UndisturbedPagerIsComplete`;
- *owners:* `ArchiveIsKept`, `ActiveSawItsChannel`, `AskedIsWritten`,
  `TrailTellsBot`; `OneWidget`, `KeyStays`, `PatchIsWritten`; `OneChatPerCode`,
  `DeliveryIsWhole`, `DeliveredOnce`;
- *text:* `NothingLost`, `CutWell`, `PackedAndCounted`, `BestWithinBudget`,
  `TurnGetsTheBeginning`; *finance:* `RentNeverHelps`, `TurnoverPays`,
  `CostsNeverTax`, `BestEarnsMost`, `LoanIsRepaid`, `AdviceHelps`.

**Why the bounds are enough to be interesting.**  Two files and two workers give
every race of two workers for one file, in the presence of another file's job
that is in front or behind; two attempts give a retry and a dead letter; one
duplicated push gives two jobs of one file while it is running, failed and
settled.  Three requests of anything are one more than a race needs, so that a
third comes after an exception has happened; plans of one and two bots give both
a refusal and an upgrade in the middle.  Seven events are a checkout (three), a
failed renewal (two) and two more: a change of plan and a cancellation, a
recovery, or a second checkout's first event; two failed deliveries repeat an
event before and after its commit.  Two turns are the least that overlap, two
conversations the least that share a phone; turns end and begin again without a
bound.  Three sessions are a parent, its successor and a rival's.  Four PATCHes
reopen a closed lead and close it again.  Windows of two ticks and limits of two
put hits on both sides of every edge.  Five characters of page make two
paragraphs of two, a chunk that is full, and one that is one too long; the
rents, revenues and caps of the calculators straddle every threshold they test,
with two rents that differ by one som, a capital that is never paid back in time,
and rates of none, a tenth and three tenths a month.
Every counter that would grow without end has a named bound in a guard
(`Max...`); failed ingestions are bounded by the code's own limit.

**Symmetry** is used where the members of a set are interchangeable (requests,
conversations, ids of rows that carry no order).  `MCOffice` lets parts that are
never active together share the values of their sets, so that one permutation
serves all of them.  The runs with liveness properties use none.

**Fairness.**  `KnowledgeIngestion`: weak fairness of `Schedule` (a request goes
on after its commit), of `Pop` and of a worker's handling of the job it holds:
the loop of `workers/knowledge_ingestion_worker.py` has no condition under which
it stops, and its steps never wait for another actor.  Faults have no fairness;
since any of them may drop the only copy of a job, `EventuallySettled` excepts
the files whose job a fault dropped and needs a worker that stays up.  That no
fault means no stall is itself the safety property `NoSilentStall`.  `BotQuota`,
`ChatTurns`, `OAuthSignIn` and `ModelCalls`: weak fairness of each accepted
request's own next step, since the event loop runs what it has accepted and
every call outside has a timeout; weak is enough for the wait on a lock or an
uncommitted key since there are finitely many requests and whoever holds it
goes on.  `StripeBilling`: weak fairness of a handler's steps, strong fairness of
Stripe's redelivery of an unsettled event, which stands for its documented
retries: the request slot may be busy or may fail in between, but only finitely
often.  All other modules claim safety only: a request that dies is resumed by
nobody, so nothing eventual is promised.

**Deadlock** is checked in the run `sales`, where turns wait for each other's
rows and new turns may always begin.  The other models come to rest
legitimately: the uploads are settled, the requests answered, or the bound on
inputs is used up.  That nobody waits for ever is checked as liveness there
(`EventuallySettled`, `EveryRequestIsAnswered`, `EveryEventSettles`).

## 4. The proofs

Theorems are in the `...Proofs` modules.  Each follows the same argument: `Init`
implies the invariant, every action preserves it, and the invariant implies the
property; one step per action and one lemma per group of actions that needs the
same reason.  They assume only the named assumptions beside the constants and,
where said, one more.

- **`KnowledgeIngestion`** (`TypeCorrect`, `InvariantCorrect`,
  `ClaimsAreExclusive`, `ChunksAreComplete`, `JobsHaveBlobs`, `StoresAlwaysAgree`,
  `NoFileStalls`, `SettledStays`, `LifecycleImplemented`, `RunsStayBounded`), for any
  number of files, bots, workers, attempts and duplicated commands, with all faults.  The invariant is
  `IngestionInv`.  `ClaimExclusive` alone is not inductive: that a second worker
  cannot claim follows from the first worker's row being `processing`, and that
  it stays so needs that nobody re-inserts it (`JobFollowsRequest`: a job exists
  only after the request is done) and that no other failed run turns it back
  (`FailRun` needs to be running, which the first part excludes).
  `NoSilentStall` needs `ProcessingIsRun` (a row in `processing` has its worker,
  or a fault lost it) and `FailedRunHasRun`.  `JobHasBlob` needs
  `BlobFollowsRequest`: an insert that fails deletes the object only of a request
  that has not pushed.  The refinement theorem maps every action to one of the
  lifecycle's or to a stutter, with `ClaimExclusive` and `ChunksOnlyWhenReady` as
  the facts that rule the others out.
  `RunsStayBounded` counts, and so needs finitely many workers.  `RunsBounded` by
  itself says nothing of the jobs that are still on their way; `RunsInv` adds them:
  while a row is unsettled, its runs and its jobs together (the places in the queue,
  the workers that wait to claim or to push, the request that is to schedule) are at
  most one, plus the jobs resent, plus the failures that were counted below the
  limit.  A claim takes a job and makes a run, a counted failure pays for its retry,
  a command sent twice for its copy, and no other step adds a job.
- **`BotQuota`** (`QuotaTypeCorrect`, `QuotaHolds`, `QuotaExceededByOne`), for any
  number of requests and plans.  The invariant `QuotaInv` says that a request
  between lock and insert holds the lock unless it is the provisioner, so nobody
  else's insert comes between its count and its own; `Over` is the one bot that
  the provisioner may have added unseen, which every later count is off by at
  most once because the row is provisioned only once.
- **`StripeBilling`** (`BillingTypeCorrect`, `CustomerNeverForgotten`,
  `RowFollowsItsSubscription`, `RowMirrorsStripe`), for any plans, requests and
  bounds, and but for the last any subscriptions.  The second holds for any number of parallel deliveries, because a
  commit writes only what its handler changed and no handler clears that column.
  The third is for deliveries that come one at a time (`Delivery # "any"`, any
  order); `SerialInv` says that the row a request commits to is the one it has
  read.  `RowMirrorsStripe` is under `OneSubscriptionInOrder` (one subscription,
  Redis there, deliveries in order), the assumption under which `Mirrors` is claimed
  at all.  `MirrorInv` says that some number of events is settled, the oldest; that
  the row is what they, or they and the next, leave behind, with an administrator's
  plan in place of theirs; where the one request at work stands; and what Stripe's
  events promise each other: an event about one part of the subscription repeats the
  rest as the event before it said it (`Continues`), and the last says what Stripe
  says now (`LastEventIsStripe`).
- **`ConversationStateMachine`** (`RulesMatchTable`, `MovesAreAllowed`), for all
  flags and all histories of states: the rules propose only what the table
  allows, and so does `transition_state` with its loop guard, since every row of
  the table has the fallback.  The branch `illegal_transition_blocked` is dead
  code.
- **`SalesConversation`** (`SalesTypeCorrect`, `SalesCorrect`, `MarksAreReal`,
  `OwnerAlertedOnce`, `LeadsAreRouted`, `OfferIsTheEnd`, `MarkedUnlessOverlapped`,
  `FunnelFollowsTable`, `NoAnswerIsLost`), for any number of conversations, turns,
  phones, required fields and faults.  `SalesInv` says three things.  Of each
  turn by itself (`TurnSound`): a mark it carries names a committed lead or the
  one it inserts; a turn about to alert has a lead nobody was told of; in a
  conversation without overlaps the row it will write follows the committed one
  (`Follows`: the state by the table, answers, phone and mark kept).  That one
  turn at most delivers a lead, which the unique index on the conversation gives:
  `InsertLead` needs no committed lead and no other uncommitted one.  And that
  without overlaps one turn at most is under way.  `AlertedOnce` is not inductive
  without the second; `AnswersKept` and `FunnelMoves` need the third.  The question
  planner's choice of the first missing field exists because `<` on the naturals
  is well founded (`LeastElement`).
- **`LeadPipeline`** (`PipelineTypeCorrect`, `PipelineCorrect`, `TimelineIsComplete`,
  `NothingIsTakenBack`, `ChangesRecorded`, `ReopenedByOvertaken`, `HistoryIsKept`), for any number of
  requests and any values of the columns.  `PipelineInv` says that one request at
  a time has written and not committed (the row lock), that what it read back is
  the row with its changes applied, and that any status a request has read is on
  the timeline.  The first gives that the event is true of the row it is
  committed with; the last, that events of overtaken requests leave no gap.
- **`Listings`** (`ListingsInvariant`, `ListsAlwaysHold`), for any finite set of rows, page
  sizes and number of changes.  For the cursor the invariant is that of the rows that
  stayed those behind the cursor were not shown and all others once (`CursorParts`);
  created_at and id never change, so nothing moves across the cursor.  For offsets it is an
  account (`LossIsPaid`): rows that slipped before the next page unseen (`PassedBy`),
  and those by which the table outgrew the total counted before the page
  (`Excess`), are together no more than the changes.  A deletion or a move adds a row to
  the first, an insertion one to the second, never both: a place moves by one, and of
  rows with distinct keys one only is at the edge (`PlacesDiffer`).  Hence the premise
  that no page saw two equal keys; `ListingsHold` alone says nothing before the end.
- **`AuthSessions`** (`AuthTypeCorrect`, `AuthInvariant`, `SessionsAlwaysHold`,
  `AccessIsKept`), for any accounts (at least one), sessions and requests.
  `OneLivePerFamily` needs that a refresh between its read and its commit counts as
  the session it will insert (`OneHolderPerFamily`), for two refreshes and for a
  refresh beside a live session; `ResetEndsOldSessions` that a sign-in or refresh
  that has judged an old password was cut, or that the reset is still between its
  two commits (`OldRequestsAreCut`).  The action properties follow from what a
  request has seen since it read (`RevocationIsSeen`, `UserIsSeen`): that it carries
  on after a revocation or a suspension is possible, and only because it read first.
- **`ChatTurns`** (`TurnTypeCorrect`, `TurnInvariant`, `ThreadsAreAlwaysSound`,
  `LimitsArePassedByOverlap`), for any finite numbers of turns, visitors and chats,
  and any limits.  `KeyIsHeldOnce` is the partial unique index: a key has one
  uncommitted thread at most and then no committed one; `ThreadIsThere` says that a
  turn past its look-up has its thread, or its insert.  For the limits, a turn that
  counted keeps that the plan had room then (`HadRoom`); what is counted beyond
  the limit are threads that others inserted meanwhile.
- **`ModelCalls`** (`CallTypeCorrect`, `CallsAreAlwaysAccounted`), for any bounds.
  `CallInv` says of each stage of a turn what has been done by then: nothing charged
  before the provider answers, nothing kept before usage is known, nothing written
  before the store, nothing answered before the end.
- **`ReplyCache`** (`CacheInvariant`, `CacheAlwaysHolds`), for any turns, states, phrases,
  likeness of phrases, times to live and size of the list.  `CacheInv`: a turn has what
  is its own until a cache has answered (`TurnIsOwn`), so that only what a turn made
  itself is stored; what is kept expires one time to live after that at the latest; and
  LPUSH keeps the list in the order of expiry (`KeptFits`), which is why the first of the
  closest entries is the newest.
- **`RateLimits`** (`LimitInvariant`, `LimiterAlwaysHolds`), for any limit, window,
  rounding of Retry-After, numbers of requests and of restarts.  `LimitInv`: a hit
  expires with its key at the latest (`HitsExpire`), so that what an expired key
  takes with it has left the window of every reading that was not overtaken; who
  has passed in time still has his hit, or hits as old as his were dropped
  (`PassedIsCounted`), so that the hits the script counts are at least those who
  passed in its window (lemma `WindowCount`, an injection); the list in the process
  holds the same hits until a disturbance (`SameHits`).  `RetryLeavesRoom` is the
  arithmetic of Retry-After: once the oldest of exactly `Limit` hits has left the
  window, there is room.
- **`Campaigns`** (`CampaignTypeCorrect`, `CampaignIsAlwaysSentOnce`), for any
  administrators, recipients and texts.  `CampaignInv`: a request decides by a
  campaign that was not sent when it read it, and, unless two had read it at once,
  the task that mails is alone, has the stored text, has not reached those on its
  list, and what was mailed is of unheard mailings but for one mail to each whom it
  has reached (`MailsAlone`).  When it ends, either these mails are unheard as well, or
  one acceptance was heard and closes the campaign.
- **`TwoFactor`** (`TotpTypeCorrect`, `SecondFactorAlwaysHolds`), for any requests,
  codes and set-ups.  `TotpInv`: a request decided rightly by the copy it has, and
  codes of set-ups to come are unspent.
- **`TelegramChannel`** (`ChannelTypeCorrect`, `ChannelsAlwaysHold`), for any bots
  (at least one), tokens and requests.  `ChannelInv`: every row and every copy of
  one has the secret that was made for its token (`Linked`), a connection goes on
  only with a token that no bot had when it looked, and a disconnection deletes the
  webhook of the row it has read.
- **`BrowserSessions`** (`BrowserInvariant`, `BrowserAlwaysHolds`), for any tabs, pairs
  and calls.  `BrowserInv` follows one pair: while the answer that carries it is under
  way it is in no storage and nobody exchanges it (`AnswerIsOwn`); two tabs that
  exchange it at once are a race (`ExchangesAlone`); and once it is replaced it stays
  in the storage only while the tab that exchanged it waits (`RotatedIsLeft`), so that
  who sends it again has raced, or an answer was lost.  The storage of bearer tokens
  is filled only while a tab has a user (`StorageHasUser`), because every call but a
  sign-in and a log-out is of a tab that has one (`CallFits`).
- **`OAuthSignIn`** (`SignInTypeCorrect`, `AccountsAreAlwaysSound`), for any accounts,
  requests, e-mails and identities (at least one).  `SignInInv`: every link is of a
  stored account (part of the types), so that a new account takes none over; a
  request about to open a session has an account that was stored once, so that no
  later row can be mistaken for it; a request about to link has read no other
  identity of the provider, so that a second one comes from an old copy only.
- **`WidgetConfiguration`** (`WidgetTypeCorrect`, `WidgetAlwaysHolds`), for any requests
  and greetings (at least one).  `WidgetInv`: who looks again, inserts or commits
  holds the lock, and whoever inserts has found no row, so that no second row is
  added; the key that was shown is the one of the row.
- **`BotLifecycle`** (`BotInvariant`, `BotsAlwaysHold`), for any requests, names and
  bounds.  `BotInv`: what a request is about to do is what its operation asks for, and
  it makes a bot on Telegram active only after a look at its channel
  (`RequestIsSound`); as long as no commits cross and no entry is lost, the copy of a
  request is the row until it commits (`CopyIsFresh`), one request at most owes an
  entry, and the trail ends where that request began (`OwesEntry`).  `TrailTellsBot`
  by itself says nothing of the trail between a commit and its entry.
- **`LeadAlerts`** (`AlertInvariant`, `AlertsAlwaysHold`), for any leads, chats, codes
  and attempts (at least one).  `AlertInv`: a code beside a linked chat was stored
  late; what a delivery has noted is what has arrived, and the row says nothing of it
  before the one commit (`DeliveryIsNoted`).
- **`OwnerSetup`** (`OwnersAlwaysHold`): the last three together are `OwnersHold`, which
  the run `office` checks.
- **`AdminOffice`** (`ModerationInvariant`, `ModerationAlwaysHolds`), for any
  superadmins, users, bots and overlapping requests; assumed is that bots and users
  are rows of different tables.  Locks play no part in the argument: a commit is
  atomic.  What carries it is that copies agree in their two columns, so that a row
  which is not as wanted differs in both, and a request that has a column to write
  writes all of them, holds an entry about the row, and never about its own actor
  when it suspends (`WritesItsAction`, `TellsItsAction`).  It does not matter how
  long ago the copy was read.
- **`OfficeCatalog`** (`CatalogInvariant`, `CatalogAlwaysHolds`), for any calls, ids
  and keys.  `CallFitsCatalog`: ids are not used again, so the row a call has read
  either is gone for good or has the same key, and a stamp that was read is still
  there; a key that is being inserted is in no row and in no other insertion, which
  the look-up alone would not give; whoever updates or deletes a flag or coupon finds
  an entry of it in the trail, and one that says deleted has no row behind it.
- **`WidgetAbuse`** (`AbuseTypeCorrect`, `RepetitionIsAlwaysStopped`), for any texts,
  windows and limits, however messages and errors mix.  `AbuseInv`: what passed and
  is still in its window is among the stored copies, so that counting those counts
  all; the counter of a row is as high as the row of judged messages is long; and
  without errors the process stores all that Redis stores, and its row is as long or
  long enough to refuse, which `MemoryIsStricter` needs.

- **`SalesGuards`** (`GuardsInvariant`, `SafeguardsAlwaysHold`), for any fields, words,
  windows, limits and lost turns; assumed is that a row keeps at least as many times
  as the limit counts (`TimesKept >= RateMax`; the code: 40).  `GuardsInv` knows the
  row field by field between the read of a message and its answer, and between answer
  and commit; and, for `RateKept`, that the list of times, pruned and cut as it is,
  has every answered turn that a later window can still hold: the times only grow, so
  those that were dropped lie before the window or beyond the last `TimesKept`
  (`LastOnesFacts` and the lemmas about pruned sequences).  The property speaks of
  what was answered and not of the list, which is why the invariant must.
- **`FinanceAdvice`** (`FinanceInvariant`, `FinanceAlwaysHolds`), for any benchmarks with
  a margin of at least 4 % (the turnover tax's rate), any cities (at least one),
  salaries, rents, whole yearly rates, loans and terms.  The invariant is only that
  the answer is that of the question; the work is in what the functions compute.
  *Plans:* a rent saves at most 15 % of itself in tax, whichever regime is the
  cheapest before and after (`RentCosts`); on more turnover each regime takes less
  than the margin leaves (`TurnoverLeaves`); the comparison of cities is a least
  rank, which exists (`BestIsThere`).  *Loans:* the recursive functions `Power`,
  `Balances` and `SumOf` are shown to satisfy their equations and what follows from
  them by a least counterexample (`LeastOne`, from the well-foundedness of `<` on the
  naturals, then `Induct` and `Recursion`).  The balance after `t` months is the
  principal's `Weight`, g^n - g^t d^(n-t) over g^n - d^n for an annuity with the
  growth g/d of a month and n months, and (n - t)/n for equal shares (`BalancesAre`),
  so that every division of the schedule is exact but for the
  roundings to whole som, half a som a month at most (`SumsClose`).  Equal shares owe
  less than an annuity at every month because powers are convex (`PowersConvex`), and
  so cost less interest (`SharesCostLess`); a longer term has the lighter instalment
  (`MonthlyFalls`), which a load rounds the same way.

- **`KnowledgeText`** (`TextInvariant`, `TextAlwaysHolds`), for texts of any length,
  any limits, densities and costs, and whatever rows the searches find; what it says
  of chunks is proved for files of any number of pages (`ChunksAreRight`), of which
  `TextNext` has those of one and two.  The invariant says that the outcome is what the functions make of the task,
  that no character is twice on a page, and that a turn asks for no more than the
  default; the work is in the functions.  Each recursive one is first shown to be a
  run of its steps (`Recursion`: such a run exists; `StepsAgree`: runs of the same
  steps agree), after which its promise is kept by one step and so by all (`Induct`,
  `InductOnSequences`, both by a least counterexample).  What a step promises is
  stronger than what is asked of the whole: the windows so far show what the text
  shows up to where the next one starts, and each takes a character at least
  (`WindowsFit`, `NextWindowIs`), which is why as many as there are characters are
  enough; what was packed and what is being joined together show the units so far
  (`AddUnitKeeps`).  That a chunk could not have taken the first paragraph of the next
  is found again by the first characters, and so needs that different paragraphs
  begin differently (`Apart`, from `SeenOnceApart`).  `Separated` cuts before a
  visible character and strips, so its pieces lose white space only (`SeparatedIs`);
  the pages follow one after the other (`NextPageCut`), and a chunk with an overlap
  has tokens enough because the rounding up is done before the ratio is applied
  (`TokensEnough`).  The selection is a beginning of the hits with tokens which ends
  at the first that does not fit (`BestOf`, `SelectHitIs`); a smaller budget
  therefore takes the beginning of what a greater one takes (`LessTakesBeginning`).

*Only model-checked:* the liveness properties.
Liveness under fairness is beyond the proof system's backends used here, and so is
`ENABLED`.  The induction theorems of the library take an operator as a parameter,
which the backends cannot instantiate; where a proof needs an induction over data
(`FinanceAdvice`, `KnowledgeText`, the folds of other modules) it is by a least
counterexample, of a set of numbers.

## 5. Where the code and its words disagree

Five runs end in a counterexample; each is a sentence of the repository, or a
test of it, that the code does not keep.

1. **`bot_quota_first`.**  `api/v1/bots.py:45` says the lock makes count, limit and
   insert "race-free".  An owner without a subscription row is given the free one
   inside the lock, and that commit releases it.  A second request then counts
   before the first inserts.  `OneOverAtMost`, proved, says how bad it gets: one
   bot, once per owner.
2. **`stripe_two`.**  `services/billing_service.py:64` says `get_plan_limits`
   returns the limits of the user's active subscription.  Checkout lets a user
   who pays for one plan open a second subscription for another; the row holds one
   id and forgets the other, and when the one it holds ends the user is free
   while still paying.
3. **`sales_ack`.**  `services/intent_rule_engine.py:122` says that short
   acknowledgements keep the funnel from falling back during qualification.  The
   input filter answers them first, with an unknown intent, and the funnel falls
   back.
4. **`browser_logout`.**  `src/COOKIE_AUTH_UPGRADE.md:11` says log-out clears the
   cookies.  The client forgets the CSRF value before it calls the endpoint that
   asks for it; the call is refused, and the cookies stay.
5. **`moderation_lost`.**  A test suspends a user and expects him refused.  The
   single endpoints flush and never commit; only the bulk ones do.

Others were met while reading and have no run of their own:

- *Leads.* `services/sales_lead_capture_turn.py:15`: a turn read before the lead was
  captured writes its own collected data over the mark (`MarkedWhileApart` needs
  the overlap).  `services/lead_pipeline_policy.py:11`: won and lost are absorbing,
  but the check is against the row as read (`ReopenedOnlyIfOvertaken`).
  `services/lead_creation_service.py:29`: two conversations with one phone
  captured at the same time become two open leads.
  `services/lead_creation_service.py:10`: leads are to be captured only in closing
  or completed, but only `qualification_complete` is ever set, so no turn gets
  past the offer.  The guard against oscillation needs the previous states, which
  the orchestrator does not pass.
- *Alerts.* `api/v1/telegram_linking.py:1` says linking is for per-customer alerts;
  the router is given the provider of the settings, so a linked chat receives
  none.  A failed commit of a delivery takes back bell, events and status though
  Telegram may have the message, and nobody retries.  The comment at
  `models/user.py:79` calls the e-mail alerts unused; the router sends them.
- *Bots.* `services/bot_service.py:502` says auditing should not block; when its
  transaction fails, the rollback expires the loaded bot and PATCH or archive
  answer an error for a change that is committed.
- *Billing.* `models/subscription.py:23`: a paid row without a period end is to be
  treated as expired.  A checkout writes no period end, and the limits are read
  off the plan alone, whatever the period says.
- *Ingestion.* `core/config.py:1063`: the cap on files per bot is a count at
  admission, which uploads in parallel pass together.  The maximum of characters
  per stored chunk is passed by the overlap that is put before it.
- *Sessions.* `/logout` never revokes the session at the server; any answer to
  `/refresh` that is not a success clears a live session in the browser.
- *Limits.* `src/docs/deployment/RATE_LIMITING_REDIS.md` claims limits stay correct
  under concurrent workers; the clock is read in a round trip of its own.  After a
  restart of Redis that loses its scripts every call of a process that has loaded
  them fails (`ScriptStaysLost`).  The process's abuse heuristics refuse one copy
  earlier than those of Redis (`MemoryIsStricter`).
- *Safeguards.* `services/sales_safeguards.py:6` says that every branch keeps the
  funnel in qualification; a canned turn moves it with an unknown intent, to the
  fallback, and only the question comes back (`NudgeKeepsQuestion`).  The
  classifier's own model call counts in the burst bucket too.
- *Administration.* A webhook log's retry re-processes nothing, though its
  docstring says so; coupons are redeemed and flags evaluated by nothing; a
  campaign whose process dies stays in `sending` for ever.  One of which every
  answer was refused or lost counts as failed (`api/v1/admin_campaigns.py:321`) and may
  be edited and sent again, so that whoever a lost answer reached gets a second mail,
  perhaps with another text, without any race (`CampaignIsSentOnce` says that such
  mails are the only ones).
- *Threads.* `services/web_widget_session_service.py:81` says that who loses the race for
  a visitor's first message recovers the winner's thread "instead of erroring".  The
  rollback expires the bot, and the loser errors when the bot is read again; a turn of
  `ChatTurns` fails there too.
- *Finance.* With no capital and a profit the payback is empty, and the plan says
  that the profit is negative beside the verdict "viable"
  (`lib/finance/business_plan.py:206`).  One som more of turnover than a cap leaves
  less after tax, by law and by the code.

## 6. What is not modelled

Every component of the repository is listed in `PROJECT.json` with a status.  In
short:

- *Prompts, niches, scoring and summaries* (`prompting/`, `lib/niche_flow/`,
  `services/lead_scoring.py`, `services/lead_summary.py`): assembly of text and
  weights; what they decide enters `SalesConversation` as a constant (`Required`)
  or a free choice (the score is too low for a lead, or not).
- *Plumbing* (`core/config.py`, `middleware.py`, exception handlers,
  observability): framework wiring.  That one session serves a request is an
  assumption every module uses.
- *Clients:* the dashboard apart from its session code, the embeddable widget,
  the copy of the calculators in TypeScript, load tests; and the migrations,
  whose constraints are taken from `models/`.
- *Formats:* mail, Telegram's and Stripe's payloads, JWTs, PDFs and the object
  store's protocol; ranks of full-text search and embeddings are inputs.
- *Statistics:* the aggregates of the overview pages, usage dashboards and the
  CSV export are single reads.

Within the modelled components: the Redis record of a Stripe event lives for 48
hours in the code and for ever in the model; portal sessions, and the
cancellation before an account is deleted, are calls to Stripe alone; a bot's
templates are at most one file; a lead's columns besides status are one;
optional fields and clarification questions of the sales funnel; the exchange
code of an OAuth callback; the gate of the widget (key, origin, enabled), which
is one read; limits on PDFs, storage and channels, which are counted and not
held exactly as conversations are; the clearing of an unserved call when a tab
logs out; `update_telegram_webhook_metadata`, which sets nothing the model
holds; `updated_by_id` of a flag in `OfficeCatalog`, by which an update that changes
nothing else of a flag deleted meanwhile raises in the code and leaves its entry in
the model, which so allows more.  In `OAuthSignIn` an account that is deleted has no row in `user_totp` (a
deletion of one that has fails on its foreign key).

The parts that share a run share no action: what crosses them in the code (a
suspension that meets a refresh, a plan that changes under a creation) is an
action of each module it reaches, not a composition of the two.

## 7. What is left

In order of what it would add:

1. Composition of `StripeBilling` with `BotQuota`: the row that Stripe's events
   write as the plan that a creation reads, so that a downgrade in the middle of
   one is Stripe's and not any writer's.
2. The limits on PDFs and storage as further instances of `ChatTurns`' limits.
3. Scoring of leads as a function, with the monotonicity its thresholds rely on.
