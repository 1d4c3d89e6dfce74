------------------------------- MODULE ReplyCache -------------------------------
(***************************************************************************)
(* The two caches of replies of one bot (app/services/                     *)
(* ai_completion_cache.py, semantic_completion_cache.py) as the turns of   *)
(* ai_service.py and sales_conversation_orchestrator.py use them.  Both    *)
(* are keyed by the state of the conversation and by the words; one wants  *)
(* the same words, the other like ones.  Neither knows of the settings of  *)
(* the bot, of the visitor, or of what was said before.                    *)
(***************************************************************************)
EXTENDS Naturals, Sequences, FiniteSets

CONSTANTS
    CacheTurns,              \* the turns
    FlowStates,              \* states of a conversation
    Phrases,                 \* normalised messages
    Alike,                   \* pairs of phrases whose embeddings are close enough
    ExactTtl, EmbeddingTtl,
    MaxEntries,              \* ai_semantic_cache_max_entries_per_bot
    MaxCacheTime, MaxCacheTurns, MaxRevision,   \* bounds: clock, turns, changes of the settings
    MaxSkips                 \* bound: steps that fail or are left out

ASSUME CacheAssumption == {ExactTtl, EmbeddingTtl, MaxEntries} \subseteq Nat \ {0}
ASSUME CacheBoundAssumption == {MaxCacheTime, MaxCacheTurns, MaxRevision, MaxSkips} \subseteq Nat

VARIABLES
    today,        \* the clock
    revision,     \* the settings of the bot
    exact,        \* Redis: a key for each state and phrase
    entries,      \* Redis: the list of the bot, newest first
    cacheTurns,
    storedUntil,  \* history: when a reply made with each revision was last stored by the turn that made it
    turnsMade,
    skips

cacheVars == <<today, revision, exact, entries, cacheTurns, storedUntil, turnsMade, skips>>

CacheTimes == 0 .. MaxCacheTime
Revisions == 0 .. MaxRevision
Origin == [state : FlowStates, phrase : Phrases, revision : Revisions, kind : {"plain", "knowledge", "closing"}]
CacheEntry == [origin : Origin, exp : Nat]
CacheTurn == [at : {"exact", "embedding", "provider", "keepExact", "keepEmbedding", "answer"},
              own : Origin, reply : Origin, cached : BOOLEAN]
CacheIdle == [at |-> "idle", cached |-> FALSE]

CacheInit ==
    /\ today = 0 /\ revision = 0 /\ turnsMade = 0 /\ skips = 0
    /\ exact = [k \in FlowStates \X Phrases |-> {}]
    /\ entries = <<>>
    /\ cacheTurns = [c \in CacheTurns |-> CacheIdle]
    /\ storedUntil = [r \in Revisions |-> 0]

Alive(e) == today < e.exp

\* A turn with knowledge in its prompt uses neither cache.
Allowed(own) == own.kind # "knowledge"

Closeness(p, q) == IF p = q THEN 2 ELSE IF {p, q} \in Alike THEN 1 ELSE 0

Matching(own) ==
    {i \in DOMAIN entries : /\ Alive(entries[i]) /\ entries[i].origin.state = own.state
                            /\ Closeness(entries[i].origin.phrase, own.phrase) > 0}

Nearness(i, own) == Closeness(entries[i].origin.phrase, own.phrase)

\* The closest entry; of two that are equally close, the first in the list.
Best(own) ==
    {i \in Matching(own) : \A j \in Matching(own) :
        Nearness(j, own) < Nearness(i, own) \/ (Nearness(j, own) = Nearness(i, own) /\ i <= j)}

\* The settings are read when the turn begins; the closing text of a captured lead
\* needs no provider, and no look into the caches.
BeginCacheTurn(c, own) ==
    /\ cacheTurns[c].at = "idle" /\ turnsMade < MaxCacheTurns /\ own.revision = revision
    /\ turnsMade' = turnsMade + 1
    /\ cacheTurns' = [cacheTurns EXCEPT ![c] =
           [at |-> IF own.kind = "closing" THEN "keepExact" ELSE IF Allowed(own) THEN "exact" ELSE "provider",
            own |-> own, reply |-> own, cached |-> FALSE]]
    /\ UNCHANGED <<today, revision, exact, entries, storedUntil, skips>>

CacheGo(c, at) == cacheTurns' = [cacheTurns EXCEPT ![c].at = at]

\* Mutant: a reply from the cache is stored again.
AfterHitKeep(c, e) == [at |-> "keepExact", own |-> cacheTurns[c].own, reply |-> e.origin, cached |-> TRUE]

\* The turn answers with what was cached, and stores nothing.
AfterHit(c, e) == [at |-> "answer", own |-> cacheTurns[c].own, reply |-> e.origin, cached |-> TRUE]

LookupExact(c) ==
    LET own == cacheTurns[c].own
        found == exact[<<own.state, own.phrase>>]
    IN  /\ cacheTurns[c].at = "exact"
        /\ IF found = {} THEN CacheGo(c, "embedding")
           ELSE \E e \in found : cacheTurns' = [cacheTurns EXCEPT ![c] = AfterHit(c, e)]
        /\ UNCHANGED <<today, revision, exact, entries, storedUntil, turnsMade, skips>>

LookupEmbedding(c) ==
    LET own == cacheTurns[c].own
    IN  /\ cacheTurns[c].at = "embedding"
        /\ IF Best(own) = {} THEN CacheGo(c, "provider")
           ELSE \E i \in Best(own) : cacheTurns' = [cacheTurns EXCEPT ![c] = AfterHit(c, entries[i])]
        /\ UNCHANGED <<today, revision, exact, entries, storedUntil, turnsMade, skips>>

Provide(c) ==
    /\ cacheTurns[c].at = "provider"
    /\ CacheGo(c, IF Allowed(cacheTurns[c].own) THEN "keepExact" ELSE "answer")
    /\ UNCHANGED <<today, revision, exact, entries, storedUntil, turnsMade, skips>>

\* A step fails, or is left out as the message is too long for it; without an
\* embedding the turn may end as well (ai_semantic_cache_strict_embedding).
Skip(c) ==
    LET at == cacheTurns[c].at
    IN  /\ skips < MaxSkips /\ skips' = skips + 1
        /\ \/ at = "exact" /\ CacheGo(c, "embedding")
           \/ at = "embedding" /\ CacheGo(c, "provider")
           \/ at \in {"embedding", "provider", "keepEmbedding"} /\ CacheGo(c, "answer")
           \/ at = "keepExact" /\ CacheGo(c, "keepEmbedding")
        /\ UNCHANGED <<today, revision, exact, entries, storedUntil, turnsMade>>

\* The history of a reply that is stored by its own turn.
NoteStored(c) ==
    storedUntil' = [storedUntil EXCEPT ![cacheTurns[c].reply.revision] =
                        IF cacheTurns[c].cached THEN @ ELSE today]

KeepExact(c) ==
    LET q == cacheTurns[c]
    IN  /\ q.at = "keepExact"
        /\ exact' = [exact EXCEPT ![<<q.own.state, q.own.phrase>>] =
                        {[origin |-> q.reply, exp |-> today + ExactTtl]}]
        /\ CacheGo(c, "keepEmbedding")
        /\ NoteStored(c)
        /\ UNCHANGED <<today, revision, entries, turnsMade, skips>>

\* LTRIM.
TrimmedList(list) == SubSeq(list, 1, IF Len(list) > MaxEntries THEN MaxEntries ELSE Len(list))

\* LPUSH and LTRIM in one transaction.
KeepEmbedding(c) ==
    LET q == cacheTurns[c]
    IN  /\ q.at = "keepEmbedding"
        /\ entries' = TrimmedList(<<[origin |-> q.reply, exp |-> today + EmbeddingTtl]>> \o entries)
        /\ CacheGo(c, "answer")
        /\ NoteStored(c)
        /\ UNCHANGED <<today, revision, exact, turnsMade, skips>>

\* The reply goes to the visitor, or nothing does.
AnswerCacheTurn(c) ==
    /\ cacheTurns[c].at = "answer"
    /\ cacheTurns' = [cacheTurns EXCEPT ![c] = CacheIdle]
    /\ UNCHANGED <<today, revision, exact, entries, storedUntil, turnsMade, skips>>

\* The owner changes the bot; nothing is dropped from the caches.
ChangeBot ==
    /\ revision < MaxRevision
    /\ revision' = revision + 1
    /\ UNCHANGED <<today, exact, entries, cacheTurns, storedUntil, turnsMade, skips>>

\* Keys expire; an entry of the list stays until it is pushed out.
CacheTick ==
    /\ today < MaxCacheTime
    /\ today' = today + 1
    /\ exact' = [k \in DOMAIN exact |-> {e \in exact[k] : today + 1 < e.exp}]
    /\ UNCHANGED <<revision, entries, cacheTurns, storedUntil, turnsMade, skips>>

CacheNext ==
    \/ \E c \in CacheTurns :
        \/ \E own \in Origin : BeginCacheTurn(c, own)
        \/ LookupExact(c) \/ LookupEmbedding(c) \/ Provide(c) \/ Skip(c) \/ KeepExact(c) \/ KeepEmbedding(c)
        \/ AnswerCacheTurn(c)
    \/ ChangeBot \/ CacheTick

CacheSpec == CacheInit /\ [][CacheNext]_cacheVars

-----------------------------------------------------------------------------
CacheTypeOK ==
    /\ today \in CacheTimes /\ revision \in Revisions /\ turnsMade \in 0 .. MaxCacheTurns /\ skips \in 0 .. MaxSkips
    /\ exact \in [FlowStates \X Phrases -> SUBSET CacheEntry]
    /\ entries \in Seq(CacheEntry) /\ Len(entries) <= MaxEntries
    /\ cacheTurns \in [CacheTurns -> {CacheIdle} \cup CacheTurn]
    /\ storedUntil \in [Revisions -> CacheTimes]

Longest == IF ExactTtl > EmbeddingTtl THEN ExactTtl ELSE EmbeddingTtl
Hits(c) == cacheTurns[c].at \in {"exact", "embedding"} /\ ~ cacheTurns[c].cached /\ cacheTurns'[c].cached

\* Being served does not keep a reply alive: settings of a bot that were changed are out of
\* use one time to live after the last turn that was begun with them has stored its reply
\* (cache_hit_kind is None before remember_completion_caches).
OldSettingsRunOut ==
    [][\A c \in CacheTurns :
        Hits(c) => today < storedUntil[cacheTurns'[c].reply.revision] + Longest]_cacheVars

\* A cached reply was made without knowledge, in the same state of a conversation and
\* for like words; a closing text, which promises to pass on the contact, is shown
\* again to other visitors under that condition alone (remember_completion_caches does
\* not tell closing texts apart).
CachedReplyFits ==
    \A c \in CacheTurns : LET q == cacheTurns[c] IN
        q.cached => /\ "knowledge" \notin {q.reply.kind, q.own.kind}
                    /\ q.reply.state = q.own.state
                    /\ Closeness(q.reply.phrase, q.own.phrase) > 0

\* The list does not answer with a reply when a newer one to the same words is in it
\* (sim > best[0] over a list that LPUSH fills).
NewestIsServed ==
    [][\A c \in CacheTurns :
        Hits(c) /\ cacheTurns[c].at = "embedding"
        => LET own == cacheTurns[c].own
               same == {i \in DOMAIN entries : Alive(entries[i]) /\ entries[i].origin.state = own.state
                                               /\ entries[i].origin.phrase = own.phrase}
           IN  same # {} => \E i \in same : /\ entries[i].origin = cacheTurns'[c].reply
                                            /\ \A j \in same : entries[j].exp <= entries[i].exp]_cacheVars

\* What a cached reply may be: one to like words in the same state, the newest, made with
\* settings in force not long ago (try_completion_cache, remember_completion_caches).
CacheHolds == []CachedReplyFits /\ OldSettingsRunOut /\ NewestIsServed

-----------------------------------------------------------------------------
\* The strengthening that makes CacheHolds provable.  A turn has what is its own until
\* a cache has answered, and one with knowledge comes near no cache.
TurnIsOwn(q) ==
    q.at # "idle" => /\ q.at # "answer" => ~ q.cached
                     /\ ~ q.cached => q.reply = q.own
                     /\ q.at \notin {"provider", "answer"} => Allowed(q.own)

\* What is kept may be shown, and is no older than its revision.
KeptFits ==
    /\ \A k \in FlowStates \X Phrases : \A e \in exact[k] :
          /\ Allowed(e.origin) /\ k = <<e.origin.state, e.origin.phrase>>
          /\ Alive(e) /\ e.exp <= storedUntil[e.origin.revision] + ExactTtl
    /\ \A i \in DOMAIN entries :
          /\ Allowed(entries[i].origin) /\ entries[i].exp <= today + EmbeddingTtl
          /\ entries[i].exp <= storedUntil[entries[i].origin.revision] + EmbeddingTtl
    /\ \A i, j \in DOMAIN entries : i <= j => entries[j].exp <= entries[i].exp
    /\ \A r \in Revisions : storedUntil[r] <= today

CacheInv == (\A c \in CacheTurns : TurnIsOwn(cacheTurns[c])) /\ KeptFits /\ CachedReplyFits
=============================================================================
