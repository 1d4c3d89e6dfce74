--------------------------- MODULE ConversationProofs ---------------------------
(***************************************************************************)
(* Theorems of ChatTurns, ModelCalls, ReplyCache and RateLimits, for any   *)
(* number of visitors, chats, turns and requests: a visitor has one        *)
(* thread, what is shown is stored, the limits are passed by overlapping   *)
(* turns alone; a turn's answer, its rows and its charge agree; a cached   *)
(* reply fits, is of settings lately in force, and is the newest to its    *)
(* words; a window lets no more pass in time than its limit.               *)
(***************************************************************************)
EXTENDS ChatTurns, ModelCalls, ReplyCache, RateLimits, SequenceTheorems, FiniteSetTheorems, WellFoundedInduction,
        TLAPS

LEMMA FiniteKeys == IsFiniteSet(Keys) /\ IsFiniteSet(Turns)
BY TurnsAssumption, FS_Union DEF Keys

\* One element comes or goes.
LEMMA CardinalityStep ==
    ASSUME NEW S, NEW T, NEW u, IsFiniteSet(S), T \ {u} \subseteq S \ {u}
    PROVE  /\ Cardinality(S) \in Nat /\ Cardinality(T) \in Nat
           /\ Cardinality(T) <= Cardinality(S) + 1
           /\ (u \in T => u \in S) => Cardinality(T) <= Cardinality(S)
           /\ u \in S /\ u \notin T => Cardinality(T) + 1 <= Cardinality(S)
<1>1. IsFiniteSet(S \ {u}) /\ Cardinality(S \ {u}) \in Nat /\ Cardinality(S) \in Nat
  BY FS_RemoveElement, FS_CardinalityType
<1>2. Cardinality(S) = IF u \in S THEN Cardinality(S \ {u}) + 1 ELSE Cardinality(S \ {u})
  BY <1>1, FS_RemoveElement
<1>3. IsFiniteSet(T \ {u}) /\ Cardinality(T \ {u}) <= Cardinality(S \ {u}) /\ Cardinality(T \ {u}) \in Nat
  BY <1>1, FS_Subset, FS_CardinalityType
<1>4. Cardinality(T) = IF u \in T THEN Cardinality(T \ {u}) + 1 ELSE Cardinality(T \ {u})
  <2>1. CASE u \in T
    <3>1. T = (T \ {u}) \cup {u}  BY <2>1
    <3>2. Cardinality((T \ {u}) \cup {u}) = Cardinality(T \ {u}) + 1  BY <1>3, FS_AddElement
    <3> QED  BY <2>1, <3>1, <3>2
  <2>2. CASE u \notin T
    <3>1. T = T \ {u}  BY <2>2
    <3> QED  BY <2>2, <3>1
  <2> QED  BY <2>1, <2>2
<1> QED  BY <1>1, <1>2, <1>3, <1>4

-----------------------------------------------------------------------------
(* ChatTurns: what the parts of an action do to a turn.                      *)

Ats == {"idle", "find", "insert", "limit", "quota", "ask", "provider", "store", "reply"}

OthersStay(u) == \A v \in Turns \ {u} : turns'[v] = turns[v]

LEMMA TurnGoes ==
    ASSUME TurnTypeOK, NEW u \in Turns, NEW at \in Ats, TurnGo(u, at)
    PROVE  /\ turns' \in [Turns -> Turn] /\ OthersStay(u)
           /\ turns'[u].at = at /\ turns'[u].channel = turns[u].channel /\ turns'[u].key = turns[u].key
           /\ turns'[u].seen = turns[u].seen /\ turns'[u].cost = turns[u].cost /\ turns'[u].ok = turns[u].ok
<1>1. turns \in [Turns -> Turn] /\ turns[u] \in Turn /\ turns' = [turns EXCEPT ![u].at = at]
  BY DEF TurnTypeOK, TurnGo
<1>2. turns'[u] = [turns[u] EXCEPT !.at = at] /\ OthersStay(u)  BY <1>1 DEF OthersStay
<1>3. [turns[u] EXCEPT !.at = at] \in Turn  BY <1>1 DEF Turn, Ats
<1>4. turns' \in [Turns -> Turn]  BY <1>1, <1>3
<1> QED  BY <1>1, <1>2, <1>4 DEF Turn

LEMMA TurnEnds ==
    ASSUME TurnTypeOK, NEW u \in Turns, turns' = [turns EXCEPT ![u] = TurnIdle]
    PROVE  /\ turns' \in [Turns -> Turn] /\ OthersStay(u)
           /\ turns'[u].at = "idle" /\ turns'[u].channel = "none" /\ turns'[u].key = {} /\ ~ turns'[u].ok
<1>1. TurnIdle \in Turn  BY DEF TurnIdle, TurnAt, Turn
<1> QED  BY <1>1 DEF TurnTypeOK, OthersStay, TurnIdle, TurnAt

\* The rows of threads that a step of turn u may touch.
ThreadsMove(u) ==
    \A k \in Keys :
        \/ threads'[k] = threads[k] /\ inserting'[k] = inserting[k]
        \/ threads'[k] = threads[k] /\ inserting'[k] = inserting[k] \ {u}
        \/ threads'[k] = threads[k] + 1 /\ Holds(u, k) /\ inserting'[k] = inserting[k] \ {u}

LEMMA CommitMoves ==
    ASSUME TurnTypeOK, NEW u \in Turns, CommitThread(u)
    PROVE  /\ threads' \in [Keys -> Nat] /\ inserting' \in [Keys -> SUBSET Turns]
           /\ ThreadsMove(u) /\ \A k \in Keys : u \notin inserting'[k]
           /\ \A k \in Keys : Holds(u, k) => threads'[k] = threads[k] + 1
<1>1. threads \in [Keys -> Nat] /\ inserting \in [Keys -> SUBSET Turns]  BY DEF TurnTypeOK
<1>2. /\ threads' = [k \in Keys |-> threads[k] + IF Holds(u, k) THEN 1 ELSE 0]
      /\ inserting' = [k \in Keys |-> inserting[k] \ {u}]
  BY DEF CommitThread
<1>3. \A k \in Keys : /\ threads'[k] = threads[k] + (IF Holds(u, k) THEN 1 ELSE 0)
                      /\ inserting'[k] = inserting[k] \ {u}
  BY <1>2
<1>4. \A k \in Keys : /\ Holds(u, k) => threads'[k] = threads[k] + 1
                      /\ ~ Holds(u, k) => threads'[k] = threads[k]
                      /\ threads'[k] \in Nat
  BY <1>1, <1>3
<1> QED  BY <1>1, <1>2, <1>3, <1>4 DEF ThreadsMove

LEMMA RollbackMoves ==
    ASSUME TurnTypeOK, NEW u \in Turns, Rollback(u)
    PROVE  /\ threads' \in [Keys -> Nat] /\ inserting' \in [Keys -> SUBSET Turns]
           /\ ThreadsMove(u) /\ \A k \in Keys : u \notin inserting'[k]
BY DEF TurnTypeOK, Rollback, ThreadsMove

-----------------------------------------------------------------------------
(* What a step keeps if turn u meets its part.                               *)

LEMMA OrderKept ==
    ASSUME TurnInv, NEW u \in Turns, OthersStay(u),
           Keyed(turns'[u]), NotEarly(turns'[u]), HadRoom(turns'[u])
    PROVE  TurnsAreInOrder'
<1>1. \A v \in Turns : Keyed(turns[v]) /\ NotEarly(turns[v]) /\ HadRoom(turns[v])
  BY DEF TurnInv, TurnsAreInOrder
<1>2. \A v \in Turns : Keyed(turns'[v]) /\ NotEarly(turns'[v]) /\ HadRoom(turns'[v])
  BY <1>1 DEF OthersStay
<1> QED  BY <1>2 DEF TurnsAreInOrder, Keyed, NotEarly, HadRoom, Counts

LEMMA ThreadsKept ==
    ASSUME TurnTypeOK, TurnInv, NEW u \in Turns, OthersStay(u), ThreadsMove(u),
           \A k \in Keys : u \in inserting'[k] => Threaded(turns'[u]) /\ k \in turns'[u].key,
           Threaded(turns'[u]) => \A k \in turns'[u].key : threads'[k] = 1 \/ u \in inserting'[k],
           \A k \in Keys : asked'[k] > 0 => asked[k] > 0 \/ threads'[k] = 1
    PROVE  (KeyIsHeldOnce /\ ThreadIsThere /\ OneThreadPerVisitor)'
<1>1. threads \in [Keys -> Nat] /\ inserting \in [Keys -> SUBSET Turns] /\ turns \in [Turns -> Turn]
  BY DEF TurnTypeOK
<1>2. KeyIsHeldOnce /\ ThreadIsThere /\ OneThreadPerVisitor  BY DEF TurnInv
<1>3. \A v \in Turns : turns[v].key \subseteq Keys  BY <1>1 DEF Turn
<1>4. KeyIsHeldOnce'
  <2>1. ASSUME NEW k \in Keys, NEW v \in inserting'[k]
        PROVE  threads'[k] = 0 /\ k \in turns'[v].key /\ Threaded(turns'[v]) /\ inserting'[k] = {v}
    <3>1. v \in inserting[k] /\ v \in Turns  BY <1>1, <2>1 DEF ThreadsMove
    <3>2. threads[k] = 0 /\ k \in turns[v].key /\ Threaded(turns[v]) /\ inserting[k] = {v}
      BY <1>2, <3>1 DEF KeyIsHeldOnce
    <3>3. inserting'[k] = {v}  BY <2>1, <3>2 DEF ThreadsMove
    <3>4. threads'[k] = 0  BY <2>1, <3>2 DEF ThreadsMove, Holds
    <3>5. CASE v = u  BY <2>1, <3>3, <3>4, <3>5
    <3>6. CASE v # u  BY <3>1, <3>2, <3>3, <3>4, <3>6 DEF OthersStay
    <3> QED  BY <3>5, <3>6
  <2> QED  BY <2>1 DEF KeyIsHeldOnce, Threaded
<1>5. ThreadIsThere'
  <2>1. ASSUME NEW v \in Turns, Threaded(turns'[v]), NEW k \in turns'[v].key
        PROVE  threads'[k] = 1 \/ v \in inserting'[k]
    <3>1. CASE v = u  BY <2>1, <3>1
    <3>2. CASE v # u
      <4>1. Threaded(turns[v]) /\ k \in turns[v].key /\ k \in Keys  BY <1>3, <2>1, <3>2 DEF OthersStay
      <4>2. threads[k] = 1 \/ v \in inserting[k]  BY <1>2, <4>1 DEF ThreadIsThere, Holds
      <4>3. CASE threads[k] = 1
        <5>1. ~ Holds(u, k)  BY <1>2, <4>1, <4>3 DEF KeyIsHeldOnce, Holds
        <5> QED  BY <4>1, <4>3, <5>1 DEF ThreadsMove
      <4>4. CASE v \in inserting[k]  BY <3>2, <4>1, <4>4 DEF ThreadsMove
      <4> QED  BY <4>2, <4>3, <4>4
    <3> QED  BY <3>1, <3>2
  <2> QED  BY <2>1 DEF ThreadIsThere, Threaded, Holds
<1>6. OneThreadPerVisitor'
  <2>1. ASSUME NEW k \in Keys
        PROVE  threads'[k] <= 1 /\ (asked'[k] > 0 => threads'[k] = 1)
    <3>1. threads[k] \in Nat /\ threads[k] <= 1 /\ (asked[k] > 0 => threads[k] = 1)
      BY <1>1, <1>2 DEF OneThreadPerVisitor
    <3>2. Holds(u, k) => threads[k] = 0  BY <1>2 DEF KeyIsHeldOnce, Holds
    <3>3. threads'[k] = threads[k] \/ (threads'[k] = threads[k] + 1 /\ threads[k] = 0)
      BY <3>2 DEF ThreadsMove
    <3> QED  BY <3>1, <3>3
  <2> QED  BY <2>1 DEF OneThreadPerVisitor
<1> QED  BY <1>4, <1>5, <1>6

LEMMA ShownKept ==
    ASSUME TurnTypeOK, TurnInv, NEW u \in Turns, OthersStay(u), shown' = shown, told' = told,
           ~ (turns'[u].at = "reply" /\ turns'[u].ok)
    PROVE  ShownIsStored'
<1> SUFFICES ASSUME NEW k \in Keys
             PROVE  shown[k] + Cardinality(Replying(k)') <= told[k]
  BY DEF ShownIsStored
<1>1. IsFiniteSet(Replying(k))  BY FiniteKeys, FS_Subset DEF Replying
<1>2. Replying(k)' \ {u} \subseteq Replying(k) \ {u} /\ u \notin Replying(k)'
  BY DEF Replying, OthersStay
<1>3. /\ Cardinality(Replying(k)') <= Cardinality(Replying(k))
      /\ Cardinality(Replying(k)') \in Nat /\ Cardinality(Replying(k)) \in Nat
  BY <1>1, <1>2, CardinalityStep
<1>4. shown[k] \in Nat /\ told[k] \in Nat /\ shown[k] + Cardinality(Replying(k)) <= told[k]
  BY DEF TurnTypeOK, TurnInv, ShownIsStored
<1> QED  BY <1>3, <1>4

LEMMA CapKept ==
    ASSUME TurnTypeOK, TurnInv, NEW u \in Turns, OthersStay(u), tokens' = tokens,
           u \in Charging' => u \in Charging
    PROVE  CapIsPassedByOverlap'
<1>1. IsFiniteSet(Charging)  BY FiniteKeys, FS_Subset DEF Charging
<1>2. Charging' \ {u} \subseteq Charging \ {u}  BY DEF Charging, OthersStay
<1>3. /\ Cardinality(Charging') <= Cardinality(Charging)
      /\ Cardinality(Charging') \in Nat /\ Cardinality(Charging) \in Nat /\ Cardinality(Turns) \in Nat
  BY <1>1, <1>2, CardinalityStep, FiniteKeys, FS_CardinalityType
<1>4. tokens \in Nat /\ TokenCap \in Nat /\ tokens + Cardinality(Charging) <= TokenCap + Cardinality(Turns)
  BY TurnBoundAssumption DEF TurnTypeOK, TurnInv, CapIsPassedByOverlap
<1> QED  BY <1>3, <1>4 DEF CapIsPassedByOverlap

\* A step that touches neither the replies nor the usage log.
LEMMA QuietStep ==
    ASSUME TurnTypeOK, TurnInv, NEW u \in Turns, OthersStay(u), ThreadsMove(u), UNCHANGED <<told, shown, tokens>>,
           \A k \in Keys : u \in inserting'[k] => Threaded(turns'[u]) /\ k \in turns'[u].key,
           Threaded(turns'[u]) => \A k \in turns'[u].key : threads'[k] = 1 \/ u \in inserting'[k],
           \A k \in Keys : asked'[k] > 0 => asked[k] > 0 \/ threads'[k] = 1,
           Keyed(turns'[u]), NotEarly(turns'[u]), HadRoom(turns'[u]),
           ~ (turns'[u].at = "reply" /\ turns'[u].ok),
           u \in Charging' => u \in Charging
    PROVE  TurnInv'
<1>1. TurnsAreInOrder'  BY OrderKept
<1>2. (KeyIsHeldOnce /\ ThreadIsThere /\ OneThreadPerVisitor)'  BY ThreadsKept
<1>3. ShownIsStored'  BY ShownKept
<1>4. CapIsPassedByOverlap'  BY CapKept
<1> QED  BY <1>1, <1>2, <1>3, <1>4 DEF TurnInv

-----------------------------------------------------------------------------
(* The actions.                                                              *)

LEMMA UnthreadedHoldsNothing ==
    ASSUME TurnTypeOK, TurnInv, NEW u \in Turns, ~ Threaded(turns[u])
    PROVE  \A k \in Keys : u \notin inserting[k]
BY DEF TurnInv, KeyIsHeldOnce

LEMMA BeginTurnKeeps ==
    ASSUME TurnTypeOK, TurnInv, NEW u \in Turns, NEW at \in Ats, NEW channel \in {"widget", "telegram", "test"},
           NEW key \in SUBSET Keys, BeginTurn(u, at, channel, key),
           \/ channel = "widget" /\ at = "find" /\ \E k \in Keys : key = {k}
           \/ channel = "telegram" /\ at = "limit" /\ \E k \in Keys : key = {k}
           \/ channel = "test" /\ at = "quota" /\ key = {}
    PROVE  TurnTypeOK' /\ TurnInv'
<1> DEFINE q == TurnAt(at, channel, key)
<1>1. /\ turns[u].at = "idle" /\ turnsBegun < MaxTurns /\ turnsBegun' = turnsBegun + 1
      /\ turns' = [turns EXCEPT ![u] = q]
      /\ UNCHANGED <<threads, testThreads, inserting, asked, told, shown, tokens>>
  BY DEF BeginTurn
<1>2. q \in Turn /\ q.at = at /\ q.channel = channel /\ q.key = key /\ ~ q.ok
  <2>1. channel \in {"none", "widget", "telegram", "test"} /\ 0 \in 0 .. 1 /\ 0 \in Nat  OBVIOUS
  <2> QED  BY <2>1 DEF Turn, TurnAt, Ats
<1> HIDE DEF q
<1>3. turns' \in [Turns -> Turn] /\ OthersStay(u) /\ turns'[u] = q
  BY <1>1, <1>2 DEF TurnTypeOK, OthersStay
<1>4. TurnTypeOK'
  <2>1. turnsBegun' \in 0 .. MaxTurns  BY <1>1, TurnBoundAssumption DEF TurnTypeOK
  <2> QED  BY <1>1, <1>3, <2>1 DEF TurnTypeOK
<1>5. \A k \in Keys : u \notin inserting'[k]  BY <1>1, UnthreadedHoldsNothing DEF Threaded
<1>6. ThreadsMove(u)  BY <1>1 DEF ThreadsMove
<1>7. Threaded(turns'[u]) => \A k \in turns'[u].key : threads'[k] = 1 \/ u \in inserting'[k]
  BY <1>2, <1>3 DEF Threaded
<1>8. Keyed(turns'[u]) /\ NotEarly(turns'[u]) /\ HadRoom(turns'[u])
  BY <1>2, <1>3 DEF Keyed, NotEarly, HadRoom, Counts
<1>9. ~ (turns'[u].at = "reply" /\ turns'[u].ok) /\ u \notin Charging'  BY <1>2, <1>3 DEF Charging
<1>10. \A k \in Keys : asked'[k] > 0 => asked[k] > 0 \/ threads'[k] = 1  BY <1>1
<1> QED  BY <1>1, <1>3, <1>4, <1>5, <1>6, <1>7, <1>8, <1>9, <1>10, QuietStep

LEMMA FindThreadKeeps ==
    ASSUME TurnTypeOK, TurnInv, NEW u \in Turns, FindThread(u)
    PROVE  TurnTypeOK' /\ TurnInv'
<1>1. /\ turns[u].at = "find"
      /\ UNCHANGED <<threads, testThreads, inserting, asked, told, shown, tokens, turnsBegun>>
  BY DEF FindThread
<1>2. PICK at \in {"limit", "quota", "insert"} :
        /\ TurnGo(u, at)
        /\ at # "insert" => at = AfterThread(u) /\ \A k \in turns[u].key : threads[k] > 0
  BY DEF FindThread, AfterThread
<1>3. /\ turns' \in [Turns -> Turn] /\ OthersStay(u)
      /\ turns'[u].at = at /\ turns'[u].channel = turns[u].channel /\ turns'[u].key = turns[u].key
      /\ turns'[u].seen = turns[u].seen /\ turns'[u].ok = turns[u].ok
  BY <1>2, TurnGoes DEF Ats
<1>4. TurnTypeOK'  BY <1>1, <1>3 DEF TurnTypeOK
<1>5. \A k \in Keys : u \notin inserting'[k]  BY <1>1, UnthreadedHoldsNothing DEF Threaded
<1>6. ThreadsMove(u)  BY <1>1 DEF ThreadsMove
<1>7. Threaded(turns'[u]) => \A k \in turns'[u].key : threads'[k] = 1 \/ u \in inserting'[k]
  <2>1. turns[u].key \subseteq Keys /\ \A k \in Keys : threads[k] \in Nat /\ threads[k] <= 1
    BY DEF TurnTypeOK, Turn, TurnInv, OneThreadPerVisitor
  <2> QED  BY <1>1, <1>2, <1>3, <2>1 DEF Threaded
<1>8. Keyed(turns[u]) /\ NotEarly(turns[u]) /\ HadRoom(turns[u])  BY DEF TurnInv, TurnsAreInOrder
<1>9. Keyed(turns'[u]) /\ NotEarly(turns'[u])  BY <1>1, <1>3, <1>8 DEF Keyed, NotEarly
<1>10. HadRoom(turns'[u])  BY <1>1, <1>2, <1>3, <1>8 DEF HadRoom, Counts, AfterThread
<1>11. ~ (turns'[u].at = "reply" /\ turns'[u].ok) /\ u \notin Charging'  BY <1>3 DEF Charging
<1>12. \A k \in Keys : asked'[k] > 0 => asked[k] > 0 \/ threads'[k] = 1  BY <1>1
<1> QED  BY <1>1, <1>3, <1>4, <1>5, <1>6, <1>7, <1>9, <1>10, <1>11, <1>12, QuietStep

\* A turn that leaves its thread, committed or not, and goes on without a reply.
LEMMA LeavingKeeps ==
    ASSUME TurnTypeOK, TurnInv, NEW u \in Turns, OthersStay(u), turns' \in [Turns -> Turn],
           CommitThread(u) \/ Rollback(u), UNCHANGED <<testThreads, asked, told, shown, tokens, turnsBegun>>,
           turns'[u].at \in {"idle", "reply"}, ~ turns'[u].ok,
           turns'[u].at = "reply" => turns'[u].channel = turns[u].channel /\ turns'[u].key = turns[u].key,
           turns'[u].at = "idle" => turns'[u].channel = "none",
           turns'[u].at = "reply" => turns[u].at # "idle"
    PROVE  TurnTypeOK' /\ TurnInv'
<1>1. /\ threads' \in [Keys -> Nat] /\ inserting' \in [Keys -> SUBSET Turns]
      /\ ThreadsMove(u) /\ \A k \in Keys : u \notin inserting'[k]
  BY CommitMoves, RollbackMoves
<1>2. TurnTypeOK'  BY <1>1 DEF TurnTypeOK
<1>3. ~ Threaded(turns'[u])  BY DEF Threaded
<1>4. Keyed(turns[u])  BY DEF TurnInv, TurnsAreInOrder
<1>5. Keyed(turns'[u]) /\ NotEarly(turns'[u]) /\ HadRoom(turns'[u])
  BY <1>4 DEF Keyed, NotEarly, HadRoom, Counts
<1>6. u \notin Charging'  BY DEF Charging
<1>7. \A k \in Keys : asked'[k] > 0 => asked[k] > 0 \/ threads'[k] = 1  OBVIOUS
<1> QED  BY <1>1, <1>2, <1>3, <1>5, <1>6, <1>7, QuietStep

LEMMA InsertConflictKeeps ==
    ASSUME TurnTypeOK, TurnInv, NEW u \in Turns, InsertConflict(u)
    PROVE  TurnTypeOK' /\ TurnInv'
<1>1. /\ turns[u].at = "insert" /\ TurnGo(u, "reply") /\ Rollback(u)
      /\ UNCHANGED <<testThreads, asked, told, shown, tokens, turnsBegun>>
  BY DEF InsertConflict
<1>2. /\ turns' \in [Turns -> Turn] /\ OthersStay(u)
      /\ turns'[u].at = "reply" /\ turns'[u].channel = turns[u].channel /\ turns'[u].key = turns[u].key
      /\ turns'[u].ok = turns[u].ok
  BY <1>1, TurnGoes DEF Ats
<1>3. ~ turns[u].ok  BY <1>1 DEF TurnInv, TurnsAreInOrder, NotEarly
<1> QED  BY <1>1, <1>2, <1>3, LeavingKeeps

LEMMA RefuseTurnKeeps ==
    ASSUME TurnTypeOK, TurnInv, NEW u \in Turns, RefuseTurn(u)
    PROVE  TurnTypeOK' /\ TurnInv'
<1>1. /\ turns[u].at \in {"limit", "quota"} /\ TurnGo(u, "reply")
      /\ CommitThread(u) \/ Rollback(u)
      /\ UNCHANGED <<testThreads, asked, told, shown, tokens, turnsBegun>>
  BY DEF RefuseTurn, EndSession
<1>2. /\ turns' \in [Turns -> Turn] /\ OthersStay(u)
      /\ turns'[u].at = "reply" /\ turns'[u].channel = turns[u].channel /\ turns'[u].key = turns[u].key
      /\ turns'[u].ok = turns[u].ok
  BY <1>1, TurnGoes DEF Ats
<1>3. ~ turns[u].ok  BY <1>1 DEF TurnInv, TurnsAreInOrder, NotEarly
<1> QED  BY <1>1, <1>2, <1>3, LeavingKeeps

LEMMA TurnDiesKeeps ==
    ASSUME TurnTypeOK, TurnInv, NEW u \in Turns, TurnDies(u)
    PROVE  TurnTypeOK' /\ TurnInv'
<1>1. /\ turns' = [turns EXCEPT ![u] = TurnIdle] /\ Rollback(u)
      /\ UNCHANGED <<testThreads, asked, told, shown, tokens, turnsBegun>>
  BY DEF TurnDies
<1>2. /\ turns' \in [Turns -> Turn] /\ OthersStay(u)
      /\ turns'[u].at = "idle" /\ turns'[u].channel = "none" /\ ~ turns'[u].ok
  BY <1>1, TurnEnds
<1> QED  BY <1>1, <1>2, LeavingKeeps

\* The unique key: the row is inserted where there is none.
LEMMA InsertThreadKeeps ==
    ASSUME TurnTypeOK, TurnInv, NEW u \in Turns, InsertThread(u)
    PROVE  TurnTypeOK' /\ TurnInv'
<1>1. /\ turns[u].at = "insert" /\ \A k \in turns[u].key : threads[k] = 0 /\ inserting[k] = {}
      /\ inserting' = [k \in Keys |-> IF k \in turns[u].key THEN inserting[k] \cup {u} ELSE inserting[k]]
      /\ TurnGo(u, AfterThread(u))
      /\ UNCHANGED <<threads, testThreads, asked, told, shown, tokens, turnsBegun>>
  BY DEF InsertThread, KeyFree
<1>2. AfterThread(u) \in Ats  BY DEF AfterThread, Ats
<1>3. /\ turns' \in [Turns -> Turn] /\ OthersStay(u)
      /\ turns'[u].at = AfterThread(u) /\ turns'[u].channel = turns[u].channel /\ turns'[u].key = turns[u].key
      /\ turns'[u].seen = turns[u].seen /\ turns'[u].ok = turns[u].ok
  BY <1>1, <1>2, TurnGoes
<1>4. inserting \in [Keys -> SUBSET Turns] /\ threads \in [Keys -> Nat] /\ \A v \in Turns : turns[v].key \subseteq Keys
  BY DEF TurnTypeOK, Turn
<1>5. /\ inserting' \in [Keys -> SUBSET Turns]
      /\ \A k \in turns[u].key : inserting'[k] = {u}
      /\ \A k \in Keys : k \notin turns[u].key => inserting'[k] = inserting[k]
  BY <1>1, <1>4
<1>6. TurnTypeOK'  BY <1>1, <1>3, <1>5 DEF TurnTypeOK
<1>7. Threaded(turns'[u])  BY <1>3 DEF Threaded, AfterThread
<1>8. KeyIsHeldOnce /\ ThreadIsThere /\ OneThreadPerVisitor  BY DEF TurnInv
<1>9. KeyIsHeldOnce'
  <2>1. ASSUME NEW k \in Keys, NEW v \in inserting'[k]
        PROVE  threads'[k] = 0 /\ k \in turns'[v].key /\ Threaded(turns'[v]) /\ inserting'[k] = {v}
    <3>1. CASE k \in turns[u].key  BY <1>1, <1>3, <1>5, <1>7, <2>1, <3>1
    <3>2. CASE k \notin turns[u].key
      <4>1. v \in inserting[k] /\ v \in Turns /\ inserting'[k] = inserting[k]  BY <1>4, <1>5, <2>1, <3>2
      <4>2. threads[k] = 0 /\ k \in turns[v].key /\ Threaded(turns[v]) /\ inserting[k] = {v}
        BY <1>8, <4>1 DEF KeyIsHeldOnce
      <4>3. v # u  BY <3>2, <4>2
      <4> QED  BY <1>1, <1>3, <4>1, <4>2, <4>3 DEF OthersStay
    <3> QED  BY <3>1, <3>2
  <2> QED  BY <2>1 DEF KeyIsHeldOnce, Threaded
<1>10. ThreadIsThere'
  <2>1. ASSUME NEW v \in Turns, Threaded(turns'[v]), NEW k \in turns'[v].key
        PROVE  threads'[k] = 1 \/ v \in inserting'[k]
    <3>1. CASE v = u  BY <1>3, <1>5, <2>1, <3>1
    <3>2. CASE v # u
      <4>1. Threaded(turns[v]) /\ k \in turns[v].key /\ k \in Keys
        BY <1>3, <1>4, <2>1, <3>2 DEF OthersStay
      <4>2. threads[k] = 1 \/ v \in inserting[k]  BY <1>8, <4>1 DEF ThreadIsThere, Holds
      <4> QED  BY <1>1, <1>5, <4>1, <4>2
    <3> QED  BY <3>1, <3>2
  <2> QED  BY <2>1 DEF ThreadIsThere, Threaded, Holds
<1>11. OneThreadPerVisitor'  BY <1>1, <1>8 DEF OneThreadPerVisitor
<1>12. Keyed(turns[u]) /\ NotEarly(turns[u]) /\ HadRoom(turns[u])  BY DEF TurnInv, TurnsAreInOrder
<1>13. TurnsAreInOrder'
  <2>1. Keyed(turns'[u]) /\ NotEarly(turns'[u])  BY <1>1, <1>3, <1>12 DEF Keyed, NotEarly, AfterThread
  <2>2. HadRoom(turns'[u])  BY <1>1, <1>3, <1>12 DEF HadRoom, Counts, AfterThread
  <2> QED  BY <1>3, <2>1, <2>2, OrderKept
<1>14. turns'[u].at \in {"limit", "quota"}  BY <1>3 DEF AfterThread
<1>15. ShownIsStored'  BY <1>1, <1>3, <1>14, ShownKept
<1>16. CapIsPassedByOverlap'  BY <1>1, <1>3, <1>14, CapKept DEF Charging
<1> QED  BY <1>6, <1>9, <1>10, <1>11, <1>13, <1>15, <1>16 DEF TurnInv

LEMMA CountedIsNat ==
    ASSUME TurnTypeOK, NEW u \in Turns
    PROVE  Committed \in Nat /\ Cardinality(Holding(u)) \in Nat /\ Counted(u) \in Nat
<1>1. IsFiniteSet({k \in Keys : threads[k] > 0}) /\ IsFiniteSet(Holding(u))
  BY FiniteKeys, FS_Subset DEF Holding
<1>2. Cardinality({k \in Keys : threads[k] > 0}) \in Nat /\ Cardinality(Holding(u)) \in Nat /\ testThreads \in Nat
  BY <1>1, FS_CardinalityType DEF TurnTypeOK
<1> QED  BY <1>2 DEF Committed, Counted

LEMMA CheckConversationsKeeps ==
    ASSUME TurnTypeOK, TurnInv, NEW u \in Turns, CheckConversations(u)
    PROVE  TurnTypeOK' /\ TurnInv'
<1> DEFINE at == IF turns[u].channel = "widget" THEN "quota" ELSE "find"
<1>1. /\ turns[u].at = "limit" /\ Counted(u) < ConversationLimit
      /\ turns' = [turns EXCEPT ![u].at = at, ![u].seen = Counted(u)]
      /\ UNCHANGED <<threads, testThreads, inserting, asked, told, shown, tokens, turnsBegun>>
  BY DEF CheckConversations, WithinPlan
<1>2. turns \in [Turns -> Turn] /\ turns[u] \in Turn /\ Counted(u) \in Nat /\ at \in Ats
  BY CountedIsNat DEF TurnTypeOK, Ats
<1>3. turns'[u] = [turns[u] EXCEPT !.at = at, !.seen = Counted(u)] /\ OthersStay(u)
  BY <1>1, <1>2 DEF OthersStay
<1>4. /\ turns'[u] \in Turn
      /\ turns'[u].at = at /\ turns'[u].channel = turns[u].channel /\ turns'[u].key = turns[u].key
      /\ turns'[u].seen = Counted(u) /\ turns'[u].ok = turns[u].ok
  BY <1>2, <1>3 DEF Turn, Ats
<1>5. turns' \in [Turns -> Turn]  BY <1>1, <1>2, <1>3, <1>4
<1>6. TurnTypeOK'  BY <1>1, <1>5 DEF TurnTypeOK
<1>7. Keyed(turns[u]) /\ NotEarly(turns[u]) /\ KeyIsHeldOnce /\ ThreadIsThere
  BY DEF TurnInv, TurnsAreInOrder
<1>8. \A k \in Keys : u \in inserting'[k] => Threaded(turns'[u]) /\ k \in turns'[u].key
  BY <1>1, <1>4, <1>7 DEF KeyIsHeldOnce, Threaded
<1>9. Threaded(turns'[u]) => \A k \in turns'[u].key : threads'[k] = 1 \/ u \in inserting'[k]
  BY <1>1, <1>4, <1>7 DEF ThreadIsThere, Threaded, Holds
<1>10. Keyed(turns'[u]) /\ NotEarly(turns'[u])  BY <1>1, <1>4, <1>7 DEF Keyed, NotEarly
<1>11. HadRoom(turns'[u])  BY <1>1, <1>4 DEF HadRoom
<1>12. ~ (turns'[u].at = "reply" /\ turns'[u].ok) /\ u \notin Charging'  BY <1>4 DEF Charging
<1>13. ThreadsMove(u) /\ \A k \in Keys : asked'[k] > 0 => asked[k] > 0 \/ threads'[k] = 1
  BY <1>1 DEF ThreadsMove
<1> QED  BY <1>1, <1>3, <1>6, <1>8, <1>9, <1>10, <1>11, <1>12, <1>13, QuietStep

\* The cap: before the call is allowed one token is left, and every turn costs one at most.
LEMMA CheckTokensKeeps ==
    ASSUME TurnTypeOK, TurnInv, NEW u \in Turns, CheckTokens(u)
    PROVE  TurnTypeOK' /\ TurnInv'
<1>1. /\ turns[u].at = "quota" /\ tokens < TokenCap /\ TurnGo(u, "ask")
      /\ UNCHANGED <<threads, testThreads, inserting, asked, told, shown, tokens, turnsBegun>>
  BY DEF CheckTokens, WithinCap
<1>2. /\ turns' \in [Turns -> Turn] /\ OthersStay(u)
      /\ turns'[u].at = "ask" /\ turns'[u].channel = turns[u].channel /\ turns'[u].key = turns[u].key
      /\ turns'[u].seen = turns[u].seen /\ turns'[u].ok = turns[u].ok
  BY <1>1, TurnGoes DEF Ats
<1>3. TurnTypeOK'  BY <1>1, <1>2 DEF TurnTypeOK
<1>4. Keyed(turns[u]) /\ NotEarly(turns[u]) /\ HadRoom(turns[u]) /\ KeyIsHeldOnce /\ ThreadIsThere
  BY DEF TurnInv, TurnsAreInOrder
<1>5. \A k \in Keys : u \in inserting'[k] => Threaded(turns'[u]) /\ k \in turns'[u].key
  BY <1>1, <1>2, <1>4 DEF KeyIsHeldOnce, Threaded
<1>6. Threaded(turns'[u]) => \A k \in turns'[u].key : threads'[k] = 1 \/ u \in inserting'[k]
  BY <1>1, <1>2, <1>4 DEF ThreadIsThere, Threaded, Holds
<1>7. ThreadsMove(u) /\ \A k \in Keys : asked'[k] > 0 => asked[k] > 0 \/ threads'[k] = 1
  BY <1>1 DEF ThreadsMove
<1>8. (KeyIsHeldOnce /\ ThreadIsThere /\ OneThreadPerVisitor)'  BY <1>2, <1>5, <1>6, <1>7, ThreadsKept
<1>9. Keyed(turns'[u]) /\ NotEarly(turns'[u]) /\ HadRoom(turns'[u])
  BY <1>1, <1>2, <1>4 DEF Keyed, NotEarly, HadRoom, Counts
<1>10. TurnsAreInOrder'  BY <1>2, <1>9, OrderKept
<1>11. ShownIsStored'  BY <1>1, <1>2, ShownKept
<1>12. CapIsPassedByOverlap'
  <2>1. Charging' \in SUBSET Turns  BY DEF Charging
  <2>2. Cardinality(Charging') \in Nat /\ Cardinality(Turns) \in Nat /\ Cardinality(Charging') <= Cardinality(Turns)
    BY <2>1, FiniteKeys, FS_Subset, FS_CardinalityType
  <2>3. tokens' \in Nat /\ TokenCap \in Nat /\ tokens' < TokenCap
    BY <1>1, TurnBoundAssumption DEF TurnTypeOK
  <2> QED  BY <2>2, <2>3 DEF CapIsPassedByOverlap
<1> QED  BY <1>3, <1>8, <1>10, <1>11, <1>12 DEF TurnInv

LEMMA StoreMessageKeeps ==
    ASSUME TurnTypeOK, TurnInv, NEW u \in Turns, StoreMessage(u)
    PROVE  TurnTypeOK' /\ TurnInv'
<1>1. /\ turns[u].at = "ask" /\ CommitThread(u) /\ TurnGo(u, "provider")
      /\ testThreads' = testThreads + IF turns[u].channel = "test" THEN 1 ELSE 0
      /\ asked' = [k \in Keys |-> asked[k] + IF k \in turns[u].key THEN 1 ELSE 0]
      /\ UNCHANGED <<told, shown, tokens, turnsBegun>>
  BY DEF StoreMessage
<1>2. /\ turns' \in [Turns -> Turn] /\ OthersStay(u)
      /\ turns'[u].at = "provider" /\ turns'[u].channel = turns[u].channel /\ turns'[u].key = turns[u].key
      /\ turns'[u].ok = turns[u].ok
  BY <1>1, TurnGoes DEF Ats
<1>3. /\ threads' \in [Keys -> Nat] /\ inserting' \in [Keys -> SUBSET Turns]
      /\ ThreadsMove(u) /\ \A k \in Keys : u \notin inserting'[k]
      /\ \A k \in Keys : Holds(u, k) => threads'[k] = threads[k] + 1
  BY <1>1, CommitMoves
<1>4. /\ testThreads' \in Nat /\ asked' \in [Keys -> Nat]
      /\ \A k \in Keys : k \notin turns[u].key => asked'[k] = asked[k]
  <2>1. testThreads \in Nat /\ asked \in [Keys -> Nat]  BY DEF TurnTypeOK
  <2>2. testThreads' \in Nat  BY <1>1, <2>1
  <2>3. \A k \in Keys : /\ asked'[k] = asked[k] + (IF k \in turns[u].key THEN 1 ELSE 0)
                        /\ asked[k] \in Nat
    BY <1>1, <2>1
  <2>4. \A k \in Keys : asked'[k] \in Nat /\ (k \notin turns[u].key => asked'[k] = asked[k])  BY <2>3
  <2> QED  BY <1>1, <2>2, <2>4
<1>5. TurnTypeOK'  BY <1>1, <1>2, <1>3, <1>4 DEF TurnTypeOK
<1>6. Keyed(turns[u]) /\ NotEarly(turns[u]) /\ KeyIsHeldOnce /\ ThreadIsThere
  BY DEF TurnInv, TurnsAreInOrder
<1>7. \A k \in Keys : k \in turns[u].key => threads'[k] = 1
  <2> SUFFICES ASSUME NEW k \in Keys, k \in turns[u].key
               PROVE  threads'[k] = 1
    OBVIOUS
  <2>1. CASE Holds(u, k)
    <3>1. threads[k] = 0  BY <1>6, <2>1 DEF KeyIsHeldOnce, Holds
    <3> QED  BY <1>3, <2>1, <3>1
  <2>2. CASE ~ Holds(u, k)  BY <1>1, <1>3, <1>6, <2>2 DEF ThreadIsThere, Threaded, ThreadsMove
  <2> QED  BY <2>1, <2>2
<1>8. \A k \in Keys : asked'[k] > 0 => asked[k] > 0 \/ threads'[k] = 1  BY <1>4, <1>7
<1>9. Keyed(turns'[u]) /\ NotEarly(turns'[u]) /\ HadRoom(turns'[u]) /\ ~ Threaded(turns'[u])
  BY <1>1, <1>2, <1>6 DEF Keyed, NotEarly, HadRoom, Counts, Threaded
<1>10. ~ (turns'[u].at = "reply" /\ turns'[u].ok) /\ u \in Charging  BY <1>1, <1>2 DEF Charging
<1> QED  BY <1>1, <1>2, <1>3, <1>5, <1>8, <1>9, <1>10, QuietStep

LEMMA ProviderKeeps ==
    ASSUME TurnTypeOK, TurnInv, NEW u \in Turns, NEW ok \in BOOLEAN, NEW cost \in 0 .. 1, Provider(u, ok, cost)
    PROVE  TurnTypeOK' /\ TurnInv'
<1>1. /\ turns[u].at = "provider"
      /\ turns' = [turns EXCEPT ![u].at = "store", ![u].ok = ok, ![u].cost = cost]
      /\ UNCHANGED <<threads, testThreads, inserting, asked, told, shown, tokens, turnsBegun>>
  BY DEF Provider
<1>2. turns \in [Turns -> Turn] /\ turns[u] \in Turn  BY DEF TurnTypeOK
<1>3. turns'[u] = [turns[u] EXCEPT !.at = "store", !.ok = ok, !.cost = cost] /\ OthersStay(u)
  BY <1>1, <1>2 DEF OthersStay
<1>4. /\ turns'[u] \in Turn /\ turns'[u].at = "store" /\ turns'[u].channel = turns[u].channel
      /\ turns'[u].key = turns[u].key
  BY <1>2, <1>3 DEF Turn
<1>5. TurnTypeOK'
  <2>1. turns' \in [Turns -> Turn]  BY <1>1, <1>2, <1>3, <1>4
  <2> QED  BY <1>1, <2>1 DEF TurnTypeOK
<1>6. Keyed(turns[u])  BY DEF TurnInv, TurnsAreInOrder
<1>7. Keyed(turns'[u]) /\ NotEarly(turns'[u]) /\ HadRoom(turns'[u]) /\ ~ Threaded(turns'[u])
  BY <1>1, <1>4, <1>6 DEF Keyed, NotEarly, HadRoom, Counts, Threaded
<1>8. \A k \in Keys : u \notin inserting'[k]  BY <1>1, UnthreadedHoldsNothing DEF Threaded
<1>9. ~ (turns'[u].at = "reply" /\ turns'[u].ok) /\ u \in Charging  BY <1>1, <1>4 DEF Charging
<1>10. ThreadsMove(u) /\ \A k \in Keys : asked'[k] > 0 => asked[k] > 0 \/ threads'[k] = 1
  BY <1>1 DEF ThreadsMove
<1> QED  BY <1>1, <1>3, <1>5, <1>7, <1>8, <1>9, <1>10, QuietStep

LEMMA StoreReplyFailsKeeps ==
    ASSUME TurnTypeOK, TurnInv, NEW u \in Turns, StoreReplyFails(u)
    PROVE  TurnTypeOK' /\ TurnInv'
<1>1. /\ turns[u].at = "store" /\ turns' = [turns EXCEPT ![u] = Unstored(turns[u])]
      /\ UNCHANGED <<threads, testThreads, inserting, asked, told, shown, tokens, turnsBegun>>
  BY DEF StoreReplyFails
<1>2. turns \in [Turns -> Turn] /\ turns[u] \in Turn  BY DEF TurnTypeOK
<1>3. turns'[u] = [turns[u] EXCEPT !.at = "reply", !.ok = FALSE] /\ OthersStay(u)
  BY <1>1, <1>2 DEF OthersStay, Unstored
<1>4. /\ turns'[u] \in Turn /\ turns'[u].at = "reply" /\ turns'[u].channel = turns[u].channel
      /\ turns'[u].key = turns[u].key /\ ~ turns'[u].ok
  BY <1>2, <1>3 DEF Turn
<1>5. TurnTypeOK'
  <2>1. turns' \in [Turns -> Turn]  BY <1>1, <1>2, <1>3, <1>4
  <2> QED  BY <1>1, <2>1 DEF TurnTypeOK
<1>6. Keyed(turns[u])  BY DEF TurnInv, TurnsAreInOrder
<1>7. Keyed(turns'[u]) /\ NotEarly(turns'[u]) /\ HadRoom(turns'[u]) /\ ~ Threaded(turns'[u])
  BY <1>1, <1>4, <1>6 DEF Keyed, NotEarly, HadRoom, Counts, Threaded
<1>8. \A k \in Keys : u \notin inserting'[k]  BY <1>1, UnthreadedHoldsNothing DEF Threaded
<1>9. ~ (turns'[u].at = "reply" /\ turns'[u].ok) /\ u \notin Charging'  BY <1>4 DEF Charging
<1>10. ThreadsMove(u) /\ \A k \in Keys : asked'[k] > 0 => asked[k] > 0 \/ threads'[k] = 1
  BY <1>1 DEF ThreadsMove
<1> QED  BY <1>1, <1>3, <1>5, <1>7, <1>8, <1>9, <1>10, QuietStep

\* The stored reply is told, and about to be shown: both sides grow.
LEMMA StoreReplyKeeps ==
    ASSUME TurnTypeOK, TurnInv, NEW u \in Turns, StoreReply(u)
    PROVE  TurnTypeOK' /\ TurnInv'
<1>1. /\ turns[u].at = "store" /\ TurnGo(u, "reply")
      /\ told' = [k \in Keys |-> told[k] + IF k \in turns[u].key /\ turns[u].ok THEN 1 ELSE 0]
      /\ tokens' = tokens + turns[u].cost
      /\ UNCHANGED <<threads, testThreads, inserting, asked, shown, turnsBegun>>
  BY DEF StoreReply
<1>2. /\ turns' \in [Turns -> Turn] /\ OthersStay(u)
      /\ turns'[u].at = "reply" /\ turns'[u].channel = turns[u].channel /\ turns'[u].key = turns[u].key
      /\ turns'[u].ok = turns[u].ok /\ turns'[u].seen = turns[u].seen
  BY <1>1, TurnGoes DEF Ats
<1>3. /\ told \in [Keys -> Nat] /\ tokens \in Nat /\ shown \in [Keys -> Nat] /\ turns[u] \in Turn
      /\ turns[u].cost \in 0 .. 1 /\ turns[u].ok \in BOOLEAN
  BY DEF TurnTypeOK, Turn
<1>4. \A k \in Keys : told[k] \in Nat /\ told'[k] = told[k] + (IF k \in turns[u].key /\ turns[u].ok THEN 1 ELSE 0)
  BY <1>1, <1>3
<1>5. told' \in [Keys -> Nat] /\ tokens' \in Nat
  <2>1. \A k \in Keys : told'[k] \in Nat  BY <1>4
  <2> QED  BY <1>1, <1>3, <2>1
<1>6. TurnTypeOK'  BY <1>1, <1>2, <1>5 DEF TurnTypeOK
<1>7. Keyed(turns[u])  BY DEF TurnInv, TurnsAreInOrder
<1>8. Keyed(turns'[u]) /\ NotEarly(turns'[u]) /\ HadRoom(turns'[u]) /\ ~ Threaded(turns'[u])
  BY <1>1, <1>2, <1>7 DEF Keyed, NotEarly, HadRoom, Counts, Threaded
<1>9. TurnsAreInOrder'  BY <1>2, <1>8, OrderKept
<1>10. \A k \in Keys : u \notin inserting'[k]  BY <1>1, UnthreadedHoldsNothing DEF Threaded
<1>11. ThreadsMove(u) /\ \A k \in Keys : asked'[k] > 0 => asked[k] > 0 \/ threads'[k] = 1
  BY <1>1 DEF ThreadsMove
<1>12. (KeyIsHeldOnce /\ ThreadIsThere /\ OneThreadPerVisitor)'
  BY <1>2, <1>8, <1>10, <1>11, ThreadsKept
<1>13. ShownIsStored'
  <2> SUFFICES ASSUME NEW k \in Keys
               PROVE  shown'[k] + Cardinality(Replying(k)') <= told'[k]
    BY DEF ShownIsStored
  <2>1. IsFiniteSet(Replying(k))  BY FiniteKeys, FS_Subset DEF Replying
  <2>2. Replying(k)' \ {u} \subseteq Replying(k) \ {u} /\ (u \in Replying(k)' => turns[u].ok /\ k \in turns[u].key)
    BY <1>2 DEF Replying, OthersStay
  <2>3. /\ Cardinality(Replying(k)) \in Nat /\ Cardinality(Replying(k)') \in Nat
        /\ Cardinality(Replying(k)') <= Cardinality(Replying(k)) + 1
        /\ u \notin Replying(k)' => Cardinality(Replying(k)') <= Cardinality(Replying(k))
    BY <2>1, <2>2, CardinalityStep
  <2>4. shown[k] \in Nat /\ shown'[k] = shown[k] /\ shown[k] + Cardinality(Replying(k)) <= told[k]
    BY <1>1, <1>3 DEF TurnInv, ShownIsStored
  <2>5. CASE turns[u].ok /\ k \in turns[u].key
    <3>1. told'[k] = told[k] + 1  BY <1>4, <2>5
    <3> QED  BY <1>4, <2>3, <2>4, <3>1
  <2>6. CASE ~ (turns[u].ok /\ k \in turns[u].key)
    <3>1. told'[k] = told[k]  BY <1>4, <2>6
    <3> QED  BY <1>4, <2>2, <2>3, <2>4, <2>6, <3>1
  <2> QED  BY <2>5, <2>6
<1>14. CapIsPassedByOverlap'
  <2>1. IsFiniteSet(Charging)  BY FiniteKeys, FS_Subset DEF Charging
  <2>2. Charging' \ {u} \subseteq Charging \ {u} /\ u \notin Charging' /\ (turns[u].cost = 1 => u \in Charging)
    BY <1>1, <1>2 DEF Charging, OthersStay
  <2>3. /\ Cardinality(Charging) \in Nat /\ Cardinality(Charging') \in Nat /\ Cardinality(Turns) \in Nat
        /\ Cardinality(Charging') <= Cardinality(Charging)
        /\ turns[u].cost = 1 => Cardinality(Charging') + 1 <= Cardinality(Charging)
    BY <2>1, <2>2, CardinalityStep, FiniteKeys, FS_CardinalityType
  <2>4. TokenCap \in Nat /\ tokens + Cardinality(Charging) <= TokenCap + Cardinality(Turns)
    BY TurnBoundAssumption DEF TurnInv, CapIsPassedByOverlap
  <2>5. CASE turns[u].cost = 1  BY <1>1, <1>3, <2>3, <2>4, <2>5 DEF CapIsPassedByOverlap
  <2>6. CASE turns[u].cost = 0  BY <1>1, <1>3, <2>3, <2>4, <2>6 DEF CapIsPassedByOverlap
  <2> QED  BY <1>3, <2>5, <2>6
<1> QED  BY <1>6, <1>9, <1>12, <1>13, <1>14 DEF TurnInv

\* What is shown was about to be.
LEMMA ReplyKeeps ==
    ASSUME TurnTypeOK, TurnInv, NEW u \in Turns, Reply(u)
    PROVE  TurnTypeOK' /\ TurnInv'
<1>1. /\ turns[u].at = "reply" /\ turns' = [turns EXCEPT ![u] = TurnIdle]
      /\ shown' = [k \in Keys |-> shown[k] + IF k \in turns[u].key /\ turns[u].ok THEN 1 ELSE 0]
      /\ UNCHANGED <<threads, testThreads, inserting, asked, told, tokens, turnsBegun>>
  BY DEF Reply
<1>2. /\ turns' \in [Turns -> Turn] /\ OthersStay(u)
      /\ turns'[u].at = "idle" /\ turns'[u].channel = "none" /\ turns'[u].key = {} /\ ~ turns'[u].ok
  BY <1>1, TurnEnds
<1>3. shown \in [Keys -> Nat] /\ told \in [Keys -> Nat]  BY DEF TurnTypeOK
<1>4. \A k \in Keys : shown[k] \in Nat /\ shown'[k] = shown[k] + (IF k \in turns[u].key /\ turns[u].ok THEN 1 ELSE 0)
  BY <1>1, <1>3
<1>5. shown' \in [Keys -> Nat]
  <2>1. \A k \in Keys : shown'[k] \in Nat  BY <1>4
  <2> QED  BY <1>1, <2>1
<1>6. TurnTypeOK'  BY <1>1, <1>2, <1>5 DEF TurnTypeOK
<1>7. Keyed(turns'[u]) /\ NotEarly(turns'[u]) /\ HadRoom(turns'[u]) /\ ~ Threaded(turns'[u])
  BY <1>2 DEF Keyed, NotEarly, HadRoom, Counts, Threaded
<1>8. TurnsAreInOrder'  BY <1>2, <1>7, OrderKept
<1>9. \A k \in Keys : u \notin inserting'[k]  BY <1>1, UnthreadedHoldsNothing DEF Threaded
<1>10. ThreadsMove(u) /\ \A k \in Keys : asked'[k] > 0 => asked[k] > 0 \/ threads'[k] = 1
  BY <1>1 DEF ThreadsMove
<1>11. (KeyIsHeldOnce /\ ThreadIsThere /\ OneThreadPerVisitor)'  BY <1>2, <1>7, <1>9, <1>10, ThreadsKept
<1>12. ShownIsStored'
  <2> SUFFICES ASSUME NEW k \in Keys
               PROVE  shown'[k] + Cardinality(Replying(k)') <= told'[k]
    BY DEF ShownIsStored
  <2>1. IsFiniteSet(Replying(k))  BY FiniteKeys, FS_Subset DEF Replying
  <2>2. Replying(k)' \ {u} \subseteq Replying(k) \ {u} /\ u \notin Replying(k)'
    BY <1>2 DEF Replying, OthersStay
  <2>3. turns[u].ok /\ k \in turns[u].key => u \in Replying(k)  BY <1>1 DEF Replying
  <2>4. /\ Cardinality(Replying(k)) \in Nat /\ Cardinality(Replying(k)') \in Nat
        /\ Cardinality(Replying(k)') <= Cardinality(Replying(k))
        /\ u \in Replying(k) => Cardinality(Replying(k)') + 1 <= Cardinality(Replying(k))
    BY <2>1, <2>2, CardinalityStep
  <2>5. shown[k] \in Nat /\ told[k] \in Nat /\ told'[k] = told[k] /\ shown[k] + Cardinality(Replying(k)) <= told[k]
    BY <1>1, <1>3 DEF TurnInv, ShownIsStored
  <2>6. CASE turns[u].ok /\ k \in turns[u].key
    <3>1. shown'[k] = shown[k] + 1  BY <1>4, <2>6
    <3> QED  BY <2>3, <2>4, <2>5, <2>6, <3>1
  <2>7. CASE ~ (turns[u].ok /\ k \in turns[u].key)
    <3>1. shown'[k] = shown[k]  BY <1>4, <2>7
    <3> QED  BY <2>4, <2>5, <3>1
  <2> QED  BY <2>6, <2>7
<1>13. CapIsPassedByOverlap'
  <2>1. u \notin Charging'  BY <1>2 DEF Charging
  <2> QED  BY <1>1, <1>2, <2>1, CapKept
<1> QED  BY <1>6, <1>8, <1>11, <1>12, <1>13 DEF TurnInv

-----------------------------------------------------------------------------
(* ChatTurns: the theorems.                                                  *)

LEMMA TurnInitHolds ==
    ASSUME TurnInit
    PROVE  TurnTypeOK /\ TurnInv
<1>1. TurnIdle \in Turn  BY DEF TurnIdle, TurnAt, Turn
<1>2. TurnTypeOK
  <2>1. turnsBegun \in 0 .. MaxTurns  BY TurnBoundAssumption DEF TurnInit
  <2>2. /\ threads \in [Keys -> Nat] /\ inserting \in [Keys -> SUBSET Turns]
        /\ asked \in [Keys -> Nat] /\ told \in [Keys -> Nat] /\ shown \in [Keys -> Nat]
    BY DEF TurnInit
  <2>3. turns \in [Turns -> Turn]  BY <1>1 DEF TurnInit
  <2> QED  BY <2>1, <2>2, <2>3 DEF TurnInit, TurnTypeOK
<1>3. \A u \in Turns : turns[u].at = "idle" /\ turns[u].channel = "none" /\ turns[u].key = {} /\ ~ turns[u].ok
  BY DEF TurnInit, TurnIdle, TurnAt
<1>4. \A k \in Keys : threads[k] = 0 /\ inserting[k] = {} /\ asked[k] = 0 /\ told[k] = 0 /\ shown[k] = 0
  BY DEF TurnInit
<1>5. TurnsAreInOrder  BY <1>3 DEF TurnsAreInOrder, Keyed, NotEarly, HadRoom, Counts
<1>6. KeyIsHeldOnce /\ ThreadIsThere /\ OneThreadPerVisitor
  BY <1>3, <1>4 DEF KeyIsHeldOnce, ThreadIsThere, OneThreadPerVisitor, Threaded
<1>7. ShownIsStored
  <2>1. ASSUME NEW k \in Keys
        PROVE  shown[k] + Cardinality(Replying(k)) <= told[k]
    <3>1. Replying(k) = {}  BY <1>3 DEF Replying
    <3> QED  BY <1>4, <3>1, FS_EmptySet
  <2> QED  BY <2>1 DEF ShownIsStored
<1>8. CapIsPassedByOverlap
  <2>1. Charging = {}  BY <1>3 DEF Charging
  <2>2. Cardinality(Turns) \in Nat /\ TokenCap \in Nat /\ tokens = 0
    BY FiniteKeys, FS_CardinalityType, TurnBoundAssumption DEF TurnInit
  <2>3. Cardinality(Charging) = 0  BY <2>1, FS_EmptySet
  <2> QED  BY <2>2, <2>3 DEF CapIsPassedByOverlap
<1> QED  BY <1>2, <1>5, <1>6, <1>7, <1>8 DEF TurnInv

LEMMA ProceedKeeps ==
    ASSUME TurnTypeOK, TurnInv, NEW u \in Turns, Proceed(u)
    PROVE  TurnTypeOK' /\ TurnInv'
<1>1. CASE FindThread(u)  BY <1>1, FindThreadKeeps
<1>2. CASE InsertThread(u)  BY <1>2, InsertThreadKeeps
<1>3. CASE InsertConflict(u)  BY <1>3, InsertConflictKeeps
<1>4. CASE CheckConversations(u)  BY <1>4, CheckConversationsKeeps
<1>5. CASE CheckTokens(u)  BY <1>5, CheckTokensKeeps
<1>6. CASE RefuseTurn(u)  BY <1>6, RefuseTurnKeeps
<1>7. CASE StoreMessage(u)  BY <1>7, StoreMessageKeeps
<1>8. CASE StoreReply(u)  BY <1>8, StoreReplyKeeps
<1>9. CASE StoreReplyFails(u)  BY <1>9, StoreReplyFailsKeeps
<1>10. CASE Reply(u)  BY <1>10, ReplyKeeps
<1>11. CASE \E ok \in BOOLEAN, cost \in 0 .. 1 : Provider(u, ok, cost)  BY <1>11, ProviderKeeps
<1> QED  BY <1>1, <1>2, <1>3, <1>4, <1>5, <1>6, <1>7, <1>8, <1>9, <1>10, <1>11 DEF Proceed

LEMMA TurnStepKeeps ==
    ASSUME TurnTypeOK, TurnInv, [TurnNext]_turnVars
    PROVE  TurnTypeOK' /\ TurnInv'
<1>1. ASSUME NEW u \in Turns, NEW k \in Visitors, WidgetMessage(u, k)
      PROVE  TurnTypeOK' /\ TurnInv'
  <2>1. {k} \in SUBSET Keys /\ (\E j \in Keys : {k} = {j}) /\ "find" \in Ats  BY DEF Keys, Ats
  <2>2. BeginTurn(u, "find", "widget", {k})  BY <1>1 DEF WidgetMessage
  <2> QED  BY <2>1, <2>2, BeginTurnKeeps
<1>2. ASSUME NEW u \in Turns, NEW k \in Chats, TelegramUpdate(u, k)
      PROVE  TurnTypeOK' /\ TurnInv'
  <2>1. {k} \in SUBSET Keys /\ (\E j \in Keys : {k} = {j}) /\ "limit" \in Ats  BY DEF Keys, Ats
  <2>2. BeginTurn(u, "limit", "telegram", {k})  BY <1>2 DEF TelegramUpdate
  <2> QED  BY <2>1, <2>2, BeginTurnKeeps
<1>3. ASSUME NEW u \in Turns, TestMessage(u)
      PROVE  TurnTypeOK' /\ TurnInv'
  <2>1. {} \in SUBSET Keys /\ "quota" \in Ats  BY DEF Ats
  <2>2. BeginTurn(u, "quota", "test", {})  BY <1>3 DEF TestMessage
  <2> QED  BY <2>1, <2>2, BeginTurnKeeps
<1>4. CASE UNCHANGED turnVars
  BY <1>4 DEF turnVars, TurnTypeOK, TurnInv, TurnsAreInOrder, Keyed, NotEarly, HadRoom, Counts, KeyIsHeldOnce,
              ThreadIsThere, Threaded, Holds, OneThreadPerVisitor, ShownIsStored, Replying, CapIsPassedByOverlap, Charging
<1> QED  BY <1>1, <1>2, <1>3, <1>4, ProceedKeeps, TurnDiesKeeps DEF TurnNext

\* Every variable of the conversations has its type.
THEOREM TurnTypeCorrect == TurnSpec => []TurnTypeOK
<1>1. TurnInit => TurnTypeOK /\ TurnInv  BY TurnInitHolds
<1>2. TurnTypeOK /\ TurnInv /\ [TurnNext]_turnVars => (TurnTypeOK /\ TurnInv)'  BY TurnStepKeeps
<1> QED  BY <1>1, <1>2, PTL DEF TurnSpec

\* The inductive invariant of the turns.
THEOREM TurnInvariant == TurnSpec => [](TurnTypeOK /\ TurnInv)
<1>1. TurnInit => TurnTypeOK /\ TurnInv  BY TurnInitHolds
<1>2. TurnTypeOK /\ TurnInv /\ [TurnNext]_turnVars => (TurnTypeOK /\ TurnInv)'  BY TurnStepKeeps
<1> QED  BY <1>1, <1>2, PTL DEF TurnSpec

\* However the requests of one visitor overlap, fail and are delivered again, there is one
\* thread, and no reply is shown that is not stored (get_or_create_conversation, send_bot_message).
THEOREM ThreadsAreAlwaysSound == TurnSpec => []ThreadsAreSound
<1>1. TurnInv => ThreadsAreSound  BY DEF TurnInv, ThreadsAreSound
<1> QED  BY <1>1, TurnInvariant, PTL

\* The limit of a step: who commits a thread has counted, and is alone with its key.
LEMMA CommitPassesPlan ==
    ASSUME TurnTypeOK, TurnInv, NEW u \in Turns, NEW k \in Keys, Holds(u, k), CommitThread(u),
           turns[u].at \in {"quota", "ask"}, testThreads' = testThreads
    PROVE  \/ turns[u].channel = "widget" /\ Committed' < ConversationLimit
           \/ turns[u].channel = "telegram" /\ Committed' <= ConversationLimit
           \/ CountedWith(u, Committed) > turns[u].seen
<1> DEFINE There == {j \in Keys : threads[j] > 0}
           ThereThen == {j \in Keys : threads'[j] > 0}
<1>1. threads[k] = 0 /\ k \in turns[u].key /\ Keyed(turns[u]) /\ HadRoom(turns[u])
  BY DEF TurnInv, TurnsAreInOrder, KeyIsHeldOnce, Holds
<1>2. /\ turns[u] \in Turn /\ turns[u].seen \in Nat /\ ConversationLimit \in Nat
      /\ turns[u].channel \in {"none", "widget", "telegram", "test"}
  BY TurnBoundAssumption DEF TurnTypeOK, Turn
<1>3. turns[u].channel \in {"widget", "telegram"} /\ turns[u].key = {k}  BY <1>1, <1>2 DEF Keyed
<1>4. turns[u].seen < ConversationLimit  BY <1>1, <1>3 DEF HadRoom, Counts
<1>5. \A j \in Keys : j # k => ~ Holds(u, j)  BY <1>3 DEF TurnInv, KeyIsHeldOnce, Holds
<1>6. ThereThen \ {k} \subseteq There \ {k}  BY <1>5, CommitMoves DEF ThreadsMove
<1>7. IsFiniteSet(There)  BY FiniteKeys, FS_Subset
<1>8. /\ Cardinality(There) \in Nat /\ Cardinality(ThereThen) \in Nat
      /\ Cardinality(ThereThen) <= Cardinality(There) + 1
  <2> HIDE DEF There, ThereThen
  <2> QED  BY <1>6, <1>7, CardinalityStep
<1>9. Committed' = testThreads + Cardinality(ThereThen) /\ Committed = testThreads + Cardinality(There) /\ testThreads \in Nat
  BY DEF Committed, TurnTypeOK
<1> HIDE DEF There, ThereThen
<1>10. Committed \in Nat /\ Committed' \in Nat /\ Committed' <= Committed + 1  BY <1>8, <1>9
<1>11. CASE turns[u].channel = "widget"
  <2>1. CountedWith(u, Committed) = Committed + 1  BY <1>11 DEF CountedWith
  <2> QED  BY <1>2, <1>4, <1>10, <1>11, <2>1
<1>12. CASE turns[u].channel = "telegram"
  <2>1. CountedWith(u, Committed) = Committed  BY <1>10, <1>12 DEF CountedWith
  <2> QED  BY <1>2, <1>4, <1>10, <1>12, <2>1
<1> QED  BY <1>3, <1>11, <1>12

\* Only a turn that holds the key commits a thread, and that one alone.
LEMMA WhoCommits ==
    ASSUME TurnTypeOK, TurnInv, [TurnNext]_turnVars, NEW u \in Turns, NEW k \in Keys, Holds(u, k),
           threads'[k] > threads[k]
    PROVE  CommitThread(u) /\ turns[u].at \in {"quota", "ask"} /\ testThreads' = testThreads
<1>1. threads[k] \in Nat /\ ~ (threads' = threads)  BY DEF TurnTypeOK
<1>2. /\ inserting[k] = {u} /\ k \in turns[u].key /\ Threaded(turns[u]) /\ Keyed(turns[u])
      /\ turns[u].channel # "test"
  BY DEF TurnInv, TurnsAreInOrder, KeyIsHeldOnce, Holds, Keyed
<1>3. PICK v \in Turns : StoreMessage(v) \/ RefuseTurn(v)
  <2>1. ASSUME UNCHANGED turnVars
        PROVE  FALSE
    BY <1>1, <2>1 DEF turnVars
  <2>2. ASSUME NEW v \in Turns, NEW at, NEW channel, NEW key, BeginTurn(v, at, channel, key)
        PROVE  FALSE
    BY <1>1, <2>2 DEF BeginTurn
  <2>3. ASSUME NEW v \in Turns, TurnDies(v)
        PROVE  FALSE
    BY <1>1, <2>3, SMTT(30) DEF TurnDies, Rollback
  <2>4. ASSUME NEW v \in Turns, Proceed(v)
        PROVE  StoreMessage(v) \/ RefuseTurn(v)
    BY <1>1, <2>4 DEF Proceed, FindThread, InsertThread, InsertConflict, Rollback, CheckConversations, CheckTokens,
                      StoreReply, StoreReplyFails, Reply, Provider
  <2> QED  BY <2>1, <2>2, <2>3, <2>4 DEF TurnNext, WidgetMessage, TelegramUpdate, TestMessage
<1>4. CommitThread(v)  BY <1>1, <1>3 DEF StoreMessage, RefuseTurn, EndSession, Rollback
<1>5. Holds(v, k)  BY <1>1, <1>4 DEF CommitThread
<1>6. v = u  BY <1>2, <1>5 DEF Holds
<1>7. CASE StoreMessage(u)  BY <1>1, <1>2, <1>4, <1>6, <1>7 DEF StoreMessage, TurnTypeOK
<1>8. CASE RefuseTurn(u)
  <2>1. turns[u].channel = "telegram"  BY <1>1, <1>8 DEF RefuseTurn, EndSession, Rollback
  <2> QED  BY <1>2, <1>4, <1>6, <1>8, <2>1 DEF RefuseTurn, Threaded
<1> QED  BY <1>3, <1>6, <1>7, <1>8

\* The cap of tokens and the plan's conversations are passed by no more than what was
\* let in before (assert_can_consume, enforce_conversation_limit).
THEOREM LimitsArePassedByOverlap == TurnSpec => LimitsPassedByOverlap
<1> DEFINE P == \A u \in Turns, k \in Keys :
                    threads[k]' > threads[k] /\ Holds(u, k) =>
                        \/ turns[u].channel = "widget" /\ Committed' < ConversationLimit
                        \/ turns[u].channel = "telegram" /\ Committed' <= ConversationLimit
                        \/ CountedWith(u, Committed) > turns[u].seen
<1>1. TurnTypeOK /\ TurnInv /\ [TurnNext]_turnVars => P
  <2> SUFFICES ASSUME TurnTypeOK, TurnInv, [TurnNext]_turnVars,
                      NEW u \in Turns, NEW k \in Keys, threads'[k] > threads[k], Holds(u, k)
               PROVE  \/ turns[u].channel = "widget" /\ Committed' < ConversationLimit
                      \/ turns[u].channel = "telegram" /\ Committed' <= ConversationLimit
                      \/ CountedWith(u, Committed) > turns[u].seen
    OBVIOUS
  <2>1. CommitThread(u) /\ turns[u].at \in {"quota", "ask"} /\ testThreads' = testThreads  BY WhoCommits
  <2> QED  BY <2>1, CommitPassesPlan
<1>2. TurnTypeOK /\ TurnInv /\ [TurnNext]_turnVars => [P]_turnVars  BY <1>1
<1>3. TurnInv => CapIsPassedByOverlap  BY DEF TurnInv
<1>4. TurnSpec => [](TurnTypeOK /\ TurnInv) /\ [][TurnNext]_turnVars  BY TurnInvariant, PTL DEF TurnSpec
<1>5. TurnSpec => []CapIsPassedByOverlap  BY <1>3, <1>4, PTL
<1>6. TurnSpec => [][P]_turnVars  BY <1>2, <1>4, PTL
<1>7. [][P]_turnVars => PlanIsPassedByOverlap  BY DEF PlanIsPassedByOverlap
<1> QED  BY <1>5, <1>6, <1>7 DEF LimitsPassedByOverlap

-----------------------------------------------------------------------------
(* ModelCalls: codes, tokens and rows.                                       *)

FinalErrors == {"unexpected_error", "content_blocked", "max_tokens", "invalid_response", "unknown"}

LEMMA CodesAreKnown == \A a : GeminiCode(a) \in Codes /\ OllamaCode(a) \in Codes
BY DEF Codes, GeminiCode, OllamaCode

LEMMA CodesOfSilences == \A a \in Silences : GeminiCode(a) \in UnheardCodes /\ OllamaCode(a) \in UnheardCodes
BY DEF Silences, UnheardCodes, GeminiCode, OllamaCode

LEMMA CodesOfUnreadable == \A a \in Unreadable : GeminiCode(a) \in FinalErrors /\ OllamaCode(a) \in FinalErrors
BY DEF Unreadable, FinalErrors, GeminiCode, OllamaCode

LEMMA CodesOfReplies == \A a \in Replies : GeminiCode(a) \in FinalErrors /\ OllamaCode(a) \in FinalErrors
BY ZenonT(60) DEF Replies, FinalErrors, GeminiCode, OllamaCode

LEMMA CodesOfErrors ==
    ASSUME NEW p, NEW a \in Refusals \cup Silences \cup Unreadable \cup Replies
    PROVE  /\ NormalizeError(p, a) \in Codes
           /\ a \notin Refusals => NormalizeError(p, a) \in UnheardCodes \cup FinalErrors
BY CodesAreKnown, CodesOfSilences, CodesOfUnreadable, CodesOfReplies DEF NormalizeError

LEMMA FinalCodes ==
    \A code \in FinalErrors \cup {"persistence_error"} : ~ IsRetryable(code)
BY DEF FinalErrors, IsRetryable, ClassifyProviderErrorCode

LEMMA StatusOfErrors ==
    ASSUME NEW code
    PROVE  /\ HttpStatus(code) \in {429, 500, 502, 503, 504}
           /\ code = "persistence_error" => HttpStatus(code) = 500
BY DEF HttpStatus

\* A reply that was made and is not told to be lost is no reason to try again.
LEMMA GeneratedFits ==
    ASSUME NEW p, NEW a \in Refusals \cup Silences \cup Unreadable \cup Replies, NEW used \in Reports
    PROVE  /\ GenerateResponse(p, a, used) \in Result /\ GenerateResponse(p, a, used).source = "provider"
           /\ LET r == GenerateResponse(p, a, used)
              IN  a \notin Refusals /\ ~ r.ok /\ IsRetryable(r.code) => r.code \in UnheardCodes
<1> DEFINE r == GenerateResponse(p, a, used)
<1>1. ASSUME NEW ok \in BOOLEAN, NEW code \in Codes, NEW t \in Reports, r = ResultOf("provider", ok, code, t)
      PROVE  r \in Result /\ r.source = "provider" /\ r.ok = ok /\ r.code = code
  BY <1>1 DEF ResultOf, Result
<1>2. NoTokens \in Reports /\ {"", "invalid_response"} \subseteq Codes /\ "invalid_response" \in FinalErrors
  BY DEF NoTokens, Reports, Codes, FinalErrors
<1>3. CASE a = "text"
  <2>1. r = ResultOf("provider", TRUE, "", used)  BY <1>3 DEF GenerateResponse
  <2>2. r \in Result /\ r.source = "provider" /\ r.ok = TRUE  BY <1>1, <1>2, <2>1
  <2> QED  BY <2>2
<1>4. CASE a = "blank" /\ p = "gemini"
  <2>1. r = ResultOf("provider", FALSE, "invalid_response", used)  BY <1>4 DEF GenerateResponse, Failure
  <2>2. r \in Result /\ r.source = "provider" /\ r.code = "invalid_response"  BY <1>1, <1>2, <2>1
  <2> QED  BY <1>2, <2>2, FinalCodes
<1>5. CASE a # "text" /\ ~ (a = "blank" /\ p = "gemini")
  <2>1. PICK t \in Reports : r = ResultOf("provider", FALSE, NormalizeError(p, a), t)
    BY <1>2, <1>5 DEF GenerateResponse, Failure
  <2>2. NormalizeError(p, a) \in Codes  BY CodesOfErrors
  <2>3. r \in Result /\ r.source = "provider" /\ r.code = NormalizeError(p, a)  BY <1>1, <2>1, <2>2
  <2> QED  BY <2>3, CodesOfErrors, FinalCodes
<1> QED  BY <1>3, <1>4, <1>5

\* What the usage log is given is a row, and it is not free of tokens for a reply.
LEMMA RowIsSound ==
    ASSUME NEW r \in Result, r.source # "provider" => r.tokens = NoTokens
    PROVE  /\ UsageRow(r) \in UsageRows /\ UsageRow(r).ok = r.ok /\ UsageRow(r).source = r.source
           /\ r.source = "provider" /\ r.ok => UsageRow(r).tokens.total > 0
           /\ r.source # "provider" => UsageRow(r).tokens.total = 0 /\ UsageRow(r).cost = 0
<1> DEFINE Tokens == [in : Nat, out : Nat, total : Nat]
           t == NormalizeUsage(r.tokens)
           A == Accounted(r)
<1>1. r.tokens \in Tokens  BY DEF Result, Reports
<1>2. /\ t \in Tokens
      /\ r.source # "provider" => t.total = 0
  BY <1>1 DEF NormalizeUsage, NoTokens
<1>3. PromptTokens \in Nat /\ ReplyTokens \in Nat /\ PromptTokens + ReplyTokens \in Nat /\ PromptTokens + ReplyTokens > 0
  BY ModelCallsAssumption
<1>4. A = IF r.ok /\ r.source = "provider" /\ t.total = 0
          THEN [in |-> PromptTokens, out |-> ReplyTokens, total |-> PromptTokens + ReplyTokens]
          ELSE t
  BY DEF Accounted
<1> HIDE DEF t, A
<1>5. /\ A \in Tokens
      /\ r.source = "provider" /\ r.ok => A.total > 0
      /\ r.source # "provider" => A.total = 0
  <2>1. CASE r.ok /\ r.source = "provider" /\ t.total = 0  BY <1>3, <1>4, <2>1
  <2>2. CASE ~ (r.ok /\ r.source = "provider" /\ t.total = 0)
    <3>1. A = t /\ t.total \in Nat  BY <1>2, <1>4, <2>2
    <3> QED  BY <1>2, <2>2, <3>1
  <2> QED  BY <2>1, <2>2
<1>6. \A p : Cost(p, A) \in Nat /\ (A.total = 0 => Cost(p, A) = 0)
  <2>1. A.in \in Nat /\ A.out \in Nat /\ A.in + 4 * A.out \in Nat /\ A.total \in Nat  BY <1>5
  <2> QED  BY <2>1 DEF Cost
<1>7. UsageRow(r) = [source |-> r.source, ok |-> r.ok, tokens |-> A,
                     cost |-> Cost(IF r.source = "provider" THEN call.provider ELSE "none", A)]
  BY DEF UsageRow, A
<1>8. r.source \in {"filter", "exact", "semantic", "embedding", "provider"} /\ r.ok \in BOOLEAN
  BY DEF Result
<1> QED  BY <1>5, <1>6, <1>7, <1>8 DEF UsageRows

-----------------------------------------------------------------------------
(* ModelCalls: the actions.                                                  *)

Stages == {"idle", "ask", "resolve", "send", "usage", "store", "answer"}
CallRecords == [at : Stages, provider : ModelProviders \cup {"gemini"}, result : Result]

LEMMA CallTypes ==
    ASSUME CallsTypeOK
    PROVE  /\ call \in CallRecords
           /\ written \in [asked : 0 .. 1, told : 0 .. 1, logs : SUBSET UsageRows]
           /\ asked429 \in 0 .. MaxAttempts429 /\ generated \in 0 .. MaxAttempts429
           /\ MaxAttempts429 \in Nat \ {0} /\ MaxCalls \in Nat /\ callsBegun \in 0 .. MaxCalls
           /\ response \in [status : Nat, again : BOOLEAN] /\ kept \in BOOLEAN
BY ModelCallsAssumption DEF CallsTypeOK, CallRecords, Stages

LEMMA CallGoes ==
    ASSUME CallsTypeOK, NEW at \in Stages, CallGo(at)
    PROVE  /\ call' \in CallRecords
           /\ call'.at = at /\ call'.provider = call.provider /\ call'.result = call.result
BY CallTypes DEF CallGo, CallRecords

LEMMA CallTypesKept ==
    ASSUME call' \in CallRecords,
           written' \in [asked : 0 .. 1, told : 0 .. 1, logs : SUBSET UsageRows],
           asked429' \in 0 .. MaxAttempts429, generated' \in 0 .. MaxAttempts429,
           callsBegun' \in 0 .. MaxCalls, response' \in [status : Nat, again : BOOLEAN], kept' \in BOOLEAN
    PROVE  CallsTypeOK'
BY DEF CallsTypeOK, CallRecords, Stages

\* The turn is over, and nobody was answered, or told that it failed for good.
LEMMA EndsUnanswered ==
    ASSUME CallsTypeOK, CallInv, CallGo("idle"), UNCHANGED <<asked429, generated, written, kept, callsBegun>>,
           response' \in [status : Nat, again : BOOLEAN],
           response'.status \notin {200, 429, 502, 503, 504}, ~ response'.again
    PROVE  CallsTypeOK' /\ CallInv'
<1>1. call' \in CallRecords /\ call'.at = "idle"  BY CallGoes DEF Stages
<1>2. CallsTypeOK'  BY <1>1, CallTypes, CallTypesKept
<1>3. (Unsent /\ Unkept /\ Unwritten /\ Unanswered /\ Resulted /\ KeptIfOk /\ Settled)'
  BY <1>1 DEF Unsent, Unkept, Unwritten, Unanswered, Resulted, KeptIfOk, Settled
<1>4. ChargedOnce'  BY DEF CallInv, ChargedOnce
<1>5. AnsweredIsLogged' /\ TryAgainIsSafe'  BY DEF AnsweredIsLogged, TryAgainIsSafe
<1> QED  BY <1>2, <1>3, <1>4, <1>5 DEF CallInv

LEMMA AskFailsKeeps ==
    ASSUME CallsTypeOK, CallInv, AskFails
    PROVE  CallsTypeOK' /\ CallInv'
<1>1. /\ CallGo("idle") /\ response' = [status |-> 422, again |-> FALSE]
      /\ UNCHANGED <<asked429, generated, written, kept, callsBegun>>
  BY DEF AskFails
<1>2. /\ response' \in [status : Nat, again : BOOLEAN]
      /\ response'.status \notin {200, 429, 502, 503, 504} /\ ~ response'.again
  BY <1>1
<1> QED  BY <1>1, <1>2, EndsUnanswered

LEMMA CallDiesKeeps ==
    ASSUME CallsTypeOK, CallInv, CallDies
    PROVE  CallsTypeOK' /\ CallInv'
<1>1. /\ call.at # "idle" /\ CallGo("idle")
      /\ UNCHANGED <<asked429, generated, written, kept, response, callsBegun>>
  BY DEF CallDies
<1>2. /\ response' \in [status : Nat, again : BOOLEAN]
      /\ response'.status \notin {200, 429, 502, 503, 504} /\ ~ response'.again
  BY <1>1, CallTypes DEF CallInv, Unanswered
<1> QED  BY <1>1, <1>2, EndsUnanswered

\* A turn that goes on: nobody is answered before the answer.
LEMMA GoesOn ==
    ASSUME CallsTypeOK, CallInv, call.at # "idle", response' = response
    PROVE  Unanswered' /\ AnsweredIsLogged' /\ TryAgainIsSafe'
<1>1. response'.status = 0 /\ ~ response'.again  BY DEF CallInv, Unanswered
<1> QED  BY <1>1 DEF Unanswered, AnsweredIsLogged, TryAgainIsSafe

LEMMA ResolveProviderKeeps ==
    ASSUME CallsTypeOK, CallInv, NEW known \in BOOLEAN, ResolveProvider(known)
    PROVE  CallsTypeOK' /\ CallInv'
<1>1. call.at = "resolve" /\ UNCHANGED <<asked429, generated, written, kept, callsBegun>>
  BY DEF ResolveProvider
<1>2. CASE known
  <2>1. CallGo("send") /\ response' = response  BY <1>2 DEF ResolveProvider
  <2>2. call' \in CallRecords /\ call'.at = "send"  BY <2>1, CallGoes DEF Stages
  <2>3. CallsTypeOK'  BY <1>1, <2>1, <2>2, CallTypes, CallTypesKept
  <2>4. Unanswered' /\ AnsweredIsLogged' /\ TryAgainIsSafe'  BY <1>1, <2>1, GoesOn
  <2>5. Unsent' /\ Unkept' /\ Unwritten'  BY <1>1, <2>2 DEF CallInv, Unsent, Unkept, Unwritten
  <2>6. Resulted' /\ KeptIfOk' /\ Settled'  BY <2>2 DEF Resulted, KeptIfOk, Settled
  <2>7. ChargedOnce'  BY <1>1 DEF CallInv, ChargedOnce
  <2> QED  BY <2>3, <2>4, <2>5, <2>6, <2>7 DEF CallInv
<1>3. CASE ~ known
  <2>1. CallGo("idle") /\ response' = [status |-> 500, again |-> FALSE]  BY <1>3 DEF ResolveProvider
  <2>2. /\ response' \in [status : Nat, again : BOOLEAN]
        /\ response'.status \notin {200, 429, 502, 503, 504} /\ ~ response'.again
    BY <2>1
  <2> QED  BY <1>1, <2>1, <2>2, EndsUnanswered
<1> QED  BY <1>2, <1>3

LEMMA BeginCallKeeps ==
    ASSUME CallsTypeOK, CallInv, NEW p \in ModelProviders, BeginCall(p)
    PROVE  CallsTypeOK' /\ CallInv'
<1>1. /\ call' = [at |-> "ask", provider |-> p, result |-> NoResult]
      /\ callsBegun < MaxCalls /\ callsBegun' = callsBegun + 1
      /\ asked429' = 0 /\ generated' = 0 /\ kept' = FALSE
      /\ written' = [asked |-> 0, told |-> 0, logs |-> {}]
      /\ response' = [status |-> 0, again |-> FALSE]
  BY DEF BeginCall
<1>2. NoResult \in Result  BY DEF NoResult, ResultOf, NoTokens, Result, Codes, Reports
<1>3. call' \in CallRecords /\ call'.at = "ask"  BY <1>1, <1>2 DEF CallRecords, Stages
<1>4. asked429' \in 0 .. MaxAttempts429 /\ generated' \in 0 .. MaxAttempts429 /\ callsBegun' \in 0 .. MaxCalls
      /\ asked429' < MaxAttempts429
  BY <1>1, CallTypes
<1>5. written' \in [asked : 0 .. 1, told : 0 .. 1, logs : SUBSET UsageRows] /\ written'.told = 0 /\ written'.logs = {}
  BY <1>1
<1>6. response' \in [status : Nat, again : BOOLEAN] /\ response'.status = 0 /\ ~ response'.again
  BY <1>1
<1>7. CallsTypeOK'  BY <1>1, <1>3, <1>4, <1>5, <1>6, CallTypesKept
<1>8. (Unsent /\ Unkept /\ Unwritten /\ Unanswered /\ Resulted /\ KeptIfOk /\ Settled)'
  BY <1>1, <1>3, <1>4, <1>5, <1>6 DEF Unsent, Unkept, Unwritten, Unanswered, Resulted, KeptIfOk, Settled
<1>9. ChargedOnce' /\ AnsweredIsLogged' /\ TryAgainIsSafe'
  BY <1>1, <1>6 DEF ChargedOnce, AnsweredIsLogged, TryAgainIsSafe
<1> QED  BY <1>7, <1>8, <1>9 DEF CallInv

LEMMA AskKeeps ==
    ASSUME CallsTypeOK, CallInv, NEW s \in {"filter", "exact", "semantic", "embedding", "provider"}, Ask(s)
    PROVE  CallsTypeOK' /\ CallInv'
<1> DEFINE ok == s \in {"filter", "exact", "semantic"}
           code == IF s = "embedding" THEN "embedding_failed" ELSE ""
           r == ResultOf(s, ok, code, NoTokens)
           at == IF s = "provider" THEN "resolve" ELSE "usage"
<1>1. /\ call.at = "ask" /\ written' = [written EXCEPT !.asked = 1]
      /\ call' = [call EXCEPT !.at = at, !.result = r]
      /\ UNCHANGED <<asked429, generated, kept, response, callsBegun>>
  BY DEF Ask
<1>2. r \in Result /\ r.source = s /\ r.tokens = NoTokens
  <2>1. ok \in BOOLEAN /\ code \in Codes /\ NoTokens \in Reports  BY DEF Codes, NoTokens, Reports
  <2> HIDE DEF ok, code
  <2> QED  BY <2>1 DEF ResultOf, Result
<1>3. at \in {"resolve", "usage"}  OBVIOUS
<1> HIDE DEF r, at
<1>4. call' \in CallRecords /\ call'.at = at /\ call'.result = r
  BY <1>1, <1>2, <1>3, CallTypes DEF CallRecords, Stages
<1>5. /\ written' \in [asked : 0 .. 1, told : 0 .. 1, logs : SUBSET UsageRows]
      /\ written'.told = written.told /\ written'.logs = written.logs
  BY <1>1, CallTypes
<1>6. CallsTypeOK'  BY <1>1, <1>4, <1>5, CallTypes, CallTypesKept
<1>7. generated = 0 /\ asked429 < MaxAttempts429 /\ ~ kept /\ written.told = 0 /\ written.logs = {}
  BY <1>1 DEF CallInv, Unsent, Unkept, Unwritten
<1>8. Unsent' /\ Unkept' /\ Unwritten'  BY <1>1, <1>5, <1>7 DEF Unsent, Unkept, Unwritten
<1>9. ResultFits(r)'  BY <1>1, <1>2, <1>7 DEF ResultFits
<1>10. Resulted'  BY <1>4, <1>9 DEF Resulted, ResultFits
<1>11. KeptIfOk' /\ Settled' /\ ChargedOnce'
  BY <1>1, <1>3, <1>4, <1>7 DEF KeptIfOk, Settled, ChargedOnce
<1>12. Unanswered' /\ AnsweredIsLogged' /\ TryAgainIsSafe'  BY <1>1, GoesOn
<1> QED  BY <1>6, <1>8, <1>10, <1>11, <1>12 DEF CallInv

\* Only a refusal is repeated, and a refusal has made nothing.
LEMMA PostKeeps ==
    ASSUME CallsTypeOK, CallInv, NEW a \in Refusals \cup Silences \cup Unreadable \cup Replies,
           NEW used \in Reports, NEW made \in 0 .. 1, Post(a, used, made)
    PROVE  CallsTypeOK' /\ CallInv'
<1> DEFINE r == GenerateResponse(call.provider, a, used)
<1>1. /\ call.at = "send" /\ (made = 1 => a \notin Refusals)
      /\ asked429' = asked429 + 1 /\ generated' = generated + made
      /\ UNCHANGED <<written, kept, response, callsBegun>>
  BY DEF Post
<1>2. generated = 0 /\ asked429 < MaxAttempts429 /\ ~ kept /\ written.told = 0 /\ written.logs = {}
  BY <1>1 DEF CallInv, Unsent, Unkept, Unwritten
<1>3. generated' = made /\ generated' \in 0 .. MaxAttempts429 /\ asked429' \in 0 .. MaxAttempts429
  BY <1>1, <1>2, CallTypes
<1>4. Unanswered' /\ AnsweredIsLogged' /\ TryAgainIsSafe'  BY <1>1, GoesOn
<1>5. ChargedOnce'  BY <1>3 DEF ChargedOnce
<1>6. CASE Repeats429(a)
  <2>1. call' = call /\ a \in Refusals /\ asked429 + 1 < MaxAttempts429
    BY <1>6 DEF Post, Repeats429, Refusals
  <2>2. generated' = 0 /\ asked429' < MaxAttempts429  BY <1>1, <1>3, <2>1
  <2>3. CallsTypeOK'  BY <1>1, <1>3, <2>1, CallTypes, CallTypesKept
  <2>4. (Unsent /\ Unkept /\ Unwritten /\ Resulted /\ KeptIfOk /\ Settled)'
    BY <1>1, <1>2, <2>1, <2>2 DEF Unsent, Unkept, Unwritten, Resulted, KeptIfOk, Settled
  <2> QED  BY <1>4, <1>5, <2>3, <2>4 DEF CallInv
<1>7. CASE ~ Repeats429(a)
  <2>1. call' = [call EXCEPT !.at = "usage", !.result = r]  BY <1>7 DEF Post
  <2>2. /\ r \in Result /\ r.source = "provider"
        /\ a \notin Refusals /\ ~ r.ok /\ IsRetryable(r.code) => r.code \in UnheardCodes
    BY GeneratedFits
  <2> HIDE DEF r
  <2>3. call' \in CallRecords /\ call'.at = "usage" /\ call'.result = r
    BY <2>1, <2>2, CallTypes DEF CallRecords, Stages
  <2>4. CallsTypeOK'  BY <1>1, <1>3, <2>3, CallTypes, CallTypesKept
  <2>5. (Unsent /\ Unkept /\ Unwritten /\ KeptIfOk /\ Settled)'
    BY <1>1, <1>2, <2>3 DEF Unsent, Unkept, Unwritten, KeptIfOk, Settled
  <2>6. generated' = 1 /\ ~ r.ok /\ IsRetryable(r.code) => r.code \in UnheardCodes  BY <1>1, <1>3, <2>2
  <2>7. Resulted'  BY <2>2, <2>3, <2>6 DEF Resulted, ResultFits
  <2> QED  BY <1>4, <1>5, <2>4, <2>5, <2>7 DEF CallInv
<1> QED  BY <1>6, <1>7

LEMMA RememberKeeps ==
    ASSUME CallsTypeOK, CallInv, NEW stored \in BOOLEAN, Remember(stored)
    PROVE  CallsTypeOK' /\ CallInv'
<1>1. /\ call.at = "usage" /\ kept' \in BOOLEAN /\ (kept' => call.result.ok) /\ CallGo("store")
      /\ UNCHANGED <<asked429, generated, written, response, callsBegun>>
  BY DEF Remember
<1>2. call' \in CallRecords /\ call'.at = "store" /\ call'.result = call.result
  BY <1>1, CallGoes DEF Stages
<1>3. CallsTypeOK'  BY <1>1, <1>2, CallTypes, CallTypesKept
<1>4. Unsent' /\ Unkept' /\ Unwritten'  BY <1>1, <1>2 DEF CallInv, Unsent, Unkept, Unwritten
<1>5. Resulted'  BY <1>1, <1>2 DEF CallInv, Resulted, ResultFits
<1>6. KeptIfOk' /\ Settled'  BY <1>1, <1>2 DEF KeptIfOk, Settled
<1>7. ChargedOnce'  BY <1>1 DEF CallInv, ChargedOnce
<1>8. Unanswered' /\ AnsweredIsLogged' /\ TryAgainIsSafe'  BY <1>1, GoesOn
<1> QED  BY <1>3, <1>4, <1>5, <1>6, <1>7, <1>8 DEF CallInv

\* The reply and its row are one transaction.
LEMMA StoreTurnKeeps ==
    ASSUME CallsTypeOK, CallInv, StoreTurn
    PROVE  CallsTypeOK' /\ CallInv'
<1> DEFINE said == IF call.result.ok THEN 1 ELSE 0
           row == UsageRow(call.result)
<1>1. /\ call.at = "store" /\ written' = [written EXCEPT !.told = said, !.logs = {row}] /\ CallGo("answer")
      /\ UNCHANGED <<asked429, generated, kept, response, callsBegun>>
  BY DEF StoreTurn
<1>2. call' \in CallRecords /\ call'.at = "answer" /\ call'.result = call.result
  BY <1>1, CallGoes DEF Stages
<1>3. call.result \in Result /\ ResultFits(call.result) /\ (kept => call.result.ok)
  BY <1>1, CallTypes DEF CallRecords, CallInv, Resulted, KeptIfOk
<1>4. /\ row \in UsageRows /\ row.ok = call.result.ok /\ row.source = call.result.source
      /\ row.source = "provider" /\ row.ok => row.tokens.total > 0
      /\ row.source # "provider" => row.tokens.total = 0 /\ row.cost = 0
  BY <1>3, RowIsSound DEF ResultFits
<1>5. said \in 0 .. 1  OBVIOUS
<1> HIDE DEF row, said
<1>6. /\ written' \in [asked : 0 .. 1, told : 0 .. 1, logs : SUBSET UsageRows]
      /\ written'.told = said /\ written'.logs = {row}
  BY <1>1, <1>4, <1>5, CallTypes
<1>7. CallsTypeOK'  BY <1>1, <1>2, <1>6, CallTypes, CallTypesKept
<1>8. Booked(call.result.ok)'
  <2>1. row \in written'.logs /\ row.ok = call'.result.ok /\ written'.told = IF call'.result.ok THEN 1 ELSE 0
    BY <1>2, <1>4, <1>6 DEF said
  <2> QED  BY <1>4, <2>1 DEF Booked
<1>9. Settled'  BY <1>1, <1>2, <1>3, <1>8 DEF Settled, Booked
<1>10. (Unsent /\ Unkept /\ Unwritten /\ KeptIfOk)'  BY <1>2 DEF Unsent, Unkept, Unwritten, KeptIfOk
<1>11. Resulted'  BY <1>1, <1>2, <1>3 DEF Resulted, ResultFits
<1>12. ChargedOnce'  BY <1>1 DEF CallInv, ChargedOnce
<1>13. Unanswered' /\ AnsweredIsLogged' /\ TryAgainIsSafe'  BY <1>1, GoesOn
<1> QED  BY <1>7, <1>9, <1>10, <1>11, <1>12, <1>13 DEF CallInv

LEMMA StoreTurnFailsKeeps ==
    ASSUME CallsTypeOK, CallInv, StoreTurnFails
    PROVE  CallsTypeOK' /\ CallInv'
<1>1. /\ call.at = "store"
      /\ call' = [call EXCEPT !.at = "answer", !.result.ok = FALSE, !.result.code = "persistence_error"]
      /\ UNCHANGED <<asked429, generated, written, kept, response, callsBegun>>
  BY DEF StoreTurnFails
<1>2. call \in CallRecords /\ call.result \in Result /\ "persistence_error" \in Codes
  BY CallTypes DEF CallRecords, Codes
<1>3. /\ call'.at = "answer" /\ call'.provider = call.provider
      /\ call'.result = [call.result EXCEPT !.ok = FALSE, !.code = "persistence_error"]
      /\ call' = [at |-> call'.at, provider |-> call'.provider, result |-> call'.result]
  BY <1>1, <1>2 DEF CallRecords
<1>4. /\ call'.result \in Result /\ call'.result.ok = FALSE /\ call'.result.code = "persistence_error"
      /\ call'.result.source = call.result.source /\ call'.result.tokens = call.result.tokens
  BY <1>2, <1>3 DEF Result
<1>5. call' \in CallRecords  BY <1>2, <1>3, <1>4 DEF CallRecords, Stages
<1>6. CallsTypeOK'  BY <1>1, <1>5, CallTypes, CallTypesKept
<1>7. ResultFits(call.result)  BY <1>1 DEF CallInv, Resulted
<1>8. Resulted'
  <2>1. ~ IsRetryable(call'.result.code)  BY <1>4, FinalCodes
  <2>2. call'.result.source # "provider" => call'.result.tokens = NoTokens  BY <1>4, <1>7 DEF ResultFits
  <2> QED  BY <2>1, <2>2 DEF Resulted, ResultFits
<1>9. (Unsent /\ Unkept /\ Unwritten /\ KeptIfOk /\ Settled)'
  BY <1>3, <1>4 DEF Unsent, Unkept, Unwritten, KeptIfOk, Settled
<1>10. ChargedOnce'  BY <1>1 DEF CallInv, ChargedOnce
<1>11. Unanswered' /\ AnsweredIsLogged' /\ TryAgainIsSafe'  BY <1>1, GoesOn
<1> QED  BY <1>6, <1>8, <1>9, <1>10, <1>11 DEF CallInv

\* What the client is told is what the turn has stored.
LEMMA RespondKeeps ==
    ASSUME CallsTypeOK, CallInv, Respond
    PROVE  CallsTypeOK' /\ CallInv'
<1> DEFINE r == call.result
<1>1. /\ call.at = "answer" /\ CallGo("idle")
      /\ response' = IF r.ok THEN [status |-> 200, again |-> FALSE]
                     ELSE [status |-> HttpStatus(r.code), again |-> IsRetryable(r.code)]
      /\ UNCHANGED <<asked429, generated, written, kept, callsBegun>>
  BY DEF Respond
<1>2. call' \in CallRecords /\ call'.at = "idle" /\ call'.result = r  BY <1>1, CallGoes DEF Stages
<1>3. /\ r.ok \in BOOLEAN /\ ResultFits(r)
      /\ (Booked(r.ok) /\ (kept => r.ok)) \/ (~ r.ok /\ r.code = "persistence_error")
  BY <1>1, CallTypes DEF CallRecords, Result, CallInv, Resulted, Settled
<1> HIDE DEF r
<1>4. HttpStatus(r.code) \in {429, 500, 502, 503, 504} /\ IsRetryable(r.code) \in BOOLEAN
  BY StatusOfErrors DEF IsRetryable
<1>5. CASE r.ok
  <2>1. response' = [status |-> 200, again |-> FALSE]  BY <1>1, <1>5
  <2>2. response' \in [status : Nat, again : BOOLEAN] /\ response'.status = 200 /\ ~ response'.again
    BY <2>1
  <2>3. Booked(TRUE)  BY <1>3, <1>5
  <2>4. Booked(TRUE)'  BY <1>1, <2>3 DEF Booked
  <2>5. AnsweredIsLogged' /\ TryAgainIsSafe'  BY <2>2, <2>4, ZenonT(60) DEF AnsweredIsLogged, TryAgainIsSafe, Booked
  <2> QED  BY <1>1, <1>2, <2>2, <2>5, CallTypes, CallTypesKept
    DEF CallInv, Unsent, Unkept, Unwritten, Unanswered, Resulted, KeptIfOk, Settled, ChargedOnce
<1>6. CASE ~ r.ok
  <2>1. response' = [status |-> HttpStatus(r.code), again |-> IsRetryable(r.code)]  BY <1>1, <1>6
  <2>2. /\ response' \in [status : Nat, again : BOOLEAN]
        /\ response'.status = HttpStatus(r.code) /\ response'.again = IsRetryable(r.code)
    BY <1>4, <2>1
  <2>3. AnsweredIsLogged' /\ TryAgainIsSafe'
    <3>1. CASE Booked(r.ok) /\ (kept => r.ok)
      <4>1. Booked(FALSE) /\ ~ kept  BY <1>3, <1>6, <3>1
      <4>2. Booked(FALSE)' /\ written'.told = 0 /\ ~ kept'  BY <1>1, <4>1 DEF Booked
      <4>3. (response'.status = 200) = FALSE  BY <1>4, <2>2
      <4>4. AnsweredIsLogged'
        <5>1. Booked(response.status = 200)'  BY <4>2, <4>3 DEF Booked
        <5> QED  BY <5>1 DEF AnsweredIsLogged
      <4>5. response'.again /\ generated' = 1 => call'.result.code \in UnheardCodes
        BY <1>1, <1>2, <1>3, <1>6, <2>2 DEF ResultFits
      <4> QED  BY <4>2, <4>4, <4>5 DEF TryAgainIsSafe
    <3>2. CASE r.code = "persistence_error"
      <4>1. response'.status = 500 /\ ~ response'.again  BY <2>2, <3>2, StatusOfErrors, FinalCodes
      <4> QED  BY <4>1 DEF AnsweredIsLogged, TryAgainIsSafe
    <3> QED  BY <1>3, <3>1, <3>2
  <2> QED  BY <1>1, <1>2, <2>2, <2>3, CallTypes, CallTypesKept
    DEF CallInv, Unsent, Unkept, Unwritten, Unanswered, Resulted, KeptIfOk, Settled, ChargedOnce
<1> QED  BY <1>3, <1>5, <1>6

-----------------------------------------------------------------------------
(* ModelCalls: the theorems.                                                 *)

LEMMA CallsInitHolds ==
    ASSUME CallsInit
    PROVE  CallsTypeOK /\ CallInv
<1>1. /\ call = [at |-> "idle", provider |-> "gemini", result |-> NoResult]
      /\ asked429 = 0 /\ generated = 0 /\ kept = FALSE /\ callsBegun = 0
      /\ written = [asked |-> 0, told |-> 0, logs |-> {}]
      /\ response = [status |-> 0, again |-> FALSE]
  BY DEF CallsInit
<1>2. NoResult \in Result  BY DEF NoResult, ResultOf, NoTokens, Result, Codes, Reports
<1>3. MaxAttempts429 \in Nat /\ MaxCalls \in Nat  BY ModelCallsAssumption
<1>4. call \in CallRecords /\ call.at = "idle"  BY <1>1, <1>2 DEF CallRecords, Stages
<1>5. CallsTypeOK
  <2>1. asked429 \in 0 .. MaxAttempts429 /\ generated \in 0 .. MaxAttempts429 /\ callsBegun \in 0 .. MaxCalls
    BY <1>1, <1>3
  <2>2. written \in [asked : 0 .. 1, told : 0 .. 1, logs : SUBSET UsageRows]  BY <1>1
  <2>3. response \in [status : Nat, again : BOOLEAN] /\ kept \in BOOLEAN  BY <1>1
  <2> QED  BY <1>4, <2>1, <2>2, <2>3 DEF CallsTypeOK, CallRecords, Stages
<1>6. response.status = 0 /\ ~ response.again  BY <1>1
<1> QED
  BY <1>1, <1>4, <1>5, <1>6 DEF CallInv, Unsent, Unkept, Unwritten, Unanswered, Resulted, KeptIfOk, Settled,
                                ChargedOnce, AnsweredIsLogged, TryAgainIsSafe

LEMMA CallsStepKeeps ==
    ASSUME CallsTypeOK, CallInv, [CallsNext]_callVars
    PROVE  CallsTypeOK' /\ CallInv'
<1>1. CASE \E p \in ModelProviders : BeginCall(p)  BY <1>1, BeginCallKeeps
<1>2. CASE \E s \in {"filter", "exact", "semantic", "embedding", "provider"} : Ask(s)  BY <1>2, AskKeeps
<1>3. CASE AskFails \/ StoreTurn \/ StoreTurnFails \/ Respond
  BY <1>3, AskFailsKeeps, StoreTurnKeeps, StoreTurnFailsKeeps, RespondKeeps
<1>4. CASE \E b \in BOOLEAN : ResolveProvider(b) \/ Remember(b)
  BY <1>4, ResolveProviderKeeps, RememberKeeps
<1>5. ASSUME NEW a \in Refusals \cup Silences \cup Unreadable, NEW made \in 0 .. 1, Post(a, NoTokens, made)
      PROVE  CallsTypeOK' /\ CallInv'
  <2>1. NoTokens \in Reports  BY DEF NoTokens, Reports
  <2> QED  BY <1>5, <2>1, PostKeeps
<1>6. ASSUME NEW a \in Replies, NEW t \in Reports, Post(a, t, 1)
      PROVE  CallsTypeOK' /\ CallInv'
  <2>1. 1 \in 0 .. 1  OBVIOUS
  <2> QED  BY <1>6, <2>1, PostKeeps
<1>7. CASE CallDies  BY <1>7, CallDiesKeeps
<1>8. CASE UNCHANGED callVars
  BY <1>8 DEF callVars, CallsTypeOK, CallInv, Unsent, Unkept, Unwritten, Unanswered, Resulted, ResultFits, KeptIfOk,
              Settled, Booked, ChargedOnce, AnsweredIsLogged, TryAgainIsSafe
<1> QED  BY <1>1, <1>2, <1>3, <1>4, <1>5, <1>6, <1>7, <1>8 DEF CallsNext, CallGoesOn

\* Every variable of the model calls has its type.
THEOREM CallTypeCorrect == CallsSpec => []CallsTypeOK
<1>1. CallsInit => CallsTypeOK /\ CallInv  BY CallsInitHolds
<1>2. CallsTypeOK /\ CallInv /\ [CallsNext]_callVars => (CallsTypeOK /\ CallInv)'  BY CallsStepKeeps
<1> QED  BY <1>1, <1>2, PTL DEF CallsSpec

\* The provider charges for one reply of a turn at most, an answered turn has its row in the
\* usage log, and a client that is told to try again repeats nothing (send_bot_message,
\* generate_response, is_retryable_category).
THEOREM CallsAreAlwaysAccounted == CallsSpec => []CallsAreAccounted
<1>1. CallsInit => CallsTypeOK /\ CallInv  BY CallsInitHolds
<1>2. CallsTypeOK /\ CallInv /\ [CallsNext]_callVars => (CallsTypeOK /\ CallInv)'  BY CallsStepKeeps
<1>3. CallInv => CallsAreAccounted  BY DEF CallInv, CallsAreAccounted
<1> QED  BY <1>1, <1>2, <1>3, PTL DEF CallsSpec

-----------------------------------------------------------------------------
\* ReplyCache.

CacheTurnOf == {CacheIdle} \cup CacheTurn

LEMMA CacheTypes ==
    ASSUME CacheTypeOK
    PROVE  /\ today \in Nat /\ revision \in Revisions /\ MaxEntries \in Nat \ {0}
           /\ ExactTtl \in Nat /\ EmbeddingTtl \in Nat
           /\ exact \in [FlowStates \X Phrases -> SUBSET CacheEntry] /\ entries \in Seq(CacheEntry)
           /\ cacheTurns \in [CacheTurns -> CacheTurnOf]
           /\ storedUntil \in [Revisions -> CacheTimes] /\ CacheTimes \subseteq Nat
BY CacheAssumption, CacheBoundAssumption, SMTT(30) DEF CacheTypeOK, CacheTimes, CacheTurnOf

CacheSteps == {"exact", "embedding", "provider", "keepExact", "keepEmbedding", "answer"}

LEMMA CacheTurnFields ==
    ASSUME NEW q \in CacheTurn, NEW at
    PROVE  /\ q.own \in Origin /\ q.reply \in Origin /\ q.cached \in BOOLEAN /\ q.at \in CacheSteps
           /\ [q EXCEPT !.at = at] = [at |-> at, own |-> q.own, reply |-> q.reply, cached |-> q.cached]
<1> DEFINE B == BOOLEAN
<1>1. q \in [at : CacheSteps, own : Origin, reply : Origin, cached : B]
  BY Zenon DEF CacheTurn, CacheSteps
<1> HIDE DEF B
<1>2. /\ q.at \in CacheSteps /\ q.own \in Origin /\ q.reply \in Origin /\ q.cached \in B
      /\ [q EXCEPT !.at = at] = [at |-> at, own |-> q.own, reply |-> q.reply, cached |-> q.cached]
  BY <1>1
<1> QED  BY <1>2, Zenon DEF B

LEMMA BusyTurn ==
    ASSUME CacheTypeOK, NEW c \in CacheTurns, cacheTurns[c].at # "idle"
    PROVE  /\ cacheTurns[c] \in CacheTurn
           /\ cacheTurns[c].own \in Origin /\ cacheTurns[c].reply \in Origin
<1>1. cacheTurns[c] \in CacheTurnOf  BY CacheTypes
<1>2. CacheIdle.at = "idle"  BY DEF CacheIdle
<1>3. cacheTurns[c] \in CacheTurn  BY <1>1, <1>2, Zenon DEF CacheTurnOf
<1> QED  BY <1>3, CacheTurnFields, Zenon

\* The turn goes to another step with what it has.
LEMMA TurnGoesOn ==
    ASSUME NEW q \in CacheTurn, NEW at \in {"exact", "embedding", "provider", "keepExact", "keepEmbedding", "answer"}
    PROVE  /\ [q EXCEPT !.at = at] \in CacheTurn
           /\ [q EXCEPT !.at = at].at = at
           /\ [q EXCEPT !.at = at].own = q.own /\ [q EXCEPT !.at = at].reply = q.reply
           /\ [q EXCEPT !.at = at].cached = q.cached
<1> DEFINE r == [q EXCEPT !.at = at]
<1>1. r = [at |-> at, own |-> q.own, reply |-> q.reply, cached |-> q.cached]
  BY CacheTurnFields, Zenon DEF CacheSteps
<1>2. q.own \in Origin /\ q.reply \in Origin /\ q.cached \in BOOLEAN  BY CacheTurnFields, Zenon
<1> HIDE DEF r
<1>3. r \in CacheTurn  BY <1>1, <1>2, Zenon DEF CacheTurn
<1>4. r.at = at /\ r.own = q.own /\ r.reply = q.reply /\ r.cached = q.cached  BY <1>1, Zenon
<1> QED  BY <1>3, <1>4, Zenon DEF r

\* A cache has answered.
LEMMA TurnIsServed ==
    ASSUME CacheTypeOK, NEW c \in CacheTurns, cacheTurns[c] \in CacheTurn, NEW e \in CacheEntry
    PROVE  /\ AfterHit(c, e) \in CacheTurn
           /\ AfterHit(c, e).at = "answer" /\ AfterHit(c, e).cached = TRUE
           /\ AfterHit(c, e).own = cacheTurns[c].own /\ AfterHit(c, e).reply = e.origin
<1>1. e.origin \in Origin  BY DEF CacheEntry
<1>2. cacheTurns[c].own \in Origin  BY CacheTurnFields, Zenon
<1> DEFINE q == [at |-> "answer", own |-> cacheTurns[c].own, reply |-> e.origin, cached |-> TRUE]
<1>3. AfterHit(c, e) = q  BY Zenon DEF AfterHit
<1>4. q \in CacheTurn  BY <1>1, <1>2, Zenon DEF CacheTurn
<1>5. q.at = "answer" /\ q.own = cacheTurns[c].own /\ q.reply = e.origin /\ q.cached = TRUE  BY Zenon
<1> QED  BY <1>3, <1>4, <1>5, Zenon

FitsTurn(q) ==
    q.cached => /\ "knowledge" \notin {q.reply.kind, q.own.kind}
                /\ q.reply.state = q.own.state
                /\ Closeness(q.reply.phrase, q.own.phrase) > 0

\* A step of a turn that leaves the caches alone.
LEMMA TurnKeepsInv ==
    ASSUME CacheTypeOK, CacheInv, NEW c \in CacheTurns, NEW q \in CacheTurnOf,
           cacheTurns' = [cacheTurns EXCEPT ![c] = q], TurnIsOwn(q), FitsTurn(q)
    PROVE  /\ cacheTurns' \in [CacheTurns -> CacheTurnOf]
           /\ \A d \in CacheTurns : TurnIsOwn(cacheTurns'[d])
           /\ CachedReplyFits'
<1>1. cacheTurns \in [CacheTurns -> CacheTurnOf]  BY CacheTypes
<1>2. cacheTurns' \in [CacheTurns -> CacheTurnOf]  BY <1>1
<1>3. ASSUME NEW d \in CacheTurns PROVE TurnIsOwn(cacheTurns'[d]) /\ FitsTurn(cacheTurns'[d])
  <2>1. cacheTurns'[d] = IF d = c THEN q ELSE cacheTurns[d]  BY <1>1
  <2>2. TurnIsOwn(cacheTurns[d]) /\ FitsTurn(cacheTurns[d])
    BY Zenon DEF CacheInv, CachedReplyFits, FitsTurn
  <2> QED  BY <2>1, <2>2
<1> QED  BY <1>2, <1>3, Zenon DEF CachedReplyFits, FitsTurn

\* What is on the list is shown to like words in the same state.
LEMMA EntryFits ==
    ASSUME CacheTypeOK, CacheInv, NEW c \in CacheTurns, cacheTurns[c].at = "embedding", NEW i \in Best(cacheTurns[c].own)
    PROVE  /\ entries[i] \in CacheEntry /\ i \in DOMAIN entries /\ Alive(entries[i])
           /\ Allowed(entries[i].origin) /\ entries[i].origin.state = cacheTurns[c].own.state
           /\ Closeness(entries[i].origin.phrase, cacheTurns[c].own.phrase) > 0
<1>1. i \in Matching(cacheTurns[c].own)  BY DEF Best
<1>2. /\ i \in DOMAIN entries /\ Alive(entries[i]) /\ entries[i].origin.state = cacheTurns[c].own.state
      /\ Closeness(entries[i].origin.phrase, cacheTurns[c].own.phrase) > 0
  BY <1>1 DEF Matching
<1>3. entries[i] \in CacheEntry  BY <1>2, CacheTypes, ElementOfSeq
<1>4. Allowed(entries[i].origin)  BY <1>2 DEF CacheInv, KeptFits
<1> QED  BY <1>2, <1>3, <1>4

LEMMA CopyFits ==
    ASSUME CacheTypeOK, CacheInv, NEW c \in CacheTurns, cacheTurns[c].at = "exact",
           NEW e \in exact[<<cacheTurns[c].own.state, cacheTurns[c].own.phrase>>]
    PROVE  /\ e \in CacheEntry /\ Alive(e) /\ e.exp <= storedUntil[e.origin.revision] + ExactTtl
           /\ Allowed(e.origin) /\ e.origin.state = cacheTurns[c].own.state
           /\ Closeness(e.origin.phrase, cacheTurns[c].own.phrase) > 0
<1> DEFINE own == cacheTurns[c].own
<1>1. own \in Origin  BY BusyTurn
<1>2. <<own.state, own.phrase>> \in FlowStates \X Phrases  BY <1>1 DEF Origin
<1>3. e \in CacheEntry  BY <1>2, CacheTypes
<1>4. /\ Allowed(e.origin) /\ <<own.state, own.phrase>> = <<e.origin.state, e.origin.phrase>>
      /\ Alive(e) /\ e.exp <= storedUntil[e.origin.revision] + ExactTtl
  BY <1>2 DEF CacheInv, KeptFits
<1>5. e.origin.state = own.state /\ e.origin.phrase = own.phrase  BY <1>4
<1>6. Closeness(e.origin.phrase, own.phrase) > 0  BY <1>5 DEF Closeness
<1> QED  BY <1>3, <1>4, <1>5, <1>6

\* A reply is put before the others, and the last one falls off a full list.
LEMMA ListGrows ==
    ASSUME CacheTypeOK, NEW e \in CacheEntry, NEW list, list = TrimmedList(<<e>> \o entries)
    PROVE  /\ list \in Seq(CacheEntry) /\ Len(list) <= MaxEntries
           /\ \A i \in DOMAIN list : \/ i = 1 /\ list[i] = e
                                     \/ i # 1 /\ i - 1 \in DOMAIN entries /\ list[i] = entries[i - 1]
<1> DEFINE all == <<e>> \o entries
           n == IF Len(all) > MaxEntries THEN MaxEntries ELSE Len(all)
<1>1. entries \in Seq(CacheEntry) /\ MaxEntries \in Nat \ {0} /\ <<e>> \in Seq(CacheEntry) /\ Len(<<e>>) = 1
  BY CacheTypes
<1>2. /\ all \in Seq(CacheEntry) /\ Len(all) = 1 + Len(entries) /\ Len(entries) \in Nat
      /\ \A i \in 1 .. 1 + Len(entries) : all[i] = IF i <= 1 THEN <<e>>[i] ELSE entries[i - 1]
  BY <1>1, ConcatProperties, LenProperties
<1>3. \A i \in 1 .. 1 + Len(entries) : \/ i = 1 /\ all[i] = e
                                       \/ i # 1 /\ i - 1 \in 1 .. Len(entries) /\ all[i] = entries[i - 1]
  <2> SUFFICES ASSUME NEW i \in 1 .. 1 + Len(entries)
               PROVE  \/ i = 1 /\ all[i] = e
                      \/ i # 1 /\ i - 1 \in 1 .. Len(entries) /\ all[i] = entries[i - 1]
    BY Zenon
  <2>1. all[i] = IF i <= 1 THEN <<e>>[i] ELSE entries[i - 1]  BY <1>2
  <2> HIDE DEF all
  <2>2. CASE i = 1  BY <2>1, <2>2
  <2>3. CASE i # 1  BY <1>2, <2>1, <2>3
  <2> QED  BY <2>2, <2>3
<1>4. n \in Nat /\ n <= MaxEntries /\ n <= Len(all) /\ 1 <= n  BY <1>1, <1>2
<1>5. list = SubSeq(all, 1, n)  BY DEF TrimmedList
<1> HIDE DEF all, n
<1>6. \A i \in 1 .. n : all[i] \in CacheEntry  BY <1>2, <1>4, ElementOfSeq
<1>7. /\ list \in Seq(CacheEntry) /\ Len(list) = n
      /\ \A i \in 1 .. n : list[i] = all[i]
  <2>1. PICK m \in Int : m = 1  OBVIOUS
  <2>2. /\ SubSeq(all, m, n) \in Seq(CacheEntry) /\ Len(SubSeq(all, m, n)) = (IF m <= n THEN n - m + 1 ELSE 0)
        /\ \A i \in 1 .. n - m + 1 : SubSeq(all, m, n)[i] = all[m + i - 1]
    <3>1. \A i \in m .. n : all[i] \in CacheEntry  BY <1>6, <2>1
    <3>2. n \in Int  BY <1>4
    <3> QED  BY <3>1, <3>2, SubSeqProperties
  <2>3. ASSUME NEW i \in 1 .. n PROVE SubSeq(all, m, n)[i] = all[i]
    <3>1. i \in 1 .. n - m + 1 /\ m + i - 1 = i  BY <1>4, <2>1
    <3> QED  BY <2>2, <3>1
  <2>4. (IF m <= n THEN n - m + 1 ELSE 0) = n  BY <1>4, <2>1
  <2>5. list = SubSeq(all, m, n)  BY <1>5, <2>1
  <2> QED  BY <2>2, <2>3, <2>4, <2>5
<1>8. DOMAIN list = 1 .. n /\ DOMAIN entries = 1 .. Len(entries)  BY <1>1, <1>7
<1> QED  BY <1>2, <1>3, <1>4, <1>7, <1>8

LEMMA EntryFields ==
    ASSUME NEW e \in CacheEntry
    PROVE  /\ e.origin \in Origin /\ e.exp \in Nat /\ e.origin.state \in FlowStates
           /\ e.origin.phrase \in Phrases /\ e.origin.revision \in Revisions
BY DEF CacheEntry, Origin

\* A step of a turn that leaves the caches alone keeps types and invariant.
LEMMA TurnMoves ==
    ASSUME CacheTypeOK, CacheInv, NEW c \in CacheTurns, NEW q \in CacheTurnOf,
           cacheTurns' = [cacheTurns EXCEPT ![c] = q], TurnIsOwn(q), FitsTurn(q),
           UNCHANGED <<today, revision, exact, entries, storedUntil>>,
           turnsMade' \in 0 .. MaxCacheTurns, skips' \in 0 .. MaxSkips
    PROVE  CacheTypeOK' /\ CacheInv'
<1>1. /\ cacheTurns' \in [CacheTurns -> CacheTurnOf]
      /\ \A d \in CacheTurns : TurnIsOwn(cacheTurns'[d])
      /\ CachedReplyFits'
  BY TurnKeepsInv
<1>2. KeptFits'  BY DEF CacheInv, KeptFits, Alive
<1>3. CacheTypeOK'  BY <1>1 DEF CacheTypeOK, CacheTurnOf
<1>4. CacheInv'  BY <1>1, <1>2 DEF CacheInv, TurnIsOwn, Allowed
<1> QED  BY <1>3, <1>4

LEMMA IdleFits == CacheIdle \in CacheTurnOf /\ TurnIsOwn(CacheIdle) /\ FitsTurn(CacheIdle)
<1>1. CacheIdle.at = "idle" /\ CacheIdle.cached = FALSE  BY Zenon DEF CacheIdle
<1> QED  BY <1>1, Zenon DEF CacheTurnOf, TurnIsOwn, FitsTurn

LEMMA BeginKeeps ==
    ASSUME CacheTypeOK, CacheInv, NEW c \in CacheTurns, NEW own \in Origin, BeginCacheTurn(c, own)
    PROVE  CacheTypeOK' /\ CacheInv'
<1> DEFINE at == IF own.kind = "closing" THEN "keepExact" ELSE IF Allowed(own) THEN "exact" ELSE "provider"
           q == [at |-> at, own |-> own, reply |-> own, cached |-> FALSE]
<1>1. cacheTurns' = [cacheTurns EXCEPT ![c] = q]  BY Zenon DEF BeginCacheTurn
<1>2. /\ at \in {"exact", "provider", "keepExact"}
      /\ at \in {"exact", "keepExact"} => Allowed(own)
  BY DEF Allowed
<1> HIDE DEF at
<1>3. q \in CacheTurn  BY <1>2, Zenon DEF CacheTurn
<1>4. q.at = at /\ q.own = own /\ q.reply = own /\ q.cached = FALSE  BY Zenon
<1> HIDE DEF q
<1>5. q \in CacheTurnOf  BY <1>3 DEF CacheTurnOf
<1>6. FitsTurn(q)  BY <1>4, Zenon DEF FitsTurn
<1>7. TurnIsOwn(q)
  <2>1. q.at # "answer" => ~ q.cached  BY <1>4, Zenon
  <2>2. q.reply = q.own  BY <1>4, Zenon
  <2>3. q.at \notin {"provider", "answer"} => Allowed(q.own)  BY <1>2, <1>4
  <2> QED  BY <2>1, <2>2, <2>3, Zenon DEF TurnIsOwn
<1>8. UNCHANGED <<today, revision, exact, entries, storedUntil, skips>>  BY DEF BeginCacheTurn
<1>9. turnsMade' \in 0 .. MaxCacheTurns /\ skips' \in 0 .. MaxSkips
  BY CacheBoundAssumption DEF BeginCacheTurn, CacheTypeOK
<1> QED  BY <1>1, <1>5, <1>6, <1>7, <1>8, <1>9, TurnMoves

\* A turn goes to its next step with what it has.
LEMMA GoKeeps ==
    ASSUME CacheTypeOK, CacheInv, NEW c \in CacheTurns,
           NEW at \in {"exact", "embedding", "provider", "keepExact", "keepEmbedding", "answer"},
           cacheTurns[c].at \notin {"idle", "answer"}, CacheGo(c, at),
           at \notin {"provider", "answer"} => Allowed(cacheTurns[c].own)
    PROVE  /\ cacheTurns' \in [CacheTurns -> CacheTurnOf]
           /\ \A d \in CacheTurns : TurnIsOwn(cacheTurns'[d])
           /\ CachedReplyFits'
           /\ \E q \in CacheTurnOf : /\ cacheTurns' = [cacheTurns EXCEPT ![c] = q]
                                     /\ TurnIsOwn(q) /\ FitsTurn(q) /\ ~ q.cached
<1> DEFINE p == cacheTurns[c]
           q == [p EXCEPT !.at = at]
<1>1. p \in CacheTurn  BY BusyTurn
<1>2. q \in CacheTurn /\ q.at = at /\ q.own = p.own /\ q.reply = p.reply /\ q.cached = p.cached
  <2> HIDE DEF p
  <2> QED  BY <1>1, TurnGoesOn, ZenonT(60)
<1>3. cacheTurns' = [cacheTurns EXCEPT ![c] = q]  BY CacheTypes DEF CacheGo
<1>4. TurnIsOwn(p)  BY Zenon DEF CacheInv
<1>5. ~ p.cached /\ p.reply = p.own  BY <1>4, Zenon DEF TurnIsOwn
<1> HIDE DEF q
<1>6. ~ q.cached /\ q.reply = q.own  BY <1>2, <1>5, Zenon
<1>7. q.at \notin {"provider", "answer"} => Allowed(q.own)  BY <1>2, Zenon
<1>8. TurnIsOwn(q) /\ FitsTurn(q)  BY <1>6, <1>7, Zenon DEF TurnIsOwn, FitsTurn
<1>9. q \in CacheTurnOf  BY <1>2 DEF CacheTurnOf
<1>10. /\ cacheTurns' \in [CacheTurns -> CacheTurnOf]
       /\ \A d \in CacheTurns : TurnIsOwn(cacheTurns'[d])
       /\ CachedReplyFits'
  BY <1>3, <1>8, <1>9, TurnKeepsInv
<1> QED  BY <1>3, <1>6, <1>8, <1>9, <1>10, Zenon

LEMMA HitKeeps ==
    ASSUME CacheTypeOK, CacheInv, NEW c \in CacheTurns, NEW e \in CacheEntry,
           cacheTurns[c].at \in {"exact", "embedding"},
           cacheTurns' = [cacheTurns EXCEPT ![c] = AfterHit(c, e)],
           Allowed(e.origin), e.origin.state = cacheTurns[c].own.state,
           Closeness(e.origin.phrase, cacheTurns[c].own.phrase) > 0,
           UNCHANGED <<today, revision, exact, entries, storedUntil, turnsMade, skips>>
    PROVE  CacheTypeOK' /\ CacheInv'
<1> DEFINE p == cacheTurns[c]
           q == AfterHit(c, e)
<1>1. p \in CacheTurn  BY BusyTurn
<1>2. q \in CacheTurn /\ q.at = "answer" /\ q.own = p.own /\ q.reply = e.origin /\ q.cached = TRUE
  BY <1>1, TurnIsServed, Zenon
<1> HIDE DEF q
<1>3. Allowed(p.own)  BY DEF CacheInv, TurnIsOwn
<1>4. FitsTurn(q)  BY <1>2, <1>3 DEF FitsTurn, Allowed
<1>5. TurnIsOwn(q)
  <2>1. q.at = "answer" /\ q.cached  BY <1>2, Zenon
  <2> QED  BY <2>1, Zenon DEF TurnIsOwn
<1>6. q \in CacheTurnOf  BY <1>2 DEF CacheTurnOf
<1>7. turnsMade' \in 0 .. MaxCacheTurns /\ skips' \in 0 .. MaxSkips  BY DEF CacheTypeOK
<1>8. cacheTurns' = [cacheTurns EXCEPT ![c] = q]  BY DEF q
<1> QED  BY <1>4, <1>5, <1>6, <1>7, <1>8, TurnMoves

LEMMA LookupExactKeeps ==
    ASSUME CacheTypeOK, CacheInv, NEW c \in CacheTurns, LookupExact(c)
    PROVE  CacheTypeOK' /\ CacheInv'
<1> DEFINE own == cacheTurns[c].own
           found == exact[<<own.state, own.phrase>>]
<1>1. /\ cacheTurns[c].at = "exact"
      /\ UNCHANGED <<today, revision, exact, entries, storedUntil, turnsMade, skips>>
      /\ \/ CacheGo(c, "embedding")
         \/ \E e \in found : cacheTurns' = [cacheTurns EXCEPT ![c] = AfterHit(c, e)]
  BY Zenon DEF LookupExact
<1>2. Allowed(own)  BY <1>1 DEF CacheInv, TurnIsOwn
<1>3. turnsMade' \in 0 .. MaxCacheTurns /\ skips' \in 0 .. MaxSkips  BY <1>1 DEF CacheTypeOK
<1>4. CASE CacheGo(c, "embedding")
  <2>1. PICK q \in CacheTurnOf : cacheTurns' = [cacheTurns EXCEPT ![c] = q] /\ TurnIsOwn(q) /\ FitsTurn(q)
    BY <1>1, <1>2, <1>4, GoKeeps
  <2> QED  BY <1>1, <1>3, <2>1, TurnMoves
<1>5. CASE \E e \in found : cacheTurns' = [cacheTurns EXCEPT ![c] = AfterHit(c, e)]
  <2>1. PICK e \in found : cacheTurns' = [cacheTurns EXCEPT ![c] = AfterHit(c, e)]  BY <1>5
  <2>2. /\ e \in CacheEntry /\ Allowed(e.origin) /\ e.origin.state = own.state
        /\ Closeness(e.origin.phrase, own.phrase) > 0
    BY <1>1, CopyFits
  <2> QED  BY <1>1, <2>1, <2>2, HitKeeps
<1> QED  BY <1>1, <1>4, <1>5, Zenon

LEMMA LookupEmbeddingKeeps ==
    ASSUME CacheTypeOK, CacheInv, NEW c \in CacheTurns, LookupEmbedding(c)
    PROVE  CacheTypeOK' /\ CacheInv'
<1> DEFINE own == cacheTurns[c].own
<1>1. /\ cacheTurns[c].at = "embedding"
      /\ UNCHANGED <<today, revision, exact, entries, storedUntil, turnsMade, skips>>
      /\ \/ CacheGo(c, "provider")
         \/ \E i \in Best(own) : cacheTurns' = [cacheTurns EXCEPT ![c] = AfterHit(c, entries[i])]
  BY Zenon DEF LookupEmbedding
<1>3. turnsMade' \in 0 .. MaxCacheTurns /\ skips' \in 0 .. MaxSkips  BY <1>1 DEF CacheTypeOK
<1>4. CASE CacheGo(c, "provider")
  <2>1. PICK q \in CacheTurnOf : cacheTurns' = [cacheTurns EXCEPT ![c] = q] /\ TurnIsOwn(q) /\ FitsTurn(q)
    BY <1>1, <1>4, GoKeeps
  <2> QED  BY <1>1, <1>3, <2>1, TurnMoves
<1>5. CASE \E i \in Best(own) : cacheTurns' = [cacheTurns EXCEPT ![c] = AfterHit(c, entries[i])]
  <2>1. PICK i \in Best(own) : cacheTurns' = [cacheTurns EXCEPT ![c] = AfterHit(c, entries[i])]  BY <1>5
  <2>2. /\ entries[i] \in CacheEntry /\ Allowed(entries[i].origin) /\ entries[i].origin.state = own.state
        /\ Closeness(entries[i].origin.phrase, own.phrase) > 0
    BY <1>1, EntryFits
  <2> QED  BY <1>1, <2>1, <2>2, HitKeeps
<1> QED  BY <1>1, <1>4, <1>5, Zenon

LEMMA ProvideKeeps ==
    ASSUME CacheTypeOK, CacheInv, NEW c \in CacheTurns, Provide(c)
    PROVE  CacheTypeOK' /\ CacheInv'
<1> DEFINE at == IF Allowed(cacheTurns[c].own) THEN "keepExact" ELSE "answer"
<1>1. /\ cacheTurns[c].at = "provider" /\ CacheGo(c, at)
      /\ UNCHANGED <<today, revision, exact, entries, storedUntil, turnsMade, skips>>
  BY Zenon DEF Provide
<1>2. at \in {"keepExact", "answer"} /\ (at # "answer" => Allowed(cacheTurns[c].own))  OBVIOUS
<1> HIDE DEF at
<1>3. turnsMade' \in 0 .. MaxCacheTurns /\ skips' \in 0 .. MaxSkips  BY <1>1 DEF CacheTypeOK
<1>4. PICK q \in CacheTurnOf : cacheTurns' = [cacheTurns EXCEPT ![c] = q] /\ TurnIsOwn(q) /\ FitsTurn(q)
  BY <1>1, <1>2, GoKeeps
<1> QED  BY <1>1, <1>3, <1>4, TurnMoves

LEMMA SkipKeeps ==
    ASSUME CacheTypeOK, CacheInv, NEW c \in CacheTurns, Skip(c)
    PROVE  CacheTypeOK' /\ CacheInv'
<1>1. skips < MaxSkips /\ skips' = skips + 1 /\ UNCHANGED <<today, revision, exact, entries, storedUntil, turnsMade>>
  BY DEF Skip
<1>2. turnsMade' \in 0 .. MaxCacheTurns /\ skips' \in 0 .. MaxSkips
  BY <1>1, CacheBoundAssumption DEF CacheTypeOK
<1>3. PICK at \in {"embedding", "provider", "keepEmbedding", "answer"} :
          /\ CacheGo(c, at) /\ cacheTurns[c].at \in {"exact", "embedding", "provider", "keepExact", "keepEmbedding"}
          /\ at \in {"embedding", "keepEmbedding"} => cacheTurns[c].at \in {"exact", "keepExact"}
  BY DEF Skip
<1>4. at \notin {"provider", "answer"} => Allowed(cacheTurns[c].own)  BY <1>3 DEF CacheInv, TurnIsOwn
<1>5. PICK q \in CacheTurnOf : cacheTurns' = [cacheTurns EXCEPT ![c] = q] /\ TurnIsOwn(q) /\ FitsTurn(q)
  BY <1>3, <1>4, GoKeeps
<1> QED  BY <1>1, <1>2, <1>5, TurnMoves

LEMMA AnswerKeeps ==
    ASSUME CacheTypeOK, CacheInv, NEW c \in CacheTurns, AnswerCacheTurn(c)
    PROVE  CacheTypeOK' /\ CacheInv'
<1>1. /\ cacheTurns' = [cacheTurns EXCEPT ![c] = CacheIdle]
      /\ UNCHANGED <<today, revision, exact, entries, storedUntil, turnsMade, skips>>
  BY Zenon DEF AnswerCacheTurn
<1>2. turnsMade' \in 0 .. MaxCacheTurns /\ skips' \in 0 .. MaxSkips  BY <1>1 DEF CacheTypeOK
<1> QED  BY <1>1, <1>2, IdleFits, TurnMoves

\* A turn that stores a reply has made it.
LEMMA StoredByMaker ==
    ASSUME CacheTypeOK, CacheInv, NEW c \in CacheTurns,
           cacheTurns[c].at \in {"keepExact", "keepEmbedding"}, NoteStored(c)
    PROVE  /\ cacheTurns[c].own \in Origin /\ cacheTurns[c].reply = cacheTurns[c].own
           /\ Allowed(cacheTurns[c].own)
           /\ storedUntil' \in [Revisions -> CacheTimes]
           /\ storedUntil'[cacheTurns[c].own.revision] = today
           /\ \A r \in Revisions : storedUntil[r] <= storedUntil'[r] /\ storedUntil'[r] <= today
<1> DEFINE p == cacheTurns[c]
<1>1. p.own \in Origin /\ p.own.revision \in Revisions  BY BusyTurn DEF Origin
<1>2. TurnIsOwn(p)  BY Zenon DEF CacheInv
<1>3. ~ p.cached /\ p.reply = p.own /\ Allowed(p.own)  BY <1>2, Zenon DEF TurnIsOwn
<1>4. storedUntil' = [storedUntil EXCEPT ![p.own.revision] = today]  BY <1>3, Zenon DEF NoteStored
<1>5. storedUntil \in [Revisions -> CacheTimes] /\ today \in CacheTimes /\ CacheTimes \subseteq Nat
  BY CacheTypes DEF CacheTypeOK
<1>6. \A r \in Revisions : storedUntil[r] <= today  BY DEF CacheInv, KeptFits
<1> HIDE DEF p
<1>7. /\ storedUntil' \in [Revisions -> CacheTimes] /\ storedUntil'[p.own.revision] = today
      /\ \A r \in Revisions : storedUntil[r] <= storedUntil'[r] /\ storedUntil'[r] <= today
  BY <1>1, <1>4, <1>5, <1>6
<1> QED  BY <1>1, <1>3, <1>7 DEF p

LEMMA LaterBound ==
    ASSUME NEW x \in Nat, NEW a \in Nat, NEW b \in Nat, NEW t \in Nat, x <= a + t, a <= b
    PROVE  x <= b + t
OBVIOUS

LEMMA KeepExactKeeps ==
    ASSUME CacheTypeOK, CacheInv, NEW c \in CacheTurns, KeepExact(c)
    PROVE  CacheTypeOK' /\ CacheInv'
<1> DEFINE own == cacheTurns[c].own
           e == [origin |-> own, exp |-> today + ExactTtl]
<1>1. /\ cacheTurns[c].at = "keepExact" /\ CacheGo(c, "keepEmbedding") /\ NoteStored(c)
      /\ UNCHANGED <<today, revision, entries, turnsMade, skips>>
  BY Zenon DEF KeepExact
<1>2. /\ own \in Origin /\ cacheTurns[c].reply = own /\ Allowed(own)
      /\ storedUntil' \in [Revisions -> CacheTimes]
      /\ storedUntil'[own.revision] = today
      /\ \A r \in Revisions : storedUntil[r] <= storedUntil'[r] /\ storedUntil'[r] <= today
  BY <1>1, StoredByMaker
<1>3. exact' = [exact EXCEPT ![<<own.state, own.phrase>>] = {e}]  BY <1>2, Zenon DEF KeepExact
<1>4. /\ cacheTurns' \in [CacheTurns -> CacheTurnOf]
      /\ \A d \in CacheTurns : TurnIsOwn(cacheTurns'[d])
      /\ CachedReplyFits'
  BY <1>1, <1>2, GoKeeps
<1>5. /\ today \in Nat /\ ExactTtl \in Nat \ {0} /\ exact \in [FlowStates \X Phrases -> SUBSET CacheEntry]
      /\ entries \in Seq(CacheEntry)
      /\ storedUntil \in [Revisions -> CacheTimes] /\ CacheTimes \subseteq Nat /\ EmbeddingTtl \in Nat
  BY CacheTypes, CacheAssumption
<1>6. e \in CacheEntry /\ e.origin = own /\ e.exp = today + ExactTtl  BY <1>2, <1>5 DEF CacheEntry
<1> HIDE DEF e
<1>7. exact' \in [FlowStates \X Phrases -> SUBSET CacheEntry]  BY <1>3, <1>5, <1>6
<1>9. ASSUME NEW k \in FlowStates \X Phrases, NEW x \in exact'[k]
      PROVE  /\ Allowed(x.origin) /\ k = <<x.origin.state, x.origin.phrase>>
             /\ today' < x.exp /\ x.exp <= storedUntil'[x.origin.revision] + ExactTtl
  <2>1. CASE k = <<own.state, own.phrase>>
    <3>1. x = e  BY <1>3, <1>5, <1>9, <2>1
    <3>2. today < today + ExactTtl /\ today + ExactTtl <= today + ExactTtl  BY <1>5
    <3> QED  BY <1>1, <1>2, <1>6, <2>1, <3>1, <3>2
  <2>2. CASE k # <<own.state, own.phrase>>
    <3>1. x \in exact[k]  BY <1>3, <1>5, <1>9, <2>2
    <3>2. x \in CacheEntry  BY <1>5, <3>1
    <3>3. /\ Allowed(x.origin) /\ k = <<x.origin.state, x.origin.phrase>>
          /\ today < x.exp /\ x.exp <= storedUntil[x.origin.revision] + ExactTtl
      BY <3>1 DEF CacheInv, KeptFits, Alive
    <3>4. x.exp \in Nat /\ x.origin.revision \in Revisions  BY <3>2, EntryFields
    <3>5. storedUntil[x.origin.revision] <= storedUntil'[x.origin.revision]
          /\ storedUntil[x.origin.revision] \in Nat /\ storedUntil'[x.origin.revision] \in Nat
      BY <1>2, <1>5, <3>4
    <3>6. x.exp <= storedUntil'[x.origin.revision] + ExactTtl
      <4>1. ExactTtl \in Nat  BY <1>5
      <4> QED  BY <3>3, <3>4, <3>5, <4>1, LaterBound, Zenon
    <3> QED  BY <1>1, <3>3, <3>6
  <2> QED  BY <2>1, <2>2
<1>10. ASSUME NEW i \in DOMAIN entries
       PROVE  entries[i].exp <= storedUntil'[entries[i].origin.revision] + EmbeddingTtl
  <2>1. entries[i] \in CacheEntry  BY <1>5, ElementOfSeq
  <2>2. entries[i].exp \in Nat /\ entries[i].origin.revision \in Revisions  BY <2>1, EntryFields
  <2>3. storedUntil[entries[i].origin.revision] <= storedUntil'[entries[i].origin.revision]
        /\ storedUntil[entries[i].origin.revision] \in Nat /\ storedUntil'[entries[i].origin.revision] \in Nat
    BY <1>2, <1>5, <2>2
  <2>4. entries[i].exp <= storedUntil[entries[i].origin.revision] + EmbeddingTtl
    BY DEF CacheInv, KeptFits
  <2> QED  BY <1>5, <2>2, <2>3, <2>4, LaterBound, Zenon
<1>11. KeptFits'  BY <1>1, <1>2, <1>9, <1>10 DEF CacheInv, KeptFits, Alive, Allowed
<1>12. CacheTypeOK'  BY <1>1, <1>2, <1>4, <1>7 DEF CacheTypeOK, CacheTurnOf
<1>13. CacheInv'  BY <1>4, <1>11 DEF CacheInv, TurnIsOwn, Allowed
<1> QED  BY <1>12, <1>13

LEMMA KeepEmbeddingKeeps ==
    ASSUME CacheTypeOK, CacheInv, NEW c \in CacheTurns, KeepEmbedding(c)
    PROVE  CacheTypeOK' /\ CacheInv'
<1> DEFINE own == cacheTurns[c].own
           e == [origin |-> own, exp |-> today + EmbeddingTtl]
<1>1. /\ cacheTurns[c].at = "keepEmbedding" /\ CacheGo(c, "answer") /\ NoteStored(c)
      /\ UNCHANGED <<today, revision, exact, turnsMade, skips>>
  BY Zenon DEF KeepEmbedding
<1>2. /\ own \in Origin /\ cacheTurns[c].reply = own /\ Allowed(own)
      /\ storedUntil' \in [Revisions -> CacheTimes]
      /\ storedUntil'[own.revision] = today
      /\ \A r \in Revisions : storedUntil[r] <= storedUntil'[r] /\ storedUntil'[r] <= today
  BY <1>1, StoredByMaker
<1>3. entries' = TrimmedList(<<e>> \o entries)  BY <1>2, Zenon DEF KeepEmbedding
<1>4. /\ cacheTurns' \in [CacheTurns -> CacheTurnOf]
      /\ \A d \in CacheTurns : TurnIsOwn(cacheTurns'[d])
      /\ CachedReplyFits'
  BY <1>1, <1>2, GoKeeps
<1>5. /\ today \in Nat /\ ExactTtl \in Nat /\ exact \in [FlowStates \X Phrases -> SUBSET CacheEntry]
      /\ entries \in Seq(CacheEntry)
      /\ storedUntil \in [Revisions -> CacheTimes] /\ CacheTimes \subseteq Nat /\ EmbeddingTtl \in Nat
  BY CacheTypes
<1>6. e \in CacheEntry /\ e.origin = own /\ e.exp = today + EmbeddingTtl  BY <1>2, <1>5 DEF CacheEntry
<1> HIDE DEF e
<1>7. /\ entries' \in Seq(CacheEntry) /\ Len(entries') <= MaxEntries
      /\ \A i \in DOMAIN entries' : \/ i = 1 /\ entries'[i] = e
                                    \/ i # 1 /\ i - 1 \in DOMAIN entries /\ entries'[i] = entries[i - 1]
  BY <1>3, <1>6, ListGrows
<1>9. ASSUME NEW x \in CacheEntry, NEW ttl \in Nat, x.exp <= storedUntil[x.origin.revision] + ttl
      PROVE  x.exp <= storedUntil'[x.origin.revision] + ttl
  <2>1. x.exp \in Nat /\ x.origin.revision \in Revisions  BY EntryFields
  <2>2. storedUntil[x.origin.revision] <= storedUntil'[x.origin.revision]
        /\ storedUntil[x.origin.revision] \in Nat /\ storedUntil'[x.origin.revision] \in Nat
    BY <1>2, <1>5, <2>1
  <2> QED  BY <1>9, <2>1, <2>2
<1>10. ASSUME NEW k \in FlowStates \X Phrases, NEW x \in exact'[k]
       PROVE  /\ Allowed(x.origin) /\ k = <<x.origin.state, x.origin.phrase>>
              /\ today' < x.exp /\ x.exp <= storedUntil'[x.origin.revision] + ExactTtl
  <2>1. x \in exact[k]  BY <1>1, <1>10
  <2>2. x \in CacheEntry  BY <1>5, <2>1
  <2>3. /\ Allowed(x.origin) /\ k = <<x.origin.state, x.origin.phrase>>
        /\ today < x.exp /\ x.exp <= storedUntil[x.origin.revision] + ExactTtl
    BY <2>1 DEF CacheInv, KeptFits, Alive
  <2>4. x.exp <= storedUntil'[x.origin.revision] + ExactTtl  BY <1>5, <1>9, <2>2, <2>3
  <2> QED  BY <1>1, <2>3, <2>4
<1>11. ASSUME NEW i \in DOMAIN entries
       PROVE  /\ entries[i] \in CacheEntry /\ Allowed(entries[i].origin)
              /\ entries[i].exp <= today + EmbeddingTtl
              /\ entries[i].exp <= storedUntil'[entries[i].origin.revision] + EmbeddingTtl
  <2>1. entries[i] \in CacheEntry  BY <1>5, ElementOfSeq
  <2>2. /\ Allowed(entries[i].origin) /\ entries[i].exp <= today + EmbeddingTtl
        /\ entries[i].exp <= storedUntil[entries[i].origin.revision] + EmbeddingTtl
    BY DEF CacheInv, KeptFits
  <2>3. entries[i].exp <= storedUntil'[entries[i].origin.revision] + EmbeddingTtl
    BY <1>5, <1>9, <2>1, <2>2
  <2> QED  BY <2>1, <2>2, <2>3
<1>12. ASSUME NEW i \in DOMAIN entries'
       PROVE  /\ Allowed(entries'[i].origin) /\ entries'[i].exp <= today + EmbeddingTtl
              /\ entries'[i].exp <= storedUntil'[entries'[i].origin.revision] + EmbeddingTtl
  <2>1. CASE i = 1 /\ entries'[i] = e
    <3>1. today + EmbeddingTtl <= today + EmbeddingTtl  BY <1>5
    <3> QED  BY <1>2, <1>6, <2>1, <3>1
  <2>2. CASE i # 1 /\ i - 1 \in DOMAIN entries /\ entries'[i] = entries[i - 1]  BY <1>11, <2>2
  <2> QED  BY <1>7, <2>1, <2>2
<1>13. ASSUME NEW i \in DOMAIN entries', NEW j \in DOMAIN entries', i <= j
       PROVE  entries'[j].exp <= entries'[i].exp
  <2>1. i \in Nat /\ j \in Nat /\ 1 <= i /\ 1 <= j  BY <1>7, <1>13, LenProperties
  <2>2. CASE i = 1
    <3>1. entries'[i].exp = today + EmbeddingTtl  BY <1>6, <1>7, <2>2
    <3> QED  BY <1>12, <3>1
  <2>3. CASE i # 1
    <3>1. /\ j # 1 /\ i - 1 \in DOMAIN entries /\ j - 1 \in DOMAIN entries /\ i - 1 <= j - 1
          /\ entries'[i] = entries[i - 1] /\ entries'[j] = entries[j - 1]
      BY <1>7, <1>13, <2>1, <2>3
    <3> QED  BY <3>1 DEF CacheInv, KeptFits
  <2> QED  BY <2>2, <2>3
<1>14. KeptFits'  BY <1>1, <1>2, <1>10, <1>12, <1>13 DEF CacheInv, KeptFits, Alive, Allowed
<1>15. CacheTypeOK'  BY <1>1, <1>2, <1>4, <1>7 DEF CacheTypeOK, CacheTurnOf
<1>16. CacheInv'  BY <1>4, <1>14 DEF CacheInv, TurnIsOwn, Allowed
<1> QED  BY <1>15, <1>16

LEMMA ChangeBotKeeps ==
    ASSUME CacheTypeOK, CacheInv, ChangeBot
    PROVE  CacheTypeOK' /\ CacheInv'
<1>1. revision' \in Revisions  BY CacheBoundAssumption DEF CacheTypeOK, ChangeBot, Revisions
<1>2. UNCHANGED <<today, exact, entries, cacheTurns, storedUntil, turnsMade, skips>>  BY DEF ChangeBot
<1>3. CacheTypeOK'  BY <1>1, <1>2 DEF CacheTypeOK
<1>4. KeptFits' /\ CachedReplyFits'  BY <1>2 DEF CacheInv, KeptFits, CachedReplyFits, Alive
<1> QED  BY <1>2, <1>3, <1>4 DEF CacheInv

LEMMA CacheTickKeeps ==
    ASSUME CacheTypeOK, CacheInv, CacheTick
    PROVE  CacheTypeOK' /\ CacheInv'
<1>1. /\ today' = today + 1 /\ today' \in CacheTimes
      /\ UNCHANGED <<revision, entries, cacheTurns, storedUntil, turnsMade, skips>>
      /\ exact' = [k \in DOMAIN exact |-> {e \in exact[k] : today + 1 < e.exp}]
  BY CacheBoundAssumption DEF CacheTypeOK, CacheTick, CacheTimes
<1>2. /\ today \in Nat /\ EmbeddingTtl \in Nat /\ exact \in [FlowStates \X Phrases -> SUBSET CacheEntry]
      /\ entries \in Seq(CacheEntry) /\ storedUntil \in [Revisions -> CacheTimes] /\ CacheTimes \subseteq Nat
  BY CacheTypes
<1>3. exact' \in [FlowStates \X Phrases -> SUBSET CacheEntry]  BY <1>1, <1>2
<1>4. CacheTypeOK'  BY <1>1, <1>3 DEF CacheTypeOK
<1>5. ASSUME NEW k \in FlowStates \X Phrases, NEW x \in exact'[k]
      PROVE  /\ Allowed(x.origin) /\ k = <<x.origin.state, x.origin.phrase>>
             /\ today' < x.exp /\ x.exp <= storedUntil'[x.origin.revision] + ExactTtl
  <2>1. x \in exact[k] /\ today' < x.exp  BY <1>1, <1>2, <1>5
  <2> QED  BY <1>1, <2>1 DEF CacheInv, KeptFits
<1>6. ASSUME NEW i \in DOMAIN entries PROVE entries[i].exp <= today' + EmbeddingTtl
  <2>1. entries[i] \in CacheEntry  BY <1>2, ElementOfSeq
  <2>2. entries[i].exp \in Nat /\ entries[i].exp <= today + EmbeddingTtl
    BY <2>1, EntryFields DEF CacheInv, KeptFits
  <2> QED  BY <1>1, <1>2, <2>2
<1>7. ASSUME NEW r \in Revisions PROVE storedUntil'[r] <= today'
  <2>1. storedUntil[r] \in Nat  BY <1>2
  <2>2. storedUntil[r] <= today  BY DEF CacheInv, KeptFits
  <2> QED  BY <1>1, <1>2, <2>1, <2>2
<1>8. KeptFits'  BY <1>1, <1>5, <1>6, <1>7 DEF CacheInv, KeptFits, Alive, Allowed
<1>9. CacheInv'  BY <1>1, <1>8 DEF CacheInv, CachedReplyFits
<1> QED  BY <1>4, <1>9

\* Whatever turns, changes of the settings and the clock do, a turn has what is its own until
\* a cache has answered, and what is kept may be shown and is no older than its revision
\* (try_completion_cache, remember_completion_caches).
THEOREM CacheInvariant == CacheSpec => [](CacheTypeOK /\ CacheInv)
<1>1. CacheInit => CacheTypeOK /\ CacheInv
  <2> SUFFICES ASSUME CacheInit PROVE CacheTypeOK /\ CacheInv  OBVIOUS
  <2>1. /\ today = 0 /\ revision = 0 /\ turnsMade = 0 /\ skips = 0 /\ entries = <<>>
        /\ exact = [k \in FlowStates \X Phrases |-> {}] /\ storedUntil = [r \in Revisions |-> 0]
    BY DEF CacheInit
  <2>2. cacheTurns \in [CacheTurns -> CacheTurnOf] /\ \A c \in CacheTurns : cacheTurns[c] = CacheIdle
    BY DEF CacheInit, CacheTurnOf
  <2>3. /\ 0 \in CacheTimes /\ 0 \in Revisions /\ 0 \in 0 .. MaxCacheTurns /\ 0 \in 0 .. MaxSkips
        /\ MaxEntries \in Nat
    BY CacheAssumption, CacheBoundAssumption DEF CacheTimes, Revisions
  <2>4. CacheTypeOK  BY <2>1, <2>2, <2>3 DEF CacheTypeOK, CacheTurnOf
  <2>5. KeptFits  BY <2>1 DEF KeptFits
  <2>6. \A c \in CacheTurns : TurnIsOwn(cacheTurns[c]) /\ FitsTurn(cacheTurns[c])
    BY <2>2, IdleFits, Zenon
  <2> QED  BY <2>4, <2>5, <2>6, Zenon DEF CacheInv, CachedReplyFits, FitsTurn
<1>2. CacheTypeOK /\ CacheInv /\ [CacheNext]_cacheVars => (CacheTypeOK /\ CacheInv)'
  <2> SUFFICES ASSUME CacheTypeOK, CacheInv, [CacheNext]_cacheVars PROVE CacheTypeOK' /\ CacheInv'
    OBVIOUS
  <2>1. CASE \E c \in CacheTurns :
                \/ \E own \in Origin : BeginCacheTurn(c, own)
                \/ LookupExact(c) \/ LookupEmbedding(c) \/ Provide(c) \/ Skip(c)
                \/ KeepExact(c) \/ KeepEmbedding(c) \/ AnswerCacheTurn(c)
    BY <2>1, BeginKeeps, LookupExactKeeps, LookupEmbeddingKeeps, ProvideKeeps, SkipKeeps,
       KeepExactKeeps, KeepEmbeddingKeeps, AnswerKeeps, Zenon
  <2>2. CASE ChangeBot  BY <2>2, ChangeBotKeeps
  <2>3. CASE CacheTick  BY <2>3, CacheTickKeeps
  <2>4. CASE UNCHANGED cacheVars
    <3>1. UNCHANGED <<today, revision, exact, entries, cacheTurns, storedUntil, turnsMade, skips>>
      BY <2>4 DEF cacheVars
    <3>2. CacheTypeOK'  BY <3>1 DEF CacheTypeOK
    <3>3. KeptFits' /\ CachedReplyFits'  BY <3>1 DEF CacheInv, KeptFits, CachedReplyFits, Alive
    <3> QED  BY <3>1, <3>2, <3>3 DEF CacheInv
  <2> QED  BY <2>1, <2>2, <2>3, <2>4, Zenon DEF CacheNext
<1> QED  BY <1>1, <1>2, PTL DEF CacheSpec

\* Going on is no hit, and neither is what another turn does.
LEMMA GoingIsNoHit ==
    ASSUME CacheTypeOK, NEW c \in CacheTurns, NEW d \in CacheTurns,
           NEW at \in {"exact", "embedding", "provider", "keepExact", "keepEmbedding", "answer"},
           cacheTurns[d].at # "idle", CacheGo(d, at)
    PROVE  ~ Hits(c)
<1> DEFINE p == cacheTurns[d]
           q == [p EXCEPT !.at = at]
<1>1. p \in CacheTurn  BY BusyTurn
<1>2. q.cached = p.cached
  <2> HIDE DEF p
  <2> QED  BY <1>1, TurnGoesOn, Zenon
<1>3. cacheTurns' = [cacheTurns EXCEPT ![d] = q] /\ cacheTurns \in [CacheTurns -> CacheTurnOf]
  BY CacheTypes DEF CacheGo
<1> HIDE DEF q
<1>4. cacheTurns'[c] = IF c = d THEN q ELSE cacheTurns[c]  BY <1>3
<1>5. cacheTurns'[c].cached = cacheTurns[c].cached  BY <1>2, <1>4, Zenon
<1> QED  BY <1>5, Zenon DEF Hits

LEMMA OtherIsNoHit ==
    ASSUME CacheTypeOK, NEW c \in CacheTurns, NEW d \in CacheTurns, NEW q,
           cacheTurns' = [cacheTurns EXCEPT ![d] = q], Hits(c)
    PROVE  c = d /\ cacheTurns'[c] = q /\ cacheTurns[c].at \in {"exact", "embedding"}
<1>1. cacheTurns'[c] = IF c = d THEN q ELSE cacheTurns[c]  BY CacheTypes
<1>2. cacheTurns[c].at \in {"exact", "embedding"}  BY Zenon DEF Hits
<1>3. c = d
  <2> SUFFICES ASSUME c # d PROVE FALSE  OBVIOUS
  <2>1. cacheTurns'[c] = cacheTurns[c]  BY <1>1
  <2> QED  BY <2>1, Zenon DEF Hits
<1> QED  BY <1>1, <1>2, <1>3

FromExact(c) ==
    /\ cacheTurns[c].at = "exact"
    /\ \E e \in exact[<<cacheTurns[c].own.state, cacheTurns[c].own.phrase>>] : cacheTurns'[c].reply = e.origin

FromList(c) ==
    /\ cacheTurns[c].at = "embedding"
    /\ \E i \in Best(cacheTurns[c].own) : cacheTurns'[c].reply = entries[i].origin

LEMMA HitReply ==
    ASSUME NEW c, NEW e
    PROVE  AfterHit(c, e).reply = e.origin
BY Zenon DEF AfterHit

\* A hit is an answer of one of the two caches to the turn itself.
LEMMA HitIsAnswer ==
    ASSUME CacheTypeOK, CacheInv, [CacheNext]_cacheVars, NEW c \in CacheTurns, Hits(c)
    PROVE  FromExact(c) \/ FromList(c)
<1>1. ASSUME NEW d \in CacheTurns, NEW own \in Origin, BeginCacheTurn(d, own) PROVE FALSE
  <2>1. PICK q : cacheTurns' = [cacheTurns EXCEPT ![d] = q]  BY <1>1, Zenon DEF BeginCacheTurn
  <2>2. c = d /\ cacheTurns[c].at \in {"exact", "embedding"}  BY <2>1, OtherIsNoHit
  <2> QED  BY <1>1, <2>2 DEF BeginCacheTurn
<1>2. ASSUME NEW d \in CacheTurns, LookupExact(d) PROVE FromExact(c)
  <2> DEFINE found == exact[<<cacheTurns[d].own.state, cacheTurns[d].own.phrase>>]
  <2>1. /\ cacheTurns[d].at = "exact"
        /\ \/ CacheGo(d, "embedding")
           \/ \E e \in found : cacheTurns' = [cacheTurns EXCEPT ![d] = AfterHit(d, e)]
    BY <1>2, Zenon DEF LookupExact
  <2>2. ~ CacheGo(d, "embedding")  BY <2>1, GoingIsNoHit
  <2>3. PICK e \in found : cacheTurns' = [cacheTurns EXCEPT ![d] = AfterHit(d, e)]  BY <2>1, <2>2
  <2>4. c = d /\ cacheTurns'[c] = AfterHit(d, e)  BY <2>3, OtherIsNoHit
  <2>5. cacheTurns'[c].reply = e.origin  BY <2>4, HitReply
  <2> QED  BY <2>1, <2>4, <2>5 DEF FromExact
<1>3. ASSUME NEW d \in CacheTurns, LookupEmbedding(d) PROVE FromList(c)
  <2>1. /\ cacheTurns[d].at = "embedding"
        /\ \/ CacheGo(d, "provider")
           \/ \E i \in Best(cacheTurns[d].own) :
                 cacheTurns' = [cacheTurns EXCEPT ![d] = AfterHit(d, entries[i])]
    BY <1>3, Zenon DEF LookupEmbedding
  <2>2. ~ CacheGo(d, "provider")  BY <2>1, GoingIsNoHit
  <2>3. PICK i \in Best(cacheTurns[d].own) : cacheTurns' = [cacheTurns EXCEPT ![d] = AfterHit(d, entries[i])]
    BY <2>1, <2>2
  <2>4. c = d /\ cacheTurns'[c] = AfterHit(d, entries[i])  BY <2>3, OtherIsNoHit
  <2>5. cacheTurns'[c].reply = entries[i].origin  BY <2>4, HitReply
  <2> QED  BY <2>1, <2>4, <2>5 DEF FromList
<1>4. ASSUME NEW d \in CacheTurns, Provide(d) PROVE FALSE
  <2>1. cacheTurns[d].at = "provider" /\ (CacheGo(d, "keepExact") \/ CacheGo(d, "answer"))
    BY <1>4 DEF Provide
  <2> QED  BY <2>1, GoingIsNoHit
<1>5. ASSUME NEW d \in CacheTurns, Skip(d) PROVE FALSE
  <2>1. PICK at \in {"embedding", "provider", "keepEmbedding", "answer"} :
            CacheGo(d, at) /\ cacheTurns[d].at # "idle"
    BY <1>5 DEF Skip
  <2> QED  BY <2>1, GoingIsNoHit
<1>6. ASSUME NEW d \in CacheTurns, KeepExact(d) PROVE FALSE
  <2>1. cacheTurns[d].at = "keepExact" /\ CacheGo(d, "keepEmbedding")  BY <1>6, Zenon DEF KeepExact
  <2> QED  BY <2>1, GoingIsNoHit
<1>7. ASSUME NEW d \in CacheTurns, KeepEmbedding(d) PROVE FALSE
  <2>1. cacheTurns[d].at = "keepEmbedding" /\ CacheGo(d, "answer")  BY <1>7, Zenon DEF KeepEmbedding
  <2> QED  BY <2>1, GoingIsNoHit
<1>8. ASSUME NEW d \in CacheTurns, AnswerCacheTurn(d) PROVE FALSE
  <2>1. cacheTurns[d].at = "answer" /\ cacheTurns' = [cacheTurns EXCEPT ![d] = CacheIdle]
    BY <1>8, Zenon DEF AnswerCacheTurn
  <2>2. c = d /\ cacheTurns[c].at \in {"exact", "embedding"}  BY <2>1, OtherIsNoHit
  <2> QED  BY <2>1, <2>2
<1>9. cacheTurns' # cacheTurns  BY Zenon DEF Hits
<1>10. ~ ChangeBot /\ ~ CacheTick /\ ~ UNCHANGED cacheVars  BY <1>9 DEF ChangeBot, CacheTick, cacheVars
<1> QED  BY <1>1, <1>2, <1>3, <1>4, <1>5, <1>6, <1>7, <1>8, <1>10, Zenon DEF CacheNext

LEMMA BoundedByLongest ==
    ASSUME NEW now \in Nat, NEW end \in Nat, NEW stored \in Nat, now < end,
           end <= stored + ExactTtl \/ end <= stored + EmbeddingTtl
    PROVE  now < stored + Longest
BY CacheAssumption DEF Longest

\* Of the entries with the words of the message the list answers with the newest.
LEMMA ListServesNewest ==
    ASSUME CacheTypeOK, CacheInv, NEW own \in Origin, NEW i \in Best(own), NEW s \in DOMAIN entries,
           Alive(entries[s]), entries[s].origin.state = own.state, entries[s].origin.phrase = own.phrase
    PROVE  entries[i].origin.phrase = own.phrase /\ entries[s].exp <= entries[i].exp
<1>1. Closeness(own.phrase, own.phrase) = 2 /\ \A p : Closeness(p, own.phrase) \in {0, 1, 2}
  BY DEF Closeness
<1>2. Nearness(s, own) = 2  BY <1>1 DEF Nearness
<1>3. s \in Matching(own)  BY <1>1 DEF Matching
<1>4. Nearness(s, own) < Nearness(i, own) \/ (Nearness(s, own) = Nearness(i, own) /\ i <= s)
  BY <1>3 DEF Best
<1>5. Nearness(i, own) \in {0, 1, 2}  BY <1>1 DEF Nearness
<1>6. Nearness(i, own) = 2 /\ i <= s  BY <1>2, <1>4, <1>5
<1>7. entries[i].origin.phrase = own.phrase  BY <1>6 DEF Nearness, Closeness
<1>8. i \in DOMAIN entries  BY DEF Best, Matching
<1>9. entries[s].exp <= entries[i].exp  BY <1>6, <1>8 DEF CacheInv, KeptFits
<1> QED  BY <1>7, <1>9

\* However turns, changes of the settings and the clock interleave, a cached reply was made
\* without knowledge, in the same state and for like words; a reply made with old settings is
\* shown no longer than one time to live after a turn of those settings stored it; and the list
\* answers with the newest reply to the very words (try_completion_cache,
\* remember_completion_caches, semantic_completion_cache.py).
THEOREM CacheAlwaysHolds == CacheSpec => CacheHolds
<1>1. CacheTypeOK /\ CacheInv => CachedReplyFits  BY DEF CacheInv
<1>2. CacheTypeOK /\ CacheInv /\ [CacheNext]_cacheVars
      => \A c \in CacheTurns :
            Hits(c) => today < storedUntil[cacheTurns'[c].reply.revision] + Longest
  <2> SUFFICES ASSUME CacheTypeOK, CacheInv, [CacheNext]_cacheVars, NEW c \in CacheTurns, Hits(c)
               PROVE  today < storedUntil[cacheTurns'[c].reply.revision] + Longest
    OBVIOUS
  <2>1. today \in Nat /\ storedUntil \in [Revisions -> CacheTimes] /\ CacheTimes \subseteq Nat
    BY CacheTypes
  <2>2. PICK e \in CacheEntry :
            /\ cacheTurns'[c].reply = e.origin /\ today < e.exp
            /\ \/ e.exp <= storedUntil[e.origin.revision] + ExactTtl
               \/ e.exp <= storedUntil[e.origin.revision] + EmbeddingTtl
    <3>1. CASE FromExact(c)
      <4>1. cacheTurns[c].at = "exact"  BY <3>1 DEF FromExact
      <4>2. PICK e \in exact[<<cacheTurns[c].own.state, cacheTurns[c].own.phrase>>] :
                cacheTurns'[c].reply = e.origin
        BY <3>1 DEF FromExact
      <4>3. e \in CacheEntry /\ Alive(e) /\ e.exp <= storedUntil[e.origin.revision] + ExactTtl
        BY <4>1, CopyFits
      <4> QED  BY <4>2, <4>3 DEF Alive
    <3>2. CASE FromList(c)
      <4>1. cacheTurns[c].at = "embedding"  BY <3>2 DEF FromList
      <4>2. PICK i \in Best(cacheTurns[c].own) : cacheTurns'[c].reply = entries[i].origin
        BY <3>2 DEF FromList
      <4>3. entries[i] \in CacheEntry /\ i \in DOMAIN entries /\ Alive(entries[i])  BY <4>1, EntryFits
      <4>4. entries[i].exp <= storedUntil[entries[i].origin.revision] + EmbeddingTtl
        BY <4>3 DEF CacheInv, KeptFits
      <4> QED  BY <4>2, <4>3, <4>4 DEF Alive
    <3> QED  BY <3>1, <3>2, HitIsAnswer
  <2>3. e.exp \in Nat /\ e.origin.revision \in Revisions  BY EntryFields
  <2>4. storedUntil[e.origin.revision] \in Nat  BY <2>1, <2>3
  <2> QED  BY <2>1, <2>2, <2>3, <2>4, BoundedByLongest
<1>3. CacheTypeOK /\ CacheInv /\ [CacheNext]_cacheVars
      => \A c \in CacheTurns :
            Hits(c) /\ cacheTurns[c].at = "embedding"
            => LET own == cacheTurns[c].own
                   same == {i \in DOMAIN entries : Alive(entries[i]) /\ entries[i].origin.state = own.state
                                                   /\ entries[i].origin.phrase = own.phrase}
               IN  same # {} => \E i \in same : /\ entries[i].origin = cacheTurns'[c].reply
                                                /\ \A j \in same : entries[j].exp <= entries[i].exp
  <2> SUFFICES ASSUME CacheTypeOK, CacheInv, [CacheNext]_cacheVars, NEW c \in CacheTurns, Hits(c),
                      cacheTurns[c].at = "embedding",
                      NEW s \in DOMAIN entries, Alive(entries[s]),
                      entries[s].origin.state = cacheTurns[c].own.state,
                      entries[s].origin.phrase = cacheTurns[c].own.phrase
               PROVE  \E i \in DOMAIN entries :
                         /\ Alive(entries[i]) /\ entries[i].origin.state = cacheTurns[c].own.state
                         /\ entries[i].origin.phrase = cacheTurns[c].own.phrase
                         /\ entries[i].origin = cacheTurns'[c].reply
                         /\ \A j \in DOMAIN entries :
                               /\ Alive(entries[j]) /\ entries[j].origin.state = cacheTurns[c].own.state
                               /\ entries[j].origin.phrase = cacheTurns[c].own.phrase
                               => entries[j].exp <= entries[i].exp
    BY Zenon
  <2>1. ~ FromExact(c)  BY DEF FromExact
  <2>2. PICK i \in Best(cacheTurns[c].own) : cacheTurns'[c].reply = entries[i].origin
    BY <2>1, HitIsAnswer DEF FromList
  <2>3. i \in DOMAIN entries /\ Alive(entries[i]) /\ entries[i].origin.state = cacheTurns[c].own.state
    BY EntryFits
  <2>4. cacheTurns[c].own \in Origin  BY BusyTurn
  <2>5. entries[i].origin.phrase = cacheTurns[c].own.phrase  BY <2>4, ListServesNewest
  <2>6. ASSUME NEW j \in DOMAIN entries, Alive(entries[j]), entries[j].origin.state = cacheTurns[c].own.state,
               entries[j].origin.phrase = cacheTurns[c].own.phrase
        PROVE  entries[j].exp <= entries[i].exp
    BY <2>4, <2>6, ListServesNewest
  <2> QED  BY <2>2, <2>3, <2>5, <2>6
<1> QED  BY <1>1, <1>2, <1>3, CacheInvariant, PTL DEF CacheSpec, CacheHolds, OldSettingsRunOut, NewestIsServed


-----------------------------------------------------------------------------
\* RateLimits.

LimitTypes ==
    /\ clock \in Times /\ hits \subseteq Hit /\ until \in 0 .. (MaxTime + Window) /\ memory \subseteq Hit
    /\ failOpen \in BOOLEAN /\ script \in BOOLEAN /\ loaded \in BOOLEAN /\ uncounted \in BOOLEAN /\ unlike \in BOOLEAN
    /\ limitCalls \in [LimitCalls -> LimitCall]
    /\ newest \in Times /\ room \in Nat /\ disturbed \subseteq Disturbances
    /\ served \subseteq [at : Times, id : HitIds, late : BOOLEAN]
    /\ restarts \in 0 .. MaxRestarts /\ limitBegun \in 0 .. MaxLimitCalls

LEMMA LimitTypesHold == LimitTypeOK <=> LimitTypes
BY Zenon DEF LimitTypeOK, LimitTypes

LEMMA LimitConstants ==
    /\ Limit \in Nat /\ Limit > 0 /\ Window \in Nat /\ Window > 0 /\ Second \in Nat /\ Second > 0
    /\ MaxTime \in Nat /\ MaxLimitCalls \in Nat /\ MaxRestarts \in Nat
BY LimitAssumption, LimitBoundAssumption

LEMMA TimeIsNumber == ASSUME NEW t \in Times PROVE t \in Nat /\ t <= MaxTime
BY LimitConstants DEF Times

LEMMA HitFields == ASSUME NEW h \in Hit PROVE h.at \in Times /\ h.at \in Nat /\ h.id \in HitIds
BY TimeIsNumber DEF Hit

LEMMA LimitCallFields ==
    ASSUME NEW q \in LimitCall
    PROVE  q.step \in {"idle", "load", "time", "eval"} /\ q.now \in Times /\ q.now \in Nat /\ q.id \in 0 .. MaxLimitCalls
<1>1. q.step \in {"idle", "load", "time", "eval"} /\ q.now \in Times /\ q.id \in 0 .. MaxLimitCalls
  BY DEF LimitCall
<1> QED  BY <1>1, TimeIsNumber

LimitSound == LimitTypes /\ IsFiniteSet(hits) /\ IsFiniteSet(served) /\ LimitInv

\* A non-empty set of times has a least one.
LEMMA EarliestExists ==
    ASSUME NEW T \in SUBSET Nat, T # {}
    PROVE  Min(T) \in T /\ \A y \in T : Min(T) <= y
<1> DEFINE Less == {p \in Nat \X Nat : p[1] < p[2]}
<1>1. IsWellFoundedOn(Less, Nat)  BY NatLessThanWellFounded DEF OpToRel
<1> HIDE DEF Less
<1>2. PICK x \in T : \A y \in T : ~ (<<y, x>> \in Less)  BY <1>1, WFMin
<1>3. ASSUME NEW y \in T PROVE x <= y
  <2>1. y < x => <<y, x>> \in Less  BY DEF Less
  <2> QED  BY <1>2, <2>1
<1> QED  BY <1>3 DEF Min

\* Seconds are rounded up.
LEMMA SecondsSuffice ==
    ASSUME NEW x \in Nat, x > 0
    PROVE  SecondsUp(x) \in Nat /\ SecondsUp(x) >= 1 /\ Second * SecondsUp(x) >= x
<1>1. Second \in Nat /\ Second > 0  BY LimitConstants
<1> DEFINE y == x + Second - 1
<1>2. y \in Nat /\ y >= Second  BY <1>1
<1>3. PICK k \in Nat, r \in 0 .. (Second - 1) : y = Second * k + r /\ y \div Second = k  BY <1>1, <1>2
<1>4. k >= 1  BY <1>1, <1>2, <1>3
<1>5. Second * k >= x  BY <1>1, <1>3
<1> QED  BY <1>3, <1>4, <1>5 DEF SecondsUp

\* Who passes in time finds less than the limit, and so does his window.
Passed(S, t) == {s \in S : InWindow(s, t) /\ ~ s.late}
Passes == [at : Times, id : HitIds, late : BOOLEAN]

LEMMA WindowCount ==
    ASSUME NEW H \in SUBSET Hit, IsFiniteSet(H), Cardinality(H) < Limit,
           NEW S \in SUBSET Passes, IsFiniteSet(S), NEW t \in Times, Cardinality(Passed(S, t)) <= Limit,
           NEW p \in Passes,
           ~ p.late => \A s \in S : s.late \/ s.at + Window <= p.at \/ [at |-> s.at, id |-> s.id] \in H
    PROVE  Cardinality(Passed(S \cup {p}, t)) <= Limit
<1> DEFINE P == Passed(S, t)
<1>1. CASE p.late \/ ~ InWindow(p, t)
  <2>1. Passed(S \cup {p}, t) = Passed(S, t)  BY <1>1 DEF Passed
  <2> QED  BY <2>1
<1>2. CASE ~ p.late /\ InWindow(p, t)
  <2>1. Passed(S \cup {p}, t) = P \cup {p}  BY <1>2 DEF Passed
  <2>2. IsFiniteSet(P)  BY FS_Subset DEF Passed
  <2>3. ASSUME NEW s \in P PROVE [at |-> s.at, id |-> s.id] \in H /\ s \in Passes /\ ~ s.late
    <3>1. s \in S /\ InWindow(s, t) /\ ~ s.late /\ s \in Passes  BY DEF Passed
    <3>2. s.at \in Nat /\ p.at \in Nat /\ t \in Nat /\ Window \in Nat
      BY <3>1, TimeIsNumber, LimitConstants DEF Passes
    <3>3. ~ (s.at + Window <= p.at)  BY <1>2, <3>1, <3>2 DEF InWindow
    <3> QED  BY <1>2, <3>1, <3>3
  <2> DEFINE f == [s \in P |-> [at |-> s.at, id |-> s.id]]
  <2>4. ASSUME NEW r \in P, NEW s \in P, f[r] = f[s] PROVE r = s
    <3>1. r.at = s.at /\ r.id = s.id  BY <2>4
    <3>2. r \in Passes /\ s \in Passes /\ r.late = FALSE /\ s.late = FALSE  BY <2>3 DEF Passes
    <3>3. r = [at |-> r.at, id |-> r.id, late |-> r.late] /\ s = [at |-> s.at, id |-> s.id, late |-> s.late]
      BY <3>2 DEF Passes
    <3> QED  BY <3>1, <3>2, <3>3
  <2>5. f \in [P -> H]  BY <2>3
  <2> HIDE DEF f, P
  <2>6. f \in Injection(P, H)  BY <2>4, <2>5 DEF Injection, IsInjective
  <2>7. Cardinality(P) <= Cardinality(H) /\ Cardinality(H) \in Nat /\ Cardinality(P) \in Nat
    BY <2>2, <2>6, FS_Injection, FS_CardinalityType
  <2>8. Cardinality(P \cup {p}) <= Cardinality(P) + 1
    <3>1. Cardinality(P \cup {p}) = IF p \in P THEN Cardinality(P) ELSE Cardinality(P) + 1
      BY <2>2, FS_AddElement
    <3> QED  BY <2>7, <3>1
  <2>9. Cardinality(P \cup {p}) \in Nat  BY <2>2, FS_AddElement, FS_CardinalityType
  <2>10. ASSUME NEW a \in Nat, NEW b \in Nat, NEW d \in Nat, a <= b, b < Limit, d <= a + 1 PROVE d <= Limit
    BY <2>10, LimitConstants
  <2>11. Cardinality(P \cup {p}) <= Limit  BY <2>7, <2>8, <2>9, <2>10
  <2> QED  BY <2>1, <2>11, Zenon
<1> QED  BY <1>1, <1>2

\* When the time that a refusal names has come, the oldest hit is out of the window.
LEMMA RetryLeavesRoom ==
    ASSUME NEW H \in SUBSET Hit, IsFiniteSet(H), Cardinality(H) = Limit, NEW now \in Times,
           \A h \in H : h.at + Window > now, NEW time, time = now + Second * RetryAfter(H, now)
    PROVE  time \in Nat /\ Cardinality({h \in H : h.at + Window > time}) < Limit
<1>1. H # {}  BY LimitConstants, FS_EmptySet
<1>2. PICK o \in H : o.at = Oldest(H)
  <2> DEFINE T == {h.at : h \in H}
  <2>1. T \in SUBSET Nat /\ T # {}  BY <1>1, HitFields
  <2> HIDE DEF T
  <2>2. Min(T) \in T  BY <2>1, EarliestExists
  <2>3. Oldest(H) \in {h.at : h \in H}  BY <2>2 DEF Oldest, T
  <2> QED  BY <2>3
<1> DEFINE x == o.at + Window - now
<1>3. o.at \in Nat /\ Window \in Nat /\ Second \in Nat /\ now \in Nat /\ o.at + Window > now
  BY HitFields, TimeIsNumber, LimitConstants
<1>4. x \in Nat /\ x > 0  BY <1>3
<1>5. o.at + Window - now = x  OBVIOUS
<1> HIDE DEF x
<1>6. SecondsUp(x) \in Nat /\ SecondsUp(x) >= 1 /\ Second * SecondsUp(x) >= x  BY <1>4, SecondsSuffice
<1>7. RetryAfter(H, now) = SecondsUp(x)  BY <1>2, <1>5, <1>6 DEF RetryAfter
<1>8. Second * SecondsUp(x) \in Nat  BY <1>3, <1>6
<1>9. time \in Nat /\ time >= o.at + Window  BY <1>3, <1>4, <1>5, <1>6, <1>7, <1>8
<1>10. {h \in H : h.at + Window > time} \in SUBSET (H \ {o})
  <2>1. ~ (o.at + Window > time)  BY <1>3, <1>9
  <2> QED  BY <2>1
<1>11. IsFiniteSet(H \ {o}) /\ Cardinality(H \ {o}) = Limit - 1  BY FS_RemoveElement
<1>12. Cardinality({h \in H : h.at + Window > time}) <= Limit - 1  BY <1>10, <1>11, FS_Subset
<1>13. Cardinality({h \in H : h.at + Window > time}) \in Nat
  BY <1>10, <1>11, FS_Subset, FS_CardinalityType
<1> QED  BY <1>9, <1>12, <1>13, LimitConstants

LEMMA LimitInitSound == LimitInit => LimitSound
<1> SUFFICES ASSUME LimitInit PROVE LimitSound  OBVIOUS
<1> USE DEF LimitInit
<1>1. clock = 0 /\ newest = 0 /\ until = 0 /\ hits = {} /\ memory = {} /\ served = {} /\ disturbed = {} /\ room = 0
  OBVIOUS
<1>2. 0 \in Times /\ 0 \in 0 .. (MaxTime + Window) /\ 0 \in Nat /\ 0 \in 0 .. MaxRestarts /\ 0 \in 0 .. MaxLimitCalls
  BY LimitConstants DEF Times
<1>3. LimitIdle \in LimitCall /\ LimitIdle.now = 0 /\ LimitIdle.step = "idle"
  BY <1>2 DEF LimitIdle, LimitCall
<1>4. failOpen \in BOOLEAN
  <2>1. ASSUME NEW door, NEW a \in BOOLEAN, NEW b \in BOOLEAN PROVE OpensOnError(door, a, b) \in BOOLEAN
    BY Zenon DEF OpensOnError
  <2>2. PICK door \in Doors, a \in BOOLEAN, b \in BOOLEAN : failOpen = OpensOnError(door, a, b)  OBVIOUS
  <2> QED  BY <2>1, <2>2, Zenon
<1>5. LimitTypes  BY <1>1, <1>2, <1>3, <1>4 DEF LimitTypes
<1>6. IsFiniteSet(hits) /\ IsFiniteSet(served)  BY <1>1, FS_EmptySet
<1>7. \A c \in LimitCalls : CallIsSound(c)  BY <1>1, <1>3 DEF CallIsSound
<1>8. HitsExpire /\ PassedIsCounted /\ SameHits /\ RetryIsEnough /\ AgreesWithMemory
  BY <1>1 DEF HitsExpire, PassedIsCounted, SameHits, RetryIsEnough, AgreesWithMemory
<1>9. WindowKeepsLimit
  <2>1. ASSUME NEW t \in Times PROVE Cardinality({s \in served : InWindow(s, t) /\ ~ s.late}) <= Limit
    <3>1. {s \in served : InWindow(s, t) /\ ~ s.late} = {}  BY <1>1
    <3> QED  BY <3>1, FS_EmptySet, LimitConstants
  <2>2. ~ uncounted  OBVIOUS
  <2> QED  BY <2>1, <2>2 DEF WindowKeepsLimit
<1> QED  BY <1>5, <1>6, <1>7, <1>8, <1>9 DEF LimitSound, LimitInv

\* A step that leaves the hits and the history alone keeps what is said about them.
Kept == <<hits, until, memory, newest, served, room, unlike, disturbed>>
CountsAreKept == uncounted' = uncounted \/ uncounted' = (uncounted \/ failOpen)

LEMMA KeptKeeps ==
    ASSUME LimitSound, UNCHANGED Kept, UNCHANGED failOpen, CountsAreKept, clock <= clock', clock' \in Nat
    PROVE  /\ IsFiniteSet(hits') /\ IsFiniteSet(served') /\ HitsExpire' /\ PassedIsCounted' /\ SameHits'
           /\ WindowKeepsLimit' /\ RetryIsEnough' /\ AgreesWithMemory'
<1> USE DEF Kept
<1>1. IsFiniteSet(hits') /\ IsFiniteSet(served')  BY DEF LimitSound
<1>2. HitsExpire'
  <2> SUFFICES ASSUME NEW h \in hits PROVE h.at <= clock' /\ h.at + Window <= until  BY DEF HitsExpire
  <2>1. h.at \in Nat /\ clock \in Nat  BY HitFields, TimeIsNumber DEF LimitSound, LimitTypes
  <2>2. h.at <= clock /\ h.at + Window <= until  BY DEF LimitSound, LimitInv, HitsExpire
  <2> QED  BY <2>1, <2>2
<1>3. PassedIsCounted' /\ SameHits' /\ RetryIsEnough' /\ AgreesWithMemory'
  BY DEF LimitSound, LimitInv, PassedIsCounted, SameHits, RetryIsEnough, AgreesWithMemory
<1>4. WindowKeepsLimit'
  <2>1. failOpen' \/ ~ uncounted'  BY DEF LimitSound, LimitInv, WindowKeepsLimit, CountsAreKept
  <2> QED  BY <2>1 DEF LimitSound, LimitInv, WindowKeepsLimit, InWindow
<1> QED  BY <1>1, <1>2, <1>3, <1>4

LEMMA CallStepSound ==
    ASSUME LimitSound, NEW c \in LimitCalls, EnterLimiter(c) \/ LoadScript(c) \/ ReadTime(c) \/ RedisError(c)
    PROVE  LimitSound'
<1> DEFINE q == limitCalls[c]
<1>1. LimitTypes /\ q \in LimitCall /\ limitCalls \in [LimitCalls -> LimitCall] /\ clock \in Times
      /\ (\A d \in LimitCalls : CallIsSound(d))
  BY DEF LimitSound, LimitTypes, LimitInv
<1>2. UNCHANGED Kept /\ UNCHANGED <<failOpen, clock, restarts>> /\ CountsAreKept
  BY DEF EnterLimiter, LoadScript, ReadTime, RedisError, Failed, Kept, CountsAreKept
<1>3. clock \in Nat  BY <1>1, TimeIsNumber
<1>4. PICK r \in LimitCall : /\ limitCalls' = [limitCalls EXCEPT ![c] = r]
                            /\ r.now <= clock /\ (r.step # "idle" => r.id # 0)
  <2>2. q.now <= clock /\ (q.step # "idle" => q.id # 0)  BY <1>1 DEF CallIsSound
  <2>3. CASE EnterLimiter(c)
    <3> DEFINE r == [step |-> IF NeedsScript THEN "load" ELSE "time", now |-> 0, id |-> limitBegun + 1]
    <3>1. limitBegun \in Nat /\ limitBegun < MaxLimitCalls
      BY <2>3, <1>1, LimitConstants DEF EnterLimiter, LimitTypes
    <3>2. limitBegun + 1 \in 0 .. MaxLimitCalls /\ limitBegun + 1 # 0  BY <3>1, LimitConstants
    <3>3. 0 \in Times /\ 0 <= clock  BY LimitConstants, <1>3 DEF Times
    <3>4. r \in LimitCall  BY <3>2, <3>3 DEF LimitCall
    <3> QED  BY <2>3, <3>2, <3>3, <3>4 DEF EnterLimiter
  <2>4. CASE LoadScript(c)
    <3> DEFINE r == [q EXCEPT !.step = "time"]
    <3>1. r \in LimitCall /\ r.now = q.now /\ r.id = q.id  BY <1>1 DEF LimitCall
    <3>2. limitCalls' = [limitCalls EXCEPT ![c] = r] /\ q.step # "idle"  BY <2>4 DEF LoadScript
    <3>3. r.now <= clock /\ r.id # 0  BY <2>2, <3>1, <3>2
    <3> QED  BY <3>1, <3>2, <3>3
  <2>5. CASE ReadTime(c)
    <3> DEFINE r == [q EXCEPT !.step = "eval", !.now = clock]
    <3>1. r \in LimitCall /\ r.now = clock /\ r.id = q.id  BY <1>1 DEF LimitCall
    <3>2. limitCalls' = [limitCalls EXCEPT ![c] = r] /\ q.step # "idle"  BY <2>5 DEF ReadTime
    <3>3. r.now <= clock /\ r.id # 0  BY <2>2, <3>1, <3>2, <1>3
    <3> QED  BY <3>1, <3>2, <3>3
  <2>6. CASE RedisError(c)
    <3>1. LimitIdle \in LimitCall /\ LimitIdle.now = 0 /\ LimitIdle.step = "idle"
      BY LimitConstants DEF LimitIdle, LimitCall, Times
    <3>2. limitCalls' = [limitCalls EXCEPT ![c] = LimitIdle]  BY <2>6 DEF RedisError, AnswerCall
    <3>3. LimitIdle.now <= clock  BY <3>1, <1>3
    <3> QED  BY <3>1, <3>2, <3>3
  <2> QED  BY <2>3, <2>4, <2>5, <2>6
<1>5. LimitTypes'
  <2>1. limitCalls' \in [LimitCalls -> LimitCall]  BY <1>1, <1>4
  <2>2. script' \in BOOLEAN /\ loaded' \in BOOLEAN
    BY <1>1, Zenon DEF EnterLimiter, LoadScript, ReadTime, RedisError, LimitTypes
  <2>3. uncounted' \in BOOLEAN  BY <1>1, <1>2, Zenon DEF CountsAreKept, LimitTypes
  <2>4. limitBegun' \in 0 .. MaxLimitCalls
    <3>1. CASE EnterLimiter(c)  BY <3>1, <1>1, LimitConstants DEF EnterLimiter, LimitTypes
    <3>2. CASE LoadScript(c) \/ ReadTime(c) \/ RedisError(c)
      BY <3>2, <1>1 DEF LoadScript, ReadTime, RedisError, LimitTypes
    <3> QED  BY <3>1, <3>2
  <2> QED  BY <1>1, <1>2, <2>1, <2>2, <2>3, <2>4 DEF LimitTypes, Kept
<1>6. \A d \in LimitCalls : CallIsSound(d)'  BY <1>1, <1>2, <1>4 DEF CallIsSound
<1>7. /\ IsFiniteSet(hits') /\ IsFiniteSet(served') /\ HitsExpire' /\ PassedIsCounted' /\ SameHits'
      /\ WindowKeepsLimit' /\ RetryIsEnough' /\ AgreesWithMemory'
  <2>1. clock <= clock' /\ clock' \in Nat  BY <1>2, <1>3
  <2> QED  BY <1>2, <2>1, KeptKeeps
<1> QED  BY <1>5, <1>6, <1>7 DEF LimitSound, LimitInv

LEMMA TickSound == LimitSound /\ Tick => LimitSound'
<1> SUFFICES ASSUME LimitSound, Tick PROVE LimitSound'  OBVIOUS
<1>1. LimitTypes /\ clock \in Nat /\ clock < MaxTime /\ clock' = clock + 1
  BY TimeIsNumber DEF LimitSound, LimitTypes, Tick
<1>2. clock' \in Times /\ clock <= clock' /\ clock' \in Nat  BY <1>1, LimitConstants DEF Times
<1>3. UNCHANGED Kept /\ UNCHANGED failOpen /\ CountsAreKept  BY DEF Tick, Kept, CountsAreKept
<1>4. LimitTypes'  BY <1>1, <1>2 DEF Tick, LimitTypes
<1>5. \A d \in LimitCalls : CallIsSound(d)'
  <2> TAKE d \in LimitCalls
  <2>1. CallIsSound(d) /\ limitCalls[d] \in LimitCall /\ limitCalls' = limitCalls
    BY DEF LimitSound, LimitTypes, LimitInv, Tick
  <2>2. limitCalls[d].now \in Nat  BY <2>1, LimitCallFields
  <2> QED  BY <1>1, <1>2, <2>1, <2>2 DEF CallIsSound
<1>6. /\ IsFiniteSet(hits') /\ IsFiniteSet(served') /\ HitsExpire' /\ PassedIsCounted' /\ SameHits'
      /\ WindowKeepsLimit' /\ RetryIsEnough' /\ AgreesWithMemory'
  BY <1>2, <1>3, KeptKeeps
<1> QED  BY <1>4, <1>5, <1>6 DEF LimitSound, LimitInv

LEMMA RestartSound == ASSUME LimitSound, NEW stays \in BOOLEAN, RestartRedis(stays) PROVE LimitSound'
<1>1. LimitTypes /\ LimitInv /\ IsFiniteSet(hits) /\ IsFiniteSet(served)  BY DEF LimitSound
<1>2. UNCHANGED <<failOpen, clock, until, loaded, memory, limitCalls, newest, served, uncounted, room, unlike, limitBegun>>
  BY DEF RestartRedis
<1>3. \/ hits' = hits /\ disturbed' = disturbed
      \/ hits' = {} /\ disturbed' = disturbed \cup {"lost"}
  BY DEF RestartRedis
<1>4. LimitTypes'
  <2>1. restarts' \in 0 .. MaxRestarts  BY <1>1, LimitConstants DEF RestartRedis, LimitTypes
  <2>2. script' \in BOOLEAN  BY DEF RestartRedis
  <2>3. hits' \subseteq Hit /\ disturbed' \subseteq Disturbances
    BY <1>1, <1>3 DEF LimitTypes, Disturbances
  <2> QED  BY <1>1, <1>2, <2>1, <2>2, <2>3 DEF LimitTypes
<1>5. IsFiniteSet(hits') /\ IsFiniteSet(served')  BY <1>1, <1>2, <1>3, FS_EmptySet
<1>6. \A d \in LimitCalls : CallIsSound(d)'  BY <1>1, <1>2 DEF LimitInv, CallIsSound
<1>7. HitsExpire' /\ PassedIsCounted' /\ SameHits' /\ AgreesWithMemory'
  BY <1>1, <1>2, <1>3 DEF LimitInv, HitsExpire, PassedIsCounted, SameHits, AgreesWithMemory
<1>8. WindowKeepsLimit'  BY <1>1, <1>2, <1>3 DEF LimitInv, WindowKeepsLimit, InWindow
<1>9. RetryIsEnough'
  <2>1. CASE hits' = hits  BY <2>1, <1>1, <1>2 DEF LimitInv, RetryIsEnough
  <2>2. CASE hits' = {}
    <3>1. {h \in hits' : h.at + Window > room'} = {}  BY <2>2
    <3> QED  BY <3>1, FS_EmptySet, LimitConstants DEF RetryIsEnough
  <2> QED  BY <1>3, <2>1, <2>2
<1> QED  BY <1>4, <1>5, <1>6, <1>7, <1>8, <1>9 DEF LimitSound, LimitInv

\* The script.  The stored hits that are still in the window of the reading are what
\* it counts; what it does depends on them and on the reading.
Stored == IF clock < until THEN hits ELSE {}
CountedBy(q) == Trimmed(Stored, q.now)
NewHit(q) == [at |-> q.now, id |-> q.id]
NewPass(q) == [at |-> q.now, id |-> q.id, late |-> Overtaken(q)]
ReadingIsSound(q) == q \in LimitCall /\ q.now \in Times /\ q.now <= clock /\ q.id \in HitIds

LEMMA EvalReads ==
    ASSUME LimitSound, NEW c \in LimitCalls, NEW answered, EvalScript(c, answered)
    PROVE  ReadingIsSound(limitCalls[c])
<1> DEFINE q == limitCalls[c]
<1>1. q \in LimitCall /\ CallIsSound(c)  BY DEF LimitSound, LimitTypes, LimitInv
<1>2. q.now \in Times /\ q.id \in 0 .. MaxLimitCalls  BY <1>1, LimitCallFields
<1>3. q.step # "idle"  BY DEF EvalScript
<1>4. q.id \in HitIds  BY <1>1, <1>2, <1>3, LimitConstants DEF CallIsSound, HitIds
<1> QED  BY <1>1, <1>2, <1>4 DEF CallIsSound, ReadingIsSound

LEMMA CountedHits ==
    ASSUME LimitSound, NEW q
    PROVE  /\ CountedBy(q) \in SUBSET hits /\ CountedBy(q) \in SUBSET Hit /\ IsFiniteSet(CountedBy(q))
           /\ Cardinality(CountedBy(q)) \in Nat /\ (\A h \in CountedBy(q) : h.at + Window > q.now)
<1>1. hits \subseteq Hit /\ IsFiniteSet(hits)  BY DEF LimitSound, LimitTypes
<1>2. CountedBy(q) \in SUBSET hits /\ (\A h \in CountedBy(q) : h.at + Window > q.now)
  BY DEF CountedBy, Trimmed, Stored
<1>3. IsFiniteSet(CountedBy(q))  BY <1>1, <1>2, FS_Subset
<1> QED  BY <1>1, <1>2, <1>3, FS_CardinalityType

LEMMA HorizonIsTime ==
    ASSUME LimitSound
    PROVE  Horizon \in Times /\ newest <= Horizon /\ (until <= clock => until <= Horizon)
<1>1. newest \in Nat /\ clock \in Nat /\ clock <= MaxTime /\ newest \in Times /\ until \in Nat
  BY TimeIsNumber, LimitConstants DEF LimitSound, LimitTypes
<1> QED  BY <1>1, LimitConstants DEF Horizon, Times

\* A hit that is neither counted nor dropped before has left the window of the reading.
LEMMA UncountedHasLeft ==
    ASSUME LimitSound, NEW q, ReadingIsSound(q), ~ Overtaken(q), NEW h \in hits, h \notin CountedBy(q)
    PROVE  h.at + Window <= q.now
<1>1. h.at \in Nat /\ Window \in Nat /\ q.now \in Nat /\ clock \in Nat /\ until \in Nat
  BY HitFields, TimeIsNumber, LimitConstants DEF LimitSound, LimitTypes, ReadingIsSound
<1>2. CASE clock < until
  <2>1. ~ (h.at + Window > q.now)  BY <1>2 DEF CountedBy, Trimmed, Stored
  <2> QED  BY <1>1, <2>1
<1>3. CASE ~ (clock < until)
  <2>1. h.at + Window <= until  BY DEF LimitSound, LimitInv, HitsExpire
  <2>2. Horizon \in Nat /\ until <= Horizon  BY <1>1, <1>3, HorizonIsTime, TimeIsNumber
  <2>3. Horizon <= q.now  BY <1>1, <2>2 DEF Overtaken
  <2> QED  BY <1>1, <2>1, <2>2, <2>3
<1> QED  BY <1>2, <1>3

\* Who has passed in time and is in the window of a reading that nobody has overtaken
\* is counted.
LEMMA PassedAreCounted ==
    ASSUME LimitSound, "lost" \notin disturbed, NEW q, ReadingIsSound(q), ~ Overtaken(q), NEW s \in served
    PROVE  s.late \/ s.at + Window <= q.now \/ [at |-> s.at, id |-> s.id] \in CountedBy(q)
<1>1. s.at \in Times  BY DEF LimitSound, LimitTypes
<1>2. s.at \in Nat /\ Window \in Nat /\ q.now \in Nat /\ newest \in Nat /\ Horizon \in Nat /\ newest <= Horizon
  BY <1>1, TimeIsNumber, LimitConstants, HorizonIsTime DEF LimitSound, LimitTypes, ReadingIsSound
<1>3. Horizon <= q.now  BY <1>2 DEF Overtaken
<1>4. s.late \/ s.at + Window <= newest \/ [at |-> s.at, id |-> s.id] \in hits
  BY DEF LimitSound, LimitInv, PassedIsCounted
<1>5. CASE s.at + Window <= newest  BY <1>2, <1>3, <1>5
<1>6. CASE [at |-> s.at, id |-> s.id] \in hits
  <2> DEFINE h == [at |-> s.at, id |-> s.id]
  <2>1. h.at = s.at  OBVIOUS
  <2> HIDE DEF h
  <2>2. h \in hits  BY <1>6 DEF h
  <2>3. h \in CountedBy(q) \/ h.at + Window <= q.now  BY <2>2, UncountedHasLeft
  <2> QED  BY <2>1, <2>3 DEF h
<1> QED  BY <1>4, <1>5, <1>6

\* What the script does, part by part.
EvalParts(q, refused) ==
    /\ hits' = IF refused THEN CountedBy(q) ELSE CountedBy(q) \cup {NewHit(q)}
    /\ until' = IF refused THEN until ELSE clock + Window
    /\ newest' = IF Overtaken(q) THEN Horizon ELSE q.now
    /\ room' = IF refused /\ Cardinality(CountedBy(q)) = Limit THEN q.now + Second * RetryAfter(CountedBy(q), q.now) ELSE 0
    /\ memory' = Recent(q.now) \cup IF MemoryRefuses(q.now) THEN {} ELSE {NewHit(q)}
    /\ unlike' = (unlike \/ refused # MemoryRefuses(q.now)
                         \/ (refused /\ RetryAfter(CountedBy(q), q.now) # MemoryRetryAfter(q.now)))
    /\ disturbed' = IF Overtaken(q) THEN disturbed \cup {"overtaken"} ELSE disturbed
    /\ served' = served \/ (~ refused /\ served' = served \cup {NewPass(q)})

LEMMA EvalHasParts ==
    ASSUME NEW c \in LimitCalls, NEW answered \in BOOLEAN, EvalScript(c, answered)
    PROVE  /\ EvalParts(limitCalls[c], Refuses(CountedBy(limitCalls[c]))) /\ CountsAreKept
           /\ UNCHANGED <<failOpen, clock, script, loaded, restarts, limitBegun>> /\ AnswerCall(c)
<1>1. EvalParts(limitCalls[c], Refuses(CountedBy(limitCalls[c])))
  BY DEF EvalScript, EvalParts, CountedBy, Stored, NewHit, NewPass
<1>2. CountsAreKept /\ UNCHANGED <<failOpen, clock, script, loaded, restarts, limitBegun>> /\ AnswerCall(c)
  BY DEF EvalScript, CountsAreKept, Failed
<1> QED  BY <1>1, <1>2

\* The parts are taken one by one, for a sound reading.
EvalStep(q, refused) == /\ LimitSound /\ ReadingIsSound(q) /\ refused = Refuses(CountedBy(q)) /\ refused \in BOOLEAN
                        /\ EvalParts(q, refused) /\ UNCHANGED <<failOpen, clock>> /\ CountsAreKept

LEMMA EvalNumbers ==
    ASSUME NEW q, NEW refused, EvalStep(q, refused)
    PROVE  /\ q.now \in Nat /\ clock \in Nat /\ until \in Nat /\ newest \in Nat /\ Horizon \in Nat /\ newest <= Horizon
           /\ q.now <= clock /\ clock <= MaxTime /\ newest <= newest' /\ newest' \in Times /\ newest' \in Nat
           /\ until' \in 0 .. (MaxTime + Window) /\ (Overtaken(q) => newest' = Horizon)
           /\ (~ Overtaken(q) => Horizon <= q.now /\ newest' = q.now)
<1>1. /\ q.now \in Nat /\ q.now \in Times /\ clock \in Nat /\ until \in 0 .. (MaxTime + Window) /\ newest \in Nat
      /\ Horizon \in Nat /\ newest <= Horizon /\ Horizon \in Times /\ q.now <= clock /\ clock <= MaxTime
  <2>1. LimitSound /\ q.now \in Times /\ q.now <= clock  BY DEF EvalStep, ReadingIsSound
  <2>2. clock \in Times /\ newest \in Times /\ until \in 0 .. (MaxTime + Window)
    BY <2>1 DEF LimitSound, LimitTypes
  <2>3. Horizon \in Times /\ newest <= Horizon  BY <2>1, HorizonIsTime
  <2>4. q.now \in Nat /\ clock \in Nat /\ clock <= MaxTime /\ newest \in Nat /\ Horizon \in Nat
    BY <2>1, <2>2, <2>3, TimeIsNumber
  <2> QED  BY <2>1, <2>2, <2>3, <2>4
<1>2. newest' = (IF Overtaken(q) THEN Horizon ELSE q.now) /\ (until' = until \/ until' = clock + Window)
  BY DEF EvalStep, EvalParts
<1>3. ~ Overtaken(q) => Horizon <= q.now  BY <1>1 DEF Overtaken
<1>4. newest' \in Times /\ newest' \in Nat /\ newest <= newest'  BY <1>1, <1>2, <1>3
<1>5. until' \in 0 .. (MaxTime + Window)  BY <1>1, <1>2, LimitConstants
<1>6. until \in Nat  BY <1>1, LimitConstants
<1>7. (Overtaken(q) => newest' = Horizon) /\ (~ Overtaken(q) => Horizon <= q.now /\ newest' = q.now)
  BY <1>2, <1>3
<1> QED  BY <1>1, <1>4, <1>5, <1>6, <1>7

LEMMA EvalKeepsTypes ==
    ASSUME NEW q, NEW refused, EvalStep(q, refused)
    PROVE  /\ hits' \subseteq Hit /\ memory' \subseteq Hit /\ IsFiniteSet(hits') /\ disturbed' \subseteq Disturbances
           /\ served' \subseteq Passes /\ IsFiniteSet(served') /\ unlike' \in BOOLEAN
<1>1. LimitTypes /\ IsFiniteSet(hits) /\ IsFiniteSet(served)  BY DEF EvalStep, LimitSound
<1>2. NewHit(q) \in Hit /\ NewPass(q) \in Passes
  <2>1. q.now \in Times /\ q.id \in HitIds  BY DEF EvalStep, ReadingIsSound
  <2>2. Overtaken(q) \in BOOLEAN
    <3>1. q.now \in Nat /\ Horizon \in Nat  BY EvalNumbers
    <3> QED  BY <3>1 DEF Overtaken
  <2> QED  BY <2>1, <2>2 DEF NewHit, NewPass, Hit, Passes
<1>3. CountedBy(q) \in SUBSET Hit /\ IsFiniteSet(CountedBy(q))  BY CountedHits DEF EvalStep
<1>4. hits' = CountedBy(q) \/ hits' = CountedBy(q) \cup {NewHit(q)}  BY DEF EvalStep, EvalParts
<1>5. hits' \subseteq Hit /\ IsFiniteSet(hits')  BY <1>2, <1>3, <1>4, FS_AddElement
<1>6. memory' \subseteq Hit
  <2>1. Recent(q.now) \subseteq Hit  BY <1>1 DEF Recent, LimitTypes
  <2>2. memory' \subseteq Recent(q.now) \cup {NewHit(q)}  BY DEF EvalStep, EvalParts
  <2> QED  BY <1>2, <2>1, <2>2
<1>7. served' = served \/ served' = served \cup {NewPass(q)}  BY DEF EvalStep, EvalParts
<1>8. served' \subseteq Passes /\ IsFiniteSet(served')
  BY <1>1, <1>2, <1>7, FS_AddElement DEF LimitTypes, Passes
<1>9. disturbed' \subseteq Disturbances  BY <1>1 DEF EvalStep, EvalParts, LimitTypes, Disturbances
<1>10. unlike' \in BOOLEAN  BY Zenon DEF EvalStep, EvalParts
<1> QED  BY <1>5, <1>6, <1>8, <1>9, <1>10

LEMMA EvalKeepsExpiry == ASSUME NEW q, NEW refused, EvalStep(q, refused) PROVE HitsExpire'
<1>1. CountedBy(q) \in SUBSET hits /\ clock' = clock /\ (\A h \in hits : h \in Hit)
  BY CountedHits DEF EvalStep, LimitSound, LimitTypes
<1>2. q.now \in Nat /\ clock \in Nat /\ until \in Nat /\ q.now <= clock /\ Window \in Nat
  BY EvalNumbers, LimitConstants
<1>3. ASSUME NEW h \in hits PROVE h.at <= clock /\ h.at + Window <= until'
  <2>1. h.at \in Nat  BY <1>1, HitFields
  <2>2. h.at <= clock /\ h.at + Window <= until  BY DEF EvalStep, LimitSound, LimitInv, HitsExpire
  <2>3. until' = until \/ until' = clock + Window  BY DEF EvalStep, EvalParts
  <2> QED  BY <1>2, <2>1, <2>2, <2>3
<1>4. ~ refused => NewHit(q).at <= clock /\ NewHit(q).at + Window <= until'
  <2>1. NewHit(q).at = q.now  BY DEF NewHit
  <2>2. ~ refused => until' = clock + Window  BY DEF EvalStep, EvalParts
  <2> QED  BY <1>2, <2>1, <2>2
<1>5. \A h \in hits' : h \in hits \/ (~ refused /\ h = NewHit(q))  BY <1>1 DEF EvalStep, EvalParts
<1> QED  BY <1>1, <1>3, <1>4, <1>5 DEF HitsExpire

LEMMA EvalCountsPassed == ASSUME NEW q, NEW refused, EvalStep(q, refused) PROVE PassedIsCounted'
<1> SUFFICES ASSUME "lost" \notin disturbed', NEW s \in served'
             PROVE  s.late \/ s.at + Window <= newest' \/ [at |-> s.at, id |-> s.id] \in hits'
  BY DEF PassedIsCounted
<1>1. "lost" \notin disturbed  BY DEF EvalStep, EvalParts
<1>2. CountedBy(q) \subseteq hits'  BY DEF EvalStep, EvalParts
<1>3. LimitSound /\ ReadingIsSound(q)  BY DEF EvalStep
<1>4. CASE s \in served
  <2>1. s.at \in Times  BY <1>3, <1>4 DEF LimitSound, LimitTypes
  <2>2. s.at \in Nat /\ Window \in Nat /\ newest \in Nat /\ newest' \in Nat /\ newest <= newest' /\ Horizon \in Nat
        /\ newest <= Horizon /\ clock \in Nat /\ until \in Nat
    BY <2>1, TimeIsNumber, EvalNumbers, LimitConstants
  <2>3. CASE ~ Overtaken(q)
    <3>1. s.late \/ s.at + Window <= q.now \/ [at |-> s.at, id |-> s.id] \in CountedBy(q)
      BY <1>1, <1>3, <1>4, <2>3, PassedAreCounted
    <3>2. newest' = q.now  BY <2>3, EvalNumbers
    <3> QED  BY <1>2, <3>1, <3>2
  <2>4. CASE Overtaken(q)
    <3>1. newest' = Horizon /\ q.now < Horizon /\ q.now \in Nat  BY <2>4, EvalNumbers DEF Overtaken
    <3>2. s.late \/ s.at + Window <= newest \/ [at |-> s.at, id |-> s.id] \in hits
      BY <1>1, <1>3, <1>4 DEF LimitSound, LimitInv, PassedIsCounted
    <3>3. CASE s.at + Window <= newest  BY <2>2, <3>3
    <3>4. CASE [at |-> s.at, id |-> s.id] \in hits
      <4> DEFINE h == [at |-> s.at, id |-> s.id]
      <4>1. h.at = s.at  OBVIOUS
      <4> HIDE DEF h
      <4>2. h \in hits  BY <3>4 DEF h
      <4>3. CASE h \in CountedBy(q)  BY <1>2, <4>3 DEF h
      <4>4. CASE h \notin CountedBy(q)
        <5>1. CASE clock < until
          <6>1. ~ (h.at + Window > q.now)  BY <4>2, <4>4, <5>1 DEF CountedBy, Trimmed, Stored
          <6> QED  BY <2>2, <3>1, <4>1, <6>1
        <5>2. CASE ~ (clock < until)
          <6>1. h.at + Window <= until  BY <1>3, <4>2 DEF LimitSound, LimitInv, HitsExpire
          <6>2. until <= Horizon  BY <1>3, <2>2, <5>2, HorizonIsTime
          <6> QED  BY <2>2, <3>1, <4>1, <6>1, <6>2
        <5> QED  BY <5>1, <5>2
      <4> QED  BY <4>3, <4>4
    <3> QED  BY <3>2, <3>3, <3>4
  <2> QED  BY <2>3, <2>4
<1>5. CASE ~ refused /\ s = NewPass(q)
  <2>1. [at |-> s.at, id |-> s.id] = NewHit(q)  BY <1>5 DEF NewPass, NewHit
  <2>2. NewHit(q) \in hits'  BY <1>5 DEF EvalStep, EvalParts
  <2> QED  BY <2>1, <2>2
<1>6. s \in served \/ (~ refused /\ s = NewPass(q))  BY DEF EvalStep, EvalParts
<1> QED  BY <1>4, <1>5, <1>6

\* With "lost" hits nothing is claimed; otherwise who passes in time is one more, and
\* who does not pass changes nothing.
LEMMA EvalKeepsLimit == ASSUME NEW q, NEW refused, EvalStep(q, refused) PROVE WindowKeepsLimit'
<1>1. LimitSound /\ ReadingIsSound(q) /\ failOpen' = failOpen /\ CountsAreKept  BY DEF EvalStep
<1>2. failOpen' \/ ~ uncounted'  BY <1>1 DEF LimitSound, LimitInv, WindowKeepsLimit, CountsAreKept
<1>3. "lost" \in disturbed => "lost" \in disturbed'  BY DEF EvalStep, EvalParts
<1>4. ASSUME "lost" \notin disturbed, NEW t \in Times PROVE Cardinality(Passed(served', t)) <= Limit
  <2>1. Cardinality(Passed(served, t)) <= Limit
    BY <1>1, <1>4 DEF LimitSound, LimitInv, WindowKeepsLimit, Passed
  <2>2. CASE served' = served  BY <2>1, <2>2
  <2>3. CASE ~ refused /\ served' = served \cup {NewPass(q)}
    <3>1. CountedBy(q) \in SUBSET Hit /\ IsFiniteSet(CountedBy(q)) /\ Cardinality(CountedBy(q)) \in Nat
      BY <1>1, CountedHits
    <3>2. Cardinality(CountedBy(q)) < Limit
      <4>1. ~ (Cardinality(CountedBy(q)) >= Limit)  BY <2>3 DEF EvalStep, Refuses
      <4> QED  BY <3>1, <4>1, LimitConstants
    <3>3. served \in SUBSET Passes /\ IsFiniteSet(served)  BY <1>1 DEF LimitSound, LimitTypes, Passes
    <3>4. NewPass(q) \in Passes
      <4>1. q.now \in Times /\ q.id \in HitIds  BY <1>1 DEF ReadingIsSound
      <4>2. q.now \in Nat /\ Horizon \in Nat  BY EvalNumbers
      <4>3. Overtaken(q) \in BOOLEAN  BY <4>2 DEF Overtaken
      <4> QED  BY <4>1, <4>3 DEF NewPass, Passes
    <3> DEFINE p == NewPass(q)
    <3>5. p.at = q.now /\ p.late = Overtaken(q)  BY DEF NewPass
    <3> HIDE DEF p
    <3>6. ~ p.late => \A s \in served : s.late \/ s.at + Window <= p.at \/ [at |-> s.at, id |-> s.id] \in CountedBy(q)
      <4>1. ASSUME ~ Overtaken(q), NEW s \in served
            PROVE  s.late \/ s.at + Window <= q.now \/ [at |-> s.at, id |-> s.id] \in CountedBy(q)
        BY <1>1, <1>4, <4>1, PassedAreCounted
      <4> QED  BY <3>5, <4>1, Zenon
    <3>7. p \in Passes /\ served' = served \cup {p}  BY <2>3, <3>4 DEF p
    <3>8. Cardinality(Passed(served \cup {p}, t)) <= Limit
      BY <2>1, <3>1, <3>2, <3>3, <3>6, <3>7, WindowCount
    <3> QED  BY <3>7, <3>8
  <2>4. served' = served \/ (~ refused /\ served' = served \cup {NewPass(q)})
    BY DEF EvalStep, EvalParts
  <2> QED  BY <2>2, <2>3, <2>4
<1> QED  BY <1>2, <1>3, <1>4 DEF WindowKeepsLimit, Passed

LEMMA EvalKeepsRetry == ASSUME NEW q, NEW refused, EvalStep(q, refused) PROVE RetryIsEnough'
<1>1. CASE refused /\ Cardinality(CountedBy(q)) = Limit
  <2>1. CountedBy(q) \in SUBSET Hit /\ IsFiniteSet(CountedBy(q)) /\ (\A h \in CountedBy(q) : h.at + Window > q.now)
    BY CountedHits DEF EvalStep
  <2>2. q.now \in Times  BY DEF EvalStep, ReadingIsSound
  <2>3. hits' = CountedBy(q) /\ room' = q.now + Second * RetryAfter(CountedBy(q), q.now)
    BY <1>1 DEF EvalStep, EvalParts
  <2> HIDE DEF CountedBy
  <2>4. Cardinality({h \in CountedBy(q) : h.at + Window > room'}) < Limit
    BY <1>1, <2>1, <2>2, <2>3, RetryLeavesRoom
  <2> QED  BY <2>3, <2>4 DEF RetryIsEnough
<1>2. CASE ~ (refused /\ Cardinality(CountedBy(q)) = Limit)
  <2>1. room' = 0  BY <1>2 DEF EvalStep, EvalParts
  <2> QED  BY <2>1 DEF RetryIsEnough
<1> QED  BY <1>1, <1>2

\* What a refusal names is a number of ticks.
LEMMA RoomIsNumber == ASSUME NEW q, NEW refused, EvalStep(q, refused) PROVE room' \in Nat
<1>1. CASE refused /\ Cardinality(CountedBy(q)) = Limit
  <2>1. CountedBy(q) \in SUBSET Hit /\ IsFiniteSet(CountedBy(q)) /\ (\A h \in CountedBy(q) : h.at + Window > q.now)
    BY CountedHits DEF EvalStep
  <2>2. q.now \in Times  BY DEF EvalStep, ReadingIsSound
  <2>3. room' = q.now + Second * RetryAfter(CountedBy(q), q.now)  BY <1>1 DEF EvalStep, EvalParts
  <2> QED  BY <1>1, <2>1, <2>2, <2>3, RetryLeavesRoom
<1>2. CASE ~ (refused /\ Cardinality(CountedBy(q)) = Limit)  BY <1>2 DEF EvalStep, EvalParts
<1> QED  BY <1>1, <1>2

\* Without a disturbance both limiters count the same hits.
LEMMA EvalKeepsAgreement == ASSUME NEW q, NEW refused, EvalStep(q, refused) PROVE SameHits' /\ AgreesWithMemory'
<1> SUFFICES ASSUME disturbed' = {} PROVE SameHits' /\ AgreesWithMemory'
  BY DEF SameHits, AgreesWithMemory
<1>1. LimitSound /\ ReadingIsSound(q) /\ ~ Overtaken(q) /\ disturbed = {}  BY DEF EvalStep, EvalParts
<1>2. memory = hits /\ ~ unlike  BY <1>1 DEF LimitSound, LimitInv, SameHits, AgreesWithMemory
<1>3. CountedBy(q) = Recent(q.now)
  <2>1. ASSUME NEW h \in CountedBy(q) PROVE h \in Recent(q.now)
    <3>1. h \in hits /\ h.at + Window > q.now  BY <1>1, CountedHits
    <3> QED  BY <1>2, <3>1 DEF Recent
  <2>2. ASSUME NEW h \in Recent(q.now) PROVE h \in CountedBy(q)
    <3>1. h \in hits /\ h.at + Window > q.now  BY <1>2 DEF Recent
    <3>2. h.at \in Nat /\ q.now \in Nat /\ Window \in Nat
      BY <1>1, <3>1, HitFields, EvalNumbers, LimitConstants DEF LimitSound, LimitTypes
    <3>3. h \in CountedBy(q) \/ h.at + Window <= q.now  BY <1>1, <3>1, UncountedHasLeft
    <3> QED  BY <3>1, <3>2, <3>3
  <2> HIDE DEF CountedBy, Recent
  <2> QED  BY <2>1, <2>2
<1>4. refused = MemoryRefuses(q.now)  BY <1>3 DEF EvalStep, Refuses, MemoryRefuses
<1>5. RetryAfter(CountedBy(q), q.now) = MemoryRetryAfter(q.now)
  BY <1>3 DEF RetryAfter, MemoryRetryAfter
<1>6. ~ unlike'  BY <1>2, <1>4, <1>5 DEF EvalStep, EvalParts
<1>7. memory' = hits'  BY <1>3, <1>4 DEF EvalStep, EvalParts
<1> QED  BY <1>6, <1>7 DEF SameHits, AgreesWithMemory

LEMMA EvalSound ==
    ASSUME LimitSound, NEW c \in LimitCalls, NEW answered \in BOOLEAN, EvalScript(c, answered)
    PROVE  LimitSound'
<1> DEFINE q == limitCalls[c]
           refused == Refuses(CountedBy(q))
<1>1. ReadingIsSound(q)  BY EvalReads
<1>2. /\ EvalParts(q, refused) /\ CountsAreKept
      /\ UNCHANGED <<failOpen, clock, script, loaded, restarts, limitBegun>> /\ AnswerCall(c)
  BY EvalHasParts
<1>3. refused \in BOOLEAN
  <2>1. Cardinality(CountedBy(q)) \in Nat  BY CountedHits
  <2> QED  BY <2>1, LimitConstants DEF Refuses
<1>4. EvalStep(q, refused)  BY <1>1, <1>2, <1>3 DEF EvalStep
<1> HIDE DEF q, refused
<1>5. /\ hits' \subseteq Hit /\ memory' \subseteq Hit /\ IsFiniteSet(hits') /\ disturbed' \subseteq Disturbances
      /\ served' \subseteq Passes /\ IsFiniteSet(served') /\ unlike' \in BOOLEAN
  BY <1>4, EvalKeepsTypes
<1>6. newest' \in Times /\ until' \in 0 .. (MaxTime + Window) /\ room' \in Nat /\ clock \in Nat
  BY <1>4, EvalNumbers, RoomIsNumber
<1>7. LimitTypes /\ (\A d \in LimitCalls : CallIsSound(d))  BY DEF LimitSound, LimitInv
<1>8. LimitIdle \in LimitCall /\ LimitIdle.now = 0 /\ LimitIdle.step = "idle"
  BY LimitConstants DEF LimitIdle, LimitCall, Times
<1>9. limitCalls' = [limitCalls EXCEPT ![c] = LimitIdle] /\ limitCalls \in [LimitCalls -> LimitCall]
  BY <1>2, <1>7 DEF AnswerCall, LimitTypes
<1>10. uncounted' \in BOOLEAN  BY <1>2, <1>7, Zenon DEF CountsAreKept, LimitTypes
<1>11. LimitTypes'
  <2>1. limitCalls' \in [LimitCalls -> LimitCall]  BY <1>8, <1>9
  <2> QED  BY <1>2, <1>5, <1>6, <1>7, <1>10, <2>1 DEF LimitTypes, Passes
<1>12. ASSUME NEW d \in LimitCalls PROVE CallIsSound(d)'
  <2>1. CASE d = c  BY <1>2, <1>6, <1>8, <1>9, <2>1 DEF CallIsSound
  <2>2. CASE d # c  BY <1>2, <1>7, <1>9, <2>2 DEF CallIsSound
  <2> QED  BY <2>1, <2>2
<1>13. HitsExpire' /\ PassedIsCounted' /\ SameHits' /\ WindowKeepsLimit' /\ RetryIsEnough' /\ AgreesWithMemory'
  BY <1>4, EvalKeepsExpiry, EvalCountsPassed, EvalKeepsAgreement, EvalKeepsLimit, EvalKeepsRetry
<1> QED  BY <1>5, <1>11, <1>12, <1>13 DEF LimitSound, LimitInv

\* The invariant of the limiter: calls read a time that has been, hits expire with
\* their key, who has passed in time is counted as long as he is in the window of a
\* reading, and the two limiters keep the same hits unless one is disturbed.
THEOREM LimitInvariant == LimitSpec => [](LimitTypeOK /\ LimitInv)
<1>1. LimitInit => LimitSound  BY LimitInitSound
<1>2. LimitSound /\ [LimitNext]_limitVars => LimitSound'
  <2> SUFFICES ASSUME LimitSound, [LimitNext]_limitVars PROVE LimitSound'  OBVIOUS
  <2>1. CASE UNCHANGED limitVars
    BY <2>1 DEF limitVars, LimitSound, LimitTypes, LimitInv, CallIsSound, HitsExpire, PassedIsCounted, SameHits,
                WindowKeepsLimit, RetryIsEnough, AgreesWithMemory, InWindow
  <2>2. ASSUME NEW c \in LimitCalls, EnterLimiter(c) \/ LoadScript(c) \/ ReadTime(c) \/ RedisError(c) PROVE LimitSound'
    BY <2>2, CallStepSound
  <2>3. ASSUME NEW c \in LimitCalls, NEW answered \in BOOLEAN, EvalScript(c, answered) PROVE LimitSound'
    BY <2>3, EvalSound
  <2>4. ASSUME NEW stays \in BOOLEAN, RestartRedis(stays) PROVE LimitSound'  BY <2>4, RestartSound
  <2>5. CASE Tick  BY <2>5, TickSound
  <2> QED  BY <2>1, <2>2, <2>3, <2>4, <2>5 DEF LimitNext
<1>3. LimitSound => LimitTypeOK /\ LimitInv  BY LimitTypesHold DEF LimitSound
<1> QED  BY <1>1, <1>2, <1>3, PTL DEF LimitSpec

\* For every limit, window and number of requests: no window lets more pass in time
\* than the limit, Retry-After is never too short, undisturbed limiters answer alike,
\* and a script that Redis has lost stays lost once nobody is about to load it
\* (RedisSlidingWindowLimiter.consume, InMemorySlidingWindowLimiter.consume).
THEOREM LimiterAlwaysHolds == LimitSpec => LimiterHolds
<1>1. LimitInv => WindowKeepsLimit /\ RetryIsEnough /\ AgreesWithMemory  BY DEF LimitInv
<1>2. LimitTypeOK /\ [LimitNext]_limitVars => [loaded /\ ~ script /\ NobodyLoads => ~ script' /\ NobodyLoads']_limitVars
  <2> SUFFICES ASSUME LimitTypes, LimitNext, loaded, ~ script, NobodyLoads PROVE ~ script' /\ NobodyLoads'
    BY LimitTypesHold DEF limitVars
  <2>1. limitCalls \in [LimitCalls -> LimitCall]  BY DEF LimitTypes
  <2>2. ASSUME NEW c \in LimitCalls, NEW r, r.step # "load", script' = script, limitCalls' = [limitCalls EXCEPT ![c] = r]
        PROVE  ~ script' /\ NobodyLoads'
    BY <2>1, <2>2 DEF NobodyLoads
  <2>3. ASSUME NEW c \in LimitCalls, EnterLimiter(c) PROVE ~ script' /\ NobodyLoads'
    <3> DEFINE r == [step |-> "time", now |-> 0, id |-> limitBegun + 1]
    <3>1. script' = script /\ limitCalls' = [limitCalls EXCEPT ![c] = r]
      BY <2>3 DEF EnterLimiter, NeedsScript
    <3>2. r.step # "load"  OBVIOUS
    <3> QED  BY <2>2, <3>1, <3>2
  <2>4. ASSUME NEW c \in LimitCalls, LoadScript(c) PROVE FALSE  BY <2>4 DEF LoadScript, NobodyLoads
  <2>5. ASSUME NEW c \in LimitCalls, ReadTime(c) PROVE ~ script' /\ NobodyLoads'
    <3> DEFINE r == [limitCalls[c] EXCEPT !.step = "eval", !.now = clock]
    <3>1. script' = script /\ limitCalls' = [limitCalls EXCEPT ![c] = r]  BY <2>5 DEF ReadTime
    <3>2. r.step # "load"  BY <2>1 DEF LimitCall
    <3> QED  BY <2>2, <3>1, <3>2
  <2>6. LimitIdle.step # "load"  BY DEF LimitIdle
  <2>7. ASSUME NEW c \in LimitCalls, RedisError(c) PROVE ~ script' /\ NobodyLoads'
    <3>1. script' = script /\ limitCalls' = [limitCalls EXCEPT ![c] = LimitIdle]
      BY <2>7 DEF RedisError, AnswerCall
    <3> QED  BY <2>2, <2>6, <3>1
  <2>8. ASSUME NEW c \in LimitCalls, NEW answered \in BOOLEAN, EvalScript(c, answered) PROVE FALSE
    BY <2>8 DEF EvalScript
  <2>9. ASSUME NEW stays \in BOOLEAN, RestartRedis(stays) PROVE ~ script' /\ NobodyLoads'
    BY <2>9 DEF RestartRedis, NobodyLoads
  <2>10. CASE Tick  BY <2>10 DEF Tick, NobodyLoads
  <2> QED  BY <2>3, <2>4, <2>5, <2>7, <2>8, <2>9, <2>10 DEF LimitNext
<1>3. LimitSpec => [](LimitTypeOK /\ LimitInv)  BY LimitInvariant
<1> QED  BY <1>1, <1>2, <1>3, PTL DEF LimitSpec, LimiterHolds, ScriptStaysLost
================================================================================
