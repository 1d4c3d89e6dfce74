---------------------------- MODULE BotQuotaProofs ----------------------------
(***************************************************************************)
(* Theorems of what is counted and who is in charge.  The limit on bots    *)
(* for any number of requests and any plans: it holds unless a request     *)
(* provisioned the owner's subscription row, because the advisory lock     *)
(* then lasts from the count to the insert, and with such a request it is  *)
(* exceeded by one bot at most (BotQuota).  Moderation for any number of   *)
(* superadmins, rows and overlapping requests: the trail tells what the    *)
(* rows are (AdminOffice).  Flags, coupons, tickets and logs for any       *)
(* number of calls: unique keys, no column undone, the trail in order      *)
(* (OfficeCatalog).                                                        *)
(***************************************************************************)
EXTENDS BotQuota, AdminOffice, OfficeCatalog, FiniteSetTheorems, TLAPS

USE QuotaAssumption

\* The bots are finitely many; one more counts one more, one less no more.
LEMMA CountOfBots ==
  ASSUME NEW B \in SUBSET Requests, NEW r \in Requests
  PROVE  /\ IsFiniteSet(B) /\ Cardinality(B) \in Nat
         /\ Cardinality(B \cup {r}) \in Nat /\ Cardinality(B \cup {r}) <= Cardinality(B) + 1
         /\ Cardinality(B \ {r}) \in Nat /\ Cardinality(B \ {r}) <= Cardinality(B)
<1>1. IsFiniteSet(B)  BY FS_Subset
<1>2. Cardinality(B) \in Nat  BY <1>1, FS_CardinalityType
<1>3. Cardinality(B \cup {r}) = IF r \in B THEN Cardinality(B) ELSE Cardinality(B) + 1
  BY <1>1, FS_AddElement
<1>4. Cardinality(B \ {r}) = IF r \in B THEN Cardinality(B) - 1 ELSE Cardinality(B)
  BY <1>1, FS_RemoveElement
<1>5. Cardinality(B \ {r}) \in Nat  BY <1>1, FS_CardinalityType, FS_Subset
<1>6. QED BY <1>1, <1>2, <1>3, <1>4, <1>5

\* Every handler keeps the bookkeeping in its declared ranges.
THEOREM QuotaTypeCorrect == Spec => []TypeOK
<1>1. Init => TypeOK  BY DEF Init, TypeOK, Stages
<1>2. TypeOK /\ [Next]_vars => TypeOK'
  <2> SUFFICES ASSUME TypeOK, [Next]_vars PROVE TypeOK'  OBVIOUS
  <2> USE DEF TypeOK, Stages, Step, EndTransaction
  <2>1. ASSUME NEW r \in Requests, CreateBot(r) PROVE TypeOK'
    <3>1. CASE Acquire(r)           BY <3>1 DEF Acquire
    <3>2. CASE CountBots(r)         BY <3>2, CountOfBots DEF CountBots
    <3>3. CASE ReadPlan(r)          BY <3>3 DEF ReadPlan
    <3>4. CASE FindsNoPlan(r)       BY <3>4 DEF FindsNoPlan
    <3>5. CASE Provision(r)         BY <3>5 DEF Provision
    <3>6. CASE ProvisionCollides(r) BY <3>6 DEF ProvisionCollides
    <3>7. CASE Allow(r)             BY <3>7 DEF Allow
    <3>8. CASE Refuse(r)            BY <3>8 DEF Refuse
    <3>9. CASE Insert(r)            BY <3>9 DEF Insert
    <3>10. CASE Linked(r)           BY <3>10 DEF Linked
    <3>11. CASE LinkFails(r)        BY <3>11 DEF LinkFails
    <3>12. QED  BY <2>1, <3>1, <3>2, <3>3, <3>4, <3>5, <3>6, <3>7, <3>8, <3>9, <3>10, <3>11 DEF CreateBot
  <2>2. ASSUME NEW r \in Requests, Abort(r) \/ DeleteBot(r) PROVE TypeOK'  BY <2>2 DEF Abort, DeleteBot
  <2>3. ASSUME NEW p \in Plans, ChangePlan(p) PROVE TypeOK'  BY <2>3 DEF ChangePlan
  <2>4. CASE UNCHANGED vars  BY <2>4 DEF vars
  <2>5. QED BY <2>1, <2>2, <2>3, <2>4 DEF Next
<1>3. QED BY <1>1, <1>2, PTL DEF Spec

-----------------------------------------------------------------------------
LEMMA OverIsOneAtMost == Over \in {0, 1} /\ (provisioner = NoRequest => Over = 0)
  BY DEF Over

\* Steps that add no bot and let nobody into the lock keep the invariant.
LEMMA NoInsertKeepsQuota ==
  ASSUME TypeOK, QuotaInv, NEW r \in Requests,
         plan' # NoPlan => plan' \in granted', granted \subseteq granted',
         provisioner' = provisioner, plan # NoPlan => plan' # NoPlan,
         Over <= Over',
         bots' \subseteq bots, Cardinality(bots') <= Cardinality(bots), Cardinality(bots') \in Nat,
         \A q \in Requests \ {r} : pc'[q] = pc[q] /\ seen'[q] = seen[q] /\ limits'[q] = limits[q],
         r = provisioner => pc'[r] \in {"read", "allowed", "linking", "done"},
         r # provisioner /\ pc'[r] \in LockedStages => lock' = r,
         pc'[r] \in {"read", "allowed"} => limits'[r] \in granted',
         pc'[r] = "allowed" => Permits(r)',
         r # provisioner /\ pc'[r] \in LockedStages \ {"locked"} =>
             Cardinality(bots) <= seen'[r] + Over /\ seen'[r] \in Nat,
         \A q \in Requests \ {r, provisioner} : pc[q] \in LockedStages => lock' = q
  PROVE  QuotaInv'
<1>0. Cardinality(bots) \in Nat /\ seen \in [Requests -> Nat] /\ Over \in {0, 1} /\ Over' \in {0, 1}
  BY CountOfBots, OverIsOneAtMost DEF TypeOK, Over
<1>1. ASSUME NEW q \in Requests \ {provisioner'}, pc'[q] \in LockedStages \ {"locked"}
      PROVE  Cardinality(bots') <= seen'[q] + Over'
  <2>1. Cardinality(bots) <= seen'[q] + Over /\ seen'[q] \in Nat
    <3>1. CASE q = r  BY <1>1, <3>1
    <3>2. CASE q # r  BY <1>0, <1>1, <3>2 DEF QuotaInv
    <3>3. QED BY <3>1, <3>2
  <2>2. QED BY <1>0, <2>1
<1>2. ASSUME bots' # {}
      PROVE  \E p \in granted' : p \in UnlimitedPlans \/ Cardinality(bots') <= BotsMax[p] + Over'
  <2>1. PICK p \in granted : p \in UnlimitedPlans \/ Cardinality(bots) <= BotsMax[p] + Over
    BY <1>2 DEF QuotaInv
  <2>2. BotsMax[p] \in Nat  BY DEF TypeOK
  <2>3. p \in UnlimitedPlans \/ Cardinality(bots') <= BotsMax[p] + Over'  BY <1>0, <2>1, <2>2
  <2>4. QED BY <2>3
<1>3. \A q \in Requests \ {provisioner'} : pc'[q] \in LockedStages => lock' = q  BY DEF QuotaInv
<1>4. /\ \A q \in Requests : pc'[q] \in {"read", "allowed"} => limits'[q] \in granted'
      /\ \A q \in Requests : pc'[q] = "allowed" => Permits(q)'
  BY DEF QuotaInv, Permits
<1>5. provisioner' # NoRequest =>
        plan' # NoPlan /\ pc'[provisioner'] \in {"read", "allowed", "linking", "done"}
  BY DEF QuotaInv, TypeOK
<1>6. QED BY <1>1, <1>2, <1>3, <1>4, <1>5 DEF QuotaInv

\* The insert is the only step that adds a bot.  A request that holds the lock
\* has counted all bots but, perhaps, the provisioner's; the provisioner has not,
\* and its insert is the one that goes unseen.
LEMMA InsertKeepsQuota ==
  ASSUME TypeOK, QuotaInv, NEW r \in Requests, Insert(r)
  PROVE  QuotaInv'
<1> DEFINE N == Cardinality(bots)
<1>1. /\ pc[r] = "allowed" /\ pc'[r] \in {"done", "linking"}
      /\ \A q \in Requests \ {r} : pc'[q] = pc[q]
      /\ bots' = bots \cup {r} /\ plan' = plan /\ seen' = seen /\ limits' = limits
      /\ granted' = granted /\ provisioner' = provisioner
      /\ lock' = IF lock = r THEN NoRequest ELSE lock
  BY DEF Insert, Step, EndTransaction, TypeOK
<1>2. /\ N \in Nat /\ Cardinality(bots') \in Nat /\ Cardinality(bots') <= N + 1
      /\ Over \in {0, 1} /\ Over' \in {0, 1}
      /\ \A q \in Requests : seen[q] \in Nat
      /\ \A p \in granted : BotsMax[p] \in Nat
  BY <1>1, CountOfBots, OverIsOneAtMost DEF TypeOK, Over
<1>3. CASE r = provisioner
  <2>1. Over = 0 /\ Over' = 1  BY <1>1, <1>3 DEF Over
  <2>2. ASSUME NEW q \in Requests \ {provisioner'}, pc'[q] \in LockedStages
        PROVE  /\ lock' = q
               /\ pc'[q] # "locked" => Cardinality(bots') <= seen'[q] + Over'
    <3>1. pc[q] = pc'[q] /\ lock = q /\ q # r  BY <1>1, <1>3, <2>2 DEF QuotaInv
    <3>2. pc'[q] # "locked" => N <= seen[q] + 0  BY <2>1, <2>2, <3>1, <1>1 DEF QuotaInv
    <3>3. QED BY <1>1, <1>2, <2>1, <3>1, <3>2
  <2>3. \E p \in granted' : p \in UnlimitedPlans \/ Cardinality(bots') <= BotsMax[p] + Over'
    <3>1. CASE bots = {}
      <4>1. limits[r] \in granted /\ N = 0  BY <1>1, <3>1, FS_EmptySet DEF QuotaInv
      <4>2. Cardinality(bots') <= BotsMax[limits[r]] + 1  BY <1>2, <4>1
      <4>3. QED BY <1>1, <2>1, <4>1, <4>2
    <3>2. CASE bots # {}
      <4>1. PICK p \in granted : p \in UnlimitedPlans \/ N <= BotsMax[p] + 0  BY <2>1, <3>2 DEF QuotaInv
      <4>2. p \in UnlimitedPlans \/ Cardinality(bots') <= BotsMax[p] + 1  BY <1>2, <4>1
      <4>3. QED BY <1>1, <2>1, <4>2
    <3>3. QED BY <3>1, <3>2
  <2>4. QED BY <1>1, <1>3, <2>2, <2>3 DEF QuotaInv, Permits
<1>4. CASE r # provisioner
  <2>1. Over' = Over  BY <1>1, <1>4 DEF Over, TypeOK
  <2>2. lock = r /\ N <= seen[r] + Over /\ Allows(seen[r], limits[r]) /\ limits[r] \in granted
    BY <1>1, <1>4 DEF QuotaInv, LockedStages, Permits
  <2>3. \A q \in Requests \ {provisioner'} : pc'[q] \notin LockedStages
    BY <1>1, <1>4, <2>2 DEF QuotaInv, LockedStages
  <2>4. limits[r] \in UnlimitedPlans \/ Cardinality(bots') <= BotsMax[limits[r]] + Over'
    BY <1>2, <2>1, <2>2 DEF Allows
  <2>5. provisioner' # NoRequest =>
          plan' # NoPlan /\ pc'[provisioner'] \in {"read", "allowed", "linking", "done"}
    BY <1>1, <1>4 DEF QuotaInv, TypeOK
  <2>6. \A q \in Requests : /\ pc'[q] \in {"read", "allowed"} => limits'[q] \in granted'
                            /\ pc'[q] = "allowed" => Permits(q)'
    BY <1>1 DEF QuotaInv, Permits
  <2>7. plan' # NoPlan => plan' \in granted'  BY <1>1 DEF QuotaInv
  <2>8. QED BY <1>1, <2>2, <2>3, <2>4, <2>5, <2>6, <2>7 DEF QuotaInv
<1>5. QED BY <1>3, <1>4

\* The commit that provisions the row takes the lock from its request, which
\* alone was let in: nobody else is on the way to an insert.
LEMMA ProvisionKeepsQuota ==
  ASSUME TypeOK, QuotaInv, NEW r \in Requests, Provision(r)
  PROVE  QuotaInv'
<1>1. /\ plan = NoPlan /\ pc[r] = "unprovisioned" /\ pc'[r] = "read"
      /\ \A q \in Requests \ {r} : pc'[q] = pc[q] /\ limits'[q] = limits[q]
      /\ plan' = FreePlan /\ plan' # NoPlan /\ limits'[r] = FreePlan /\ granted' = granted \cup {FreePlan}
      /\ provisioner' = r /\ bots' = bots /\ seen' = seen
  BY DEF Provision, Step, TypeOK
<1>2. provisioner = NoRequest /\ lock = r  BY <1>1 DEF QuotaInv, LockedStages, TypeOK
<1>3. \A q \in Requests \ {r} : pc'[q] \notin LockedStages  BY <1>1, <1>2 DEF QuotaInv
<1>4. Over = 0 /\ Over' = 0  BY <1>1, <1>2 DEF Over
<1>5. QED BY <1>1, <1>2, <1>3, <1>4 DEF QuotaInv, LockedStages, Permits

LEMMA QuotaIsInductive == TypeOK /\ QuotaInv /\ [Next]_vars => QuotaInv'
<1> SUFFICES ASSUME TypeOK, QuotaInv, [Next]_vars PROVE QuotaInv'  OBVIOUS
<1>0. /\ Cardinality(bots) \in Nat /\ \A q \in Requests : seen[q] \in Nat
      /\ Over \in {0, 1} /\ Over' \in {0, 1}
  BY FS_Subset, FS_CardinalityType, OverIsOneAtMost DEF TypeOK, Over
<1>1. ASSUME NEW r \in Requests, CreateBot(r) PROVE QuotaInv'
  <2> USE DEF Step, LockedStages, EndTransaction
  <2>1. CASE Insert(r)  BY <2>1, InsertKeepsQuota
  <2>2. CASE Provision(r)  BY <2>2, ProvisionKeepsQuota
  <2>3. CASE Acquire(r)
    <3>1. Over <= Over' /\ r # provisioner  BY <1>0, <2>3 DEF Acquire, Over, TypeOK, QuotaInv
    <3>2. QED BY <1>0, <2>3, <3>1, NoInsertKeepsQuota DEF Acquire, TypeOK, QuotaInv
  <2>4. CASE CountBots(r)
    <3>1. Over <= Over' /\ r # provisioner  BY <1>0, <2>4 DEF CountBots, Over, TypeOK, QuotaInv
    <3>2. QED BY <1>0, <2>4, <3>1, NoInsertKeepsQuota DEF CountBots, TypeOK, QuotaInv
  <2>5. CASE ReadPlan(r)
    <3>1. Over <= Over' /\ r # provisioner  BY <1>0, <2>5 DEF ReadPlan, Over, TypeOK, QuotaInv
    <3>2. QED BY <1>0, <2>5, <3>1, NoInsertKeepsQuota DEF ReadPlan, TypeOK, QuotaInv
  <2>6. CASE FindsNoPlan(r)
    <3>1. Over <= Over' /\ r # provisioner  BY <1>0, <2>6 DEF FindsNoPlan, Over, TypeOK, QuotaInv
    <3>2. QED BY <1>0, <2>6, <3>1, NoInsertKeepsQuota DEF FindsNoPlan, TypeOK, QuotaInv
  <2>7. CASE ProvisionCollides(r)
    <3>1. Over <= Over' /\ r # provisioner  BY <1>0, <2>7 DEF ProvisionCollides, Over, TypeOK, QuotaInv
    <3>2. QED BY <1>0, <2>7, <3>1, NoInsertKeepsQuota DEF ProvisionCollides, TypeOK, QuotaInv
  <2>8. CASE Allow(r)
    <3>1. Over <= Over'  BY <1>0, <2>8 DEF Allow, Over, TypeOK, QuotaInv
    <3>2. QED BY <1>0, <2>8, <3>1, NoInsertKeepsQuota DEF Allow, TypeOK, QuotaInv, Permits
  <2>9. CASE Refuse(r)
    <3>1. Over <= Over'  BY <1>0, <2>9 DEF Refuse, Over, TypeOK, QuotaInv
    <3>2. QED BY <1>0, <2>9, <3>1, NoInsertKeepsQuota DEF Refuse, TypeOK, QuotaInv
  <2>10. CASE Linked(r)
    <3>1. Over <= Over'  BY <1>0, <2>10 DEF Linked, Over, TypeOK, QuotaInv
    <3>2. QED BY <1>0, <2>10, <3>1, NoInsertKeepsQuota DEF Linked, TypeOK, QuotaInv
  <2>11. CASE LinkFails(r)
    <3>1. Over <= Over'  BY <1>0, <2>11 DEF LinkFails, Over, TypeOK, QuotaInv
    <3>2. /\ bots' \subseteq bots /\ Cardinality(bots') <= Cardinality(bots) /\ Cardinality(bots') \in Nat
          /\ pc[r] = "linking" /\ pc' = [pc EXCEPT ![r] = "done"] /\ pc'[r] = "done"
      BY <2>11, CountOfBots DEF LinkFails, TypeOK
    <3>3. QED BY <1>0, <2>11, <3>1, <3>2, NoInsertKeepsQuota, SMTT(30) DEF LinkFails, TypeOK, QuotaInv
  <2>12. QED  BY <1>1, <2>1, <2>2, <2>3, <2>4, <2>5, <2>6, <2>7, <2>8, <2>9, <2>10, <2>11 DEF CreateBot
<1>2. ASSUME NEW r \in Requests, Abort(r) PROVE QuotaInv'
  <2>1. Over <= Over'  BY <1>0, <1>2 DEF Abort, Over, TypeOK, QuotaInv
  <2>2. QED  BY <1>0, <1>2, <2>1, NoInsertKeepsQuota DEF Abort, EndTransaction, LockedStages, TypeOK, QuotaInv
<1>3. ASSUME NEW r \in Requests, DeleteBot(r) PROVE QuotaInv'
  <2>1. Over <= Over'  BY <1>0, <1>3 DEF DeleteBot, Over
  <2>2. QED
    BY <1>0, <1>3, <2>1, CountOfBots, NoInsertKeepsQuota DEF DeleteBot, LockedStages, TypeOK, QuotaInv, Permits
<1>4. ASSUME NEW p \in Plans, ChangePlan(p) PROVE QuotaInv'
  <2>1. /\ plan' = p /\ plan' # NoPlan /\ granted' = granted \cup {p} /\ provisioner' = provisioner
        /\ bots' = bots /\ lock' = lock /\ pc' = pc /\ seen' = seen /\ limits' = limits
    BY <1>4 DEF ChangePlan
  <2>2. Over' = Over  BY <2>1 DEF Over
  <2>3. QED BY <2>1, <2>2 DEF QuotaInv, Permits
<1>5. CASE UNCHANGED vars  BY <1>5 DEF vars, QuotaInv, Over, Permits, LockedStages
<1>6. QED BY <1>1, <1>2, <1>3, <1>4, <1>5 DEF Next

(***************************************************************************)
(* Parallel creations and clones do not exceed the limit of the plan, as   *)
(* long as no request that creates a bot provisions the subscription row.  *)
(***************************************************************************)
THEOREM QuotaHolds == Spec => []QuotaKept
<1>1. Init => QuotaInv  BY DEF Init, QuotaInv, LockedStages, Over
<1>2. TypeOK /\ QuotaInv => QuotaKept
  <2> SUFFICES ASSUME TypeOK, QuotaInv, provisioner = NoRequest, bots # {}
               PROVE  \E p \in granted : Within(Cardinality(bots), p)
    BY DEF QuotaKept, LimitHolds
  <2>1. PICK p \in granted : p \in UnlimitedPlans \/ Cardinality(bots) <= BotsMax[p] + 0
    BY OverIsOneAtMost DEF QuotaInv
  <2>2. BotsMax[p] \in Nat  BY DEF TypeOK
  <2>3. QED BY <2>1, <2>2 DEF Within
<1>3. QED BY <1>1, <1>2, QuotaIsInductive, QuotaTypeCorrect, PTL DEF Spec

(***************************************************************************)
(* Even with such a request, the owner ends up with one bot too many at    *)
(* most, however many requests follow.                                     *)
(***************************************************************************)
THEOREM QuotaExceededByOne == Spec => []OneOverAtMost
<1>1. Init => QuotaInv  BY DEF Init, QuotaInv, LockedStages, Over
<1>2. TypeOK /\ QuotaInv => OneOverAtMost
  <2> SUFFICES ASSUME TypeOK, QuotaInv, bots # {}
               PROVE  \E p \in granted : p \in UnlimitedPlans \/ Cardinality(bots) <= BotsMax[p] + 1
    BY DEF OneOverAtMost
  <2>1. PICK p \in granted : p \in UnlimitedPlans \/ Cardinality(bots) <= BotsMax[p] + Over
    BY DEF QuotaInv
  <2>2. BotsMax[p] \in Nat /\ Cardinality(bots) \in Nat /\ Over \in {0, 1}
    BY FS_Subset, FS_CardinalityType, OverIsOneAtMost DEF TypeOK
  <2>3. p \in UnlimitedPlans \/ Cardinality(bots) <= BotsMax[p] + 1  BY <2>1, <2>2
  <2>4. QED BY <2>3
<1>3. QED BY <1>1, <1>2, QuotaIsInductive, QuotaTypeCorrect, PTL DEF Spec
-----------------------------------------------------------------------------
(* Moderation: the objects of one request.                                       *)

\* What a request that is under way holds.
Working(q) == q \in DeskType /\ DeskOK(q)

LEMMA AtWork ==
    ASSUME OfficeInv, NEW r \in Desks, NEW phase \in {"next", "flush"}, Doing(r, phase)
    PROVE  Working(desk[r]) /\ desk[r].phase = phase
<1>1. desk[r] # FreeDesk
  <2>1. FreeDesk.phase = "idle"  BY DEF FreeDesk
  <2> QED  BY <2>1 DEF Doing
<1>2. desk[r] \in DeskType  BY <1>1 DEF OfficeInv, OfficeTypeOK
<1> QED  BY <1>1, <1>2 DEF OfficeInv, Working, Doing

LEMMA OnwardFields ==
    ASSUME NEW q \in DeskType, NEW ok \in BOOLEAN, q.todo # << >>
    PROVE  /\ Onward(q, ok) \in DeskType
           /\ Onward(q, ok).phase = "next" /\ Onward(q, ok).op = q.op /\ Onward(q, ok).actor = q.actor
           /\ Onward(q, ok).copies = q.copies /\ Onward(q, ok).columns = q.columns
           /\ Onward(q, ok).entries = q.entries /\ Onward(q, ok).broken = q.broken
<1>1. Tail(q.todo) \in Seq(Subjects \cup {Missing}) /\ Head(q.todo) \in Subjects \cup {Missing}
  BY DEF DeskType
<1>2. PICK kept : kept = IF ok THEN q.kept \cup {Head(q.todo)} ELSE q.kept  OBVIOUS
<1>3. kept \in SUBSET (Subjects \cup {Missing})  BY <1>1, <1>2 DEF DeskType
<1>4. Onward(q, ok) = [q EXCEPT !.todo = Tail(q.todo), !.phase = "next", !.kept = kept]
  BY <1>2 DEF Onward
<1> QED  BY <1>1, <1>3, <1>4 DEF DeskType

\* Two records with the same copies, columns and entries are alike in what they write.
SameWork(p, q) ==
    /\ p.op = q.op /\ p.actor = q.actor /\ p.copies = q.copies
    /\ p.columns = q.columns /\ p.entries = q.entries

LEMMA SameWorkIsOK ==
    ASSUME NEW p, NEW q, SameWork(p, q), DeskOK(q), p.phase = "next"
    PROVE  DeskOK(p)
BY DEF SameWork, DeskOK, WritesItsAction, TellsItsAction

LEMMA OnwardWorks ==
    ASSUME NEW q, NEW ok \in BOOLEAN, Working(q), q.todo # << >>
    PROVE  Working(Onward(q, ok))
<1>1. SameWork(Onward(q, ok), q) /\ Onward(q, ok).phase = "next" /\ Onward(q, ok) \in DeskType
  BY OnwardFields DEF Working, SameWork
<1> QED  BY <1>1, SameWorkIsOK DEF Working

\* Without columns and entries there is nothing to agree about but the copies.
LEMMA BlankIsOK ==
    ASSUME NEW q, \A s \in DOMAIN q.copies : Agrees(s, q.copies[s]),
           q.columns = [s \in Subjects |-> {}], q.entries = << >>, q.phase = "next"
    PROVE  DeskOK(q)
BY DEF DeskOK, WritesItsAction, TellsItsAction

LEMMA RolledBackWorks ==
    ASSUME NEW q, Working(q), q.todo # << >>
    PROVE  Working(RolledBack(q))
<1>1. PICK o : o = Onward(q, FALSE)  OBVIOUS
<1>2. o \in DeskType /\ o.copies = q.copies /\ o.phase = "next"  BY <1>1, OnwardFields DEF Working
<1>3. RolledBack(q) = [o EXCEPT !.columns = [s \in Subjects |-> {}], !.entries = << >>, !.broken = TRUE]
  BY <1>1 DEF RolledBack
<1>4. PICK none : none = [s \in Subjects |-> {}]  OBVIOUS
<1>6. none \in [Subjects -> SUBSET {"active", "suspended"}]  BY <1>4
<1>7. PICK e : e = [o EXCEPT !.columns = none]  OBVIOUS
<1>8. e \in DeskType /\ e.copies = q.copies /\ e.phase = "next" /\ e.columns = none
  BY <1>2, <1>6, <1>7 DEF DeskType
<1>9. PICK f : f = [e EXCEPT !.entries = << >>]  OBVIOUS
<1>10. f \in DeskType /\ f.copies = q.copies /\ f.phase = "next" /\ f.columns = none /\ f.entries = << >>
  <2>1. << >> \in Seq(EntryType)  OBVIOUS
  <2>2. PICK es : es = << >> /\ es \in Seq(EntryType)  BY <2>1
  <2>3. f = [e EXCEPT !.entries = es]  BY <1>9, <2>2
  <2>4. f \in DeskType /\ f.copies = e.copies /\ f.phase = e.phase /\ f.columns = e.columns /\ f.entries = es
    BY <1>8, <2>2, <2>3 DEF DeskType
  <2> QED  BY <1>8, <2>2, <2>4
<1>11. RolledBack(q) = [f EXCEPT !.broken = TRUE]  BY <1>3, <1>4, <1>7, <1>9, Zenon
<1>12. /\ RolledBack(q) \in DeskType /\ RolledBack(q).copies = q.copies /\ RolledBack(q).phase = "next"
      /\ RolledBack(q).columns = none /\ RolledBack(q).entries = << >>
  BY <1>10, <1>11 DEF DeskType
<1>5. \A s \in DOMAIN q.copies : Agrees(s, q.copies[s])  BY DEF Working, DeskOK
<1> QED  BY <1>4, <1>5, <1>12, BlankIsOK DEF Working

\* The committed rows agree, and so do the copies.
LEMMA CopyAgrees ==
    ASSUME OfficeInv, NEW r \in Desks, Working(desk[r]), NEW s \in Subjects
    PROVE  Copy(r, s) \in SubjectRow /\ Agrees(s, Copy(r, s))
<1>1. subject[s] \in SubjectRow /\ Agrees(s, subject[s])
  BY DEF OfficeInv, OfficeTypeOK, TrailTellsTruth, Agrees
<1>2. ASSUME s \in DOMAIN desk[r].copies
      PROVE  desk[r].copies[s] \in SubjectRow /\ Agrees(s, desk[r].copies[s])
  <2>1. desk[r].copies \in CopiesType  BY DEF Working, DeskType
  <2> QED  BY <1>2, <2>1 DEF CopiesType, Working, DeskOK
<1> QED  BY <1>1, <1>2 DEF Copy

\* The copies c are those of the request before, and a row for s.
Copied(c, before, s, row) ==
    /\ DOMAIN c = DOMAIN before \cup {s} /\ c[s] = row
    /\ \A x \in DOMAIN before : x # s => c[x] = before[x]

LEMMA WithCopyTyped ==
    ASSUME OfficeInv, NEW r \in Desks, Working(desk[r]), NEW s \in Subjects, NEW row \in SubjectRow
    PROVE  WithCopy(r, s, row) \in CopiesType /\ Copied(WithCopy(r, s, row), desk[r].copies, s, row)
<1>1. desk[r].copies \in CopiesType /\ DOMAIN desk[r].copies \in SUBSET Subjects
  BY DEF Working, DeskType, CopiesType
<1>2. \A x \in DOMAIN desk[r].copies : Copy(r, x) = desk[r].copies[x] /\ Copy(r, x) \in SubjectRow
  BY <1>1, CopyAgrees DEF Copy
<1>3. WithCopy(r, s, row) \in [DOMAIN desk[r].copies \cup {s} -> SubjectRow]  BY <1>2 DEF WithCopy
<1>4. WithCopy(r, s, row) \in CopiesType  BY <1>1, <1>3 DEF CopiesType
<1> QED  BY <1>2, <1>3, <1>4 DEF WithCopy, Copied
-----------------------------------------------------------------------------
(* Moderation: the steps of a request.                                           *)

\* What a request wants of a row: the row agrees, is as the action says, and differs
\* in each of its columns from one that agrees and is not so.
LEMMA WantedRow ==
    ASSUME NEW s \in Subjects, NEW row \in SubjectRow, NEW op \in Ops, Agrees(s, row)
    PROVE  /\ Wanted(op, s, row) \in SubjectRow /\ Agrees(s, Wanted(op, s, row))
           /\ Wanted(op, s, row).suspended = (op = "suspend")
           /\ ~AsWanted(op, s, row) =>
                /\ "suspended" \in ChangedColumns(row, Wanted(op, s, row))
                /\ s \in Persons => "active" \in ChangedColumns(row, Wanted(op, s, row))
           /\ ChangedColumns(row, Wanted(op, s, row)) \subseteq {"active", "suspended"}
<1>1. s \in Persons => s \notin Machines  BY OfficeAssumption DEF Persons
<1>2. CASE op = "suspend"
  BY <1>1, <1>2 DEF Wanted, SuspendedRow, SubjectRow, Agrees, AsWanted, IsSuspended, ChangedColumns
<1>3. CASE op = "activate"
  BY <1>1, <1>3 DEF Wanted, ActivatedRow, SubjectRow, Agrees, AsWanted, IsActive, ChangedColumns
<1> QED  BY <1>2, <1>3 DEF Ops

\* The request r after it has read the row s and changed it.
Moderated(r, s, row) ==
    LET q == desk[r]
        new == Wanted(q.op, s, row)
    IN  [q EXCEPT !.copies = WithCopy(r, s, new), !.phase = "flush",
                  !.columns = [q.columns EXCEPT ![s] = @ \cup ChangedColumns(row, new)],
                  !.entries = Append(@, Entry(q.op, s, row.suspended, new.suspended))]

LEMMA ModeratedFields ==
    ASSUME OfficeInv, NEW r \in Desks, Working(desk[r]), NEW s \in Subjects,
           NEW row \in SubjectRow, Agrees(s, row),
           NEW new, new = Wanted(desk[r].op, s, row),
           NEW p, p = Moderated(r, s, row),
           NEW e, e = Entry(desk[r].op, s, row.suspended, new.suspended)
    PROVE  /\ p \in DeskType /\ e \in EntryType
           /\ p.op = desk[r].op /\ p.actor = desk[r].actor /\ p.todo = desk[r].todo
           /\ p.copies = WithCopy(r, s, new)
           /\ p.columns = [desk[r].columns EXCEPT ![s] = @ \cup ChangedColumns(row, new)]
           /\ p.entries = Append(desk[r].entries, e)
<1>1. desk[r] \in DeskType /\ desk[r].op \in Ops  BY DEF Working, DeskType
<1>2. new \in SubjectRow /\ ChangedColumns(row, new) \subseteq {"active", "suspended"}
  BY <1>1, WantedRow
<1>3. WithCopy(r, s, new) \in CopiesType  BY <1>2, WithCopyTyped
<1>4. PICK columns : columns = [desk[r].columns EXCEPT ![s] = @ \cup ChangedColumns(row, new)]  OBVIOUS
<1>5. columns \in [Subjects -> SUBSET {"active", "suspended"}]
  <2>1. desk[r].columns \in [Subjects -> SUBSET {"active", "suspended"}]  BY <1>1 DEF DeskType
  <2> QED  BY <1>2, <1>4, <2>1
<1>6. e \in EntryType  BY <1>1, <1>2 DEF Entry, EntryType, SubjectRow
<1>7. PICK entries : entries = Append(desk[r].entries, e)  OBVIOUS
<1>8. entries \in Seq(EntryType)
  <2>1. desk[r].entries \in Seq(EntryType)  BY <1>1 DEF DeskType
  <2> QED  BY <1>6, <1>7, <2>1
<1>9. PICK copies : copies = WithCopy(r, s, new)  OBVIOUS
<1>10. PICK f : f = [desk[r] EXCEPT !.copies = copies]  OBVIOUS
<1>11. f \in DeskType /\ f.op = desk[r].op /\ f.actor = desk[r].actor /\ f.todo = desk[r].todo
       /\ f.copies = copies /\ f.columns = desk[r].columns /\ f.entries = desk[r].entries
  BY <1>1, <1>3, <1>9, <1>10 DEF DeskType
<1>12. PICK g : g = [f EXCEPT !.phase = "flush"]  OBVIOUS
<1>13. g \in DeskType /\ g.op = desk[r].op /\ g.actor = desk[r].actor /\ g.todo = desk[r].todo
       /\ g.copies = copies /\ g.columns = desk[r].columns /\ g.entries = desk[r].entries
  BY <1>11, <1>12 DEF DeskType
<1>14. PICK h : h = [g EXCEPT !.columns = columns]  OBVIOUS
<1>15. h \in DeskType /\ h.op = desk[r].op /\ h.actor = desk[r].actor /\ h.todo = desk[r].todo
       /\ h.copies = copies /\ h.columns = columns /\ h.entries = desk[r].entries
  BY <1>5, <1>13, <1>14 DEF DeskType
<1>16. p = [h EXCEPT !.entries = entries]
  <2>1. p = [desk[r] EXCEPT !.copies = copies, !.phase = "flush", !.columns = columns, !.entries = entries]
    <3>1. columns = [desk[r].columns EXCEPT ![s] = desk[r].columns[s] \cup ChangedColumns(row, new)]
      BY <1>4
    <3>2. Moderated(r, s, row) =
          [desk[r] EXCEPT !.copies = WithCopy(r, s, new), !.phase = "flush",
             !.columns = [desk[r].columns EXCEPT ![s] = desk[r].columns[s] \cup ChangedColumns(row, new)],
             !.entries = Append(desk[r].entries, e)]
      BY Zenon DEF Moderated
    <3> QED  BY <1>7, <1>9, <3>1, <3>2, Zenon
  <2> QED  BY <1>10, <1>12, <1>14, <2>1, Zenon
<1>17. p \in DeskType /\ p.op = desk[r].op /\ p.actor = desk[r].actor /\ p.todo = desk[r].todo
       /\ p.copies = copies /\ p.columns = columns /\ p.entries = entries
  BY <1>8, <1>15, <1>16 DEF DeskType
<1> QED  BY <1>4, <1>6, <1>7, <1>9, <1>17

LEMMA ModeratedWorks ==
    ASSUME OfficeInv, NEW r \in Desks, Working(desk[r]), NEW s \in Subjects,
           NEW row, row = Copy(r, s), ~AsWanted(desk[r].op, s, row),
           ~(desk[r].op = "suspend" /\ s = desk[r].actor), desk[r].todo # << >>
    PROVE  Working(Moderated(r, s, row))
<1>1. row \in SubjectRow /\ Agrees(s, row)  BY CopyAgrees
<1>2. PICK new : new = Wanted(desk[r].op, s, row)  OBVIOUS
<1>3. PICK p : p = Moderated(r, s, row)  OBVIOUS
<1>4. PICK e : e = Entry(desk[r].op, s, row.suspended, new.suspended)  OBVIOUS
<1>5. /\ p \in DeskType /\ e \in EntryType
      /\ p.op = desk[r].op /\ p.actor = desk[r].actor /\ p.todo = desk[r].todo
      /\ p.copies = WithCopy(r, s, new)
      /\ p.columns = [desk[r].columns EXCEPT ![s] = @ \cup ChangedColumns(row, new)]
      /\ p.entries = Append(desk[r].entries, e)
  BY <1>1, <1>2, <1>3, <1>4, ModeratedFields
<1>6. /\ desk[r].op \in Ops /\ desk[r].entries \in Seq(EntryType)
      /\ desk[r].columns \in [Subjects -> SUBSET {"active", "suspended"}]
      /\ DeskOK(desk[r])
  BY DEF Working, DeskType
<1>7. /\ new \in SubjectRow /\ Agrees(s, new) /\ new.suspended = (desk[r].op = "suspend")
      /\ "suspended" \in ChangedColumns(row, new)
      /\ s \in Persons => "active" \in ChangedColumns(row, new)
  BY <1>1, <1>2, <1>6, WantedRow
<1>8. /\ DOMAIN p.copies = DOMAIN desk[r].copies \cup {s} /\ p.copies[s] = new
      /\ \A x \in DOMAIN desk[r].copies : x # s => p.copies[x] = desk[r].copies[x]
  <2>1. Copied(p.copies, desk[r].copies, s, new)  BY <1>5, <1>7, WithCopyTyped
  <2> QED  BY <2>1 DEF Copied
<1>9. \A x \in DOMAIN p.copies : Agrees(x, p.copies[x])  BY <1>6, <1>7, <1>8 DEF DeskOK
<1>10. /\ DOMAIN p.entries = 1 .. Len(desk[r].entries) + 1
       /\ DOMAIN desk[r].entries = 1 .. Len(desk[r].entries)
       /\ p.entries[Len(desk[r].entries) + 1] = e
       /\ \A i \in DOMAIN desk[r].entries : i \in DOMAIN p.entries /\ p.entries[i] = desk[r].entries[i]
  BY <1>5, <1>6, SMTT(30)
<1>11. /\ p.columns[s] = desk[r].columns[s] \cup ChangedColumns(row, new) /\ p.columns[s] # {}
       /\ \A x \in Subjects : x # s => p.columns[x] = desk[r].columns[x]
  BY <1>5, <1>6, <1>7
<1>12. e.action = desk[r].op /\ e.subject = s /\ e.after = (desk[r].op = "suspend")
  BY <1>4, <1>7 DEF Entry
<1>13. ASSUME NEW x \in Subjects PROVE WritesItsAction(p, x)
  <2>1. CASE x = s
    <3>1. \E i \in DOMAIN p.entries : p.entries[i].subject = s
      <4>1. Len(desk[r].entries) + 1 \in DOMAIN p.entries  BY <1>6, <1>10
      <4> QED  BY <1>10, <1>12, <4>1
    <3> QED  BY <1>5, <1>7, <1>8, <1>11, <2>1, <3>1 DEF WritesItsAction
  <2>2. CASE x # s
    <3>1. WritesItsAction(desk[r], x)  BY <1>6 DEF DeskOK
    <3> QED  BY <1>5, <1>8, <1>10, <1>11, <2>2, <3>1 DEF WritesItsAction
  <2> QED  BY <2>1, <2>2
<1>14. ASSUME NEW i \in DOMAIN p.entries PROVE TellsItsAction(p, p.entries[i])
  <2>1. CASE i = Len(desk[r].entries) + 1  BY <1>5, <1>10, <1>11, <1>12, <2>1 DEF TellsItsAction
  <2>2. CASE i # Len(desk[r].entries) + 1
    <3>1. i \in DOMAIN desk[r].entries  BY <1>6, <1>10, <2>2
    <3>2. TellsItsAction(desk[r], desk[r].entries[i])  BY <1>6, <3>1 DEF DeskOK
    <3>3. desk[r].entries[i] \in EntryType  BY <1>6, <3>1
    <3>4. desk[r].entries[i].subject \in Subjects  BY <3>3 DEF EntryType
    <3> QED  BY <1>5, <1>10, <1>11, <3>1, <3>2, <3>4 DEF TellsItsAction
  <2> QED  BY <2>1, <2>2
<1>15. DeskOK(p)  BY <1>5, <1>9, <1>13, <1>14 DEF DeskOK
<1> QED  BY <1>3, <1>5, <1>15 DEF Working

\* A row that is as wanted is only read.
LEMMA ReadWorks ==
    ASSUME OfficeInv, NEW r \in Desks, Working(desk[r]), NEW s \in Subjects, desk[r].todo # << >>
    PROVE  Working([Onward(desk[r], TRUE) EXCEPT !.copies = WithCopy(r, s, Copy(r, s))])
<1>1. PICK o : o = Onward(desk[r], TRUE)  OBVIOUS
<1>2. Working(o) /\ SameWork(o, desk[r]) /\ o.phase = "next"
  BY <1>1, OnwardWorks, OnwardFields DEF Working, SameWork
<1>3. Copy(r, s) \in SubjectRow /\ Agrees(s, Copy(r, s))  BY CopyAgrees
<1>4. PICK copies : copies = WithCopy(r, s, Copy(r, s))  OBVIOUS
<1>5. /\ copies \in CopiesType /\ DOMAIN copies = DOMAIN desk[r].copies \cup {s} /\ copies[s] = Copy(r, s)
      /\ \A x \in DOMAIN desk[r].copies : copies[x] = desk[r].copies[x]
  <2>1. copies \in CopiesType /\ Copied(copies, desk[r].copies, s, Copy(r, s))
    BY <1>3, <1>4, WithCopyTyped
  <2> QED  BY <2>1 DEF Copied, Copy
<1>6. PICK p : p = [o EXCEPT !.copies = copies]  OBVIOUS
<1>7. /\ p \in DeskType /\ p.copies = copies /\ p.phase = "next" /\ p.op = o.op /\ p.actor = o.actor
      /\ p.columns = o.columns /\ p.entries = o.entries
  BY <1>2, <1>5, <1>6 DEF Working, DeskType
<1>8. DeskOK(desk[r])  BY DEF Working
<1>9. \A x \in DOMAIN p.copies : Agrees(x, p.copies[x])  BY <1>3, <1>5, <1>7, <1>8 DEF DeskOK
<1>10. ASSUME NEW x \in Subjects PROVE WritesItsAction(p, x)
  <2>1. WritesItsAction(desk[r], x)  BY <1>8 DEF DeskOK
  <2> QED  BY <1>2, <1>5, <1>7, <2>1 DEF WritesItsAction, SameWork
<1>11. ASSUME NEW i \in DOMAIN p.entries PROVE TellsItsAction(p, p.entries[i])
  BY <1>2, <1>7, <1>8, <1>11 DEF TellsItsAction, SameWork, DeskOK
<1>12. DeskOK(p)  BY <1>7, <1>9, <1>10, <1>11 DEF DeskOK
<1> QED  BY <1>1, <1>4, <1>6, <1>7, <1>12 DEF Working
\* Every request is idle or works.
DesksGood(d) ==
    /\ d \in [Desks -> DeskType \cup {FreeDesk}]
    /\ \A r \in Desks : d[r] # FreeDesk => DeskOK(d[r])

LEMMA DeskStep ==
    ASSUME OfficeInv, NEW r \in Desks, NEW q, Working(q) \/ q = FreeDesk,
           desk' = [desk EXCEPT ![r] = q]
    PROVE  DesksGood(desk')
<1>1. desk \in [Desks -> DeskType \cup {FreeDesk}] /\ \A x \in Desks : desk[x] # FreeDesk => DeskOK(desk[x])
  BY DEF OfficeInv, OfficeTypeOK
<1>2. q \in DeskType \cup {FreeDesk} /\ (q # FreeDesk => DeskOK(q))  BY DEF Working
<1> QED  BY <1>1, <1>2 DEF DesksGood

LEMMA ReleasedTyped ==
    ASSUME OfficeInv, NEW r \in Desks
    PROVE  Released(r) \in [Subjects -> Desks \cup {Nobody}]
BY DEF OfficeInv, OfficeTypeOK, Released

\* A step that commits nothing.
LEMMA QuietStep ==
    ASSUME OfficeInv, UNCHANGED <<subject, audit>>, DesksGood(desk'),
           held' \in [Subjects -> Desks \cup {Nobody}], asked' \in Nat
    PROVE  OfficeInv'
<1>1. OfficeTypeOK'  BY DEF OfficeInv, OfficeTypeOK, DesksGood
<1>2. TrailTellsTruth'  BY DEF OfficeInv, TrailTellsTruth, IsLastModeration
<1> QED  BY <1>1, <1>2 DEF OfficeInv, DesksGood

LEMMA ArriveStep ==
    ASSUME OfficeInv, NEW r \in Desks, NEW kind \in {"one", "bulk"}, NEW op \in Ops, NEW actor \in Officers,
           NEW todo \in Seq(Subjects \cup {Missing}), Arrive(r, kind, op, actor, todo)
    PROVE  OfficeInv'
<1>1. actor \in Subjects /\ subject[actor] \in SubjectRow /\ Agrees(actor, subject[actor])
  BY DEF Subjects, Persons, OfficeInv, OfficeTypeOK, TrailTellsTruth, Agrees
<1>2. PICK copies : copies = [s \in {actor} |-> subject[s]]  OBVIOUS
<1>3. copies \in CopiesType /\ DOMAIN copies = {actor} /\ copies[actor] = subject[actor]
  <2>1. copies \in [{actor} -> SubjectRow] /\ {actor} \in SUBSET Subjects  BY <1>1, <1>2
  <2> QED  BY <1>2, <2>1 DEF CopiesType
<1>4. PICK none : none = [s \in Subjects |-> {}]  OBVIOUS
<1>5. PICK q : q = [phase |-> "next", kind |-> kind, op |-> op, actor |-> actor, todo |-> todo,
                    copies |-> copies, columns |-> none,
                    entries |-> << >>, kept |-> {}, broken |-> FALSE]
  OBVIOUS
<1>6. q \in DeskType
  <2>1. none \in [Subjects -> SUBSET {"active", "suspended"}] /\ << >> \in Seq(EntryType)  BY <1>4
  <2> QED  BY <1>3, <1>5, <2>1 DEF DeskType
<1>7. q.copies = copies /\ q.columns = none /\ q.entries = << >> /\ q.phase = "next"  BY <1>5
<1>8. Working(q)  BY <1>1, <1>3, <1>4, <1>6, <1>7, BlankIsOK DEF Working
<1>9. desk' = [desk EXCEPT ![r] = q] /\ UNCHANGED <<subject, audit, held>> /\ asked' = asked + 1
  BY <1>2, <1>4, <1>5, Zenon DEF Arrive
<1>10. DesksGood(desk')  BY <1>8, <1>9, DeskStep
<1>11. held \in [Subjects -> Desks \cup {Nobody}] /\ asked \in Nat  BY DEF OfficeInv, OfficeTypeOK
<1> QED  BY <1>9, <1>10, <1>11, QuietStep

LEMMA DeclineStep ==
    ASSUME OfficeInv, NEW r \in Desks, Decline(r)
    PROVE  OfficeInv'
<1>1. Working(desk[r])  BY AtWork DEF Decline
<1>2. Working(Onward(desk[r], FALSE))  BY <1>1, OnwardWorks DEF Decline
<1>3. desk' = [desk EXCEPT ![r] = Onward(desk[r], FALSE)] /\ UNCHANGED <<subject, held, audit, asked>>
  BY DEF Decline
<1>4. DesksGood(desk')  BY <1>2, <1>3, DeskStep
<1>5. held \in [Subjects -> Desks \cup {Nobody}] /\ asked \in Nat  BY DEF OfficeInv, OfficeTypeOK
<1> QED  BY <1>3, <1>4, <1>5, QuietStep

LEMMA ModerateStep ==
    ASSUME OfficeInv, NEW r \in Desks, Moderate(r)
    PROVE  OfficeInv'
<1>1. Working(desk[r]) /\ desk[r].todo # << >> /\ ~Refused(desk[r], Target(r))  BY AtWork DEF Moderate
<1>2. Target(r) \in Subjects /\ ~(desk[r].op = "suspend" /\ Target(r) = desk[r].actor)
  <2>1. desk[r].todo \in Seq(Subjects \cup {Missing})  BY <1>1 DEF Working, DeskType
  <2>2. Target(r) \in Subjects \cup {Missing}  BY <1>1, <2>1 DEF Target
  <2> QED  BY <1>1, <2>2 DEF Refused
<1>3. PICK s : s = Target(r) /\ s \in Subjects  BY <1>2
<1>4. UNCHANGED <<subject, held, audit, asked>>  BY DEF Moderate
<1>5. CASE AsWanted(desk[r].op, s, Copy(r, s))
  <2>1. desk' = [desk EXCEPT ![r] = [Onward(desk[r], TRUE) EXCEPT !.copies = WithCopy(r, s, Copy(r, s))]]
    BY <1>3, <1>5, Zenon DEF Moderate
  <2>2. Working([Onward(desk[r], TRUE) EXCEPT !.copies = WithCopy(r, s, Copy(r, s))])
    BY <1>1, <1>3, ReadWorks
  <2>3. DesksGood(desk')  BY <2>1, <2>2, DeskStep
  <2>4. held \in [Subjects -> Desks \cup {Nobody}] /\ asked \in Nat  BY DEF OfficeInv, OfficeTypeOK
  <2> QED  BY <1>4, <2>3, <2>4, QuietStep
<1>6. CASE ~AsWanted(desk[r].op, s, Copy(r, s))
  <2>1. desk' = [desk EXCEPT ![r] = Moderated(r, s, Copy(r, s))]
    BY <1>3, <1>6, Zenon DEF Moderate, Moderated
  <2>2. Working(Moderated(r, s, Copy(r, s)))  BY <1>1, <1>2, <1>3, <1>6, ModeratedWorks
  <2>3. DesksGood(desk')  BY <2>1, <2>2, DeskStep
  <2>4. held \in [Subjects -> Desks \cup {Nobody}] /\ asked \in Nat  BY DEF OfficeInv, OfficeTypeOK
  <2> QED  BY <1>4, <2>3, <2>4, QuietStep
<1> QED  BY <1>5, <1>6

LEMMA FlushRowStep ==
    ASSUME OfficeInv, NEW r \in Desks, FlushRow(r)
    PROVE  OfficeInv'
<1>1. Working(desk[r]) /\ desk[r].todo # << >>  BY AtWork DEF FlushRow, Working, DeskOK
<1>2. Working(Onward(desk[r], TRUE))  BY <1>1, OnwardWorks
<1>3. desk' = [desk EXCEPT ![r] = Onward(desk[r], TRUE)] /\ UNCHANGED <<subject, audit, asked>>
      /\ held' = [held EXCEPT ![Target(r)] = r]
  BY DEF FlushRow
<1>4. DesksGood(desk')  BY <1>2, <1>3, DeskStep
<1>5. held' \in [Subjects -> Desks \cup {Nobody}] /\ asked' \in Nat  BY <1>3 DEF OfficeInv, OfficeTypeOK
<1> QED  BY <1>3, <1>4, <1>5, QuietStep

LEMMA BreakDeadlockStep ==
    ASSUME OfficeInv, NEW r \in Desks, BreakDeadlock(r)
    PROVE  OfficeInv'
<1>1. Working(desk[r]) /\ desk[r].todo # << >>  BY AtWork DEF BreakDeadlock, Working, DeskOK
<1>2. Working(RolledBack(desk[r]))  BY <1>1, RolledBackWorks
<1>3. desk' = [desk EXCEPT ![r] = RolledBack(desk[r])] /\ UNCHANGED <<subject, audit, asked>> /\ held' = Released(r)
  BY DEF BreakDeadlock
<1>4. DesksGood(desk')  BY <1>2, <1>3, DeskStep
<1>5. held' \in [Subjects -> Desks \cup {Nobody}] /\ asked' \in Nat
  BY <1>3, ReleasedTyped DEF OfficeInv, OfficeTypeOK
<1> QED  BY <1>3, <1>4, <1>5, QuietStep

\* A request that ends: its desk is free and its locks are gone.
LEMMA EndDesks ==
    ASSUME OfficeInv, NEW r \in Desks, EndRequest(r)
    PROVE  DesksGood(desk') /\ held' \in [Subjects -> Desks \cup {Nobody}] /\ asked' \in Nat
<1>1. desk' = [desk EXCEPT ![r] = FreeDesk] /\ held' = Released(r) /\ asked' = asked  BY DEF EndRequest
<1>2. DesksGood(desk')  BY <1>1, DeskStep
<1>3. asked \in Nat  BY DEF OfficeInv, OfficeTypeOK
<1> QED  BY <1>1, <1>2, <1>3, ReleasedTyped

LEMMA EndStep ==
    ASSUME OfficeInv, NEW r \in Desks, CloseOne(r) \/ OfficeDies(r)
    PROVE  OfficeInv'
<1>1. EndRequest(r) /\ UNCHANGED <<subject, audit>>  BY DEF CloseOne, OfficeDies
<1> QED  BY <1>1, EndDesks, QuietStep
\* What the trail and the committed row of s say of each other.
RowTold(s) ==
    /\ Agrees(s, subject[s])
    /\ \A i \in DOMAIN audit : IsLastModeration(i, s) => audit[i].after = subject[s].suspended
    /\ (\A i \in DOMAIN audit : ~IsModeration(audit[i], s)) => ~subject[s].suspended

LEMMA TrailByRow == TrailTellsTruth <=> \A s \in Subjects : RowTold(s)
BY DEF TrailTellsTruth, RowTold, Agrees

\* Entries that do not moderate s leave what the trail says of it.
LEMMA OtherEntries ==
    ASSUME NEW s \in Subjects, NEW more \in Seq(EntryType), audit \in Seq(EntryType), audit' = audit \o more,
           \A i \in DOMAIN more : ~IsModeration(more[i], s),
           subject'[s] = subject[s], RowTold(s)
    PROVE  RowTold(s)'
<1>1. /\ DOMAIN audit' = 1 .. Len(audit) + Len(more) /\ DOMAIN audit = 1 .. Len(audit)
      /\ DOMAIN more = 1 .. Len(more) /\ Len(audit) \in Nat /\ Len(more) \in Nat
  OBVIOUS
<1>2. \A i \in DOMAIN audit : i \in DOMAIN audit' /\ audit'[i] = audit[i]  OBVIOUS
<1>3. ASSUME NEW i \in DOMAIN audit', i \notin DOMAIN audit PROVE ~IsModeration(audit'[i], s)
  <2>1. i - Len(audit) \in DOMAIN more /\ audit'[i] = more[i - Len(audit)]  BY <1>1, <1>3
  <2> QED  BY <2>1
<1>4. ASSUME NEW i \in DOMAIN audit', IsLastModeration(i, s)' PROVE audit'[i].after = subject'[s].suspended
  <2>1. IsModeration(audit'[i], s) /\ \A j \in DOMAIN audit' : j > i => ~IsModeration(audit'[j], s)
    BY <1>4 DEF IsLastModeration
  <2>2. i \in DOMAIN audit /\ audit'[i] = audit[i]  BY <1>2, <1>3, <2>1
  <2>3. IsLastModeration(i, s)  BY <1>2, <2>1, <2>2 DEF IsLastModeration
  <2> QED  BY <2>2, <2>3 DEF RowTold
<1>5. ASSUME \A i \in DOMAIN audit' : ~IsModeration(audit'[i], s) PROVE ~subject'[s].suspended
  <2>1. \A i \in DOMAIN audit : ~IsModeration(audit[i], s)  BY <1>2, <1>5
  <2> QED  BY <2>1 DEF RowTold
<1>6. Agrees(s, subject[s])'
  <2>1. Agrees(s, subject[s])  BY DEF RowTold
  <2> QED  BY <2>1 DEF Agrees
<1> QED  BY <1>4, <1>5, <1>6 DEF RowTold

\* Entries that all say what became of the row, one of which is about it.
LEMMA NewEntries ==
    ASSUME NEW s \in Subjects, NEW more \in Seq(EntryType), audit \in Seq(EntryType), audit' = audit \o more,
           NEW op \in Ops, \A i \in DOMAIN more : more[i].action = op /\ more[i].after = (op = "suspend"),
           NEW k \in DOMAIN more, more[k].subject = s,
           subject'[s].suspended = (op = "suspend"), Agrees(s, subject'[s])
    PROVE  RowTold(s)'
<1>1. /\ DOMAIN audit' = 1 .. Len(audit) + Len(more) /\ DOMAIN audit = 1 .. Len(audit)
      /\ DOMAIN more = 1 .. Len(more) /\ Len(audit) \in Nat /\ Len(more) \in Nat
  OBVIOUS
<1>2. /\ Len(audit) + k \in DOMAIN audit' /\ audit'[Len(audit) + k] = more[k]
      /\ \A i \in DOMAIN audit : Len(audit) + k > i
  BY <1>1
<1>3. IsModeration(audit'[Len(audit) + k], s)  BY <1>2 DEF IsModeration, Ops
<1>4. ASSUME NEW i \in DOMAIN audit', IsLastModeration(i, s)' PROVE audit'[i].after = subject'[s].suspended
  <2>1. \A j \in DOMAIN audit' : j > i => ~IsModeration(audit'[j], s)  BY <1>4 DEF IsLastModeration
  <2>2. i \notin DOMAIN audit  BY <1>2, <1>3, <2>1
  <2>3. i - Len(audit) \in DOMAIN more /\ audit'[i] = more[i - Len(audit)]  BY <1>1, <2>2
  <2> QED  BY <2>3
<1>5. Agrees(s, subject[s])'  BY DEF Agrees
<1> QED  BY <1>2, <1>3, <1>4, <1>5 DEF RowTold

\* What a commit leaves of the row of s.
LEMMA CommitRow ==
    ASSUME OfficeInv, NEW r \in Desks, CommitBulk(r), ~desk[r].broken, NEW s \in Subjects
    PROVE  /\ subject'[s] = WrittenOver(subject[s], Copy(r, s), desk[r].columns[s])
           /\ subject'[s] \in SubjectRow
           /\ desk[r].columns[s] = {} => subject'[s] = subject[s]
           /\ desk[r].columns[s] # {} =>
                /\ subject'[s].suspended = (desk[r].op = "suspend") /\ Agrees(s, subject'[s])
                /\ desk[r].op = "suspend" => s # desk[r].actor
<1>1. subject'[s] = WrittenOver(subject[s], Copy(r, s), desk[r].columns[s])  BY DEF CommitBulk
<1>2. Working(desk[r])  BY AtWork DEF CommitBulk
<1>3. Copy(r, s) \in SubjectRow /\ Agrees(s, Copy(r, s)) /\ subject[s] \in SubjectRow
  BY <1>2, CopyAgrees DEF OfficeInv, OfficeTypeOK
<1>4. subject'[s] \in SubjectRow  BY <1>1, <1>3 DEF WrittenOver, SubjectRow
<1>5. ASSUME desk[r].columns[s] = {} PROVE subject'[s] = subject[s]
  BY <1>1, <1>3, <1>5 DEF WrittenOver, SubjectRow
<1>6. ASSUME desk[r].columns[s] # {}
      PROVE  /\ subject'[s].suspended = (desk[r].op = "suspend") /\ Agrees(s, subject'[s])
             /\ desk[r].op = "suspend" => s # desk[r].actor
  <2>1. WritesItsAction(desk[r], s)  BY <1>2 DEF Working, DeskOK
  <2>2. /\ "suspended" \in desk[r].columns[s] /\ (s \in Persons => "active" \in desk[r].columns[s])
        /\ Copy(r, s).suspended = (desk[r].op = "suspend")
        /\ desk[r].op = "suspend" => s # desk[r].actor
    BY <1>6, <2>1 DEF WritesItsAction, Copy
  <2>3. subject'[s].suspended = Copy(r, s).suspended /\ (s \in Persons => subject'[s].active = Copy(r, s).active)
    BY <1>1, <2>2 DEF WrittenOver
  <2> QED  BY <1>3, <2>2, <2>3 DEF Agrees
<1> QED  BY <1>1, <1>4, <1>5, <1>6

LEMMA CommitBulkStep ==
    ASSUME OfficeInv, NEW r \in Desks, CommitBulk(r)
    PROVE  OfficeInv'
<1>1. Working(desk[r]) /\ EndRequest(r)  BY AtWork DEF CommitBulk
<1>2. DesksGood(desk') /\ held' \in [Subjects -> Desks \cup {Nobody}] /\ asked' \in Nat
  BY <1>1, EndDesks
<1>3. CASE desk[r].broken
  <2>1. UNCHANGED <<subject, audit>>  BY <1>3 DEF CommitBulk
  <2> QED  BY <1>2, <2>1, QuietStep
<1>4. CASE ~desk[r].broken
  <2>1. audit' = audit \o desk[r].entries /\ DOMAIN subject' = Subjects
        /\ subject' = [s \in Subjects |-> WrittenOver(subject[s], Copy(r, s), desk[r].columns[s])]
    BY <1>4 DEF CommitBulk
  <2>2. audit \in Seq(EntryType) /\ desk[r].entries \in Seq(EntryType) /\ desk[r].op \in Ops
    BY <1>1 DEF OfficeInv, OfficeTypeOK, Working, DeskType
  <2>3. audit' \in Seq(EntryType)  BY <2>1, <2>2
  <2>4. subject' \in [Subjects -> SubjectRow]
    <3>1. \A s \in Subjects : subject'[s] \in SubjectRow  BY <1>4, CommitRow
    <3> QED  BY <2>1, <3>1
  <2>5. \A i \in DOMAIN desk[r].entries : TellsItsAction(desk[r], desk[r].entries[i])
    BY <1>1 DEF Working, DeskOK
  <2>6. ASSUME NEW s \in Subjects PROVE RowTold(s)'
    <3>1. RowTold(s)  BY TrailByRow DEF OfficeInv
    <3>2. CASE desk[r].columns[s] = {}
      <4>1. \A i \in DOMAIN desk[r].entries : ~IsModeration(desk[r].entries[i], s)
        BY <2>5, <3>2 DEF TellsItsAction, IsModeration
      <4>2. subject'[s] = subject[s]  BY <1>4, <3>2, CommitRow
      <4> QED  BY <2>1, <2>2, <3>1, <4>1, <4>2, OtherEntries
    <3>3. CASE desk[r].columns[s] # {}
      <4>1. WritesItsAction(desk[r], s)  BY <1>1 DEF Working, DeskOK
      <4>2. PICK k \in DOMAIN desk[r].entries : desk[r].entries[k].subject = s
        BY <3>3, <4>1 DEF WritesItsAction
      <4>3. \A i \in DOMAIN desk[r].entries :
              desk[r].entries[i].action = desk[r].op /\ desk[r].entries[i].after = (desk[r].op = "suspend")
        BY <2>5 DEF TellsItsAction
      <4>4. subject'[s].suspended = (desk[r].op = "suspend") /\ Agrees(s, subject'[s])
        BY <1>4, <3>3, CommitRow
      <4> QED  BY <2>1, <2>2, <4>2, <4>3, <4>4, NewEntries, ZenonT(60)
    <3> QED  BY <3>2, <3>3
  <2>7. TrailTellsTruth'  BY <2>6 DEF TrailTellsTruth, RowTold, Agrees
  <2>8. OfficeTypeOK'  BY <1>2, <2>3, <2>4 DEF OfficeTypeOK, DesksGood
  <2> QED  BY <1>2, <2>7, <2>8 DEF OfficeInv, DesksGood
<1> QED  BY <1>3, <1>4

LEMMA ImpersonateStep ==
    ASSUME OfficeInv, NEW actor \in Officers, NEW s \in Clients, Impersonate(actor, s)
    PROVE  OfficeInv'
<1>1. PICK e : e = Entry("impersonate", s, FALSE, FALSE)  OBVIOUS
<1>2. e \in EntryType /\ e.action = "impersonate"  BY <1>1 DEF Entry, EntryType, Subjects, Persons
<1>3. audit' = audit \o <<e>> /\ audit \in Seq(EntryType) /\ <<e>> \in Seq(EntryType)
  <2>1. audit \in Seq(EntryType) /\ audit' = Append(audit, e)
    BY <1>1 DEF OfficeInv, OfficeTypeOK, Impersonate
  <2> QED  BY <1>2, <2>1
<1>4. UNCHANGED <<subject, held, desk>> /\ asked' = asked + 1  BY DEF Impersonate
<1>5. ASSUME NEW x \in Subjects PROVE RowTold(x)'
  <2>1. RowTold(x) /\ subject'[x] = subject[x]  BY <1>4, TrailByRow DEF OfficeInv
  <2>2. \A i \in DOMAIN <<e>> : ~IsModeration(<<e>>[i], x)  BY <1>2 DEF IsModeration
  <2> QED  BY <1>3, <2>1, <2>2, OtherEntries
<1>6. TrailTellsTruth'  BY <1>5 DEF TrailTellsTruth, RowTold, Agrees
<1>7. OfficeTypeOK'
  <2>1. audit' \in Seq(EntryType)  BY <1>3
  <2> QED  BY <1>4, <2>1 DEF OfficeInv, OfficeTypeOK
<1> QED  BY <1>4, <1>6, <1>7 DEF OfficeInv
LEMMA OfficeStart == OfficeInit => OfficeInv
<1> SUFFICES ASSUME OfficeInit PROVE OfficeInv  OBVIOUS
<1>1. OfficeTypeOK  BY DEF OfficeInit, OfficeTypeOK, SubjectRow
<1>2. TrailTellsTruth
  <2>1. ASSUME NEW s \in Subjects PROVE RowTold(s)
    <3>1. subject[s] = [active |-> TRUE, suspended |-> FALSE] /\ DOMAIN audit = {}  BY DEF OfficeInit
    <3>2. subject[s].active = TRUE /\ subject[s].suspended = FALSE  BY <3>1
    <3>3. Agrees(s, subject[s])  BY <3>2 DEF Agrees
    <3> QED  BY <3>1, <3>2, <3>3 DEF RowTold
  <2> QED  BY <2>1, TrailByRow
<1>3. \A r \in Desks : desk[r] = FreeDesk  BY DEF OfficeInit
<1> QED  BY <1>1, <1>2, <1>3 DEF OfficeInv

LEMMA PairIsTodo ==
    ASSUME NEW S \in SUBSET (Subjects \cup {Missing}), NEW todo \in S \X S
    PROVE  todo \in Seq(Subjects \cup {Missing})
<1>1. PICK a \in S, b \in S : todo = <<a, b>>  OBVIOUS
<1> QED  BY <1>1

LEMMA OfficeStep == OfficeInv /\ [OfficeNext]_officeVars => OfficeInv'
<1> SUFFICES ASSUME OfficeInv, [OfficeNext]_officeVars PROVE OfficeInv'  OBVIOUS
<1>1. CASE UNCHANGED officeVars
  <2>1. DesksGood(desk') /\ held' \in [Subjects -> Desks \cup {Nobody}] /\ asked' \in Nat
    BY <1>1 DEF officeVars, OfficeInv, OfficeTypeOK, DesksGood
  <2> QED  BY <1>1, <2>1, QuietStep DEF officeVars
<1>2. ASSUME NEW r \in Desks,
             Decline(r) \/ Moderate(r) \/ FlushRow(r) \/ BreakDeadlock(r) \/ CommitBulk(r) \/ CloseOne(r) \/ OfficeDies(r)
      PROVE  OfficeInv'
  BY <1>2, DeclineStep, ModerateStep, FlushRowStep, BreakDeadlockStep, CommitBulkStep, EndStep
<1>3. ASSUME NEW r \in Desks, NEW op \in {"suspend", "activate"}, NEW actor \in Officers,
             NEW s \in Subjects \cup {Missing}, PostUser(r, op, actor, s) \/ PostBot(r, op, actor, s)
      PROVE  OfficeInv'
  <2>1. <<s>> \in Seq(Subjects \cup {Missing}) /\ op \in Ops  BY DEF Ops
  <2>2. Arrive(r, "one", op, actor, <<s>>)  BY <1>3 DEF PostUser, PostBot
  <2> QED  BY <2>1, <2>2, ArriveStep
<1>4. ASSUME NEW r \in Desks, NEW op \in {"suspend", "activate"}, NEW actor \in Officers,
             NEW todo \in Persons \X Persons, BulkUsers(r, op, actor, todo)
      PROVE  OfficeInv'
  <2>1. Persons \in SUBSET (Subjects \cup {Missing}) /\ op \in Ops  BY DEF Ops, Subjects
  <2>2. todo \in Seq(Subjects \cup {Missing})  BY <2>1, PairIsTodo
  <2>3. Arrive(r, "bulk", op, actor, todo)  BY <1>4 DEF BulkUsers
  <2> QED  BY <2>1, <2>2, <2>3, ArriveStep
<1>5. ASSUME NEW r \in Desks, NEW op \in {"suspend", "activate"}, NEW actor \in Officers,
             NEW todo \in (Machines \cup {Missing}) \X (Machines \cup {Missing}), BulkBots(r, op, actor, todo)
      PROVE  OfficeInv'
  <2>1. Machines \cup {Missing} \in SUBSET (Subjects \cup {Missing}) /\ op \in Ops  BY DEF Ops, Subjects
  <2>2. todo \in Seq(Subjects \cup {Missing})  BY <2>1, PairIsTodo
  <2>3. Arrive(r, "bulk", op, actor, todo)  BY <1>5 DEF BulkBots
  <2> QED  BY <2>1, <2>2, <2>3, ArriveStep
<1>6. ASSUME NEW actor \in Officers, InspectTenant(actor) PROVE OfficeInv'
  <2>1. UNCHANGED <<subject, held, audit, desk>> /\ asked' = asked + 1  BY <1>6 DEF InspectTenant
  <2>2. DesksGood(desk') /\ held' \in [Subjects -> Desks \cup {Nobody}] /\ asked' \in Nat
    BY <2>1 DEF OfficeInv, OfficeTypeOK, DesksGood
  <2> QED  BY <2>1, <2>2, QuietStep
<1>7. ASSUME NEW actor \in Officers, NEW s \in Clients, Impersonate(actor, s) PROVE OfficeInv'
  BY <1>7, ImpersonateStep
<1> QED  BY <1>1, <1>2, <1>3, <1>4, <1>5, <1>6, <1>7 DEF OfficeNext

\* For any number of superadmins, users, bots and overlapping requests: what a
\* request is about to write is what its action and its entries say, so the trail and
\* the rows agree (AdminModerationService, bulk_user_action).
THEOREM ModerationInvariant == OfficeSpec => []OfficeInv
BY OfficeStart, OfficeStep, PTL DEF OfficeSpec

\* Only a commit in bulk changes a row.
LEMMA OnlyCommits ==
    ASSUME OfficeNext, subject' # subject
    PROVE  \E r \in Desks : CommitBulk(r)
<1> SUFFICES ASSUME \A r \in Desks : ~CommitBulk(r) PROVE subject' = subject  OBVIOUS
<1>1. ASSUME NEW r \in Desks,
             Decline(r) \/ Moderate(r) \/ FlushRow(r) \/ BreakDeadlock(r) \/ CloseOne(r) \/ OfficeDies(r)
      PROVE  subject' = subject
  BY <1>1 DEF Decline, Moderate, FlushRow, BreakDeadlock, CloseOne, OfficeDies
<1>2. ASSUME NEW r \in Desks, NEW kind, NEW op, NEW actor, NEW todo, Arrive(r, kind, op, actor, todo)
      PROVE  subject' = subject
  BY <1>2 DEF Arrive
<1>3. ASSUME NEW actor, NEW s, InspectTenant(actor) \/ Impersonate(actor, s) PROVE subject' = subject
  BY <1>3 DEF InspectTenant, Impersonate
<1> QED  BY <1>1, <1>2, <1>3, Zenon DEF OfficeNext, PostUser, PostBot, BulkUsers, BulkBots

LEMMA LastOfficerStep ==
    ASSUME OfficeInv, OfficeNext, FreeOfficers # {}, FreeOfficers' = {}
    PROVE  \E r \in Desks : CommitBulk(r) /\ ~subject[desk[r].actor].active
<1>1. subject' # subject  BY DEF FreeOfficers
<1>2. PICK r \in Desks : CommitBulk(r)  BY <1>1, OnlyCommits
<1>3. ~desk[r].broken  BY <1>1, <1>2 DEF CommitBulk
<1>4. Working(desk[r])  BY <1>2, AtWork DEF CommitBulk
<1>5. desk[r].actor \in Officers /\ desk[r].op \in Ops  BY <1>4 DEF Working, DeskType
<1>6. ASSUME NEW s \in Officers, subject[s].active, desk[r].columns[s] = {} PROVE FALSE
  <2>1. subject'[s] = subject[s]  BY <1>2, <1>3, <1>6, CommitRow DEF Subjects, Persons
  <2> QED  BY <1>6, <2>1 DEF FreeOfficers
<1>7. ASSUME subject[desk[r].actor].active PROVE FALSE
  <2>1. CASE desk[r].op = "suspend"
    <3>1. desk[r].columns[desk[r].actor] = {}
      BY <1>2, <1>3, <1>5, <2>1, CommitRow DEF Subjects, Persons
    <3> QED  BY <1>5, <1>6, <1>7, <3>1
  <2>2. CASE desk[r].op = "activate"
    <3>1. PICK s \in Officers : subject[s].active  BY DEF FreeOfficers
    <3>2. s \in Subjects /\ s \in Persons  BY DEF Subjects, Persons
    <3>3. desk[r].columns[s] # {}  BY <1>6, <3>1
    <3>4. subject'[s].suspended = FALSE /\ Agrees(s, subject'[s]) /\ subject'[s] \in SubjectRow
      BY <1>2, <1>3, <2>2, <3>2, <3>3, CommitRow
    <3>5. subject'[s].active = TRUE  BY <3>2, <3>4 DEF Agrees, SubjectRow
    <3> QED  BY <3>5 DEF FreeOfficers
  <2> QED  BY <1>5, <2>1, <2>2 DEF Ops
<1> QED  BY <1>2, <1>7

\* For any number of them: the last entry about a row says what the row is, and the
\* last superadmin who can act falls only to one who was suspended while his own
\* request was under way (AdminModerationService, bulk_user_action, RequireSuperadmin).
THEOREM ModerationAlwaysHolds == OfficeSpec => OfficeHolds
<1>1. OfficeInv => TrailTellsTruth  BY DEF OfficeInv
<1>2. OfficeInv /\ [OfficeNext]_officeVars =>
        [FreeOfficers # {} /\ FreeOfficers' = {} =>
           \E r \in Desks : CommitBulk(r) /\ ~subject[desk[r].actor].active]_officeVars
  BY LastOfficerStep
<1> QED  BY <1>1, <1>2, ModerationInvariant, PTL DEF OfficeSpec, OfficeHolds, LastOfficerFallsByOverlap
-----------------------------------------------------------------------------
(* The catalogue: what a step may do to rows and ledger, and what calls keep.    *)

LEMMA RowsTyped ==
    ASSUME CatalogTypeOK
    PROVE  /\ DOMAIN catalog \in SUBSET used /\ used \in SUBSET Ids
           /\ catalog \in [DOMAIN catalog -> CatalogRow]
BY DEF CatalogTypeOK

\* A row that stays keeps its key and its stamp.
RowGoesOn(id) ==
    /\ catalog'[id].kind = catalog[id].kind /\ catalog'[id].label = catalog[id].label
    /\ catalog[id].stamped => catalog'[id].stamped

\* No id is used again.
RowsGoOn ==
    /\ used \subseteq used'
    /\ \A id \in DOMAIN catalog' : IF id \in DOMAIN catalog THEN RowGoesOn(id) ELSE id \notin used

LedgerGrows == DOMAIN ledger \subseteq DOMAIN ledger' /\ \A i \in DOMAIN ledger : ledger'[i] = ledger[i]

TakenThen(kind, label) == \E id \in DOMAIN catalog' : catalog'[id].kind = kind /\ catalog'[id].label = label

LEMMA StillInLedger ==
    ASSUME LedgerGrows, NEW id, InLedger(id)
    PROVE  InLedger(id)'
BY DEF LedgerGrows, InLedger

LEMMA StillContinues ==
    ASSUME CatalogTypeOK, RowsGoOn, NEW row, NEW id \in used, ReadStillHolds(row, id)
    PROVE  ReadStillHolds(row, id)'
<1> SUFFICES ASSUME id \in DOMAIN catalog'
             PROVE  /\ catalog'[id].kind = row.kind /\ catalog'[id].label = row.label
                    /\ row.stamped => catalog'[id].stamped
  BY DEF ReadStillHolds
<1>1. id \in DOMAIN catalog /\ RowGoesOn(id)  BY DEF RowsGoOn
<1> QED  BY <1>1 DEF RowGoesOn, ReadStillHolds

\* What a call knows lasts, its key apart.
LEMMA FitsOn ==
    ASSUME CatalogTypeOK, RowsGoOn, LedgerGrows, NEW q, CallFitsCatalog(q),
           q.at = "insert" => ~TakenThen(q.row.kind, q.row.label)
    PROVE  CallFitsCatalog(q)'
<1>1. q.at = "insert" => ~Taken(q.row.kind, q.row.label)'  BY DEF TakenThen, Taken
<1>2. q.at \in {"read", "commit"} => q.id \in used /\ q.id \in used'  BY DEF CallFitsCatalog, RowsGoOn
<1>3. ASSUME q.at = "read", q.op = "deleted", q.id \in DOMAIN catalog' PROVE catalog'[q.id].kind \in Keyed
  <2>1. q.id \in DOMAIN catalog /\ RowGoesOn(q.id)  BY <1>2, <1>3 DEF RowsGoOn
  <2> QED  BY <1>3, <2>1 DEF RowGoesOn, CallFitsCatalog
<1>4. ASSUME q.at = "commit"
      PROVE  /\ ReadStillHolds(q.row, q.id)'
             /\ q.row.kind \in Keyed => InLedger(q.id)'
             /\ q.op = "deleted" => q.row.kind \in Keyed
  BY <1>2, <1>4, StillContinues, StillInLedger DEF CallFitsCatalog
<1>5. q.op = "created" => q.row.kind \in Keyed  BY DEF CallFitsCatalog
<1> QED  BY <1>1, <1>2, <1>3, <1>4, <1>5 DEF CallFitsCatalog

\* The calls of all that are under way.
CallsFit == \A c \in Callers : call[c] # NoCall => CallFitsCatalog(call[c])
CallTypes == {NoCall} \cup Creating \cup Reading \cup Writing \cup Removing

LEMMA OneCallMoves ==
    ASSUME CatalogInv, RowsGoOn, LedgerGrows, NEW c \in Callers, NEW q \in CallTypes,
           call' = [call EXCEPT ![c] = q], q # NoCall => CallFitsCatalog(q)',
           \A d \in Callers : d # c /\ call[d].at = "insert" => ~TakenThen(call[d].row.kind, call[d].row.label)
    PROVE  call' \in [Callers -> CallTypes] /\ CallsFit'
<1>1. call \in [Callers -> CallTypes]  BY DEF CatalogInv, CatalogTypeOK, CallTypes
<1>2. ASSUME NEW d \in Callers, call'[d] # NoCall PROVE CallFitsCatalog(call[d])'
  <2>1. CASE d = c
    <3>1. call'[d] = q  BY <1>1, <2>1
    <3> QED  BY <1>2, <3>1 DEF CallFitsCatalog
  <2>2. CASE d # c
    <3>1. PICK p : p = call[d]  OBVIOUS
    <3>2. call'[d] = p  BY <1>1, <2>2, <3>1
    <3>3. CallFitsCatalog(p) /\ (p.at = "insert" => ~TakenThen(p.row.kind, p.row.label))
      BY <1>2, <2>2, <3>1, <3>2 DEF CatalogInv
    <3>4. CallFitsCatalog(p)'  BY <3>3, FitsOn DEF CatalogInv
    <3> QED  BY <3>2, <3>4 DEF CallFitsCatalog
  <2> QED  BY <2>1, <2>2
<1> QED  BY <1>1, <1>2 DEF CallsFit

\* Without a new insertion the keys that are inserted stay apart.
LEMMA NoNewInsert ==
    ASSUME CatalogInv, NEW c \in Callers, NEW q, call' = [call EXCEPT ![c] = q], q.at # "insert"
    PROVE  OneInserts'
<1>1. call \in [Callers -> CallTypes] /\ OneInserts  BY DEF CatalogInv, CatalogTypeOK, CallTypes
<1>2. \A d \in Callers : call'[d].at = "insert" => call'[d] = call[d]  BY <1>1
<1> QED  BY <1>1, <1>2 DEF OneInserts

\* With the same rows and ledger it is enough to look at the call.
LEMMA OnlyCallMoves ==
    ASSUME CatalogInv, UNCHANGED <<catalog, used, ledger>>, calls' \in Nat, NEW c \in Callers,
           NEW q \in CallTypes, call' = [call EXCEPT ![c] = q], q # NoCall => CallFitsCatalog(q), OneInserts'
    PROVE  CatalogInv'
<1>1. RowsGoOn /\ LedgerGrows  BY DEF RowsGoOn, RowGoesOn, LedgerGrows
<1>2. q # NoCall => CallFitsCatalog(q)'  BY DEF CallFitsCatalog, Taken, ReadStillHolds, InLedger
<1>3. \A d \in Callers : d # c /\ call[d].at = "insert" => ~TakenThen(call[d].row.kind, call[d].row.label)
  <2> SUFFICES ASSUME NEW d \in Callers, call[d].at = "insert"
               PROVE  ~TakenThen(call[d].row.kind, call[d].row.label)
    OBVIOUS
  <2>1. call[d] # NoCall  BY DEF NoCall
  <2>2. ~Taken(call[d].row.kind, call[d].row.label)  BY <2>1 DEF CatalogInv, CallFitsCatalog
  <2> QED  BY <2>2 DEF Taken, TakenThen
<1>4. call' \in [Callers -> CallTypes] /\ CallsFit'  BY <1>1, <1>2, <1>3, OneCallMoves
<1>5. CatalogTypeOK'  BY <1>4 DEF CatalogInv, CatalogTypeOK, CallTypes
<1>6. LedgerFits' /\ KeysUnique' /\ ResolvedIsStamped' /\ TrailInOrder'
  <2>1. LedgerFits /\ KeysUnique /\ ResolvedIsStamped /\ TrailInOrder  BY DEF CatalogInv
  <2>2. LedgerFits'  BY <2>1 DEF LedgerFits, InLedger
  <2>3. KeysUnique'  BY <2>1 DEF KeysUnique
  <2>4. ResolvedIsStamped'  BY <2>1 DEF ResolvedIsStamped
  <2>5. TrailInOrder'  BY <2>1 DEF TrailInOrder
  <2> QED  BY <2>2, <2>3, <2>4, <2>5
<1> QED  BY <1>4, <1>5, <1>6 DEF CatalogInv, CallsFit
-----------------------------------------------------------------------------
(* The catalogue: steps that change one call and nothing else.                   *)

LEMMA CallTyped ==
    ASSUME CatalogInv, NEW c \in Callers
    PROVE  call[c] \in CallTypes /\ (call[c] # NoCall => CallFitsCatalog(call[c]))
BY DEF CatalogInv, CatalogTypeOK, CallTypes

\* What is known of a call from where it stands.
LEMMA CallAt ==
    ASSUME CatalogInv, NEW c \in Callers
    PROVE  /\ call[c].at \in {"look", "flush", "insert"} =>
                call[c] \in Creating /\ CallFitsCatalog(call[c]) /\ call[c] # NoCall
           /\ call[c].at = "read" => call[c] \in Reading /\ CallFitsCatalog(call[c]) /\ call[c] # NoCall
           /\ call[c].at = "commit" => call[c] \in Writing \cup Removing /\ CallFitsCatalog(call[c]) /\ call[c] # NoCall
<1>1. call[c] \in CallTypes /\ (call[c] # NoCall => CallFitsCatalog(call[c]))  BY CallTyped
<1>2. NoCall.at = "idle"  BY DEF NoCall
<1>3. \A p \in Creating : p.at \in {"look", "flush", "insert"}  BY DEF Creating
<1>4. \A p \in Reading : p.at = "read"  BY DEF Reading
<1>5. \A p \in Writing \cup Removing : p.at = "commit"  BY DEF Writing, Removing
<1> QED  BY <1>1, <1>2, <1>3, <1>4, <1>5 DEF CallTypes

LEMMA EndedCall ==
    ASSUME CatalogInv, UNCHANGED <<catalog, used, ledger>>, calls' \in Nat, NEW c \in Callers, EndCall(c)
    PROVE  CatalogInv'
<1>1. call' = [call EXCEPT ![c] = NoCall] /\ NoCall \in CallTypes /\ NoCall.at # "insert"
  BY DEF EndCall, CallTypes, NoCall
<1>2. OneInserts'  BY <1>1, NoNewInsert
<1> QED  BY <1>1, <1>2, OnlyCallMoves

LEMMA AskedCall ==
    ASSUME CatalogInv, NEW c \in Callers, NEW q \in Creating \cup Reading, Ask(c, q), q.at # "insert",
           CallFitsCatalog(q)
    PROVE  CatalogInv'
<1>1. call' = [call EXCEPT ![c] = q] /\ q \in CallTypes /\ UNCHANGED <<catalog, used, ledger>> /\ calls' = calls + 1
  BY DEF Ask, CallTypes
<1>2. calls' \in Nat  BY <1>1 DEF CatalogInv, CatalogTypeOK
<1>3. OneInserts'  BY <1>1, NoNewInsert
<1> QED  BY <1>1, <1>2, <1>3, OnlyCallMoves

LEMMA CreateKeyedStep ==
    ASSUME CatalogInv, NEW c \in Callers, NEW kind \in Keyed, NEW label \in Labels, NEW scope,
           CreateKeyed(c, kind, label, scope)
    PROVE  CatalogInv'
<1>1. PICK row : row = NewRow(kind, label, "on", ScopeOfNew(scope))  OBVIOUS
<1>2. row \in CatalogRow /\ row.kind = kind
  <2>1. ScopeOfNew(scope) \in {"all", "some"}  BY DEF ScopeOfNew
  <2> QED  BY <1>1, <2>1 DEF NewRow, CatalogRow
<1>3. PICK q : q = [at |-> "look", op |-> "created", row |-> row]  OBVIOUS
<1>4. q \in Creating /\ q.at = "look" /\ q.op = "created" /\ q.row = row  BY <1>2, <1>3 DEF Creating
<1>5. Ask(c, q)  BY <1>1, <1>3 DEF CreateKeyed
<1>6. CallFitsCatalog(q)  BY <1>2, <1>4 DEF CallFitsCatalog
<1> QED  BY <1>4, <1>5, <1>6, AskedCall

LEMMA PatchStep ==
    ASSUME CatalogInv, NEW c \in Callers, NEW id \in DOMAIN catalog, NEW body \in BodyType, Patch(c, id, body)
    PROVE  CatalogInv'
<1>1. PICK q : q = [at |-> "read", op |-> "updated", id |-> id, body |-> body]  OBVIOUS
<1>2. id \in used /\ id \in Ids  BY RowsTyped DEF CatalogInv
<1>3. q \in Reading /\ q.at = "read" /\ q.op = "updated" /\ q.id = id  BY <1>1, <1>2 DEF Reading
<1>4. Ask(c, q)  BY <1>1 DEF Patch
<1>5. CallFitsCatalog(q)  BY <1>2, <1>3 DEF CallFitsCatalog
<1> QED  BY <1>3, <1>4, <1>5, AskedCall

LEMMA DeleteKeyedStep ==
    ASSUME CatalogInv, NEW c \in Callers, NEW id, DeleteKeyed(c, id)
    PROVE  CatalogInv'
<1>1. PICK q : q = [at |-> "read", op |-> "deleted", id |-> id]  OBVIOUS
<1>2. id \in used /\ id \in Ids /\ id \in DOMAIN catalog /\ catalog[id].kind \in Keyed
  BY RowsTyped DEF CatalogInv, DeleteKeyed
<1>3. q \in Reading /\ q.at = "read" /\ q.op = "deleted" /\ q.id = id  BY <1>1, <1>2 DEF Reading
<1>4. Ask(c, q)  BY <1>1 DEF DeleteKeyed
<1>5. CallFitsCatalog(q)  BY <1>2, <1>3 DEF CallFitsCatalog
<1> QED  BY <1>3, <1>4, <1>5, AskedCall

LEMMA LookUpKeyStep ==
    ASSUME CatalogInv, NEW c \in Callers, LookUpKey(c)
    PROVE  CatalogInv'
<1>1. UNCHANGED <<catalog, used, ledger>> /\ calls' \in Nat  BY DEF LookUpKey, CatalogInv, CatalogTypeOK
<1>2. CASE EndCall(c)  BY <1>1, <1>2, EndedCall
<1>3. CASE call' = [call EXCEPT ![c].at = "flush"]
  <2>1. PICK p : p = call[c]  OBVIOUS
  <2>2. p \in Creating /\ CallFitsCatalog(p) /\ p.at = "look"  BY <2>1, CallAt DEF LookUpKey
  <2>3. PICK q : q = [p EXCEPT !.at = "flush"]  OBVIOUS
  <2>4. q \in Creating /\ q.at = "flush" /\ q.op = "created" /\ q.row = p.row /\ p.op = "created"
    BY <2>2, <2>3 DEF Creating
  <2>5. call' = [call EXCEPT ![c] = q]  BY <1>3, <2>1, <2>3
  <2>6. CallFitsCatalog(q)  BY <2>2, <2>4 DEF CallFitsCatalog
  <2>7. OneInserts'  BY <2>4, <2>5, NoNewInsert
  <2>8. q \in CallTypes  BY <2>4 DEF CallTypes
  <2> QED  BY <1>1, <2>5, <2>6, <2>7, <2>8, OnlyCallMoves
<1> QED  BY <1>2, <1>3 DEF LookUpKey

LEMMA FlushInsertStep ==
    ASSUME CatalogInv, NEW c \in Callers, FlushInsert(c)
    PROVE  CatalogInv'
<1>1. UNCHANGED <<catalog, used, ledger>> /\ calls' \in Nat
  BY DEF FlushInsert, CatalogInv, CatalogTypeOK
<1>2. CASE EndCall(c)  BY <1>1, <1>2, EndedCall
<1>3. CASE ~EndCall(c)
  <2>1. PICK p : p = call[c]  OBVIOUS
  <2>2. p \in Creating /\ CallFitsCatalog(p) /\ p.at = "flush"  BY <2>1, CallAt DEF FlushInsert
  <2>3. PICK q : q = [p EXCEPT !.at = "insert"]  OBVIOUS
  <2>4. q \in Creating /\ q.at = "insert" /\ q.op = "created" /\ q.row = p.row /\ p.op = "created"
    BY <2>2, <2>3 DEF Creating
  <2>5. call' = [call EXCEPT ![c] = q] /\ ~Taken(q.row.kind, q.row.label) /\ Inserting(q.row.kind, q.row.label) = {}
    BY <1>3, <2>1, <2>3, <2>4 DEF FlushInsert
  <2>6. CallFitsCatalog(q)  BY <2>2, <2>4, <2>5 DEF CallFitsCatalog
  <2>7. \A d \in Callers : call[d].at = "insert" => call[d].row.kind # q.row.kind \/ call[d].row.label # q.row.label
    BY <2>5 DEF Inserting
  <2>8. call \in [Callers -> CallTypes] /\ OneInserts  BY DEF CatalogInv, CatalogTypeOK, CallTypes
  <2>9. call'[c] = q /\ \A d \in Callers : d # c => call'[d] = call[d]  BY <2>5, <2>8
  <2>10. OneInserts'  BY <2>7, <2>8, <2>9 DEF OneInserts
  <2>11. q \in CallTypes  BY <2>4 DEF CallTypes
  <2> QED  BY <1>1, <2>5, <2>6, <2>10, <2>11, OnlyCallMoves
<1> QED  BY <1>2, <1>3

LEMMA ReadRowStep ==
    ASSUME CatalogInv, NEW c \in Callers, ReadRow(c)
    PROVE  CatalogInv'
<1>1. UNCHANGED <<catalog, used, ledger>> /\ calls' \in Nat  BY DEF ReadRow, CatalogInv, CatalogTypeOK
<1>2. CASE EndCall(c)  BY <1>1, <1>2, EndedCall
<1>3. CASE ~EndCall(c)
  <2>1. PICK p : p = call[c]  OBVIOUS
  <2>2. p \in Reading /\ CallFitsCatalog(p) /\ p.at = "read"  BY <2>1, CallAt DEF ReadRow
  <2>3. PICK row, body : row = catalog[p.id] /\ body = IF p.op = "updated" THEN p.body ELSE << >>
    OBVIOUS
  <2>4. PICK q : q = [at |-> "commit", op |-> p.op, id |-> p.id, row |-> row, body |-> body]  OBVIOUS
  <2>5. p.id \in DOMAIN catalog /\ call' = [call EXCEPT ![c] = q]  BY <1>3, <2>1, <2>3, <2>4 DEF ReadRow
  <2>6. row \in CatalogRow  BY <2>3, <2>5, RowsTyped DEF CatalogInv
  <2>7. q \in Writing \cup Removing /\ q.at = "commit" /\ q.op = p.op /\ q.id = p.id /\ q.row = row
    <3>1. CASE p.op = "updated"
      <4>1. p.body \in BodyType /\ p.id \in Ids  BY <2>2, <3>1 DEF Reading
      <4> QED  BY <2>3, <2>4, <2>6, <3>1, <4>1 DEF Writing
    <3>2. CASE p.op = "deleted"
      <4>1. p.id \in Ids  BY <2>2, <3>2 DEF Reading
      <4> QED  BY <2>3, <2>4, <2>6, <3>2, <4>1 DEF Removing
    <3> QED  BY <2>2, <3>1, <3>2 DEF Reading
  <2>8. row.kind \in Keyed => InLedger(p.id)  BY <2>3, <2>5 DEF CatalogInv, LedgerFits
  <2>9. p.op = "deleted" => row.kind \in Keyed  BY <2>2, <2>3, <2>5 DEF CallFitsCatalog
  <2>10. p.id \in used /\ p.op # "created"  BY <2>2 DEF CallFitsCatalog, Reading
  <2>11. CallFitsCatalog(q)  BY <2>3, <2>7, <2>8, <2>9, <2>10 DEF CallFitsCatalog, ReadStillHolds
  <2>12. OneInserts'  BY <2>5, <2>7, NoNewInsert
  <2>13. q \in CallTypes  BY <2>7 DEF CallTypes
  <2> QED  BY <1>1, <2>5, <2>11, <2>12, <2>13, OnlyCallMoves
<1> QED  BY <1>2, <1>3
-----------------------------------------------------------------------------
(* The catalogue: steps that change a row.                                       *)

\* The keys of calls that insert, after a step that adds none of them.
KeysStayFree(S) ==
    \A d \in S : call[d].at = "insert" => ~TakenThen(call[d].row.kind, call[d].row.label)

LEMMA CallsStay ==
    ASSUME CatalogInv, RowsGoOn, LedgerGrows, call' = call, KeysStayFree(Callers)
    PROVE  call' \in [Callers -> CallTypes] /\ CallsFit' /\ OneInserts'
<1>1. call \in [Callers -> CallTypes] /\ OneInserts  BY DEF CatalogInv, CatalogTypeOK, CallTypes
<1>2. ASSUME NEW d \in Callers, call'[d] # NoCall PROVE CallFitsCatalog(call[d])'
  <2>1. PICK p : p = call[d]  OBVIOUS
  <2>2. CallFitsCatalog(p) /\ (p.at = "insert" => ~TakenThen(p.row.kind, p.row.label)) /\ call'[d] = p
    BY <1>2, <2>1 DEF CatalogInv, KeysStayFree
  <2>3. CallFitsCatalog(p)'  BY <2>2, FitsOn DEF CatalogInv
  <2> QED  BY <2>2, <2>3 DEF CallFitsCatalog
<1>3. OneInserts'  BY <1>1 DEF OneInserts
<1> QED  BY <1>1, <1>2, <1>3 DEF CallsFit

\* Rows that go on with none added take no key.
LEMMA FreeStaysFree ==
    ASSUME RowsGoOn, NEW kind, NEW label, ~Taken(kind, label),
           \A id \in DOMAIN catalog' \ DOMAIN catalog : catalog'[id].kind # kind \/ catalog'[id].label # label
    PROVE  ~TakenThen(kind, label)
<1> SUFFICES ASSUME NEW id \in DOMAIN catalog', catalog'[id].kind = kind, catalog'[id].label = label PROVE FALSE
  BY DEF TakenThen
<1>1. id \in DOMAIN catalog /\ RowGoesOn(id)  BY DEF RowsGoOn
<1> QED  BY <1>1 DEF RowGoesOn, Taken

LEMMA InsertedIsFree ==
    ASSUME CatalogInv, NEW d \in Callers, call[d].at = "insert"
    PROVE  /\ call[d].row.kind \in Keyed /\ call[d].row \in CatalogRow /\ call[d] \in Creating
           /\ ~Taken(call[d].row.kind, call[d].row.label)
<1>1. call[d] \in Creating /\ CallFitsCatalog(call[d])  BY CallAt
<1>2. call[d].op = "created" /\ call[d].row \in CatalogRow  BY <1>1 DEF Creating
<1> QED  BY <1>1, <1>2 DEF CallFitsCatalog

LEMMA KeysStayFreeWithout ==
    ASSUME CatalogInv, RowsGoOn, NEW S \in SUBSET Callers,
           \A id \in DOMAIN catalog' \ DOMAIN catalog : catalog'[id].kind \notin Keyed
    PROVE  KeysStayFree(S)
<1> SUFFICES ASSUME NEW d \in S, call[d].at = "insert" PROVE ~TakenThen(call[d].row.kind, call[d].row.label)
  BY DEF KeysStayFree
<1>1. call[d].row.kind \in Keyed /\ ~Taken(call[d].row.kind, call[d].row.label)  BY InsertedIsFree
<1> QED  BY <1>1, FreeStaysFree

\* A new row under an id that nobody had.
LEMMA FreshRow ==
    ASSUME CatalogInv, NEW id \in Ids \ used, NEW row \in CatalogRow, catalog' = Put(id, row), used' = used \cup {id},
           row.kind \in Keyed => ~Taken(row.kind, row.label),
           row.kind = "ticket" /\ row.status = "resolved" => row.stamped
    PROVE  /\ RowsGoOn /\ used' \in SUBSET Ids /\ catalog' \in UNION {[D -> CatalogRow] : D \in SUBSET used'}
           /\ KeysUnique' /\ ResolvedIsStamped'
           /\ DOMAIN catalog' = DOMAIN catalog \cup {id} /\ catalog'[id] = row
           /\ \A i \in DOMAIN catalog : catalog'[i] = catalog[i]
<1>1. /\ DOMAIN catalog \in SUBSET used /\ used \in SUBSET Ids /\ catalog \in [DOMAIN catalog -> CatalogRow]
      /\ id \notin DOMAIN catalog
  BY RowsTyped DEF CatalogInv
<1>2. /\ DOMAIN catalog' = DOMAIN catalog \cup {id} /\ catalog'[id] = row
      /\ \A i \in DOMAIN catalog : catalog'[i] = catalog[i]
  BY <1>1 DEF Put
<1>3. catalog' \in [DOMAIN catalog \cup {id} -> CatalogRow]  BY <1>1 DEF Put
<1>4. RowsGoOn  BY <1>1, <1>2 DEF RowsGoOn, RowGoesOn
<1>5. DOMAIN catalog \cup {id} \in SUBSET used' /\ used' \in SUBSET Ids  BY <1>1
<1>6. KeysUnique'
  <2>1. KeysUnique  BY DEF CatalogInv
  <2>2. ASSUME NEW i \in DOMAIN catalog, row.kind \in Keyed, catalog[i].kind = row.kind PROVE catalog[i].label # row.label
    BY <2>2 DEF Taken
  <2> QED  BY <1>2, <2>1, <2>2 DEF KeysUnique
<1>7. ResolvedIsStamped'  BY <1>2 DEF CatalogInv, ResolvedIsStamped
<1> QED  BY <1>2, <1>3, <1>4, <1>5, <1>6, <1>7

\* The trail without a new entry.
LEMMA LedgerStays ==
    ASSUME CatalogInv, RowsGoOn, ledger' = ledger,
           \A id \in DOMAIN catalog' : catalog'[id].kind \in Keyed => InLedger(id)
    PROVE  LedgerGrows /\ LedgerFits' /\ TrailInOrder'
<1>1. LedgerGrows  BY DEF LedgerGrows
<1>2. LedgerFits'  BY DEF CatalogInv, LedgerFits, RowsGoOn, InLedger
<1>3. \A i \in DOMAIN ledger : ledger[i].id \notin DOMAIN catalog => ledger[i].id \notin DOMAIN catalog'
  BY DEF CatalogInv, LedgerFits, RowsGoOn
<1>4. TrailInOrder'
  <2>1. TrailInOrder  BY DEF CatalogInv
  <2> QED  BY <1>3, <2>1 DEF TrailInOrder
<1> QED  BY <1>1, <1>2, <1>4

\* The trail with a new entry.
LEMMA LedgerNoted ==
    ASSUME CatalogInv, RowsGoOn, NEW e \in LedgerEntry, ledger' = Append(ledger, e), e.id \in used',
           (e.op = "created") = ~InLedger(e.id),
           e.op = "deleted" => e.id \notin DOMAIN catalog',
           \A i \in DOMAIN ledger : ledger[i].id = e.id /\ ledger[i].op = "deleted" => e.op = "deleted" \/ e.columns = {},
           \A id \in DOMAIN catalog' : catalog'[id].kind \in Keyed => InLedger(id) \/ id = e.id
    PROVE  LedgerGrows /\ ledger' \in Seq(LedgerEntry) /\ LedgerFits' /\ TrailInOrder'
<1>1. ledger \in Seq(LedgerEntry)  BY DEF CatalogInv, CatalogTypeOK
<1>2. PICK n : n = Len(ledger) + 1  OBVIOUS
<1>3. /\ n \in Nat /\ DOMAIN ledger = 1 .. n - 1 /\ DOMAIN ledger' = 1 .. n /\ ledger'[n] = e
      /\ \A i \in DOMAIN ledger : i \in DOMAIN ledger' /\ i < n /\ ledger'[i] = ledger[i]
  BY <1>1, <1>2
<1>4. \A i \in DOMAIN ledger' : i \in DOMAIN ledger \/ i = n  BY <1>3
<1>5. LedgerGrows  BY <1>3 DEF LedgerGrows
<1>6. InLedger(e.id)'
  <2>1. n \in DOMAIN ledger'  BY <1>1, <1>2, <1>3
  <2> QED  BY <1>3, <2>1 DEF InLedger
<1>7. LedgerFits'
  <2>1. \A i \in DOMAIN ledger : ledger[i].id \in used'  BY DEF CatalogInv, LedgerFits, RowsGoOn
  <2>2. \A i \in DOMAIN ledger' : ledger'[i].id \in used'  BY <1>3, <1>4, <2>1
  <2>3. \A id \in DOMAIN catalog' : catalog'[id].kind \in Keyed => InLedger(id)'
    BY <1>5, <1>6, StillInLedger
  <2> QED  BY <2>2, <2>3 DEF LedgerFits
<1>8. \A i \in DOMAIN ledger : ledger[i].id \notin DOMAIN catalog => ledger[i].id \notin DOMAIN catalog'
  BY DEF CatalogInv, LedgerFits, RowsGoOn
<1>9. TrailInOrder  BY DEF CatalogInv
<1>10. ASSUME NEW i \in DOMAIN ledger'
       PROVE  (ledger'[i].op = "created") = (\A j \in DOMAIN ledger' : j < i => ledger'[j].id # ledger'[i].id)
  <2>1. CASE i = n
    <3>1. InLedger(e.id) <=> \E j \in DOMAIN ledger' : j < n /\ ledger'[j].id = e.id
      BY <1>3, <1>4 DEF InLedger
    <3> QED  BY <1>3, <2>1, <3>1, ZenonT(60)
  <2>2. CASE i # n
    <3>1. i \in DOMAIN ledger /\ ledger'[i] = ledger[i] /\ i \in 1 .. n - 1  BY <1>3, <1>4, <2>2
    <3>2. (ledger[i].op = "created") = (\A j \in DOMAIN ledger : j < i => ledger[j].id # ledger[i].id)
      BY <1>9, <3>1 DEF TrailInOrder
    <3>3. \A j \in DOMAIN ledger' : j < i => j \in DOMAIN ledger  BY <1>3, <3>1
    <3> QED  BY <1>3, <3>1, <3>2, <3>3, ZenonT(60)
  <2> QED  BY <2>1, <2>2
<1>11. ASSUME NEW i \in DOMAIN ledger', ledger'[i].op = "deleted"
       PROVE  /\ ledger'[i].id \notin DOMAIN catalog'
              /\ \A j \in DOMAIN ledger' :
                    j > i /\ ledger'[j].id = ledger'[i].id => ledger'[j].op = "deleted" \/ ledger'[j].columns = {}
  <2>1. CASE i = n
    <3>1. \A j \in DOMAIN ledger' : ~(j > i)  BY <1>3, <2>1
    <3> QED  BY <1>3, <1>11, <2>1, <3>1
  <2>2. CASE i # n
    <3>1. i \in DOMAIN ledger /\ ledger'[i] = ledger[i]  BY <1>3, <1>4, <2>2
    <3>2. /\ ledger[i].id \notin DOMAIN catalog
          /\ \A j \in DOMAIN ledger :
                j > i /\ ledger[j].id = ledger[i].id => ledger[j].op = "deleted" \/ ledger[j].columns = {}
      BY <1>9, <1>11, <3>1 DEF TrailInOrder
    <3>3. ledger[i].id = e.id => e.op = "deleted" \/ e.columns = {}  BY <1>11, <3>1
    <3>4. ASSUME NEW j \in DOMAIN ledger', j > i, ledger'[j].id = ledger'[i].id
          PROVE  ledger'[j].op = "deleted" \/ ledger'[j].columns = {}
      BY <1>3, <1>4, <3>1, <3>2, <3>3, <3>4
    <3> QED  BY <1>8, <3>1, <3>2, <3>4
  <2> QED  BY <2>1, <2>2
<1>12. TrailInOrder'  BY <1>10, <1>11 DEF TrailInOrder
<1>13. ledger' \in Seq(LedgerEntry)  BY <1>1
<1> QED  BY <1>5, <1>7, <1>12, <1>13
-----------------------------------------------------------------------------
(* The catalogue: what an update writes over the row.                            *)

LEMMA EditedFields ==
    ASSUME NEW body \in BodyType, NEW old \in CatalogRow, NEW new, new = Edited(body, old)
    PROVE  /\ new \in CatalogRow /\ new.kind = old.kind /\ new.label = old.label
           /\ new.status = (IF body.status = Left THEN old.status ELSE body.status)
           /\ new.scope # old.scope => body.clear \/ body.scope = "some"
           /\ new.stamped = (old.stamped \/ (old.kind = "ticket" /\ body.status = "resolved"))
<1>1. PICK status, scope, stamped :
         /\ status = IF body.status = Left THEN old.status ELSE body.status
         /\ scope = ScopeOfOld(body, old.scope)
         /\ stamped = (old.stamped \/ (old.kind = "ticket" /\ body.status = "resolved"))
  OBVIOUS
<1>2. body.status \in {"on", "off", "open", "resolved", "received", Left} /\ body.clear \in BOOLEAN
  BY DEF BodyType, Bodies
<1>3. scope \in {"all", "some"} /\ (scope # old.scope => body.clear \/ body.scope = "some")
  <2>1. old.scope \in {"all", "some"}  BY DEF CatalogRow
  <2> QED  BY <1>1, <2>1 DEF ScopeOfOld
<1>4. stamped \in BOOLEAN  BY <1>1 DEF CatalogRow
<1>5. status \in {"on", "off", "open", "resolved", "failed", "received"}
  <2>1. old.status \in {"on", "off", "open", "resolved", "failed", "received"}  BY DEF CatalogRow
  <2> QED  BY <1>1, <1>2, <2>1
<1>6. PICK e : e = [old EXCEPT !.status = status]  OBVIOUS
<1>7. e \in CatalogRow /\ e.kind = old.kind /\ e.label = old.label /\ e.status = status
  BY <1>5, <1>6 DEF CatalogRow
<1>8. PICK f : f = [e EXCEPT !.scope = scope]  OBVIOUS
<1>9. f \in CatalogRow /\ f.kind = old.kind /\ f.label = old.label /\ f.status = status /\ f.scope = scope
  BY <1>3, <1>7, <1>8 DEF CatalogRow
<1>10. new = [f EXCEPT !.stamped = stamped]
  <2>1. new = [old EXCEPT !.status = status, !.scope = scope, !.stamped = stamped]
    BY <1>1, Zenon DEF Edited
  <2> QED  BY <1>6, <1>8, <2>1, Zenon
<1>11. /\ new \in CatalogRow /\ new.kind = old.kind /\ new.label = old.label /\ new.status = status
       /\ new.scope = scope /\ new.stamped = stamped
  BY <1>4, <1>9, <1>10 DEF CatalogRow
<1> QED  BY <1>1, <1>3, <1>11

LEMMA RowFields ==
    ASSUME NEW row \in CatalogRow
    PROVE  DOMAIN row = Fields
BY DEF CatalogRow, Fields

LEMMA MergedFields ==
    ASSUME NEW row \in CatalogRow, NEW old \in CatalogRow, NEW new \in CatalogRow
    PROVE  /\ Merged(row, old, new) \in CatalogRow
           /\ Merged(row, old, new).kind = IF old.kind # new.kind THEN new.kind ELSE row.kind
           /\ Merged(row, old, new).label = IF old.label # new.label THEN new.label ELSE row.label
           /\ Merged(row, old, new).status = IF old.status # new.status THEN new.status ELSE row.status
           /\ Merged(row, old, new).scope = IF old.scope # new.scope THEN new.scope ELSE row.scope
           /\ Merged(row, old, new).stamped = IF old.stamped # new.stamped THEN new.stamped ELSE row.stamped
<1>1. DOMAIN row = Fields /\ DOMAIN old = Fields  BY RowFields
<1>2. Columns(old, new) = {f \in Fields : old[f] # new[f]}  BY <1>1 DEF Columns
<1>3. Merged(row, old, new) = [f \in Fields |-> IF old[f] # new[f] THEN new[f] ELSE row[f]]
  BY <1>1, <1>2 DEF Merged
<1>4. PICK m : m = Merged(row, old, new)  OBVIOUS
<1>5. /\ m.kind = IF old.kind # new.kind THEN new.kind ELSE row.kind
      /\ m.label = IF old.label # new.label THEN new.label ELSE row.label
      /\ m.status = IF old.status # new.status THEN new.status ELSE row.status
      /\ m.scope = IF old.scope # new.scope THEN new.scope ELSE row.scope
      /\ m.stamped = IF old.stamped # new.stamped THEN new.stamped ELSE row.stamped
  BY <1>3, <1>4 DEF Fields
<1>6. m = [kind |-> m.kind, label |-> m.label, status |-> m.status, scope |-> m.scope, stamped |-> m.stamped]
  BY <1>3, <1>4 DEF Fields
<1>7. m \in CatalogRow  BY <1>5, <1>6 DEF CatalogRow
<1> QED  BY <1>4, <1>5, <1>7

\* The row m keeps of the row its key, stamp and the rule of resolved tickets, and
\* differs in what the body asks for.
IsUpdateOf(m, row, body) ==
    /\ m \in CatalogRow /\ m.kind = row.kind /\ m.label = row.label
    /\ row.stamped => m.stamped
    /\ m.kind = "ticket" /\ m.status = "resolved" => m.stamped
    /\ m.status # row.status => m.status = body.status
    /\ m.scope # row.scope => body.clear \/ body.scope = "some"
    /\ m.stamped # row.stamped => body.status = "resolved" /\ m.stamped

\* What was read of a row that goes on, and what holds of the row.
MayBeWritten(row, old) ==
    /\ row.kind = old.kind /\ row.label = old.label /\ (old.stamped => row.stamped)
    /\ row.kind = "ticket" /\ row.status = "resolved" => row.stamped

\* A write over a row that goes on: it keeps the key, the stamp and the rule of
\* resolved tickets, and changes what the body asks for.
LEMMA MergedRow ==
    ASSUME NEW row \in CatalogRow, NEW old \in CatalogRow, NEW body \in BodyType,
           MayBeWritten(row, old), NEW m, m = Merged(row, old, Edited(body, old))
    PROVE  IsUpdateOf(m, row, body)
<1>0. /\ row.kind = old.kind /\ row.label = old.label /\ (old.stamped => row.stamped)
      /\ row.kind = "ticket" /\ row.status = "resolved" => row.stamped
  BY DEF MayBeWritten
<1>1. PICK new : new = Edited(body, old)  OBVIOUS
<1>2. /\ new \in CatalogRow /\ new.kind = old.kind /\ new.label = old.label
      /\ new.status = (IF body.status = Left THEN old.status ELSE body.status)
      /\ new.scope # old.scope => body.clear \/ body.scope = "some"
      /\ new.stamped = (old.stamped \/ (old.kind = "ticket" /\ body.status = "resolved"))
  BY <1>1, EditedFields
<1>3. /\ m \in CatalogRow
      /\ m.kind = IF old.kind # new.kind THEN new.kind ELSE row.kind
      /\ m.label = IF old.label # new.label THEN new.label ELSE row.label
      /\ m.status = IF old.status # new.status THEN new.status ELSE row.status
      /\ m.scope = IF old.scope # new.scope THEN new.scope ELSE row.scope
      /\ m.stamped = IF old.stamped # new.stamped THEN new.stamped ELSE row.stamped
  BY <1>1, <1>2, MergedFields
<1>4. m.kind = row.kind /\ m.label = row.label  BY <1>0, <1>2, <1>3
<1>5. old.stamped \in BOOLEAN /\ row.stamped \in BOOLEAN /\ new.stamped \in BOOLEAN
  BY <1>2 DEF CatalogRow
<1>6. m.stamped = (row.stamped \/ (~old.stamped /\ old.kind = "ticket" /\ body.status = "resolved"))
  BY <1>0, <1>2, <1>3, <1>5
<1>7. m.status # row.status => m.status = body.status  BY <1>2, <1>3
<1>8. m.scope # row.scope => body.clear \/ body.scope = "some"  BY <1>2, <1>3
<1>9. m.kind = "ticket" /\ m.status = "resolved" => m.stamped  BY <1>0, <1>4, <1>5, <1>6, <1>7
<1> QED  BY <1>3, <1>4, <1>5, <1>6, <1>7, <1>8, <1>9 DEF IsUpdateOf

\* The rows after such a write.
LEMMA RowWritten ==
    ASSUME CatalogInv, NEW id \in DOMAIN catalog, NEW m \in CatalogRow, catalog' = Put(id, m), used' = used,
           m.kind = catalog[id].kind, m.label = catalog[id].label, catalog[id].stamped => m.stamped,
           m.kind = "ticket" /\ m.status = "resolved" => m.stamped
    PROVE  /\ RowsGoOn /\ catalog' \in UNION {[D -> CatalogRow] : D \in SUBSET used'}
           /\ KeysUnique' /\ ResolvedIsStamped' /\ DOMAIN catalog' = DOMAIN catalog /\ catalog'[id] = m
           /\ \A i \in DOMAIN catalog : i # id => catalog'[i] = catalog[i]
<1>1. DOMAIN catalog \in SUBSET used /\ catalog \in [DOMAIN catalog -> CatalogRow]
  BY RowsTyped DEF CatalogInv
<1>2. /\ DOMAIN catalog' = DOMAIN catalog /\ catalog'[id] = m
      /\ \A i \in DOMAIN catalog : i # id => catalog'[i] = catalog[i]
  BY DEF Put
<1>3. catalog' \in [DOMAIN catalog -> CatalogRow]
  <2>1. DOMAIN catalog \cup {id} = DOMAIN catalog  OBVIOUS
  <2>2. catalog' = [i \in DOMAIN catalog |-> IF i = id THEN m ELSE catalog[i]]  BY <2>1 DEF Put
  <2> QED  BY <1>1, <2>2
<1>4. RowsGoOn  BY <1>2 DEF RowsGoOn, RowGoesOn
<1>5. \A i \in DOMAIN catalog : catalog'[i].kind = catalog[i].kind /\ catalog'[i].label = catalog[i].label
  BY <1>2
<1>6. KeysUnique'  BY <1>2, <1>5 DEF CatalogInv, KeysUnique
<1>7. ResolvedIsStamped'  BY <1>2 DEF CatalogInv, ResolvedIsStamped
<1> QED  BY <1>1, <1>2, <1>3, <1>4, <1>6, <1>7

\* The rows after a deletion.
LEMMA RowDropped ==
    ASSUME CatalogInv, NEW id, catalog' = [i \in DOMAIN catalog \ {id} |-> catalog[i]], used' = used
    PROVE  /\ RowsGoOn /\ catalog' \in UNION {[D -> CatalogRow] : D \in SUBSET used'}
           /\ KeysUnique' /\ ResolvedIsStamped' /\ DOMAIN catalog' = DOMAIN catalog \ {id}
           /\ \A i \in DOMAIN catalog' : catalog'[i] = catalog[i]
<1>1. DOMAIN catalog \in SUBSET used /\ catalog \in [DOMAIN catalog -> CatalogRow]
  BY RowsTyped DEF CatalogInv
<1>2. /\ DOMAIN catalog' = DOMAIN catalog \ {id}
      /\ \A i \in DOMAIN catalog' : i \in DOMAIN catalog /\ catalog'[i] = catalog[i]
  OBVIOUS
<1>3. catalog' \in [DOMAIN catalog \ {id} -> CatalogRow] /\ DOMAIN catalog \ {id} \in SUBSET used'
  BY <1>1
<1>4. RowsGoOn  BY <1>2 DEF RowsGoOn, RowGoesOn
<1>5. KeysUnique'  BY <1>2 DEF CatalogInv, KeysUnique
<1>6. ResolvedIsStamped'  BY <1>2 DEF CatalogInv, ResolvedIsStamped
<1> QED  BY <1>2, <1>3, <1>4, <1>5, <1>6
-----------------------------------------------------------------------------
(* The catalogue: the invariant.                                                 *)

LEMMA EndedCalls ==
    ASSUME CatalogInv, RowsGoOn, LedgerGrows, NEW c \in Callers, EndCall(c), KeysStayFree(Callers \ {c})
    PROVE  call' \in [Callers -> CallTypes] /\ CallsFit' /\ OneInserts'
<1>1. call' = [call EXCEPT ![c] = NoCall] /\ NoCall \in CallTypes /\ NoCall.at # "insert"
  BY DEF EndCall, CallTypes, NoCall
<1>2. \A d \in Callers : d # c /\ call[d].at = "insert" => ~TakenThen(call[d].row.kind, call[d].row.label)
  BY DEF KeysStayFree
<1>3. call' \in [Callers -> CallTypes] /\ CallsFit'  BY <1>1, <1>2, OneCallMoves
<1>4. OneInserts'  BY <1>1, NoNewInsert
<1> QED  BY <1>3, <1>4

LEMMA CatalogParts ==
    ASSUME used' \in SUBSET Ids, catalog' \in UNION {[D -> CatalogRow] : D \in SUBSET used'},
           ledger' \in Seq(LedgerEntry), call' \in [Callers -> CallTypes], calls' \in Nat,
           CallsFit', OneInserts', LedgerFits', KeysUnique', ResolvedIsStamped', TrailInOrder'
    PROVE  CatalogInv'
<1>1. CatalogTypeOK'  BY DEF CatalogTypeOK, CallTypes
<1> QED  BY <1>1 DEF CatalogInv, CallsFit

LEMMA CommitInsertStep ==
    ASSUME CatalogInv, NEW c \in Callers, NEW id \in Ids, CommitInsert(c, id)
    PROVE  CatalogInv'
<1>1. PICK row : row = call[c].row  OBVIOUS
<1>2. row.kind \in Keyed /\ row \in CatalogRow /\ ~Taken(row.kind, row.label)
  BY <1>1, InsertedIsFree DEF CommitInsert
<1>3. catalog' = Put(id, row) /\ used' = used \cup {id} /\ id \in Ids \ used /\ EndCall(c) /\ calls' = calls
  BY <1>1 DEF CommitInsert
<1>4. row.kind # "ticket"  BY <1>2 DEF Keyed
<1>5. /\ RowsGoOn /\ used' \in SUBSET Ids /\ catalog' \in UNION {[D -> CatalogRow] : D \in SUBSET used'}
      /\ KeysUnique' /\ ResolvedIsStamped'
      /\ DOMAIN catalog' = DOMAIN catalog \cup {id} /\ catalog'[id] = row
      /\ \A i \in DOMAIN catalog : catalog'[i] = catalog[i]
  BY <1>2, <1>3, <1>4, FreshRow
<1>6. PICK e : e = [op |-> "created", id |-> id, columns |-> {}]  OBVIOUS
<1>7. e \in LedgerEntry /\ e.id = id /\ e.op = "created" /\ e.columns = {} /\ ledger' = Append(ledger, e) /\ e.id \in used'
  BY <1>3, <1>6 DEF LedgerEntry, CommitInsert, Noted
<1>8. \A i \in DOMAIN ledger : ledger[i].id # id  BY <1>3 DEF CatalogInv, LedgerFits
<1>9. ~InLedger(id)  BY <1>8 DEF InLedger
<1>10. \A i \in DOMAIN catalog' : catalog'[i].kind \in Keyed => InLedger(i) \/ i = e.id
  BY <1>5, <1>7 DEF CatalogInv, LedgerFits
<1>11. LedgerGrows /\ ledger' \in Seq(LedgerEntry) /\ LedgerFits' /\ TrailInOrder'
  BY <1>5, <1>7, <1>9, <1>10, LedgerNoted
<1>12. KeysStayFree(Callers \ {c})
  <2> SUFFICES ASSUME NEW d \in Callers \ {c}, call[d].at = "insert"
               PROVE  ~TakenThen(call[d].row.kind, call[d].row.label)
    BY DEF KeysStayFree
  <2>1. ~Taken(call[d].row.kind, call[d].row.label)  BY InsertedIsFree
  <2>2. row.kind # call[d].row.kind \/ row.label # call[d].row.label
    BY <1>1 DEF CatalogInv, OneInserts, CommitInsert
  <2>3. \A i \in DOMAIN catalog' \ DOMAIN catalog :
           catalog'[i].kind # call[d].row.kind \/ catalog'[i].label # call[d].row.label
    BY <1>5, <2>2
  <2> QED  BY <1>5, <2>1, <2>3, FreeStaysFree
<1>13. call' \in [Callers -> CallTypes] /\ CallsFit' /\ OneInserts'
  BY <1>3, <1>5, <1>11, <1>12, EndedCalls
<1>14. calls' \in Nat  BY <1>3 DEF CatalogInv, CatalogTypeOK
<1> QED  BY <1>5, <1>11, <1>13, <1>14, CatalogParts

\* A call that commits an update, and what it writes.
LEMMA UpdateAtHand ==
    ASSUME CatalogInv, NEW c \in Callers, CommitUpdate(c)
    PROVE  /\ call[c] \in Writing /\ CallFitsCatalog(call[c])
           /\ call[c].id \in Ids /\ call[c].id \in used /\ call[c].row \in CatalogRow /\ call[c].body \in BodyType
           /\ Columns(call[c].row, Edited(call[c].body, call[c].row)) \in SUBSET Fields
<1>1. call[c] \in Writing \cup Removing /\ CallFitsCatalog(call[c]) /\ call[c].at = "commit"
  BY CallAt DEF CommitUpdate
<1>2. call[c] \in Writing  BY <1>1 DEF CommitUpdate, Removing
<1>3. call[c].id \in Ids /\ call[c].id \in used /\ call[c].row \in CatalogRow /\ call[c].body \in BodyType
  BY <1>1, <1>2 DEF Writing, CallFitsCatalog
<1>4. DOMAIN call[c].row = Fields  BY <1>3, RowFields
<1> QED  BY <1>1, <1>2, <1>3, <1>4 DEF Columns

\* The row it writes over.
LEMMA UpdatedRow ==
    ASSUME CatalogInv, NEW c \in Callers, CommitUpdate(c), call[c].id \in DOMAIN catalog,
           NEW m, m = Merged(catalog[call[c].id], call[c].row, Edited(call[c].body, call[c].row))
    PROVE  IsUpdateOf(m, catalog[call[c].id], call[c].body)
<1>1. call[c].at = "commit" /\ CallFitsCatalog(call[c]) /\ call[c].row \in CatalogRow /\ call[c].body \in BodyType
  BY UpdateAtHand DEF CommitUpdate
<1>2. ReadStillHolds(call[c].row, call[c].id)  BY <1>1 DEF CallFitsCatalog
<1>3. PICK row : row = catalog[call[c].id]  OBVIOUS
<1>4. row.kind = call[c].row.kind /\ row.label = call[c].row.label /\ (call[c].row.stamped => row.stamped)
  BY <1>2, <1>3 DEF ReadStillHolds
<1>5. row \in CatalogRow  BY <1>3, RowsTyped DEF CatalogInv
<1>6. row.kind = "ticket" /\ row.status = "resolved" => row.stamped
  BY <1>3 DEF CatalogInv, ResolvedIsStamped
<1>7. PICK old, body : old = call[c].row /\ body = call[c].body  OBVIOUS
<1>8. /\ old \in CatalogRow /\ body \in BodyType /\ row.kind = old.kind /\ row.label = old.label
      /\ old.stamped => row.stamped
      /\ m = Merged(row, old, Edited(body, old))
  BY <1>1, <1>3, <1>4, <1>7
<1>9. MayBeWritten(row, old)  BY <1>6, <1>8 DEF MayBeWritten
<1>10. IsUpdateOf(m, row, body)  BY <1>5, <1>8, <1>9, MergedRow
<1> QED  BY <1>3, <1>7, <1>10

LEMMA CommitUpdateStep ==
    ASSUME CatalogInv, NEW c \in Callers, CommitUpdate(c)
    PROVE  CatalogInv'
<1>1. PICK id, old, columns, body :
         /\ id = call[c].id /\ old = call[c].row /\ body = call[c].body
         /\ columns = Columns(old, Edited(body, old))
  OBVIOUS
<1>2. /\ id \in Ids /\ id \in used /\ columns \in SUBSET Fields /\ CallFitsCatalog(call[c]) /\ call[c].at = "commit"
  BY <1>1, UpdateAtHand DEF CommitUpdate
<1>3. EndCall(c) /\ used' = used /\ calls' = calls  BY DEF CommitUpdate
<1>4. /\ RowsGoOn /\ catalog' \in UNION {[D -> CatalogRow] : D \in SUBSET used'}
      /\ KeysUnique' /\ ResolvedIsStamped' /\ DOMAIN catalog' = DOMAIN catalog
      /\ \A i \in DOMAIN catalog : catalog'[i].kind = catalog[i].kind
  <2>1. CASE id \notin DOMAIN catalog \/ columns = {}
    <3>1. catalog' = catalog  BY <1>1, <2>1 DEF CommitUpdate
    <3>2. RowsGoOn  BY <1>3, <3>1 DEF RowsGoOn, RowGoesOn
    <3>3. KeysUnique' /\ ResolvedIsStamped'  BY <3>1 DEF CatalogInv, KeysUnique, ResolvedIsStamped
    <3>4. catalog \in UNION {[D -> CatalogRow] : D \in SUBSET used}  BY DEF CatalogInv, CatalogTypeOK
    <3> QED  BY <1>3, <3>1, <3>2, <3>3, <3>4
  <2>2. CASE ~(id \notin DOMAIN catalog \/ columns = {})
    <3>1. PICK m : m = Merged(catalog[id], old, Edited(body, old))  OBVIOUS
    <3>2. catalog' = Put(id, m)  BY <1>1, <2>2, <3>1 DEF CommitUpdate
    <3>3. /\ m \in CatalogRow /\ m.kind = catalog[id].kind /\ m.label = catalog[id].label
          /\ catalog[id].stamped => m.stamped
          /\ m.kind = "ticket" /\ m.status = "resolved" => m.stamped
      BY <1>1, <2>2, <3>1, UpdatedRow DEF IsUpdateOf
    <3>4. /\ RowsGoOn /\ catalog' \in UNION {[D -> CatalogRow] : D \in SUBSET used'}
          /\ KeysUnique' /\ ResolvedIsStamped' /\ DOMAIN catalog' = DOMAIN catalog /\ catalog'[id] = m
          /\ \A i \in DOMAIN catalog : i # id => catalog'[i] = catalog[i]
      BY <1>3, <2>2, <3>2, <3>3, RowWritten
    <3> QED  BY <3>3, <3>4
  <2> QED  BY <2>1, <2>2
<1>5. \A i \in DOMAIN catalog' : catalog'[i].kind \in Keyed => InLedger(i)
  BY <1>4 DEF CatalogInv, LedgerFits
<1>6. LedgerGrows /\ ledger' \in Seq(LedgerEntry) /\ LedgerFits' /\ TrailInOrder'
  <2>1. CASE old.kind \in Keyed /\ ~(id \notin DOMAIN catalog /\ columns # {})
    <3>1. PICK e : e = [op |-> "updated", id |-> id, columns |-> columns]  OBVIOUS
    <3>2. /\ e \in LedgerEntry /\ e.id = id /\ e.op = "updated" /\ e.columns = columns
          /\ e.id \in used'
      BY <1>2, <1>3, <3>1 DEF LedgerEntry
    <3>3. ledger' = Append(ledger, e)  BY <1>1, <2>1, <3>1 DEF CommitUpdate, Noted
    <3>4. InLedger(id)  BY <1>1, <1>2, <2>1 DEF CallFitsCatalog
    <3>5. \A i \in DOMAIN ledger : ledger[i].id = id /\ ledger[i].op = "deleted" => columns = {}
      <4>1. \A i \in DOMAIN ledger : ledger[i].op = "deleted" => ledger[i].id \notin DOMAIN catalog
        BY DEF CatalogInv, TrailInOrder
      <4> QED  BY <2>1, <4>1
    <3>6. /\ (e.op = "created") = ~InLedger(e.id)
          /\ e.op = "deleted" => e.id \notin DOMAIN catalog'
      BY <3>2, <3>4
    <3>7. \A i \in DOMAIN ledger : ledger[i].id = e.id /\ ledger[i].op = "deleted" => e.op = "deleted" \/ e.columns = {}
      BY <3>2, <3>5
    <3> QED  BY <1>4, <1>5, <3>2, <3>3, <3>6, <3>7, LedgerNoted
  <2>2. CASE ~(old.kind \in Keyed /\ ~(id \notin DOMAIN catalog /\ columns # {}))
    <3>1. ledger' = ledger  BY <1>1, <2>2 DEF CommitUpdate
    <3>2. ledger \in Seq(LedgerEntry)  BY DEF CatalogInv, CatalogTypeOK
    <3> QED  BY <1>4, <1>5, <3>1, <3>2, LedgerStays
  <2> QED  BY <2>1, <2>2
<1>7. KeysStayFree(Callers \ {c})  BY <1>4, KeysStayFreeWithout
<1>8. call' \in [Callers -> CallTypes] /\ CallsFit' /\ OneInserts'
  BY <1>3, <1>4, <1>6, <1>7, EndedCalls
<1>9. calls' \in Nat /\ used' \in SUBSET Ids  BY <1>3 DEF CatalogInv, CatalogTypeOK
<1> QED  BY <1>4, <1>6, <1>8, <1>9, CatalogParts

LEMMA CommitDeleteStep ==
    ASSUME CatalogInv, NEW c \in Callers, CommitDelete(c)
    PROVE  CatalogInv'
<1>1. PICK id : id = call[c].id  OBVIOUS
<1>2. /\ call[c] \in Writing \cup Removing /\ CallFitsCatalog(call[c]) /\ call[c].at = "commit" /\ call[c].op = "deleted"
  BY CallAt DEF CommitDelete
<1>3. id \in Ids /\ id \in used /\ InLedger(id)
  <2>1. call[c].row.kind \in Keyed /\ id \in used /\ InLedger(id)  BY <1>1, <1>2 DEF CallFitsCatalog
  <2> QED  BY <2>1, RowsTyped DEF CatalogInv
<1>4. EndCall(c) /\ used' = used /\ calls' = calls /\ catalog' = [i \in DOMAIN catalog \ {id} |-> catalog[i]]
  BY <1>1 DEF CommitDelete
<1>5. /\ RowsGoOn /\ catalog' \in UNION {[D -> CatalogRow] : D \in SUBSET used'}
      /\ KeysUnique' /\ ResolvedIsStamped' /\ DOMAIN catalog' = DOMAIN catalog \ {id}
      /\ \A i \in DOMAIN catalog' : catalog'[i] = catalog[i]
  BY <1>4, RowDropped
<1>6. \A i \in DOMAIN catalog' : catalog'[i].kind \in Keyed => InLedger(i)
  BY <1>5 DEF CatalogInv, LedgerFits
<1>7. PICK e : e = [op |-> "deleted", id |-> id, columns |-> {}]  OBVIOUS
<1>8. e \in LedgerEntry /\ e.id = id /\ e.op = "deleted" /\ e.id \in used'
  BY <1>3, <1>4, <1>7 DEF LedgerEntry
<1>9. ledger' = Append(ledger, e)  BY <1>1, <1>7 DEF CommitDelete, Noted
<1>10. LedgerGrows /\ ledger' \in Seq(LedgerEntry) /\ LedgerFits' /\ TrailInOrder'
  BY <1>3, <1>5, <1>6, <1>8, <1>9, LedgerNoted
<1>11. KeysStayFree(Callers \ {c})  BY <1>5, KeysStayFreeWithout
<1>12. call' \in [Callers -> CallTypes] /\ CallsFit' /\ OneInserts'
  BY <1>4, <1>5, <1>10, <1>11, EndedCalls
<1>13. calls' \in Nat /\ used' \in SUBSET Ids  BY <1>4 DEF CatalogInv, CatalogTypeOK
<1> QED  BY <1>5, <1>10, <1>12, <1>13, CatalogParts

LEMMA UnkeyedRowStep ==
    ASSUME CatalogInv, NEW id \in Ids \ used, NEW row \in CatalogRow, row.kind \notin Keyed, row.status # "resolved",
           catalog' = Put(id, row), used' = used \cup {id}, UNCHANGED <<ledger, call, calls>>
    PROVE  CatalogInv'
<1>1. /\ RowsGoOn /\ used' \in SUBSET Ids /\ catalog' \in UNION {[D -> CatalogRow] : D \in SUBSET used'}
      /\ KeysUnique' /\ ResolvedIsStamped'
      /\ DOMAIN catalog' = DOMAIN catalog \cup {id} /\ catalog'[id] = row
      /\ \A i \in DOMAIN catalog : catalog'[i] = catalog[i]
  BY FreshRow
<1>2. \A i \in DOMAIN catalog' : catalog'[i].kind \in Keyed => InLedger(i)
  BY <1>1 DEF CatalogInv, LedgerFits
<1>3. LedgerGrows /\ LedgerFits' /\ TrailInOrder'  BY <1>1, <1>2, LedgerStays
<1>4. KeysStayFree(Callers)  BY <1>1, KeysStayFreeWithout
<1>5. call' \in [Callers -> CallTypes] /\ CallsFit' /\ OneInserts'  BY <1>1, <1>3, <1>4, CallsStay
<1>6. calls' \in Nat /\ ledger' \in Seq(LedgerEntry)  BY DEF CatalogInv, CatalogTypeOK
<1> QED  BY <1>1, <1>3, <1>5, <1>6, CatalogParts

LEMMA OpenTicketStep ==
    ASSUME CatalogInv, NEW id \in Ids, OpenTicket(id)
    PROVE  CatalogInv'
<1>1. NewTicket \in CatalogRow /\ NewTicket.kind \notin Keyed /\ NewTicket.status # "resolved"
  BY DEF NewTicket, NewRow, CatalogRow, Keyed
<1> QED  BY <1>1, UnkeyedRowStep DEF OpenTicket

LEMMA LogWebhookStep ==
    ASSUME CatalogInv, NEW id \in Ids, NEW status \in {"failed", "received"}, LogWebhook(id, status)
    PROVE  CatalogInv'
<1>1. PICK row : row = NewRow("log", "log", status, "all")  OBVIOUS
<1>2. row \in CatalogRow /\ row.kind \notin Keyed /\ row.status # "resolved"
  BY <1>1 DEF NewRow, CatalogRow, Keyed
<1> QED  BY <1>1, <1>2, UnkeyedRowStep DEF LogWebhook

LEMMA DropTicketStep ==
    ASSUME CatalogInv, NEW id \in Ids, DropTicket(id)
    PROVE  CatalogInv'
<1>1. catalog' = [i \in DOMAIN catalog \ {id} |-> catalog[i]] /\ UNCHANGED <<used, ledger, call, calls>>
  BY DEF DropTicket
<1>2. /\ RowsGoOn /\ catalog' \in UNION {[D -> CatalogRow] : D \in SUBSET used'}
      /\ KeysUnique' /\ ResolvedIsStamped' /\ DOMAIN catalog' = DOMAIN catalog \ {id}
      /\ \A i \in DOMAIN catalog' : catalog'[i] = catalog[i]
  BY <1>1, RowDropped
<1>3. \A i \in DOMAIN catalog' : catalog'[i].kind \in Keyed => InLedger(i)
  BY <1>2 DEF CatalogInv, LedgerFits
<1>4. LedgerGrows /\ LedgerFits' /\ TrailInOrder'  BY <1>1, <1>2, <1>3, LedgerStays
<1>5. KeysStayFree(Callers)  BY <1>2, KeysStayFreeWithout
<1>6. call' \in [Callers -> CallTypes] /\ CallsFit' /\ OneInserts'  BY <1>1, <1>2, <1>4, <1>5, CallsStay
<1>7. calls' \in Nat /\ ledger' \in Seq(LedgerEntry) /\ used' \in SUBSET Ids
  BY <1>1 DEF CatalogInv, CatalogTypeOK
<1> QED  BY <1>2, <1>4, <1>6, <1>7, CatalogParts
LEMMA CatalogStart == CatalogInit => CatalogInv
<1> SUFFICES ASSUME CatalogInit PROVE CatalogInv  OBVIOUS
<1>1. catalog = << >> /\ used = {} /\ ledger = << >> /\ calls = 0 /\ \A c \in Callers : call[c] = NoCall
  BY DEF CatalogInit
<1>2. DOMAIN catalog = {} /\ DOMAIN ledger = {}  BY <1>1
<1>3. CatalogTypeOK
  <2>1. catalog \in [{} -> CatalogRow] /\ {} \in SUBSET used  BY <1>1
  <2>2. catalog \in UNION {[D -> CatalogRow] : D \in SUBSET used}  BY <2>1
  <2>3. ledger \in Seq(LedgerEntry) /\ calls \in Nat  BY <1>1
  <2>4. call \in [Callers -> {NoCall}]  BY DEF CatalogInit
  <2> QED  BY <1>1, <2>2, <2>3, <2>4 DEF CatalogTypeOK
<1>4. OneInserts  BY <1>1 DEF OneInserts, NoCall
<1>5. LedgerFits /\ KeysUnique /\ ResolvedIsStamped /\ TrailInOrder
  BY <1>2 DEF LedgerFits, KeysUnique, ResolvedIsStamped, TrailInOrder
<1> QED  BY <1>1, <1>3, <1>4, <1>5 DEF CatalogInv

LEMMA PatchedStep ==
    ASSUME CatalogInv, NEW c \in Callers, NEW id \in Ids
    PROVE  /\ RetryLog(c, id) => CatalogInv'
           /\ \A body \in Bodies({"on", "off"}) : PatchKeyed(c, id, body) => CatalogInv'
           /\ \A body \in Bodies({"open", "resolved"}) : PatchTicket(c, id, body) => CatalogInv'
<1>1. ASSUME RetryLog(c, id) PROVE CatalogInv'
  <2>1. PICK body : body = [status |-> "received", scope |-> Left, clear |-> FALSE]  OBVIOUS
  <2>2. body \in BodyType  BY <2>1 DEF BodyType, Bodies
  <2>3. id \in DOMAIN catalog /\ Patch(c, id, body)  BY <1>1, <2>1 DEF RetryLog
  <2> QED  BY <2>2, <2>3, PatchStep
<1>2. ASSUME NEW body \in Bodies({"on", "off"}), PatchKeyed(c, id, body) PROVE CatalogInv'
  <2>1. body \in BodyType  BY DEF BodyType, Bodies
  <2> QED  BY <1>2, <2>1, PatchStep DEF PatchKeyed
<1>3. ASSUME NEW body \in Bodies({"open", "resolved"}), PatchTicket(c, id, body) PROVE CatalogInv'
  <2>1. body \in BodyType  BY DEF BodyType, Bodies
  <2> QED  BY <1>3, <2>1, PatchStep DEF PatchTicket
<1> QED  BY <1>1, <1>2, <1>3

LEMMA CatalogStep == CatalogInv /\ [CatalogNext]_catalogVars => CatalogInv'
<1> SUFFICES ASSUME CatalogInv, [CatalogNext]_catalogVars PROVE CatalogInv'  OBVIOUS
<1>1. CASE UNCHANGED catalogVars
  <2>1. UNCHANGED <<catalog, used, ledger, call, calls>>  BY <1>1 DEF catalogVars
  <2>2. RowsGoOn  BY <2>1 DEF RowsGoOn, RowGoesOn
  <2>3. \A i \in DOMAIN catalog' : catalog'[i].kind \in Keyed => InLedger(i)
    BY <2>1 DEF CatalogInv, LedgerFits
  <2>4. LedgerGrows /\ LedgerFits' /\ TrailInOrder'  BY <2>1, <2>2, <2>3, LedgerStays
  <2>5. KeysStayFree(Callers)  BY <2>1, <2>2, KeysStayFreeWithout
  <2>6. call' \in [Callers -> CallTypes] /\ CallsFit' /\ OneInserts'
    BY <2>1, <2>2, <2>4, <2>5, CallsStay
  <2>7. /\ calls' \in Nat /\ ledger' \in Seq(LedgerEntry) /\ used' \in SUBSET Ids
        /\ catalog' \in UNION {[D -> CatalogRow] : D \in SUBSET used'}
    BY <2>1 DEF CatalogInv, CatalogTypeOK
  <2>8. KeysUnique' /\ ResolvedIsStamped'  BY <2>1 DEF CatalogInv, KeysUnique, ResolvedIsStamped
  <2> QED  BY <2>4, <2>6, <2>7, <2>8, CatalogParts
<1>2. ASSUME NEW c \in Callers, CallDies(c) PROVE CatalogInv'
  <2>1. EndCall(c) /\ UNCHANGED <<catalog, used, ledger, calls>>  BY <1>2 DEF CallDies
  <2>2. calls' \in Nat  BY <2>1 DEF CatalogInv, CatalogTypeOK
  <2> QED  BY <2>1, <2>2, EndedCall
<1>3. ASSUME NEW c \in Callers,
             LookUpKey(c) \/ FlushInsert(c) \/ ReadRow(c) \/ CommitUpdate(c) \/ CommitDelete(c)
      PROVE  CatalogInv'
  BY <1>3, LookUpKeyStep, FlushInsertStep, ReadRowStep, CommitUpdateStep, CommitDeleteStep
<1>4. ASSUME NEW c \in Callers, NEW id \in Ids, CommitInsert(c, id) \/ DeleteKeyed(c, id) \/ RetryLog(c, id)
      PROVE  CatalogInv'
  BY <1>4, CommitInsertStep, DeleteKeyedStep, PatchedStep
<1>5. ASSUME NEW c \in Callers, NEW kind \in Keyed, NEW label \in Labels, NEW scope, CreateKeyed(c, kind, label, scope)
      PROVE  CatalogInv'
  BY <1>5, CreateKeyedStep
<1>6. ASSUME NEW c \in Callers, NEW id \in Ids, NEW body \in Bodies({"on", "off"}), PatchKeyed(c, id, body)
      PROVE  CatalogInv'
  BY <1>6, PatchedStep
<1>7. ASSUME NEW c \in Callers, NEW id \in Ids, NEW body \in Bodies({"open", "resolved"}), PatchTicket(c, id, body)
      PROVE  CatalogInv'
  BY <1>7, PatchedStep
<1>8. ASSUME NEW id \in Ids, OpenTicket(id) \/ DropTicket(id) PROVE CatalogInv'
  BY <1>8, OpenTicketStep, DropTicketStep
<1>9. ASSUME NEW id \in Ids, NEW status \in {"failed", "received"}, LogWebhook(id, status) PROVE CatalogInv'
  BY <1>9, LogWebhookStep
<1> QED  BY <1>1, <1>2, <1>3, <1>4, <1>5, <1>6, <1>7, <1>8, <1>9, Zenon DEF CatalogNext

\* For any number of calls, ids and keys: what a call knows of the row it has read
\* stays true of it, and a key that is inserted is nobody else's
\* (FeatureFlagRepository, CouponRepository, SupportTicketRepository).
THEOREM CatalogInvariant == CatalogSpec => []CatalogInv
BY CatalogStart, CatalogStep, PTL DEF CatalogSpec

\* Rows stay as they are but for an update.
LEMMA OnlyUpdatesChange ==
    ASSUME CatalogInv, CatalogNext, NEW id \in DOMAIN catalog, id \in DOMAIN catalog', catalog'[id] # catalog[id]
    PROVE  \E c \in Callers : CommitUpdate(c)
<1> SUFFICES ASSUME \A c \in Callers : ~CommitUpdate(c) PROVE catalog'[id] = catalog[id]  OBVIOUS
<1>1. id \in used  BY RowsTyped DEF CatalogInv
<1>2. ASSUME NEW c, NEW q, Ask(c, q) PROVE catalog' = catalog  BY <1>2 DEF Ask
<1>3. ASSUME NEW c, LookUpKey(c) \/ FlushInsert(c) \/ ReadRow(c) \/ CallDies(c) PROVE catalog' = catalog
  BY <1>3 DEF LookUpKey, FlushInsert, ReadRow, CallDies
<1>4. ASSUME NEW c, CommitDelete(c) PROVE catalog'[id] = catalog[id]  BY <1>4 DEF CommitDelete
<1>5. ASSUME NEW x, NEW row, x \notin used, catalog' = Put(x, row) PROVE catalog'[id] = catalog[id]
  BY <1>1, <1>5 DEF Put
<1>6. ASSUME NEW c, NEW x, CommitInsert(c, x) PROVE catalog'[id] = catalog[id]
  <2>1. PICK row : row = call[c].row  OBVIOUS
  <2> QED  BY <1>5, <1>6, <2>1 DEF CommitInsert
<1>7. ASSUME NEW x, OpenTicket(x) PROVE catalog'[id] = catalog[id]  BY <1>5, <1>7 DEF OpenTicket
<1>8. ASSUME NEW x, NEW status, LogWebhook(x, status) PROVE catalog'[id] = catalog[id]
  BY <1>5, <1>8 DEF LogWebhook
<1>9. ASSUME NEW x, DropTicket(x) PROVE catalog'[id] = catalog[id]  BY <1>9 DEF DropTicket
<1>10. ASSUME NEW c, NEW x, NEW body, Patch(c, x, body) PROVE catalog' = catalog
  BY <1>2, <1>10 DEF Patch
<1>11. ASSUME NEW c, NEW x, DeleteKeyed(c, x) \/ RetryLog(c, x) PROVE catalog' = catalog
  BY <1>2, <1>10, <1>11 DEF DeleteKeyed, RetryLog
<1>12. ASSUME NEW c, NEW x, NEW body, PatchKeyed(c, x, body) \/ PatchTicket(c, x, body) PROVE catalog' = catalog
  BY <1>10, <1>12 DEF PatchKeyed, PatchTicket
<1>13. ASSUME NEW c, NEW kind, NEW label, NEW scope, CreateKeyed(c, kind, label, scope) PROVE catalog' = catalog
  BY <1>2, <1>13 DEF CreateKeyed
<1> QED  BY <1>3, <1>4, <1>6, <1>7, <1>8, <1>9, <1>11, <1>12, <1>13, Zenon DEF CatalogNext

\* What the columns that a step changes come from.
Asked(id, f) ==
    \E c \in Callers :
        /\ call[c].at = "commit" /\ call[c].op = "updated" /\ call[c].id = id
        /\ LET body == call[c].body
           IN  CASE f = "status" -> catalog'[id].status = body.status
                 [] f = "scope" -> body.clear \/ body.scope = "some"
                 [] f = "stamped" -> body.status = "resolved" /\ catalog'[id].stamped
                 [] OTHER -> FALSE

LEMMA ChangedColumn ==
    ASSUME CatalogInv, CatalogNext, NEW id \in DOMAIN catalog, id \in DOMAIN catalog',
           NEW f \in Columns(catalog[id], catalog'[id])
    PROVE  Asked(id, f)
<1>1. catalog[id] \in CatalogRow /\ id \in used  BY RowsTyped DEF CatalogInv
<1>2. f \in Fields /\ catalog[id][f] # catalog'[id][f]  BY <1>1, RowFields DEF Columns
<1>3. PICK c \in Callers : CommitUpdate(c)  BY <1>2, OnlyUpdatesChange
<1>4. PICK m : m = Merged(catalog[call[c].id], call[c].row, Edited(call[c].body, call[c].row))  OBVIOUS
<1>5. catalog' # catalog  BY <1>2
<1>6. catalog' = Put(call[c].id, m) /\ call[c].id \in DOMAIN catalog /\ call[c].at = "commit" /\ call[c].op = "updated"
  BY <1>3, <1>4, <1>5 DEF CommitUpdate
<1>7. id = call[c].id /\ catalog'[id] = m  BY <1>2, <1>6 DEF Put
<1>8. PICK row, body : row = catalog[id] /\ body = call[c].body  OBVIOUS
<1>9. /\ m.kind = row.kind /\ m.label = row.label
      /\ m.status # row.status => m.status = body.status
      /\ m.scope # row.scope => body.clear \/ body.scope = "some"
      /\ m.stamped # row.stamped => body.status = "resolved" /\ m.stamped
  BY <1>3, <1>4, <1>6, <1>7, <1>8, UpdatedRow DEF IsUpdateOf
<1>10. CASE f = "status"  BY <1>2, <1>6, <1>7, <1>8, <1>9, <1>10 DEF Asked
<1>11. CASE f = "scope"  BY <1>2, <1>6, <1>7, <1>8, <1>9, <1>11 DEF Asked
<1>12. CASE f = "stamped"  BY <1>2, <1>6, <1>7, <1>8, <1>9, <1>12 DEF Asked
<1>13. f # "kind" /\ f # "label"  BY <1>2, <1>7, <1>8, <1>9
<1> QED  BY <1>2, <1>10, <1>11, <1>12, <1>13 DEF Fields

\* For any number of them: keys are unique, resolved tickets have their time, the
\* trail of a flag or coupon is in order, and a column changes only because a call
\* asked for it (admin_feature_flags.py, admin_coupons.py, admin_support.py).
THEOREM CatalogAlwaysHolds == CatalogSpec => CatalogHolds
<1>1. CatalogInv => KeysUnique /\ ResolvedIsStamped /\ TrailInOrder  BY DEF CatalogInv
<1>2. CatalogInv /\ [CatalogNext]_catalogVars =>
        [\A id \in DOMAIN catalog \cap DOMAIN catalog' : \A f \in Columns(catalog[id], catalog'[id]) :
          \E c \in Callers :
              /\ call[c].at = "commit" /\ call[c].op = "updated" /\ call[c].id = id
              /\ LET body == call[c].body
                 IN  CASE f = "status" -> catalog'[id].status = body.status
                       [] f = "scope" -> body.clear \/ body.scope = "some"
                       [] f = "stamped" -> body.status = "resolved" /\ catalog'[id].stamped
                       [] OTHER -> FALSE]_catalogVars
  <2>1. CatalogInv /\ CatalogNext =>
          \A id \in DOMAIN catalog \cap DOMAIN catalog' : \A f \in Columns(catalog[id], catalog'[id]) : Asked(id, f)
    BY ChangedColumn
  <2> QED  BY <2>1, Zenon DEF Asked
<1> QED  BY <1>1, <1>2, CatalogInvariant, PTL DEF CatalogSpec, CatalogHolds, ChangesAreAskedFor
================================================================================
