------------------------------- MODULE BotQuota -------------------------------
(***************************************************************************)
(* The plan's limit on bots, for one owner: requests that create or clone  *)
(* a bot take a transaction-scoped advisory lock, count the bots, read the *)
(* plan, and insert; meanwhile bots are deleted and the plan changes.      *)
(*                                                                         *)
(* The lock belongs to the transaction, so whatever commits first ends it. *)
(***************************************************************************)
EXTENDS Naturals, FiniteSets

CONSTANTS
  Requests,        \* requests that create or clone a bot, each its own bot
  Plans,           \* plan slugs
  FreePlan,        \* the plan a missing subscription is provisioned with
  BotsMax,         \* bots_max of the plans that have one
  UnlimitedPlans,  \* the plans whose bots_max is None
  NoPlan,          \* the owner has no subscription row
  FirstPlans,      \* what the owner may start with: plans, or NoPlan
  NoRequest        \* nobody holds the lock

ASSUME QuotaAssumption ==
  /\ IsFiniteSet(Requests)
  /\ FreePlan \in Plans
  /\ UnlimitedPlans \subseteq Plans
  /\ BotsMax \in [Plans -> Nat]
  /\ NoPlan \notin Plans
  /\ FirstPlans \subseteq Plans \cup {NoPlan}
  /\ NoRequest \notin Requests

VARIABLES
  bots,            \* the owner's bots, archived ones included
  plan,            \* subscriptions.plan_slug, NoPlan without a row
  lock,            \* the request whose transaction holds the advisory lock
  pc,              \* where each request stands
  seen,            \* how many bots each request counted
  limits,          \* the plan each request read its limits from
  granted,         \* history: the plans the owner ever had
  provisioner      \* history: the request that provisioned the row, and so
                   \* lost its lock before its insert

vars == <<bots, plan, lock, pc, seen, limits, granted, provisioner>>

Stages == {"new", "locked", "counted", "unprovisioned", "read", "allowed", "linking", "done"}

TypeOK ==
  /\ bots \in SUBSET Requests
  /\ plan \in Plans \cup {NoPlan}
  /\ lock \in Requests \cup {NoRequest}
  /\ pc \in [Requests -> Stages]
  /\ seen \in [Requests -> Nat]
  /\ limits \in [Requests -> Plans]
  /\ granted \in SUBSET Plans
  /\ provisioner \in Requests \cup {NoRequest}

Init ==
  /\ bots = {}
  /\ plan \in FirstPlans
  /\ lock = NoRequest
  /\ pc = [r \in Requests |-> "new"]
  /\ seen = [r \in Requests |-> 0]
  /\ limits = [r \in Requests |-> FreePlan]
  /\ granted = {plan} \ {NoPlan}
  /\ provisioner = NoRequest

Step(r, from, to) == pc[r] = from /\ pc' = [pc EXCEPT ![r] = to]

\* The end of r's transaction, by commit or rollback.
EndTransaction(r) == lock' = IF lock = r THEN NoRequest ELSE lock

Allows(count, p) == p \in UnlimitedPlans \/ count < BotsMax[p]

\* Mutant of Acquire: the lock is not taken.
AcquireUnlocked(r) ==
  /\ Step(r, "new", "locked")
  /\ UNCHANGED <<bots, plan, lock, seen, limits, granted, provisioner>>

\* pg_advisory_xact_lock waits until no other transaction of the owner has it.
Acquire(r) ==
  /\ lock = NoRequest
  /\ Step(r, "new", "locked")
  /\ lock' = r
  /\ UNCHANGED <<bots, plan, seen, limits, granted, provisioner>>

CountBots(r) ==
  /\ Step(r, "locked", "counted")
  /\ seen' = [seen EXCEPT ![r] = Cardinality(bots)]
  /\ UNCHANGED <<bots, plan, lock, limits, granted, provisioner>>

ReadPlan(r) ==
  /\ plan # NoPlan
  /\ Step(r, "counted", "read")
  /\ limits' = [limits EXCEPT ![r] = plan]
  /\ UNCHANGED <<bots, plan, lock, seen, granted, provisioner>>

FindsNoPlan(r) ==
  /\ plan = NoPlan
  /\ Step(r, "counted", "unprovisioned")
  /\ UNCHANGED <<bots, plan, lock, seen, limits, granted, provisioner>>

\* The free row is added and committed, which ends the transaction and with it
\* the lock; the request goes on to the limit check.
Provision(r) ==
  /\ plan = NoPlan
  /\ Step(r, "unprovisioned", "read")
  /\ plan' = FreePlan
  /\ granted' = granted \cup {FreePlan}
  /\ limits' = [limits EXCEPT ![r] = FreePlan]
  /\ provisioner' = r
  /\ EndTransaction(r)
  /\ UNCHANGED <<bots, seen>>

\* Somebody else's row is there already: the unique constraint on the user
\* fails the commit and the request.
ProvisionCollides(r) ==
  /\ plan # NoPlan
  /\ Step(r, "unprovisioned", "done")
  /\ EndTransaction(r)
  /\ UNCHANGED <<bots, plan, seen, limits, granted, provisioner>>

\* Mutant of Permits: one bot too many.
PermitsOneMore(r) == Allows(seen[r], limits[r]) \/ seen[r] = BotsMax[limits[r]]

Permits(r) == Allows(seen[r], limits[r])

Allow(r) ==
  /\ Permits(r)
  /\ Step(r, "read", "allowed")
  /\ UNCHANGED <<bots, plan, lock, seen, limits, granted, provisioner>>

\* Mutant of Refuse: the refusal keeps the transaction open.
RefuseKeepsLock(r) ==
  /\ ~Permits(r)
  /\ Step(r, "read", "done")
  /\ UNCHANGED <<bots, plan, lock, seen, limits, granted, provisioner>>

Refuse(r) ==
  /\ ~Permits(r)
  /\ Step(r, "read", "done")
  /\ EndTransaction(r)
  /\ UNCHANGED <<bots, plan, seen, limits, granted, provisioner>>

\* The row and its seeded templates are committed.  A bot with a Telegram
\* channel is then connected, outside the lock.
Insert(r) ==
  /\ \E to \in {"done", "linking"} : Step(r, "allowed", to)
  /\ bots' = bots \cup {r}
  /\ EndTransaction(r)
  /\ UNCHANGED <<plan, seen, limits, granted, provisioner>>

\* Telegram answers, or a database error is answered with the bot left in place.
Linked(r) ==
  /\ Step(r, "linking", "done")
  /\ UNCHANGED <<bots, plan, lock, seen, limits, granted, provisioner>>

\* Telegram refuses: the bot is deleted again, if it is still there.
LinkFails(r) ==
  /\ Step(r, "linking", "done")
  /\ bots' = bots \ {r}
  /\ UNCHANGED <<plan, lock, seen, limits, granted, provisioner>>

\* A validation error, a missing source bot, a database error or a dropped
\* connection: the transaction is rolled back.
Abort(r) ==
  /\ pc[r] \in {"locked", "counted", "unprovisioned", "read", "allowed"}
  /\ pc' = [pc EXCEPT ![r] = "done"]
  /\ EndTransaction(r)
  /\ UNCHANGED <<bots, plan, seen, limits, granted, provisioner>>

DeleteBot(r) ==
  /\ r \in bots
  /\ bots' = bots \ {r}
  /\ UNCHANGED <<plan, lock, pc, seen, limits, granted, provisioner>>

\* A Stripe event, an administrator, or another page that provisions the free
\* row.  The row is never removed while the owner exists.
ChangePlan(p) ==
  /\ plan' = p
  /\ granted' = granted \cup {p}
  /\ UNCHANGED <<bots, lock, pc, seen, limits, provisioner>>

CreateBot(r) ==
  \/ Acquire(r) \/ CountBots(r) \/ ReadPlan(r) \/ FindsNoPlan(r) \/ Provision(r)
  \/ ProvisionCollides(r) \/ Allow(r) \/ Refuse(r) \/ Insert(r) \/ Linked(r) \/ LinkFails(r)

Next ==
  \/ \E r \in Requests : CreateBot(r) \/ Abort(r) \/ DeleteBot(r)
  \/ \E p \in Plans : ChangePlan(p)

Spec == Init /\ [][Next]_vars


-----------------------------------------------------------------------------
(* Properties *)

Within(n, p) == p \in UnlimitedPlans \/ n <= BotsMax[p]

\* The owner never has more bots than some plan the owner had allows: parallel
\* creations do not exceed bots_max.  (A downgrade leaves the bots in place.)
LimitHolds == bots # {} => \E p \in granted : Within(Cardinality(bots), p)

\* No request that kept its lock makes the owner exceed the limit.
QuotaKept == provisioner = NoRequest => LimitHolds

\* The row is provisioned once, so the limit is never exceeded by more than the
\* bot of the one request that lost its lock, whatever comes after it.
OneOverAtMost ==
  bots # {} => \E p \in granted : p \in UnlimitedPlans \/ Cardinality(bots) <= BotsMax[p] + 1

\* Every request is answered: none waits forever for a lock that a refused or
\* failed one left behind.
EveryRequestAnswered == \A r \in Requests : <>(pc[r] = "done")

\* The inductive strengthening.  Over: whether the provisioner may have inserted
\* unseen.  Everybody else counts and inserts under the lock.
LockedStages == {"locked", "counted", "unprovisioned", "read", "allowed"}
Over == IF provisioner # NoRequest /\ pc[provisioner] \notin {"read", "allowed"} THEN 1 ELSE 0

QuotaInv ==
  /\ plan # NoPlan => plan \in granted
  /\ provisioner # NoRequest =>
       plan # NoPlan /\ pc[provisioner] \in {"read", "allowed", "linking", "done"}
  /\ \A r \in Requests \ {provisioner} : pc[r] \in LockedStages => lock = r
  /\ \A r \in Requests : pc[r] \in {"read", "allowed"} => limits[r] \in granted
  /\ \A r \in Requests : pc[r] = "allowed" => Permits(r)
  /\ \A r \in Requests \ {provisioner} :
       pc[r] \in LockedStages \ {"locked"} => Cardinality(bots) <= seen[r] + Over
  /\ bots # {} =>
       \E p \in granted : p \in UnlimitedPlans \/ Cardinality(bots) <= BotsMax[p] + Over

=============================================================================
