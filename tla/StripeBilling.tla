---------------------------- MODULE StripeBilling ----------------------------
(***************************************************************************)
(* The subscription row of one user and the Stripe webhooks that keep it   *)
(* (app/services/billing_service.py, app/repositories/                     *)
(* subscription_repository.py).  Stripe holds subscriptions and sends an   *)
(* event for each change; it sends an event again until it is answered     *)
(* with success, and may send it once more after that.  A request handles  *)
(* one delivery: it looks the event up in Redis, reads the row, commits    *)
(* what it changed, records the event in Redis and answers.                *)
(***************************************************************************)
EXTENDS Naturals, Sequences, FiniteSets

CONSTANTS
    Subs,        \* the subscriptions Stripe may open for the user
    NoSub,       \* the row holds no subscription id
    PaidPlans,   \* the plans sold through Stripe
    Free,        \* the plan without a subscription
    Requests,    \* the webhook requests the backend serves at one time
    Redis,       \* TRUE iff a Redis client is configured
    Delivery,    \* "ordered": oldest first, one at a time; "serial": any
                 \* order, one at a time; "any": any order, in parallel
    MaxEvents,   \* bound: the events Stripe creates
    MaxFails,    \* bound: the deliveries that end without an answer
    MaxOverrides \* bound: the plan overrides by an administrator

ASSUME SubsAssumption == NoSub \notin Subs
ASSUME PlansAssumption == PaidPlans # {} /\ Free \notin PaidPlans
ASSUME ModeAssumption == Redis \in BOOLEAN /\ Delivery \in {"ordered", "serial", "any"}
ASSUME BoundsAssumption == {MaxEvents, MaxFails, MaxOverrides} \subseteq Nat

VARIABLES
    stripe,      \* Stripe's own record of each subscription
    session,     \* the plan of each open checkout session, Free if none
    events,      \* the events Stripe has created; an event's id is its index
    settled,     \* the events Stripe got a successful answer for
    recorded,    \* the keys stripe:event:{id} in Redis
    row,         \* the committed subscription row
    request,     \* what each webhook request is doing
    overridden,  \* the row holds an administrator's plan: no event that was
                 \* read after it has set the plan since
    overrides,
    fails

vars == <<stripe, session, events, settled, recorded, row, request,
          overridden, overrides, fails>>
stripeVars == <<stripe, session, events>>
deliveryVars == <<settled, recorded, request, fails>>

Plans == PaidPlans \cup {Free}
Kinds == {"checkout", "updated", "deleted", "paid", "failed"}
Event == [kind : Kinds, sub : Subs, plan : Plans,
          status : {"active", "past_due"}, period : Nat, full : BOOLEAN]
Row == [plan : Plans, status : {"active", "past_due"},
        sub : Subs \cup {NoSub}, customer : BOOLEAN, period : Nat]
FreeRow == [plan |-> Free, status |-> "active", sub |-> NoSub,
            customer |-> FALSE, period |-> 0]
Idle == [at |-> "idle", event |-> 0, read |-> FreeRow]

Init ==
    /\ stripe = [s \in Subs |-> [state |-> "none", plan |-> Free, period |-> 0]]
    /\ session = [s \in Subs |-> Free]
    /\ events = << >>
    /\ settled = {}
    /\ recorded = {}
    /\ row = FreeRow
    /\ request = [r \in Requests |-> Idle]
    /\ overridden = FALSE
    /\ overrides = 0
    /\ fails = 0

-----------------------------------------------------------------------------
\* Stripe's side.  An event carries the subscription as it was when the event
\* was created.
Snapshot(kind, s, x, full) ==
    [kind |-> kind, sub |-> s, plan |-> x.plan,
     status |-> IF x.state = "past_due" THEN "past_due" ELSE "active",
     period |-> x.period, full |-> full]

Changes(s, x, kinds, full) ==
    /\ Len(events) + Len(kinds) <= MaxEvents
    /\ stripe' = [stripe EXCEPT ![s] = x]
    /\ events' = events \o [i \in DOMAIN kinds |-> Snapshot(kinds[i], s, x, full)]

\* The user asks for a plan the row does not already grant.
OpenCheckout(s, p) ==
    /\ stripe[s].state = "none" /\ session[s] = Free
    /\ ~ (row.plan = p /\ row.status = "active")
    /\ session' = [session EXCEPT ![s] = p]
    /\ UNCHANGED <<stripe, events, row, overridden, overrides>>
    /\ UNCHANGED deliveryVars

\* The user pays.  A session paid asynchronously may complete without the ids
\* of the customer and the subscription.
CompleteCheckout(s, full) ==
    /\ stripe[s].state = "none" /\ session[s] # Free
    /\ Changes(s, [state |-> "active", plan |-> session[s], period |-> 1],
               <<"updated", "paid", "checkout">>, full)
    /\ UNCHANGED <<session, row, overridden, overrides>>
    /\ UNCHANGED deliveryVars

\* The portal is open to a user whose row names a customer.
ChangePlan(s, p) ==
    /\ row.customer
    /\ stripe[s].state \in {"active", "past_due"} /\ stripe[s].plan # p
    /\ Changes(s, [stripe[s] EXCEPT !.plan = p], <<"updated">>, TRUE)
    /\ UNCHANGED <<session, row, overridden, overrides>>
    /\ UNCHANGED deliveryVars

RenewalFails(s) ==
    /\ stripe[s].state = "active"
    /\ Changes(s, [state |-> "past_due", plan |-> stripe[s].plan,
                   period |-> stripe[s].period + 1],
               <<"failed", "updated">>, TRUE)
    /\ UNCHANGED <<session, row, overridden, overrides>>
    /\ UNCHANGED deliveryVars

PaymentRecovers(s) ==
    /\ stripe[s].state = "past_due"
    /\ Changes(s, [stripe[s] EXCEPT !.state = "active"], <<"updated", "paid">>, TRUE)
    /\ UNCHANGED <<session, row, overridden, overrides>>
    /\ UNCHANGED deliveryVars

EndSubscription(s) ==
    /\ stripe[s].state \in {"active", "past_due"}
    /\ Changes(s, [stripe[s] EXCEPT !.state = "ended"], <<"deleted">>, TRUE)
    /\ UNCHANGED <<session, row, overridden, overrides>>
    /\ UNCHANGED deliveryVars

-----------------------------------------------------------------------------
\* The backend's side.  What each handler makes of the row r it has read.
\* Mutant: an event that omits an id clears it.
UpsertAsGiven(e, r) ==
    [plan     |-> e.plan,
     status   |-> IF e.kind = "checkout" THEN "active" ELSE e.status,
     sub      |-> IF e.kind = "updated" \/ e.full THEN e.sub ELSE NoSub,
     customer |-> e.kind = "updated" \/ e.full,
     period   |-> IF e.kind = "checkout" THEN 0 ELSE e.period]

Upsert(e, r) ==
    [plan     |-> e.plan,
     status   |-> IF e.kind = "checkout" THEN "active" ELSE e.status,
     sub      |-> IF e.kind = "updated" \/ e.full THEN e.sub ELSE r.sub,
     customer |-> e.kind = "updated" \/ e.full \/ r.customer,
     period   |-> IF e.kind = "checkout" THEN 0 ELSE e.period]

DowngradeToFree(r) ==
    [plan |-> Free, status |-> "active", sub |-> NoSub, customer |-> r.customer, period |-> 0]

Result(e, r) ==
    CASE e.kind \in {"checkout", "updated"} -> Upsert(e, r)
      [] e.kind = "deleted" -> DowngradeToFree(r)
      [] e.kind = "paid"    -> [r EXCEPT !.status = "active"]
      [] e.kind = "failed"  -> [r EXCEPT !.status = "past_due"]

\* An upsert finds the row by the user, the others by the subscription id;
\* invoice.paid touches only a past_due row.
Applies(e, r) ==
    \/ e.kind \in {"checkout", "updated"}
    \/ r.sub = e.sub /\ (e.kind = "paid" => r.status = "past_due")

\* The session writes the columns whose value differs from what was read.
Flush(current, read, new) ==
    [c \in DOMAIN current |-> IF new[c] # read[c] THEN new[c] ELSE current[c]]

Unsettled == DOMAIN events \ settled
Busy == {r \in Requests : request[r].at # "idle"}

\* Stripe sends event e: one not yet settled, or a settled one once more.
Sends(e) ==
    CASE Delivery = "ordered" -> Busy = {} /\ \A f \in Unsettled : f < e => e \in settled
      [] Delivery = "serial"  -> Busy = {}
      [] Delivery = "any"     -> TRUE

Goto(r, at) == request' = [request EXCEPT ![r].at = at]

\* Mutant: the event is not looked up.
ReceiveUnchecked(r, e) ==
    /\ request[r].at = "idle" /\ Sends(e)
    /\ request' = [request EXCEPT ![r] = [at |-> "read", event |-> e, read |-> FreeRow]]
    /\ UNCHANGED <<settled, recorded, fails, row, overridden, overrides>>
    /\ UNCHANGED stripeVars

\* Mutant: a duplicate is answered with an error.
ReceiveRefusesDuplicate(r, e) ==
    /\ request[r].at = "idle" /\ Sends(e) /\ e \notin recorded
    /\ request' = [request EXCEPT ![r] = [at |-> "read", event |-> e, read |-> FreeRow]]
    /\ UNCHANGED <<settled, recorded, fails, row, overridden, overrides>>
    /\ UNCHANGED stripeVars

\* A delivery arrives and its event is looked up in Redis.
Receive(r, e) ==
    /\ request[r].at = "idle" /\ Sends(e)
    /\ request' = [request EXCEPT ![r] =
           [at |-> IF Redis /\ e \in recorded THEN "answer" ELSE "read",
            event |-> e, read |-> FreeRow]]
    /\ UNCHANGED <<settled, recorded, fails, row, overridden, overrides>>
    /\ UNCHANGED stripeVars

\* The handler reads the row and decides whether the event concerns it.
Read(r) ==
    /\ request[r].at = "read"
    /\ request' = [request EXCEPT ![r].read = row,
           ![r].at = IF Applies(events[request[r].event], row) THEN "commit" ELSE "record"]
    /\ UNCHANGED <<settled, recorded, fails, row, overridden, overrides>>
    /\ UNCHANGED stripeVars

Commit(r) ==
    LET e    == events[request[r].event]
        read == request[r].read
    IN  /\ request[r].at = "commit"
        /\ row' = Flush(row, read, Result(e, read))
        /\ overridden' = (overridden /\ (e.kind \in {"paid", "failed"} \/ row # read))
        /\ Goto(r, "record")
        /\ UNCHANGED <<settled, recorded, fails, overrides>>
        /\ UNCHANGED stripeVars

Record(r) ==
    /\ request[r].at = "record"
    /\ recorded' = IF Redis THEN recorded \cup {request[r].event} ELSE recorded
    /\ Goto(r, "answer")
    /\ UNCHANGED <<settled, fails, row, overridden, overrides>>
    /\ UNCHANGED stripeVars

Answer(r) ==
    /\ request[r].at = "answer"
    /\ settled' = settled \cup {request[r].event}
    /\ request' = [request EXCEPT ![r] = Idle]
    /\ UNCHANGED <<recorded, fails, row, overridden, overrides>>
    /\ UNCHANGED stripeVars

\* The request ends without a successful answer: the process dies, the
\* database or Redis fails, or the answer is lost.
Fail(r) ==
    /\ request[r].at # "idle" /\ fails < MaxFails
    /\ request' = [request EXCEPT ![r] = Idle]
    /\ fails' = fails + 1
    /\ UNCHANGED <<settled, recorded, row, overridden, overrides>>
    /\ UNCHANGED stripeVars

\* An administrator sets the plan; the Stripe fields stay.
OverridePlan(p) ==
    /\ overrides < MaxOverrides
    /\ row' = [row EXCEPT !.plan = p, !.status = "active"]
    /\ overridden' = TRUE
    /\ overrides' = overrides + 1
    /\ UNCHANGED stripeVars /\ UNCHANGED deliveryVars

Handle(r) == Read(r) \/ Commit(r) \/ Record(r) \/ Answer(r)

Next ==
    \/ \E s \in Subs, p \in PaidPlans : OpenCheckout(s, p) \/ ChangePlan(s, p)
    \/ \E s \in Subs, full \in BOOLEAN : CompleteCheckout(s, full)
    \/ \E s \in Subs : RenewalFails(s) \/ PaymentRecovers(s) \/ EndSubscription(s)
    \/ \E r \in Requests : Handle(r) \/ Fail(r)
    \/ \E r \in Requests, e \in DOMAIN events : Receive(r, e)
    \/ \E p \in Plans : OverridePlan(p)

\* A request that has begun runs on; Stripe keeps sending an unsettled event,
\* and the backend always has a request free for it again.
Fairness ==
    /\ \A r \in Requests : WF_vars(Handle(r))
    /\ \A e \in 1..MaxEvents :
           SF_vars(e \in Unsettled /\ \E r \in Requests : Receive(r, e))

Spec == Init /\ [][Next]_vars /\ Fairness

-----------------------------------------------------------------------------
TypeOK ==
    /\ stripe \in [Subs -> [state : {"none", "active", "past_due", "ended"},
                            plan : Plans, period : Nat]]
    /\ session \in [Subs -> Plans]
    /\ events \in Seq(Event)
    /\ settled \subseteq DOMAIN events
    /\ recorded \subseteq DOMAIN events
    /\ row \in Row
    /\ request \in [Requests -> [at : {"idle", "read", "commit", "record", "answer"},
                                 event : Nat, read : Row]]
    /\ \A r \in Requests : request[r].at # "idle" => request[r].event \in DOMAIN events
    /\ overridden \in BOOLEAN
    /\ overrides \in 0..MaxOverrides
    /\ fails \in 0..MaxFails

Quiet == Unsettled = {} /\ Busy = {}
Live(s) == stripe[s].state \in {"active", "past_due"}

\* What get_plan_limits grants: the plan of the row, whatever its status and
\* its period.
Limits == row.plan

\* (a user with one subscription) Once every event is answered and unless an
\* administrator's plan stands, the row says what Stripe says: its plan, its
\* payment status and its subscription id, or the free plan when the
\* subscription has ended.
Mirrors ==
    Quiet /\ ~ overridden =>
        /\ \A s \in Subs : Live(s) =>
               row.plan = stripe[s].plan /\ row.status = stripe[s].state /\ row.sub = s
        /\ (\A s \in Subs : ~ Live(s)) => row.plan = Free /\ row.sub = NoSub

\* The comment in upsert_from_stripe: an event that omits the customer's id
\* never makes the row forget the customer.
CustomerKept == [][row.customer => row'.customer]_vars

\* An upsert or a cancellation is the only thing that makes the row change
\* the subscription it follows, and it is one of that subscription.
RowFollowsEvents ==
    [][row'.sub # row.sub =>
         \E r \in Requests :
            LET e == events[request[r].event]
            IN  /\ request[r].at = "commit"
                /\ \/ row'.sub = e.sub /\ e.kind \in {"updated", "checkout"}
                   \/ row'.sub = NoSub /\ e.kind = "deleted" /\ row.sub = e.sub]_vars

\* Every event Stripe creates is answered with success in the end.
EveryEventSettles ==
    \A e \in 1..MaxEvents : (e \in DOMAIN events) ~> (e \in settled)

\* get_plan_limits: the limits are those of the user's active subscription.
LimitsOfActiveSubscription ==
    Quiet /\ ~ overridden =>
        \A s \in Subs :
            stripe[s].state = "active" /\ (\A t \in Subs \ {s} : ~ Live(t))
                => Limits = stripe[s].plan

\* The inductive strengthening of RowFollowsEvents: deliveries that come one
\* at a time commit to the row they have read.
SerialInv ==
    Delivery # "any" =>
        /\ \A r, q \in Busy : r = q
        /\ \A r \in Requests :
               request[r].at = "commit" =>
                   /\ row.sub = request[r].read.sub
                   /\ events[request[r].event].kind = "deleted" =>
                          row.sub = events[request[r].event].sub

\* The inductive strengthening of Mirrors.  No subscription is alive before the first
\* event or after a deletion.
EndsAt(k) == k = 0 \/ events[k].kind = "deleted"

\* The row is what the first k events make of it; a plan that an administrator has set
\* stands in for theirs.
Follows(k) ==
    /\ row.sub = IF EndsAt(k) THEN NoSub ELSE events[k].sub
    /\ ~ overridden => row.plan = IF EndsAt(k) THEN Free ELSE events[k].plan
    /\ ~ overridden /\ ~ EndsAt(k) => row.status = events[k].status

\* What an event about one part of the subscription leaves to the event before it.
Continues(k) ==
    LET e == events[k]
        d == events[k - 1]
    IN  /\ k = 1 => e.kind = "updated"
        /\ k > 1 => d.kind # "deleted" /\ d.sub = e.sub
        /\ k > 1 /\ e.kind \in {"checkout", "paid", "failed"} => d.plan = e.plan
        /\ e.kind \in {"checkout", "paid"} => e.status = "active"
        /\ k > 1 /\ e.kind = "paid" => d.status = "active"
        /\ e.kind = "failed" => e.status = "past_due"

\* The last event says what Stripe says.
LastEventIsStripe(s) ==
    LET n == Len(events)
    IN  /\ n = 0 <=> stripe[s].state = "none"
        /\ n > 0 =>
             /\ events[n].sub = s /\ events[n].plan = stripe[s].plan
             /\ events[n].kind = "deleted" <=> stripe[s].state = "ended"
             /\ Live(s) => events[n].status = stripe[s].state

\* Where the one request at work stands when the first n events are settled.
Stands(r, n) ==
    LET q == request[r]
    IN  /\ q.at \in {"read", "commit"} => q.event = n + 1 /\ n + 1 \notin recorded
        /\ q.at = "commit" =>
             /\ Applies(events[n + 1], q.read)
             /\ q.read.sub = row.sub
             /\ overridden \/ q.read = row
        /\ q.at = "record" => q.event = n + 1 /\ Follows(n + 1)
        /\ q.at = "answer" => q.event \in 1..n \/ (q.event = n + 1 /\ n + 1 \in recorded)

\* The first n events are settled, and the row is as they or the next one left it.
Progress(n) ==
    /\ n <= Len(events) /\ settled = 1..n
    /\ settled \subseteq recorded /\ recorded \subseteq 1..(n + 1)
    /\ Follows(n) \/ (n < Len(events) /\ Follows(n + 1))
    /\ n + 1 \in recorded => Follows(n + 1)
    /\ \A r \in Requests : Stands(r, n)
    /\ \A r, q \in Busy : r = q

MirrorInv ==
    /\ \A k \in 1..Len(events) : Continues(k)
    /\ \A s \in Subs : LastEventIsStripe(s)
    /\ \E n \in Nat : Progress(n)
================================================================================
