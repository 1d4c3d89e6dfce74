------------------------- MODULE StripeBillingProofs -------------------------
(***************************************************************************)
(* Theorems of StripeBilling, for any number of subscriptions, webhook     *)
(* requests, events and failures: the type invariant, the customer id that *)
(* is never forgotten, when deliveries come one at a time the row that     *)
(* follows the events of its own subscription, and, with one subscription  *)
(* whose events come in order, the row that says what Stripe says.  And of *)
(* FinanceAdvice, for any benchmarks, cities, rates and terms: what the    *)
(* finance tools tell an entrepreneur fits together.                       *)
(***************************************************************************)
EXTENDS StripeBilling, FinanceAdvice, WellFoundedInduction, TLAPS

USE DEF Plans, Kinds

StripeStates == [state : {"none", "active", "past_due", "ended"}, plan : Plans, period : Nat]
Tasks == [at : {"idle", "read", "commit", "record", "answer"}, event : Nat, read : Row]

\* Appending a typed event to the log keeps the log and the old events.
LEMMA EventsAppend ==
    ASSUME NEW log \in Seq(Event), NEW more \in Seq(Event)
    PROVE  /\ log \o more \in Seq(Event)
           /\ DOMAIN log \subseteq DOMAIN (log \o more)
           /\ \A i \in DOMAIN log : (log \o more)[i] = log[i]
<1>1. log \o more \in Seq(Event)  OBVIOUS
<1>2. Len(log \o more) = Len(log) + Len(more) /\ Len(log) \in Nat /\ Len(more) \in Nat  OBVIOUS
<1>3. DOMAIN log = 1..Len(log) /\ DOMAIN (log \o more) = 1..Len(log \o more)  BY <1>1
<1>4. \A i \in 1..Len(log) : (log \o more)[i] = log[i]  OBVIOUS
<1> QED  BY <1>1, <1>2, <1>3, <1>4

\* A step on Stripe's side appends typed events and stores a typed state.
LEMMA ChangesTyped ==
    ASSUME TypeOK, NEW s \in Subs, NEW x \in StripeStates,
           NEW kinds \in Seq(Kinds), NEW full \in BOOLEAN, Changes(s, x, kinds, full)
    PROVE  /\ stripe' \in [Subs -> StripeStates]
           /\ events' \in Seq(Event)
           /\ DOMAIN events \subseteq DOMAIN events'
           /\ \A i \in DOMAIN events : events'[i] = events[i]
<1> DEFINE more == [i \in DOMAIN kinds |-> Snapshot(kinds[i], s, x, full)]
<1>1. \A k \in Kinds : Snapshot(k, s, x, full) \in Event  BY DEF Snapshot, Event, StripeStates
<1>2. DOMAIN kinds = 1..Len(kinds) /\ Len(kinds) \in Nat  OBVIOUS
<1>3. \A i \in DOMAIN kinds : kinds[i] \in Kinds  OBVIOUS
<1>4. more \in Seq(Event)  BY <1>1, <1>2, <1>3
<1>5. stripe \in [Subs -> StripeStates] /\ events \in Seq(Event)  BY DEF TypeOK, StripeStates
<1>6. stripe' = [stripe EXCEPT ![s] = x] /\ events' = events \o more  BY DEF Changes
<1> HIDE DEF more
<1> QED  BY <1>4, <1>5, <1>6, EventsAppend

\* What a handler makes of a typed row is a typed row.
LEMMA ResultTyped ==
    ASSUME NEW e \in Event, NEW r \in Row
    PROVE  Result(e, r) \in Row
<1>1. e.kind \in Kinds  BY DEF Event
<1>2. CASE e.kind \in {"checkout", "updated"}
  <2>1. Result(e, r) = Upsert(e, r)  BY <1>2 DEF Result
  <2> QED  BY <2>1, SubsAssumption DEF Upsert, Event, Row
<1>3. CASE e.kind = "deleted"
  <2>1. Result(e, r) = DowngradeToFree(r)  BY <1>3 DEF Result
  <2> QED  BY <2>1 DEF DowngradeToFree, Row
<1>4. CASE e.kind = "paid"
  <2>1. Result(e, r) = [r EXCEPT !.status = "active"]  BY <1>4 DEF Result
  <2> QED  BY <2>1 DEF Row
<1>5. CASE e.kind = "failed"
  <2>1. Result(e, r) = [r EXCEPT !.status = "past_due"]  BY <1>5 DEF Result
  <2> QED  BY <2>1 DEF Row
<1> QED  BY <1>1, <1>2, <1>3, <1>4, <1>5

\* Merging the changed columns into a typed row gives a typed row.
LEMMA FlushTyped ==
    ASSUME NEW current \in Row, NEW read \in Row, NEW new \in Row
    PROVE  /\ Flush(current, read, new) \in Row
           /\ \A c \in {"sub", "customer"} :
                 Flush(current, read, new)[c] =
                     IF new[c] # read[c] THEN new[c] ELSE current[c]
<1>1. DOMAIN current = {"plan", "status", "sub", "customer", "period"}  BY DEF Row
<1> DEFINE f == Flush(current, read, new)
<1>2. f = [c \in {"plan", "status", "sub", "customer", "period"} |->
              IF new[c] # read[c] THEN new[c] ELSE current[c]]
  BY <1>1 DEF Flush
<1>3. f = [plan |-> f.plan, status |-> f.status, sub |-> f.sub,
           customer |-> f.customer, period |-> f.period]
  BY <1>2
<1>4. /\ f.plan \in Plans /\ f.status \in {"active", "past_due"}
      /\ f.sub \in Subs \cup {NoSub} /\ f.customer \in BOOLEAN /\ f.period \in Nat
  BY <1>2 DEF Row
<1>5. \A c \in {"sub", "customer"} : f[c] = IF new[c] # read[c] THEN new[c] ELSE current[c]  BY <1>2
<1> HIDE DEF f
<1>6. f \in Row  BY <1>3, <1>4 DEF Row
<1> QED  BY <1>5, <1>6 DEF f

\* The event of a request at work is a typed one.
LEMMA EventAtHand ==
    ASSUME TypeOK, NEW r \in Requests, request[r].at # "idle"
    PROVE  /\ request[r].event \in DOMAIN events
           /\ events[request[r].event] \in Event
           /\ request[r].read \in Row
<1>1. request[r].event \in DOMAIN events /\ events \in Seq(Event)  BY DEF TypeOK
<1>2. request[r].read \in Row  BY DEF TypeOK
<1> QED  BY <1>1, <1>2

-----------------------------------------------------------------------------
\* A step on Stripe's side keeps the types.
LEMMA StripeStepTyped ==
    ASSUME TypeOK, session' \in [Subs -> Plans], stripe' \in [Subs -> StripeStates],
           events' \in Seq(Event), DOMAIN events \subseteq DOMAIN events',
           UNCHANGED <<settled, recorded, request, fails, row, overridden, overrides>>
    PROVE  TypeOK'
BY DEF TypeOK, StripeStates

\* A step of a request keeps the types when what it writes is typed.
LEMMA RequestStepTyped ==
    ASSUME TypeOK, NEW r \in Requests, NEW task \in Tasks,
           request' = [request EXCEPT ![r] = task],
           task.at # "idle" => task.event \in DOMAIN events,
           row' \in Row, settled' \subseteq DOMAIN events, recorded' \subseteq DOMAIN events,
           overridden' \in BOOLEAN, fails' \in 0..MaxFails,
           UNCHANGED <<overrides, stripe, session, events>>
    PROVE  TypeOK'
<1>1. request \in [Requests -> Tasks]  BY DEF TypeOK, Tasks
<1>2. request' \in [Requests -> Tasks]  BY <1>1
<1>3. \A q \in Requests : request'[q].at # "idle" => request'[q].event \in DOMAIN events
  BY <1>1 DEF TypeOK
<1> QED  BY <1>2, <1>3 DEF TypeOK, Tasks

\* The task of a request that moves on is the old one at another place.
LEMMA Moved ==
    ASSUME TypeOK, NEW r \in Requests, NEW at \in {"idle", "read", "commit", "record", "answer"}
    PROVE  /\ [request[r] EXCEPT !.at = at] \in Tasks
           /\ [request[r] EXCEPT !.at = at].event = request[r].event
           /\ [request[r] EXCEPT !.at = at].read = request[r].read
           /\ [request EXCEPT ![r].at = at] =
                 [request EXCEPT ![r] = [request[r] EXCEPT !.at = at]]
<1>1. request[r] \in Tasks  BY DEF TypeOK, Tasks
<1>2. [request[r] EXCEPT !.at = at] \in Tasks  BY <1>1 DEF Tasks
<1> QED  BY <1>1, <1>2 DEF Tasks

LEMMA IdleTyped == FreeRow \in Row /\ Idle \in Tasks /\ Idle.at = "idle"
<1>1. FreeRow \in Row  BY DEF FreeRow, Row
<1> QED  BY <1>1 DEF Idle, Tasks

\* The initial values have their types.
LEMMA InitTyped == Init => TypeOK
<1> SUFFICES ASSUME Init PROVE TypeOK  OBVIOUS
<1>1. events \in Seq(Event) /\ DOMAIN events = {}  BY DEF Init
<1>2. request \in [Requests -> Tasks] /\ \A r \in Requests : request[r].at = "idle"
  BY IdleTyped DEF Init
<1>3. stripe \in [Subs -> StripeStates] /\ session \in [Subs -> Plans]  BY DEF Init, StripeStates
<1>4. row \in Row  BY IdleTyped DEF Init
<1>5. /\ settled = {} /\ recorded = {} /\ overridden = FALSE
      /\ overrides \in 0..MaxOverrides /\ fails \in 0..MaxFails
  BY BoundsAssumption DEF Init
<1> QED  BY <1>1, <1>2, <1>3, <1>4, <1>5 DEF TypeOK, Tasks, StripeStates

LEMMA StepTyped == TypeOK /\ [Next]_vars => TypeOK'
<1> SUFFICES ASSUME TypeOK, [Next]_vars PROVE TypeOK'  OBVIOUS
<1> USE DEF stripeVars, deliveryVars
<1>a. /\ stripe \in [Subs -> StripeStates] /\ session \in [Subs -> Plans]
      /\ events \in Seq(Event) /\ row \in Row
      /\ settled \subseteq DOMAIN events /\ recorded \subseteq DOMAIN events
      /\ overridden \in BOOLEAN /\ fails \in 0..MaxFails /\ overrides \in 0..MaxOverrides
  BY DEF TypeOK, StripeStates
<1>b. request \in [Requests -> Tasks]  BY DEF TypeOK, Tasks
<1>d. DOMAIN events \subseteq Nat
  <2>1. DOMAIN events = 1..Len(events) /\ Len(events) \in Nat  BY <1>a
  <2> QED  BY <2>1
<1>0. /\ stripe \in [Subs -> StripeStates] /\ session \in [Subs -> Plans]
      /\ events \in Seq(Event) /\ DOMAIN events \subseteq Nat
      /\ row \in Row /\ settled \subseteq DOMAIN events /\ recorded \subseteq DOMAIN events
      /\ overridden \in BOOLEAN /\ fails \in 0..MaxFails /\ overrides \in 0..MaxOverrides
      /\ request \in [Requests -> Tasks]
  BY <1>a, <1>b, <1>d
<1>1. ASSUME NEW s \in Subs, NEW p \in PaidPlans, OpenCheckout(s, p) PROVE TypeOK'
  BY <1>0, <1>1, StripeStepTyped DEF OpenCheckout
<1>c. ASSUME NEW s \in Subs, NEW x \in StripeStates, NEW kinds \in Seq(Kinds),
             NEW full \in BOOLEAN, Changes(s, x, kinds, full),
             UNCHANGED <<session, settled, recorded, request, fails, row, overridden, overrides>>
      PROVE  TypeOK'
  <2>1. /\ stripe' \in [Subs -> StripeStates] /\ events' \in Seq(Event)
        /\ DOMAIN events \subseteq DOMAIN events'
    BY <1>c, ChangesTyped
  <2> QED  BY <1>0, <1>c, <2>1, StripeStepTyped
<1>2. ASSUME NEW s \in Subs, NEW p \in PaidPlans, ChangePlan(s, p) PROVE TypeOK'
  <2>0. stripe[s] \in StripeStates  BY <1>0
  <2>1. [stripe[s] EXCEPT !.plan = p] \in StripeStates /\ <<"updated">> \in Seq(Kinds)
    BY <2>0 DEF StripeStates
  <2> QED  BY <1>c, <1>2, <2>1 DEF ChangePlan
<1>3. ASSUME NEW s \in Subs, NEW full \in BOOLEAN, CompleteCheckout(s, full) PROVE TypeOK'
  <2>1. /\ [state |-> "active", plan |-> session[s], period |-> 1] \in StripeStates
        /\ <<"updated", "paid", "checkout">> \in Seq(Kinds)
    BY <1>0 DEF StripeStates
  <2> QED  BY <1>c, <1>3, <2>1 DEF CompleteCheckout
<1>4. ASSUME NEW s \in Subs, RenewalFails(s) PROVE TypeOK'
  <2>0. stripe[s] \in StripeStates  BY <1>0
  <2>1. /\ [state |-> "past_due", plan |-> stripe[s].plan,
            period |-> stripe[s].period + 1] \in StripeStates
        /\ <<"failed", "updated">> \in Seq(Kinds)
    BY <2>0 DEF StripeStates
  <2> QED  BY <1>c, <1>4, <2>1 DEF RenewalFails
<1>5. ASSUME NEW s \in Subs, PaymentRecovers(s) PROVE TypeOK'
  <2>0. stripe[s] \in StripeStates  BY <1>0
  <2>1. /\ [stripe[s] EXCEPT !.state = "active"] \in StripeStates
        /\ <<"updated", "paid">> \in Seq(Kinds)
    BY <2>0 DEF StripeStates
  <2> QED  BY <1>c, <1>5, <2>1 DEF PaymentRecovers
<1>6. ASSUME NEW s \in Subs, EndSubscription(s) PROVE TypeOK'
  <2>0. stripe[s] \in StripeStates  BY <1>0
  <2>1. [stripe[s] EXCEPT !.state = "ended"] \in StripeStates /\ <<"deleted">> \in Seq(Kinds)
    BY <2>0 DEF StripeStates
  <2> QED  BY <1>c, <1>6, <2>1 DEF EndSubscription
<1>7. ASSUME NEW r \in Requests, NEW e \in DOMAIN events, Receive(r, e) PROVE TypeOK'
  <2> DEFINE at == IF Redis /\ e \in recorded THEN "answer" ELSE "read"
             task == [at |-> at, event |-> e, read |-> FreeRow]
  <2>1. task \in Tasks /\ task.event = e  BY <1>0, IdleTyped DEF Tasks
  <2>2. request' = [request EXCEPT ![r] = task]  BY <1>7 DEF Receive
  <2> HIDE DEF task
  <2> QED  BY <1>0, <1>7, <2>1, <2>2, RequestStepTyped DEF Receive
<1>8. ASSUME NEW r \in Requests, Read(r) PROVE TypeOK'
  <2> DEFINE at == IF Applies(events[request[r].event], row) THEN "commit" ELSE "record"
             task == [request[r] EXCEPT !.read = row, !.at = at]
  <2>1. task \in Tasks /\ task.event = request[r].event  BY <1>0 DEF Tasks
  <2>2. request' = [request EXCEPT ![r] = task]  BY <1>0, <1>8 DEF Read, Tasks
  <2>3. task.event \in DOMAIN events  BY <1>8, <2>1 DEF Read, TypeOK
  <2> HIDE DEF task
  <2> QED  BY <1>0, <1>8, <2>1, <2>2, <2>3, RequestStepTyped DEF Read
<1>9. ASSUME NEW r \in Requests, Commit(r) PROVE TypeOK'
  <2> DEFINE e == events[request[r].event]
             task == [request[r] EXCEPT !.at = "record"]
  <2>1. request[r].event \in DOMAIN events /\ e \in Event /\ request[r].read \in Row
    BY <1>9, EventAtHand DEF Commit
  <2>2. row' = Flush(row, request[r].read, Result(e, request[r].read))  BY <1>9 DEF Commit
  <2>3. overridden' \in BOOLEAN  BY <1>9 DEF Commit
  <2>4. UNCHANGED <<settled, recorded, fails, overrides, stripe, session, events>>  BY <1>9 DEF Commit
  <2>5. request' = [request EXCEPT ![r] = task]  BY <1>9, Moved DEF Commit, Goto
  <2>6. task \in Tasks /\ task.event = request[r].event  BY Moved
  <2> HIDE DEF e, task
  <2>7. row' \in Row  BY <1>0, <2>1, <2>2, ResultTyped, FlushTyped
  <2> QED  BY <1>0, <2>1, <2>3, <2>4, <2>5, <2>6, <2>7, RequestStepTyped
<1>10. ASSUME NEW r \in Requests, Record(r) PROVE TypeOK'
  <2> DEFINE task == [request[r] EXCEPT !.at = "answer"]
  <2>1. request[r].event \in DOMAIN events  BY <1>10, EventAtHand DEF Record
  <2>2. request' = [request EXCEPT ![r] = task] /\ task \in Tasks
        /\ task.event = request[r].event
    BY <1>10, Moved DEF Record, Goto
  <2>3. recorded' \subseteq DOMAIN events  BY <1>0, <1>10, <2>1 DEF Record
  <2> HIDE DEF task
  <2> QED  BY <1>0, <1>10, <2>1, <2>2, <2>3, RequestStepTyped DEF Record
<1>11. ASSUME NEW r \in Requests, Answer(r) PROVE TypeOK'
  <2>1. settled' \subseteq DOMAIN events  BY <1>0, <1>11, EventAtHand DEF Answer
  <2> QED  BY <1>0, <1>11, <2>1, IdleTyped, RequestStepTyped DEF Answer
<1>12. ASSUME NEW r \in Requests, Fail(r) PROVE TypeOK'
  <2>1. fails' \in 0..MaxFails  BY <1>0, <1>12, BoundsAssumption DEF Fail
  <2> QED  BY <1>0, <1>12, <2>1, IdleTyped, RequestStepTyped DEF Fail
<1>13. ASSUME NEW p \in Plans, OverridePlan(p) PROVE TypeOK'
  <2>1. row' \in Row  BY <1>0, <1>13 DEF OverridePlan, Row
  <2>2. overrides' \in 0..MaxOverrides  BY <1>0, <1>13, BoundsAssumption DEF OverridePlan
  <2>3. /\ overridden' \in BOOLEAN
        /\ UNCHANGED <<stripe, session, events, settled, recorded, request, fails>>
    BY <1>13 DEF OverridePlan
  <2> QED  BY <2>1, <2>2, <2>3 DEF TypeOK
<1>14. CASE UNCHANGED vars  BY <1>14 DEF vars, TypeOK
<1> QED
  BY <1>1, <1>2, <1>3, <1>4, <1>5, <1>6, <1>7, <1>8, <1>9, <1>10, <1>11, <1>12, <1>13, <1>14
     DEF Next, Handle

\* Every delivery, in whatever order and however it ends, leaves the row, the
\* request and the sets of events well typed.
THEOREM BillingTypeCorrect == Spec => []TypeOK
<1>1. Init => TypeOK  BY InitTyped
<1>2. TypeOK /\ [Next]_vars => TypeOK'  BY StepTyped
<1> QED  BY <1>1, <1>2, PTL DEF Spec

-----------------------------------------------------------------------------
\* Only a commit and an override write the row.
LEMMA RowWriters ==
    ASSUME [Next]_vars
    PROVE  \/ row' = row
           \/ \E r \in Requests : Commit(r)
           \/ \E p \in Plans : OverridePlan(p)
BY DEF Next, vars, Handle, OpenCheckout, ChangePlan, CompleteCheckout, RenewalFails,
       PaymentRecovers, EndSubscription, Receive, Read, Record, Answer, Fail

\* A handler that makes the row forget nothing: the customer id it writes is
\* the one it read or an id.
LEMMA ResultKeepsCustomer ==
    ASSUME NEW e \in Event, NEW r \in Row
    PROVE  Result(e, r).customer # r.customer => Result(e, r).customer
<1>1. e.kind \in Kinds /\ e.full \in BOOLEAN /\ r.customer \in BOOLEAN  BY DEF Event, Row
<1>2. CASE e.kind \in {"checkout", "updated"}
  <2>1. Result(e, r) = Upsert(e, r)  BY <1>2 DEF Result
  <2>2. Upsert(e, r).customer = (e.kind = "updated" \/ e.full \/ r.customer)  BY DEF Upsert
  <2> QED  BY <1>1, <2>1, <2>2
<1>3. CASE e.kind = "deleted"
  <2>1. Result(e, r) = DowngradeToFree(r)  BY <1>3 DEF Result
  <2> QED  BY <2>1 DEF DowngradeToFree
<1>4. CASE e.kind = "paid"
  <2>1. Result(e, r) = [r EXCEPT !.status = "active"]  BY <1>4 DEF Result
  <2> QED  BY <2>1 DEF Row
<1>5. CASE e.kind = "failed"
  <2>1. Result(e, r) = [r EXCEPT !.status = "past_due"]  BY <1>5 DEF Result
  <2> QED  BY <2>1 DEF Row
<1> QED  BY <1>1, <1>2, <1>3, <1>4, <1>5

\* What a commit does to the columns the theorems speak of.
LEMMA CommitWrites ==
    ASSUME TypeOK, NEW r \in Requests, Commit(r),
           NEW e, e = events[request[r].event], NEW read, read = request[r].read
    PROVE  /\ e \in Event /\ read \in Row
           /\ row'.customer = IF Result(e, read).customer # read.customer
                                 THEN Result(e, read).customer ELSE row.customer
           /\ row'.sub = IF Result(e, read).sub # read.sub
                            THEN Result(e, read).sub ELSE row.sub
<1>1. e \in Event /\ read \in Row  BY EventAtHand DEF Commit
<1>2. Result(e, read) \in Row  BY <1>1, ResultTyped
<1>3. row \in Row  BY DEF TypeOK
<1>4. row' = Flush(row, read, Result(e, read))  BY DEF Commit
<1>5. \A c \in {"sub", "customer"} :
         row'[c] = IF Result(e, read)[c] # read[c] THEN Result(e, read)[c] ELSE row[c]
  BY <1>1, <1>2, <1>3, <1>4, FlushTyped
<1> QED  BY <1>1, <1>5

\* However deliveries interleave and fail, the row never forgets its customer:
\* the portal and the lookup by customer keep working (the comment in
\* upsert_from_stripe).
THEOREM CustomerNeverForgotten == Spec => CustomerKept
<1>1. ASSUME TypeOK, [Next]_vars PROVE row.customer => row'.customer
  <2>0. row \in Row /\ row.customer \in BOOLEAN  BY <1>1 DEF TypeOK, Row
  <2>1. ASSUME NEW r \in Requests, Commit(r) PROVE row.customer => row'.customer
    <3> DEFINE e == events[request[r].event]
               read == request[r].read
    <3>1. /\ e \in Event /\ read \in Row
          /\ row'.customer = IF Result(e, read).customer # read.customer
                                THEN Result(e, read).customer ELSE row.customer
      BY <1>1, <2>1, CommitWrites
    <3> HIDE DEF e, read
    <3>2. Result(e, read).customer # read.customer => Result(e, read).customer
      BY <3>1, ResultKeepsCustomer
    <3> QED  BY <3>1, <3>2
  <2>2. ASSUME NEW p \in Plans, OverridePlan(p) PROVE row'.customer = row.customer
    BY <2>0, <2>2 DEF OverridePlan, Row
  <2> QED  BY <1>1, <2>0, <2>1, <2>2, RowWriters
<1>2. TypeOK /\ [Next]_vars => [row.customer => row'.customer]_vars  BY <1>1
<1> QED  BY <1>2, BillingTypeCorrect, PTL DEF Spec, CustomerKept

-----------------------------------------------------------------------------
\* SerialInv for one request.
AtCommit(r) ==
    request[r].at = "commit" =>
        /\ row.sub = request[r].read.sub
        /\ events[request[r].event].kind = "deleted" => row.sub = events[request[r].event].sub

\* Stripe's steps leave the events a request has at hand as they were.
LEMMA StripeStep ==
    ASSUME TypeOK,
           \/ \E s \in Subs, p \in PaidPlans : OpenCheckout(s, p) \/ ChangePlan(s, p)
           \/ \E s \in Subs, full \in BOOLEAN : CompleteCheckout(s, full)
           \/ \E s \in Subs : RenewalFails(s) \/ PaymentRecovers(s) \/ EndSubscription(s)
    PROVE  /\ UNCHANGED <<row, request>>
           /\ \A i \in DOMAIN events : events'[i] = events[i]
<1> USE DEF stripeVars, deliveryVars
<1>0. stripe \in [Subs -> StripeStates] /\ session \in [Subs -> Plans]  BY DEF TypeOK, StripeStates
<1>c. ASSUME NEW s \in Subs, NEW x \in StripeStates, NEW kinds \in Seq(Kinds),
             NEW full \in BOOLEAN, Changes(s, x, kinds, full)
      PROVE  \A i \in DOMAIN events : events'[i] = events[i]
  BY <1>c, ChangesTyped
<1>1. ASSUME NEW s \in Subs, NEW p \in PaidPlans, OpenCheckout(s, p)
      PROVE  UNCHANGED <<row, request>> /\ \A i \in DOMAIN events : events'[i] = events[i]
  BY <1>1 DEF OpenCheckout
<1>2. ASSUME NEW s \in Subs, NEW p \in PaidPlans, ChangePlan(s, p)
      PROVE  UNCHANGED <<row, request>> /\ \A i \in DOMAIN events : events'[i] = events[i]
  <2>0. stripe[s] \in StripeStates  BY <1>0
  <2>1. [stripe[s] EXCEPT !.plan = p] \in StripeStates /\ <<"updated">> \in Seq(Kinds)
    BY <2>0 DEF StripeStates
  <2> QED  BY <1>c, <1>2, <2>1 DEF ChangePlan
<1>3. ASSUME NEW s \in Subs, NEW full \in BOOLEAN, CompleteCheckout(s, full)
      PROVE  UNCHANGED <<row, request>> /\ \A i \in DOMAIN events : events'[i] = events[i]
  <2>1. /\ [state |-> "active", plan |-> session[s], period |-> 1] \in StripeStates
        /\ <<"updated", "paid", "checkout">> \in Seq(Kinds)
    BY <1>0 DEF StripeStates
  <2> QED  BY <1>c, <1>3, <2>1 DEF CompleteCheckout
<1>4. ASSUME NEW s \in Subs, RenewalFails(s)
      PROVE  UNCHANGED <<row, request>> /\ \A i \in DOMAIN events : events'[i] = events[i]
  <2>0. stripe[s] \in StripeStates  BY <1>0
  <2>1. /\ [state |-> "past_due", plan |-> stripe[s].plan,
            period |-> stripe[s].period + 1] \in StripeStates
        /\ <<"failed", "updated">> \in Seq(Kinds)
    BY <2>0 DEF StripeStates
  <2> QED  BY <1>c, <1>4, <2>1 DEF RenewalFails
<1>5. ASSUME NEW s \in Subs, PaymentRecovers(s)
      PROVE  UNCHANGED <<row, request>> /\ \A i \in DOMAIN events : events'[i] = events[i]
  <2>0. stripe[s] \in StripeStates  BY <1>0
  <2>1. [stripe[s] EXCEPT !.state = "active"] \in StripeStates /\ <<"updated", "paid">> \in Seq(Kinds)
    BY <2>0 DEF StripeStates
  <2> QED  BY <1>c, <1>5, <2>1 DEF PaymentRecovers
<1>6. ASSUME NEW s \in Subs, EndSubscription(s)
      PROVE  UNCHANGED <<row, request>> /\ \A i \in DOMAIN events : events'[i] = events[i]
  <2>0. stripe[s] \in StripeStates  BY <1>0
  <2>1. [stripe[s] EXCEPT !.state = "ended"] \in StripeStates /\ <<"deleted">> \in Seq(Kinds)
    BY <2>0 DEF StripeStates
  <2> QED  BY <1>c, <1>6, <2>1 DEF EndSubscription
<1> QED  BY <1>1, <1>2, <1>3, <1>4, <1>5, <1>6

LEMMA SerialStep ==
    ASSUME TypeOK, SerialInv, [Next]_vars, Delivery # "any"
    PROVE  SerialInv'
<1> USE DEF stripeVars
<1>1. /\ \A r, q \in Requests : request[r].at # "idle" /\ request[q].at # "idle" => r = q
      /\ \A r \in Requests : AtCommit(r)
      /\ request \in [Requests -> Tasks]
  BY DEF SerialInv, Busy, AtCommit, TypeOK, Tasks
<1>2. SUFFICES /\ \A r, q \in Requests : request'[r].at # "idle" /\ request'[q].at # "idle" => r = q
               /\ \A r \in Requests : AtCommit(r)'
  BY DEF SerialInv, Busy, AtCommit
<1>k. ASSUME NEW r \in Requests, UNCHANGED <<row, request>>,
             \A i \in DOMAIN events : events'[i] = events[i]
      PROVE  AtCommit(r)'
  <2>1. request[r].at = "commit" => request[r].event \in DOMAIN events  BY EventAtHand
  <2> QED  BY <1>1, <1>k, <2>1 DEF AtCommit
<1>3. CASE \/ \E s \in Subs, p \in PaidPlans : OpenCheckout(s, p) \/ ChangePlan(s, p)
           \/ \E s \in Subs, full \in BOOLEAN : CompleteCheckout(s, full)
           \/ \E s \in Subs : RenewalFails(s) \/ PaymentRecovers(s) \/ EndSubscription(s)
  <2>1. UNCHANGED <<row, request>> /\ \A i \in DOMAIN events : events'[i] = events[i]
    BY <1>3, StripeStep
  <2> QED  BY <1>1, <1>k, <2>1
<1>4. ASSUME NEW r \in Requests, NEW e \in DOMAIN events, Receive(r, e)
      PROVE  /\ \A p, q \in Requests : request'[p].at # "idle" /\ request'[q].at # "idle" => p = q
             /\ \A q \in Requests : AtCommit(q)'
  <2>1. Busy = {}  BY <1>4, ModeAssumption DEF Receive, Sends
  <2>2. \A q \in Requests : request[q].at = "idle"  BY <2>1 DEF Busy
  <2>3. /\ \A q \in Requests : q # r => request'[q].at = "idle"
        /\ request'[r].at \in {"read", "answer"}
    BY <1>1, <1>4, <2>2 DEF Receive
  <2>4. \A q \in Requests : request'[q].at # "commit"  BY <2>3
  <2> QED  BY <2>3, <2>4 DEF AtCommit
<1>5. ASSUME NEW r \in Requests, Read(r)
      PROVE  /\ \A p, q \in Requests : request'[p].at # "idle" /\ request'[q].at # "idle" => p = q
             /\ \A q \in Requests : AtCommit(q)'
  <2>1. /\ request[r].at = "read" /\ row' = row /\ events' = events
        /\ request'[r].read = row /\ request'[r].event = request[r].event
        /\ request'[r].at = IF Applies(events[request[r].event], row) THEN "commit" ELSE "record"
        /\ \A q \in Requests : q # r => request'[q] = request[q]
    BY <1>1, <1>5 DEF Read, Tasks
  <2>2. \A q \in Requests : q # r => request[q].at = "idle"  BY <1>1, <2>1
  <2>3. AtCommit(r)'  BY <2>1 DEF AtCommit, Applies
  <2>4. \A q \in Requests : q # r => request'[q].at = "idle"  BY <2>1, <2>2
  <2>5. \A q \in Requests : q # r => AtCommit(q)'  BY <2>4 DEF AtCommit
  <2> QED  BY <2>3, <2>4, <2>5
<1>6. ASSUME NEW r \in Requests, Commit(r) \/ Record(r) \/ Answer(r) \/ Fail(r)
      PROVE  /\ \A p, q \in Requests : request'[p].at # "idle" /\ request'[q].at # "idle" => p = q
             /\ \A q \in Requests : AtCommit(q)'
  <2>1. request[r].at # "idle"  BY <1>6 DEF Commit, Record, Answer, Fail
  <2>2. /\ \A q \in Requests : q # r => request'[q] = request[q]
        /\ request'[r].at \in {"record", "answer", "idle"}
    BY <1>1, <1>6 DEF Commit, Record, Answer, Fail, Goto, Tasks, Idle
  <2>3. \A q \in Requests : q # r => request'[q].at = "idle"  BY <1>1, <2>1, <2>2
  <2>4. \A q \in Requests : request'[q].at # "commit"  BY <2>2, <2>3
  <2> QED  BY <2>3, <2>4 DEF AtCommit
<1>7. ASSUME NEW p \in Plans, OverridePlan(p)
      PROVE  /\ \A r, q \in Requests : request'[r].at # "idle" /\ request'[q].at # "idle" => r = q
             /\ \A q \in Requests : AtCommit(q)'
  <2>1. row'.sub = row.sub /\ request' = request /\ events' = events
    BY <1>7 DEF OverridePlan, TypeOK, Row, deliveryVars
  <2> QED  BY <1>1, <2>1 DEF AtCommit
<1>8. CASE UNCHANGED vars
  <2>1. UNCHANGED <<row, request, events>>  BY <1>8 DEF vars
  <2> QED  BY <1>1, <1>k, <2>1
<1> QED  BY <1>3, <1>4, <1>5, <1>6, <1>7, <1>8 DEF Next, Handle

\* The subscription id a handler writes is the one it read, that of its event,
\* or none when the event is the deletion.
LEMMA ResultSub ==
    ASSUME NEW e \in Event, NEW r \in Row, Result(e, r).sub # r.sub
    PROVE  \/ e.kind \in {"updated", "checkout"} /\ Result(e, r).sub = e.sub
           \/ e.kind = "deleted" /\ Result(e, r).sub = NoSub
<1>1. e.kind \in Kinds  BY DEF Event
<1>2. CASE e.kind \in {"checkout", "updated"}
  <2>1. Result(e, r) = Upsert(e, r)  BY <1>2 DEF Result
  <2>2. Upsert(e, r).sub = IF e.kind = "updated" \/ e.full THEN e.sub ELSE r.sub  BY DEF Upsert
  <2> QED  BY <1>2, <2>1, <2>2
<1>3. CASE e.kind = "deleted"
  <2>1. Result(e, r) = DowngradeToFree(r)  BY <1>3 DEF Result
  <2> QED  BY <1>3, <2>1 DEF DowngradeToFree
<1>4. CASE e.kind = "paid"
  <2>1. Result(e, r) = [r EXCEPT !.status = "active"]  BY <1>4 DEF Result
  <2> QED  BY <2>1 DEF Row
<1>5. CASE e.kind = "failed"
  <2>1. Result(e, r) = [r EXCEPT !.status = "past_due"]  BY <1>5 DEF Result
  <2> QED  BY <2>1 DEF Row
<1> QED  BY <1>1, <1>2, <1>3, <1>4, <1>5

\* A row that changes the subscription it follows, and the event behind it.
FollowStep ==
    row'.sub # row.sub =>
        \E r \in Requests :
            LET e == events[request[r].event]
            IN  /\ request[r].at = "commit"
                /\ \/ row'.sub = e.sub /\ e.kind \in {"updated", "checkout"}
                   \/ row'.sub = NoSub /\ e.kind = "deleted" /\ row.sub = e.sub

\* When deliveries come one at a time, in any order and with any duplicates, a
\* row leaves its subscription only for the deletion of that subscription or
\* for another one that is alive in its event: no cancellation of an old
\* subscription frees the row of a newer one.
THEOREM RowFollowsItsSubscription ==
    ASSUME Delivery # "any"
    PROVE  Spec => RowFollowsEvents
<1>1. ASSUME TypeOK, SerialInv, [Next]_vars PROVE FollowStep
  <2> SUFFICES ASSUME row'.sub # row.sub PROVE FollowStep  BY DEF FollowStep
  <2>1. \A p \in Plans : ~ OverridePlan(p)  BY <1>1 DEF OverridePlan, TypeOK, Row
  <2>2. PICK r \in Requests : Commit(r)  BY <1>1, <2>1, RowWriters
  <2> DEFINE e == events[request[r].event]
             read == request[r].read
  <2>3. /\ e \in Event /\ read \in Row
        /\ row'.sub = IF Result(e, read).sub # read.sub THEN Result(e, read).sub ELSE row.sub
    BY <1>1, <2>2, CommitWrites
  <2>4. request[r].at = "commit"  BY <2>2 DEF Commit
  <2>5. e.kind = "deleted" => row.sub = e.sub  BY <1>1, <2>4 DEF SerialInv
  <2>6. \/ e.kind \in {"updated", "checkout"} /\ row'.sub = e.sub
        \/ e.kind = "deleted" /\ row'.sub = NoSub
    <3> HIDE DEF e, read
    <3> QED  BY <2>3, ResultSub
  <2> QED  BY <2>4, <2>5, <2>6 DEF FollowStep
<1>2. TypeOK /\ SerialInv /\ [Next]_vars => SerialInv'  BY SerialStep
<1>3. Init => SerialInv  BY DEF Init, SerialInv, Busy, Idle
<1>4. TypeOK /\ SerialInv /\ [Next]_vars => [FollowStep]_vars  BY <1>1
<1>5. RowFollowsEvents <=> [][FollowStep]_vars  BY PTL DEF RowFollowsEvents, FollowStep
<1> QED  BY <1>2, <1>3, <1>4, <1>5, BillingTypeCorrect, PTL DEF Spec

-----------------------------------------------------------------------------
\* One subscription, its events delivered in order to a backend with Redis.
OneSubscriptionInOrder == (\E s \in Subs : Subs = {s}) /\ Redis = TRUE /\ Delivery = "ordered"

LEMMA AppendedLog ==
    ASSUME NEW log \in Seq(Event), NEW more \in Seq(Event)
    PROVE  /\ Len(log) \in Nat /\ Len(more) \in Nat
           /\ Len(log \o more) = Len(log) + Len(more)
           /\ \A i \in 1..Len(log) : (log \o more)[i] = log[i]
           /\ \A i \in 1..Len(more) : (log \o more)[Len(log) + i] = more[i]
OBVIOUS

\* What the log says where Stripe has appended to it.
LEMMA LogGrows ==
    ASSUME TypeOK, NEW s \in Subs, NEW x \in StripeStates,
           NEW kinds \in Seq(Kinds), NEW full \in BOOLEAN, Changes(s, x, kinds, full)
    PROVE  /\ Len(events) \in Nat /\ Len(kinds) \in Nat
           /\ Len(events') = Len(events) + Len(kinds)
           /\ \A i \in 1..Len(events) : events'[i] = events[i]
           /\ \A i \in 1..Len(kinds) :
                 /\ events'[Len(events) + i].kind = kinds[i]
                 /\ events'[Len(events) + i].sub = s
                 /\ events'[Len(events) + i].plan = x.plan
                 /\ events'[Len(events) + i].status =
                       IF x.state = "past_due" THEN "past_due" ELSE "active"
<1> DEFINE more == [i \in DOMAIN kinds |-> Snapshot(kinds[i], s, x, full)]
<1>1. \A k \in Kinds : Snapshot(k, s, x, full) \in Event  BY DEF Snapshot, Event, StripeStates
<1>2. DOMAIN kinds = 1..Len(kinds) /\ Len(kinds) \in Nat  OBVIOUS
<1>3. \A i \in 1..Len(kinds) : kinds[i] \in Kinds  OBVIOUS
<1>4. more \in Seq(Event) /\ Len(more) = Len(kinds)  BY <1>1, <1>2, <1>3
<1>5. \A i \in 1..Len(kinds) : more[i] = Snapshot(kinds[i], s, x, full)  BY <1>2
<1>6. events \in Seq(Event) /\ events' = events \o more /\ Len(events) \in Nat  BY DEF TypeOK, Changes
<1> HIDE DEF more
<1>7. Len(events') = Len(events) + Len(kinds)  BY <1>4, <1>6, AppendedLog
<1>8. \A i \in 1..Len(events) : events'[i] = events[i]  BY <1>4, <1>6, AppendedLog
<1>9. \A i \in 1..Len(kinds) : events'[Len(events) + i] = Snapshot(kinds[i], s, x, full)
  <2> TAKE i \in 1..Len(kinds)
  <2>1. events'[Len(events) + i] = more[i]  BY <1>4, <1>6, AppendedLog
  <2> QED  BY <1>5, <2>1
<1>10. \A i \in 1..Len(kinds) :
          /\ Snapshot(kinds[i], s, x, full).kind = kinds[i]
          /\ Snapshot(kinds[i], s, x, full).sub = s
          /\ Snapshot(kinds[i], s, x, full).plan = x.plan
          /\ Snapshot(kinds[i], s, x, full).status =
                IF x.state = "past_due" THEN "past_due" ELSE "active"
  BY DEF Snapshot
<1> QED  BY <1>2, <1>6, <1>7, <1>8, <1>9, <1>10

\* What it takes for a new event to continue the log.
LEMMA ContinuesIf ==
    ASSUME NEW k \in Nat, NEW kind, NEW d,
           events'[k].kind = kind,
           k = 1 => kind = "updated",
           k > 1 => /\ events'[k - 1] = d
                    /\ d.kind # "deleted" /\ d.sub = events'[k].sub
                    /\ kind \in {"checkout", "paid", "failed"} => d.plan = events'[k].plan
                    /\ kind = "paid" => d.status = "active",
           kind \in {"checkout", "paid"} => events'[k].status = "active",
           kind = "failed" => events'[k].status = "past_due"
    PROVE  Continues(k)'
BY DEF Continues

\* The events that Stripe creates for a change of the subscription to x.
KindsFit(s, x, kinds) ==
    /\ stripe[s].state # "ended" /\ x.state # "none" /\ Len(kinds) > 0
    /\ \A i \in 1..Len(kinds) :
          /\ kinds[i] = "deleted" <=> x.state = "ended"
          /\ kinds[i] \in {"checkout", "paid"} => i > 1 /\ x.state = "active"
          /\ kinds[i] = "failed" => i = 1 /\ x.state = "past_due" /\ x.plan = stripe[s].plan
          /\ kinds[i] = "deleted" => Len(kinds) = 1
    /\ kinds[1] = "updated" \/ stripe[s].state # "none"

\* A change of the one subscription leaves a log that reads in one piece, whose last
\* event says what Stripe says.
LEMMA LogFits ==
    ASSUME TypeOK, NEW s \in Subs, Subs = {s}, NEW x \in StripeStates,
           NEW kinds \in Seq(Kinds), NEW full \in BOOLEAN, Changes(s, x, kinds, full),
           \A k \in 1..Len(events) : Continues(k), LastEventIsStripe(s),
           KindsFit(s, x, kinds)
    PROVE  /\ \A k \in 1..Len(events') : Continues(k)'
           /\ \A t \in Subs : LastEventIsStripe(t)'
<1>0. PICK m \in Nat : m = Len(events)  BY LogGrows
<1> USE DEF KindsFit
<1>1. /\ m \in Nat /\ Len(kinds) \in Nat /\ Len(events') = m + Len(kinds)
      /\ \A i \in 1..m : events'[i] = events[i]
      /\ \A i \in 1..Len(kinds) :
            /\ events'[m + i].kind = kinds[i]
            /\ events'[m + i].sub = s
            /\ events'[m + i].plan = x.plan
            /\ events'[m + i].status = IF x.state = "past_due" THEN "past_due" ELSE "active"
  BY <1>0, LogGrows
<1>2. /\ m = 0 <=> stripe[s].state = "none"
      /\ m > 0 => /\ events[m].sub = s /\ events[m].plan = stripe[s].plan
                  /\ events[m].kind # "deleted"
  BY <1>0 DEF LastEventIsStripe
<1>3. \A k \in 1..m : Continues(k)  BY <1>0
<1>4. stripe'[s] = x  BY DEF Changes, TypeOK
<1>5. ASSUME NEW k \in 1..m PROVE Continues(k)'
  <2>1. events'[k] = events[k] /\ (k > 1 => events'[k - 1] = events[k - 1])  BY <1>1, SMTT(30)
  <2> QED  BY <1>3, <2>1 DEF Continues
<1>6. Continues(m + 1)'
  <2>1. 1 \in 1..Len(kinds) /\ m + 1 > 0 /\ m + 1 - 1 = m  BY <1>1
  <2>2. events'[m + 1].kind = kinds[1] /\ events'[m + 1].sub = s /\ events'[m + 1].plan = x.plan
        /\ events'[m + 1].status = IF x.state = "past_due" THEN "past_due" ELSE "active"
    BY <1>1, <2>1
  <2>3. m + 1 > 1 => events'[m] = events[m] /\ m > 0  BY <1>1, SMTT(30)
  <2>4. kinds[1] \notin {"checkout", "paid"}
        /\ (kinds[1] = "failed" => x.state = "past_due" /\ x.plan = stripe[s].plan)
    BY <2>1
  <2>5. m + 1 = 1 => kinds[1] = "updated"  BY <1>1, <1>2
  <2>6. m + 1 > 1 => /\ events'[m + 1 - 1] = events[m]
                     /\ events[m].kind # "deleted" /\ events[m].sub = s
                     /\ events[m].plan = stripe[s].plan
    BY <1>2, <2>1, <2>3
  <2>7. m + 1 \in Nat  BY <1>1
  <2> QED  BY <2>2, <2>4, <2>5, <2>6, <2>7, ContinuesIf
<1>7. ASSUME NEW i \in 2..Len(kinds) PROVE Continues(m + i)'
  <2>1. i \in 1..Len(kinds) /\ i - 1 \in 1..Len(kinds) /\ m + i - 1 = m + (i - 1) /\ m + i # 1  BY <1>1
  <2>2. events'[m + i].kind = kinds[i] /\ events'[m + i].sub = s /\ events'[m + i].plan = x.plan
        /\ events'[m + i].status = IF x.state = "past_due" THEN "past_due" ELSE "active"
    BY <1>1, <2>1
  <2>3. /\ events'[m + i - 1].kind = kinds[i - 1] /\ events'[m + i - 1].sub = s
        /\ events'[m + i - 1].plan = x.plan
        /\ events'[m + i - 1].status = IF x.state = "past_due" THEN "past_due" ELSE "active"
    BY <1>1, <2>1
  <2>4. /\ kinds[i] \in {"checkout", "paid"} => x.state = "active"
        /\ kinds[i] # "failed" /\ kinds[i - 1] # "deleted"
    BY <1>1, <2>1, SMTT(30)
  <2>5. m + i \in Nat  BY <1>1
  <2> QED  BY <2>1, <2>2, <2>3, <2>4, <2>5, ContinuesIf
<1>8. \A k \in 1..Len(events') : Continues(k)'
  <2> TAKE k \in 1..Len(events')
  <2>1. k \in 1..m \/ k = m + 1 \/ k - m \in 2..Len(kinds)  BY <1>1
  <2>2. ASSUME k - m \in 2..Len(kinds) PROVE Continues(k)'
    <3>1. PICK i \in 2..Len(kinds) : k = m + i  BY <1>1, <2>2
    <3>2. Continues(m + i)'  BY <1>7
    <3> QED  BY <3>1, <3>2
  <2>3. CASE k = m + 1  BY <1>6, <2>3
  <2> QED  BY <1>5, <2>1, <2>2, <2>3
<1>9. LastEventIsStripe(s)'
  <2> DEFINE w == Len(events')
  <2>0. w = m + Len(kinds) /\ w > 0 /\ Len(kinds) \in 1..Len(kinds)  BY <1>1
  <2>1. /\ events'[w].kind = kinds[Len(kinds)] /\ events'[w].sub = s /\ events'[w].plan = x.plan
        /\ events'[w].status = IF x.state = "past_due" THEN "past_due" ELSE "active"
    BY <1>1, <2>0
  <2>2. kinds[Len(kinds)] = "deleted" <=> x.state = "ended"  BY <2>0
  <2> HIDE DEF w
  <2>3. w = Len(events')  BY DEF w
  <2> QED  BY <1>4, <2>0, <2>1, <2>2, <2>3 DEF LastEventIsStripe, Live
<1> QED  BY <1>8, <1>9

\* The row follows an old event as before when the log only grows.
LEMMA FollowsOn ==
    ASSUME NEW n \in Nat, n <= Len(events), Len(events) \in Nat, UNCHANGED <<row, overridden>>,
           \A i \in 1..Len(events) : events'[i] = events[i]
    PROVE  Follows(n)' <=> Follows(n)
<1>1. n = 0 \/ events'[n] = events[n]  OBVIOUS
<1> QED  BY <1>1 DEF Follows, EndsAt

\* The requests stand where they stood when Stripe adds to its log.
LEMMA ProgressOn ==
    ASSUME TypeOK, NEW n \in Nat, Progress(n),
           Len(events) \in Nat, Len(events') \in Nat, Len(events') >= Len(events),
           \A i \in 1..Len(events) : events'[i] = events[i],
           UNCHANGED <<settled, recorded, row, request, overridden>>
    PROVE  Progress(n)'
<1>1. /\ n <= Len(events) /\ settled = 1..n /\ settled \subseteq recorded
      /\ recorded \subseteq 1..(n + 1)
      /\ Follows(n) \/ (n < Len(events) /\ Follows(n + 1))
      /\ n + 1 \in recorded => Follows(n + 1)
      /\ \A r \in Requests : Stands(r, n)
      /\ \A r, q \in Busy : r = q
  BY DEF Progress
<1>2. recorded \subseteq 1..Len(events)  BY DEF TypeOK
<1>3. n + 1 \in Nat  OBVIOUS
<1>4. n + 1 <= Len(events) => (Follows(n + 1)' <=> Follows(n + 1))  BY <1>3, FollowsOn
<1>5. Follows(n)' <=> Follows(n)  BY <1>1, FollowsOn
<1>6. Follows(n)' \/ (n < Len(events') /\ Follows(n + 1)')  BY <1>1, <1>4, <1>5
<1>7. n + 1 \in recorded' => Follows(n + 1)'  BY <1>1, <1>2, <1>4
<1>8. \A r \in Requests : Stands(r, n)'
  <2> TAKE r \in Requests
  <2>1. request[r].at # "idle" => request[r].event \in 1..Len(events)
    <3>1. events \in Seq(Event) /\ (request[r].at # "idle" => request[r].event \in DOMAIN events)
      BY DEF TypeOK
    <3> QED  BY <3>1
  <2>2. Stands(r, n)  BY <1>1
  <2>3. request[r].at \in {"read", "commit", "record"} => n + 1 \in 1..Len(events)
    BY <2>1, <2>2 DEF Stands
  <2>4. request[r].at = "commit" => events'[n + 1] = events[n + 1]  BY <2>3
  <2>5. request[r].at = "record" => Follows(n + 1)'  BY <1>4, <2>2, <2>3 DEF Stands
  <2>6. Applies(events[n + 1], request[r].read) /\ events'[n + 1] = events[n + 1] =>
           Applies(events[n + 1], request[r].read)'
    BY DEF Applies
  <2> QED  BY <2>2, <2>4, <2>5, <2>6 DEF Stands
<1>9. \A r, q \in Busy' : r = q  BY <1>1 DEF Busy
<1> QED  BY <1>1, <1>6, <1>7, <1>8, <1>9 DEF Progress

\* Stripe's steps keep the invariant: the log grows, the backend does nothing.
LEMMA MirrorOnStripe ==
    ASSUME TypeOK, MirrorInv, NEW s \in Subs, Subs = {s},
           NEW x \in StripeStates, NEW kinds \in Seq(Kinds), NEW full \in BOOLEAN,
           Changes(s, x, kinds, full),
           KindsFit(s, x, kinds),
           UNCHANGED <<settled, recorded, row, request, overridden>>
    PROVE  MirrorInv'
<1>1. (\A k \in 1..Len(events) : Continues(k)) /\ LastEventIsStripe(s)  BY DEF MirrorInv
<1>2. (\A k \in 1..Len(events') : Continues(k)') /\ \A t \in Subs : LastEventIsStripe(t)'
  BY <1>1, LogFits
<1>3. PICK n \in Nat : Progress(n)  BY DEF MirrorInv
<1>4. /\ Len(events) \in Nat /\ Len(events') \in Nat /\ Len(events') >= Len(events)
      /\ \A i \in 1..Len(events) : events'[i] = events[i]
  BY LogGrows
<1>5. Progress(n)'  BY <1>3, <1>4, ProgressOn
<1> QED  BY <1>2, <1>5 DEF MirrorInv

LEMMA MirrorStripeStep ==
    ASSUME TypeOK, MirrorInv, OneSubscriptionInOrder,
           \/ \E s \in Subs, full \in BOOLEAN : CompleteCheckout(s, full)
           \/ \E s \in Subs, p \in PaidPlans : ChangePlan(s, p)
           \/ \E s \in Subs : RenewalFails(s) \/ PaymentRecovers(s) \/ EndSubscription(s)
    PROVE  MirrorInv'
<1> USE DEF deliveryVars
<1>1. PICK s \in Subs : Subs = {s}  BY DEF OneSubscriptionInOrder
<1>2. stripe[s] \in StripeStates /\ session[s] \in Plans  BY DEF TypeOK, StripeStates
<1>3. ASSUME NEW full \in BOOLEAN, CompleteCheckout(s, full) PROVE MirrorInv'
  <2> DEFINE x == [state |-> "active", plan |-> session[s], period |-> 1]
             kinds == <<"updated", "paid", "checkout">>
  <2>1. x \in StripeStates /\ kinds \in Seq(Kinds)  BY <1>2 DEF StripeStates
  <2>2. /\ x.state = "active" /\ Len(kinds) = 3 /\ kinds[1] = "updated"
        /\ \A i \in 1..Len(kinds) : kinds[i] \notin {"deleted", "failed"} /\ (i = 1 => kinds[i] = "updated")
    OBVIOUS
  <2>3. /\ Changes(s, x, kinds, full) /\ stripe[s].state = "none"
        /\ UNCHANGED <<settled, recorded, row, request, overridden>>
    BY <1>3 DEF CompleteCheckout
  <2> HIDE DEF x, kinds
  <2>4. KindsFit(s, x, kinds)  BY <2>2, <2>3 DEF KindsFit
  <2> QED  BY <1>1, <2>1, <2>3, <2>4, MirrorOnStripe
<1>4. ASSUME NEW p \in PaidPlans, ChangePlan(s, p) PROVE MirrorInv'
  <2> DEFINE x == [stripe[s] EXCEPT !.plan = p]
             kinds == <<"updated">>
  <2>1. /\ x \in StripeStates /\ kinds \in Seq(Kinds) /\ x.state = stripe[s].state
    BY <1>2 DEF StripeStates
  <2>2. Len(kinds) = 1 /\ \A i \in 1..Len(kinds) : i = 1 /\ kinds[i] = "updated"  OBVIOUS
  <2>3. /\ Changes(s, x, kinds, TRUE) /\ stripe[s].state \in {"active", "past_due"}
        /\ UNCHANGED <<settled, recorded, row, request, overridden>>
    BY <1>4 DEF ChangePlan
  <2> HIDE DEF x, kinds
  <2>4. KindsFit(s, x, kinds)  BY <2>1, <2>2, <2>3 DEF KindsFit
  <2> QED  BY <1>1, <2>1, <2>3, <2>4, MirrorOnStripe
<1>5. ASSUME RenewalFails(s) PROVE MirrorInv'
  <2> DEFINE x == [state |-> "past_due", plan |-> stripe[s].plan, period |-> stripe[s].period + 1]
             kinds == <<"failed", "updated">>
  <2>1. /\ x \in StripeStates /\ kinds \in Seq(Kinds)
        /\ x.state = "past_due" /\ x.plan = stripe[s].plan
    BY <1>2 DEF StripeStates
  <2>2. /\ Len(kinds) = 2 /\ \A i \in 1..Len(kinds) : kinds[i] \in {"failed", "updated"}
        /\ \A i \in 1..Len(kinds) : kinds[i] = "failed" => i = 1
    OBVIOUS
  <2>3. /\ Changes(s, x, kinds, TRUE) /\ stripe[s].state = "active"
        /\ UNCHANGED <<settled, recorded, row, request, overridden>>
    BY <1>5 DEF RenewalFails
  <2> HIDE DEF x, kinds
  <2>4. KindsFit(s, x, kinds)  BY <2>1, <2>2, <2>3 DEF KindsFit
  <2> QED  BY <1>1, <2>1, <2>3, <2>4, MirrorOnStripe
<1>6. ASSUME PaymentRecovers(s) PROVE MirrorInv'
  <2> DEFINE x == [stripe[s] EXCEPT !.state = "active"]
             kinds == <<"updated", "paid">>
  <2>1. /\ x \in StripeStates /\ kinds \in Seq(Kinds) /\ x.state = "active"
    BY <1>2 DEF StripeStates
  <2>2. /\ Len(kinds) = 2 /\ kinds[1] = "updated"
        /\ \A i \in 1..Len(kinds) : kinds[i] \in {"paid", "updated"} /\ (i = 1 => kinds[i] = "updated")
    OBVIOUS
  <2>3. /\ Changes(s, x, kinds, TRUE) /\ stripe[s].state = "past_due"
        /\ UNCHANGED <<settled, recorded, row, request, overridden>>
    BY <1>6 DEF PaymentRecovers
  <2> HIDE DEF x, kinds
  <2>4. KindsFit(s, x, kinds)  BY <2>1, <2>2, <2>3 DEF KindsFit
  <2> QED  BY <1>1, <2>1, <2>3, <2>4, MirrorOnStripe
<1>7. ASSUME EndSubscription(s) PROVE MirrorInv'
  <2> DEFINE x == [stripe[s] EXCEPT !.state = "ended"]
             kinds == <<"deleted">>
  <2>1. /\ x \in StripeStates /\ kinds \in Seq(Kinds) /\ x.state = "ended"
    BY <1>2 DEF StripeStates
  <2>2. Len(kinds) = 1 /\ \A i \in 1..Len(kinds) : i = 1 /\ kinds[i] = "deleted"  OBVIOUS
  <2>3. /\ Changes(s, x, kinds, TRUE) /\ stripe[s].state \in {"active", "past_due"}
        /\ UNCHANGED <<settled, recorded, row, request, overridden>>
    BY <1>7 DEF EndSubscription
  <2> HIDE DEF x, kinds
  <2>4. KindsFit(s, x, kinds)  BY <2>1, <2>2, <2>3 DEF KindsFit
  <2> QED  BY <1>1, <2>1, <2>3, <2>4, MirrorOnStripe
<1> QED  BY <1>1, <1>3, <1>4, <1>5, <1>6, <1>7

-----------------------------------------------------------------------------
\* An event that does not concern the row it finds has nothing left to say to it.
LEMMA NothingToApply ==
    ASSUME TypeOK, NEW n \in Nat, n < Len(events), Continues(n + 1),
           Follows(n) \/ Follows(n + 1), ~ Applies(events[n + 1], row)
    PROVE  Follows(n + 1)
<1> SUFFICES ASSUME Follows(n) PROVE Follows(n + 1)  OBVIOUS
<1>0. PICK e : e = events[n + 1]  OBVIOUS
<1>1. e \in Event /\ e.kind \in Kinds
  <2>1. n + 1 \in 1..Len(events) /\ events \in Seq(Event)  BY DEF TypeOK
  <2>2. e \in Event  BY <1>0, <2>1
  <2> QED  BY <2>2 DEF Event
<1>2. e.kind \in {"paid", "failed", "deleted"} /\ n # 0  BY <1>0, <1>1 DEF Applies, Continues
<1>3. PICK d : d = events[n]  OBVIOUS
<1>4. /\ d.kind # "deleted" /\ d.sub = e.sub
      /\ e.kind \in {"paid", "failed"} => d.plan = e.plan
      /\ e.kind = "paid" => d.status = "active" /\ e.status = "active"
  BY <1>0, <1>2, <1>3 DEF Continues
<1>5. row.sub = e.sub /\ (~ overridden => row.plan = d.plan /\ row.status = d.status)
  BY <1>2, <1>3, <1>4 DEF Follows, EndsAt
<1>6. e.kind = "paid"  BY <1>0, <1>2, <1>5 DEF Applies
<1>7. n + 1 # 0  OBVIOUS
<1> QED  BY <1>0, <1>4, <1>5, <1>6, <1>7 DEF Follows, EndsAt

\* What a handler makes of a row that its event concerns and that follows the event
\* before it, or, the second time, the event itself.
LEMMA AppliedResult ==
    ASSUME TypeOK, NEW n \in Nat, n < Len(events), Continues(n + 1),
           Follows(n) \/ Follows(n + 1), NEW e, e = events[n + 1],
           NEW read \in Row, Applies(e, read), read.sub = row.sub
    PROVE  /\ e \in Event
           /\ Result(e, read).sub = IF e.kind = "deleted" THEN NoSub ELSE e.sub
           /\ \/ e.kind \in {"paid", "failed"}
              \/ Result(e, read).plan = IF e.kind = "deleted" THEN Free ELSE e.plan
           /\ overridden \/ read # row
                \/ Result(e, read).plan = IF e.kind = "deleted" THEN Free ELSE e.plan
           /\ e.kind = "deleted" \/ Result(e, read).status = e.status
<1>1. e \in Event /\ e.kind \in Kinds
  <2>1. n + 1 \in 1..Len(events) /\ events \in Seq(Event)  BY DEF TypeOK
  <2>2. e \in Event  BY <2>1
  <2> QED  BY <2>2 DEF Event
<1>2. n + 1 # 0  OBVIOUS
<1>3. PICK d : d = events[n]  OBVIOUS
<1>4. /\ n = 0 => e.kind = "updated"
      /\ n # 0 => d.kind # "deleted" /\ d.sub = e.sub
      /\ n # 0 /\ e.kind \in {"checkout", "paid", "failed"} => d.plan = e.plan
      /\ e.kind \in {"checkout", "paid"} => e.status = "active"
      /\ e.kind = "failed" => e.status = "past_due"
  BY <1>3 DEF Continues
<1>5. e.kind \in {"checkout", "paid", "failed"} => row.sub = e.sub
  BY <1>2, <1>3, <1>4 DEF Follows, EndsAt
<1>6. e.kind \in {"checkout", "paid", "failed"} /\ ~ overridden => row.plan = e.plan
  BY <1>2, <1>3, <1>4 DEF Follows, EndsAt
<1>7. CASE e.kind = "updated"
  <2>1. Result(e, read) = Upsert(e, read)  BY <1>7 DEF Result
  <2> QED  BY <1>1, <1>7, <2>1 DEF Upsert
<1>8. CASE e.kind = "checkout"
  <2>1. Result(e, read) = Upsert(e, read)  BY <1>8 DEF Result
  <2> QED  BY <1>1, <1>4, <1>5, <1>8, <2>1 DEF Upsert
<1>9. CASE e.kind = "deleted"
  <2>1. Result(e, read) = DowngradeToFree(read)  BY <1>9 DEF Result
  <2> QED  BY <1>1, <1>9, <2>1 DEF DowngradeToFree
<1>10. CASE e.kind = "paid"
  <2>1. Result(e, read) = [read EXCEPT !.status = "active"]  BY <1>10 DEF Result
  <2>2. /\ Result(e, read).status = "active" /\ Result(e, read).sub = read.sub
        /\ Result(e, read).plan = read.plan
    BY <2>1 DEF Row
  <2> QED  BY <1>1, <1>4, <1>5, <1>6, <1>10, <2>2
<1>11. CASE e.kind = "failed"
  <2>1. Result(e, read) = [read EXCEPT !.status = "past_due"]  BY <1>11 DEF Result
  <2>2. /\ Result(e, read).status = "past_due" /\ Result(e, read).sub = read.sub
        /\ Result(e, read).plan = read.plan
    BY <2>1 DEF Row
  <2> QED  BY <1>1, <1>4, <1>5, <1>6, <1>11, <2>2
<1> QED  BY <1>1, <1>7, <1>8, <1>9, <1>10, <1>11

\* To a row that has not changed since it was read the columns go as they are.
LEMMA FlushUnchanged ==
    ASSUME NEW read \in Row, NEW new \in Row
    PROVE  /\ Flush(read, read, new).plan = new.plan
           /\ Flush(read, read, new).status = new.status
<1>1. DOMAIN read = {"plan", "status", "sub", "customer", "period"}  BY DEF Row
<1> QED  BY <1>1 DEF Flush

\* A commit brings the row to its event.
LEMMA CommitFollows ==
    ASSUME TypeOK, NEW n \in Nat, NEW r \in Requests, Progress(n), Commit(r),
           \A k \in 1..Len(events) : Continues(k)
    PROVE  n < Len(events) /\ request[r].event = n + 1 /\ Follows(n + 1)'
<1>1. /\ request[r].event = n + 1
      /\ Applies(events[n + 1], request[r].read)
      /\ request[r].read.sub = row.sub
      /\ overridden \/ request[r].read = row
  BY DEF Progress, Stands, Commit
<1>2. n + 1 \in 1..Len(events) /\ n < Len(events) /\ Len(events) \in Nat
  <2>1. request[r].event \in DOMAIN events /\ events \in Seq(Event)  BY EventAtHand DEF TypeOK, Commit
  <2> QED  BY <1>1, <2>1
<1>3. PICK e : e = events[n + 1]  OBVIOUS
<1>4. PICK read : read = request[r].read  OBVIOUS
<1>5. read \in Row /\ row \in Row /\ overridden \in BOOLEAN  BY <1>4, EventAtHand DEF Commit, TypeOK
<1>6. Follows(n) \/ Follows(n + 1)  BY DEF Progress
<1>7. /\ e \in Event
      /\ Result(e, read).sub = IF e.kind = "deleted" THEN NoSub ELSE e.sub
      /\ \/ e.kind \in {"paid", "failed"}
         \/ Result(e, read).plan = IF e.kind = "deleted" THEN Free ELSE e.plan
      /\ overridden \/ read # row
           \/ Result(e, read).plan = IF e.kind = "deleted" THEN Free ELSE e.plan
      /\ e.kind = "deleted" \/ Result(e, read).status = e.status
  BY <1>1, <1>2, <1>3, <1>4, <1>5, <1>6, AppliedResult
<1>8. row'.sub = IF Result(e, read).sub # read.sub THEN Result(e, read).sub ELSE row.sub
  BY <1>1, <1>3, <1>4, CommitWrites
<1>9. row'.sub = IF e.kind = "deleted" THEN NoSub ELSE e.sub  BY <1>1, <1>4, <1>7, <1>8
<1>10. /\ row' = Flush(row, read, Result(e, read)) /\ events' = events
       /\ overridden' = (overridden /\ (e.kind \in {"paid", "failed"} \/ row # read))
  BY <1>1, <1>3, <1>4 DEF Commit, stripeVars
<1>11. Result(e, read) \in Row  BY <1>5, <1>7, ResultTyped
<1>12. ASSUME ~ overridden'
       PROVE  /\ row'.plan = IF e.kind = "deleted" THEN Free ELSE e.plan
              /\ e.kind = "deleted" \/ row'.status = e.status
  <2>1. row = read /\ (overridden => e.kind \notin {"paid", "failed"})
    BY <1>1, <1>4, <1>5, <1>10, <1>12
  <2>2. row'.plan = Result(e, read).plan /\ row'.status = Result(e, read).status
    BY <1>5, <1>10, <1>11, <2>1, FlushUnchanged
  <2> QED  BY <1>7, <2>1, <2>2
<1>13. n + 1 # 0 /\ events'[n + 1] = e  BY <1>3, <1>10
<1>14. Follows(n + 1)'  BY <1>9, <1>12, <1>13 DEF Follows, EndsAt
<1> QED  BY <1>1, <1>2, <1>14

\* One request moves, the others being idle.
LEMMA OthersIdle ==
    ASSUME TypeOK, NEW n \in Nat, Progress(n), NEW r \in Requests, request[r].at # "idle"
    PROVE  \A q \in Requests : q # r => request[q].at = "idle"
BY DEF Progress, Busy

LEMMA StandsIdle ==
    ASSUME NEW n \in Nat, NEW q \in Requests, request'[q].at = "idle"
    PROVE  Stands(q, n)'
BY DEF Stands

\* What is left to show where one request has moved.
LEMMA ProgressBy ==
    ASSUME NEW n \in Nat, NEW r \in Requests,
           \A q \in Requests : q # r => request'[q].at = "idle",
           n <= Len(events), events' = events, settled' = 1..n,
           settled' \subseteq recorded', recorded' \subseteq 1..(n + 1),
           Follows(n)' \/ (n < Len(events) /\ Follows(n + 1)'),
           n + 1 \in recorded' => Follows(n + 1)',
           Stands(r, n)'
    PROVE  Progress(n)'
<1>1. \A q \in Requests : Stands(q, n)'  BY StandsIdle
<1>2. \A p, q \in Busy' : p = q  BY DEF Busy
<1> QED  BY <1>1, <1>2 DEF Progress

LEMMA FollowsStill ==
    ASSUME NEW k \in Nat, UNCHANGED <<row, overridden, events>>
    PROVE  Follows(k)' <=> Follows(k)
BY DEF Follows, EndsAt

\* A step of a request keeps the invariant: it brings the row to its event, or the
\* settled events to the row.
LEMMA MirrorRequestStep ==
    ASSUME TypeOK, MirrorInv, OneSubscriptionInOrder, NEW r \in Requests,
           (\E e \in DOMAIN events : Receive(r, e)) \/ Handle(r) \/ Fail(r)
    PROVE  (\E n \in Nat : Progress(n)') /\ events' = events /\ stripe' = stripe
<1> USE DEF stripeVars
<1>0. PICK n \in Nat : Progress(n)  BY DEF MirrorInv
<1>1. /\ n <= Len(events) /\ settled = 1..n /\ settled \subseteq recorded
      /\ recorded \subseteq 1..(n + 1)
      /\ Follows(n) \/ (n < Len(events) /\ Follows(n + 1))
      /\ n + 1 \in recorded => Follows(n + 1)
      /\ Stands(r, n) /\ n + 1 \in Nat
  BY <1>0 DEF Progress
<1>2. /\ request \in [Requests -> Tasks] /\ events \in Seq(Event) /\ Len(events) \in Nat
      /\ DOMAIN events = 1..Len(events) /\ request[r].at # "idle" => request[r].event \in 1..Len(events)
  BY DEF TypeOK, Tasks
<1>3. Redis = TRUE /\ Delivery = "ordered"  BY DEF OneSubscriptionInOrder
<1>4. \A k \in 1..Len(events) : Continues(k)  BY DEF MirrorInv
<1>5. ASSUME NEW e \in DOMAIN events, Receive(r, e)
      PROVE  Progress(n)' /\ events' = events /\ stripe' = stripe
  <2>1. /\ Busy = {} /\ \A f \in Unsettled : f < e => e \in settled
    BY <1>3, <1>5 DEF Receive, Sends
  <2>2. /\ request'[r] = [at |-> IF e \in recorded THEN "answer" ELSE "read",
                          event |-> e, read |-> FreeRow]
        /\ \A q \in Requests : q # r => request'[q] = request[q]
        /\ UNCHANGED <<settled, recorded, row, overridden, events, stripe>>
    BY <1>2, <1>3, <1>5 DEF Receive
  <2>3. /\ request'[r].at = IF e \in recorded THEN "answer" ELSE "read"
        /\ request'[r].event = e
    BY <2>2
  <2>4. \A q \in Requests : q # r => request'[q].at = "idle"  BY <2>1, <2>2 DEF Busy
  <2>5. e \notin recorded => e = n + 1
    <3> SUFFICES ASSUME e \notin recorded PROVE e = n + 1  OBVIOUS
    <3>1. e \notin settled /\ e \in 1..Len(events)  BY <1>1, <1>2
    <3>2. e > n  BY <1>1, <3>1
    <3>3. n + 1 \in Unsettled  BY <1>1, <1>2, <3>1, <3>2 DEF Unsettled
    <3>4. ~ (n + 1 < e)  BY <2>1, <3>1, <3>3
    <3> QED  BY <3>1, <3>2, <3>4
  <2>6. e \in recorded => e \in 1..n \/ e = n + 1  BY <1>1
  <2>7. Stands(r, n)'  BY <2>2, <2>3, <2>5, <2>6 DEF Stands
  <2>8. (Follows(n)' <=> Follows(n)) /\ (Follows(n + 1)' <=> Follows(n + 1))
    BY <1>1, <2>2, FollowsStill
  <2> QED  BY <1>1, <2>2, <2>4, <2>7, <2>8, ProgressBy
<1>6. ASSUME Read(r) PROVE Progress(n)' /\ events' = events /\ stripe' = stripe
  <2>1. /\ request[r].at = "read"
        /\ UNCHANGED <<settled, recorded, row, overridden, events, stripe>>
        /\ request'[r].read = row /\ request'[r].event = request[r].event
        /\ request'[r].at = IF Applies(events[request[r].event], row) THEN "commit" ELSE "record"
        /\ \A q \in Requests : q # r => request'[q] = request[q]
    BY <1>2, <1>6 DEF Read, Tasks
  <2>2. \A q \in Requests : q # r => request'[q].at = "idle"  BY <1>0, <2>1, OthersIdle
  <2>3. request[r].event = n + 1 /\ n + 1 \notin recorded /\ n < Len(events)
    BY <1>1, <1>2, <2>1 DEF Stands
  <2>4. Continues(n + 1)  BY <1>1, <1>2, <1>4, <2>3
  <2>5. ~ Applies(events[n + 1], row) => Follows(n + 1)  BY <1>1, <2>3, <2>4, NothingToApply
  <2>6. (Follows(n)' <=> Follows(n)) /\ (Follows(n + 1)' <=> Follows(n + 1))
    BY <1>1, <2>1, FollowsStill
  <2>7. Applies(events[n + 1], row) => Applies(events[n + 1], request[r].read)'  BY <2>1 DEF Applies
  <2>8. Stands(r, n)'  BY <2>1, <2>3, <2>5, <2>6, <2>7 DEF Stands
  <2> QED  BY <1>1, <2>1, <2>2, <2>6, <2>8, ProgressBy
<1>7. ASSUME Commit(r) PROVE Progress(n)' /\ events' = events /\ stripe' = stripe
  <2>1. /\ request[r].at = "commit" /\ UNCHANGED <<settled, recorded, events, stripe>>
        /\ request'[r].at = "record" /\ request'[r].event = request[r].event
        /\ \A q \in Requests : q # r => request'[q] = request[q]
    BY <1>2, <1>7 DEF Commit, Goto, Tasks
  <2>2. \A q \in Requests : q # r => request'[q].at = "idle"  BY <1>0, <2>1, OthersIdle
  <2>3. n < Len(events) /\ request[r].event = n + 1 /\ Follows(n + 1)'
    BY <1>0, <1>4, <1>7, CommitFollows
  <2>4. Stands(r, n)'  BY <2>1, <2>3 DEF Stands
  <2> QED  BY <1>1, <2>1, <2>2, <2>3, <2>4, ProgressBy
<1>8. ASSUME Record(r) PROVE Progress(n)' /\ events' = events /\ stripe' = stripe
  <2>1. /\ request[r].at = "record" /\ UNCHANGED <<settled, row, overridden, events, stripe>>
        /\ recorded' = recorded \cup {request[r].event}
        /\ request'[r].at = "answer" /\ request'[r].event = request[r].event
        /\ \A q \in Requests : q # r => request'[q] = request[q]
    BY <1>2, <1>3, <1>8 DEF Record, Goto, Tasks
  <2>2. \A q \in Requests : q # r => request'[q].at = "idle"  BY <1>0, <2>1, OthersIdle
  <2>3. request[r].event = n + 1 /\ Follows(n + 1)  BY <1>1, <2>1 DEF Stands
  <2>4. (Follows(n)' <=> Follows(n)) /\ (Follows(n + 1)' <=> Follows(n + 1))
    BY <1>1, <2>1, FollowsStill
  <2>5. recorded' \subseteq 1..(n + 1) /\ settled' \subseteq recorded' /\ n + 1 \in recorded'
    <3>1. recorded' = recorded \cup {n + 1} /\ settled' = settled  BY <2>1, <2>3
    <3>2. recorded' \subseteq 1..(n + 1)  BY <1>1, <3>1
    <3>3. settled' \subseteq recorded'  BY <1>1, <3>1
    <3> QED  BY <3>1, <3>2, <3>3
  <2>6. Stands(r, n)'  BY <2>1, <2>3, <2>5 DEF Stands
  <2> QED  BY <1>1, <2>1, <2>2, <2>3, <2>4, <2>5, <2>6, ProgressBy
<1>9. ASSUME Answer(r) PROVE (\E m \in Nat : Progress(m)') /\ events' = events /\ stripe' = stripe
  <2>1. /\ request[r].at = "answer" /\ UNCHANGED <<recorded, row, overridden, events, stripe>>
        /\ settled' = settled \cup {request[r].event}
        /\ request'[r].at = "idle"
        /\ \A q \in Requests : q # r => request'[q] = request[q]
    BY <1>2, <1>9 DEF Answer, Idle
  <2>2. \A q \in Requests : q # r => request'[q].at = "idle"  BY <1>0, <2>1, OthersIdle
  <2>3. request[r].event \in 1..n \/ (request[r].event = n + 1 /\ n + 1 \in recorded)
    BY <1>1, <2>1 DEF Stands
  <2>4. (Follows(n)' <=> Follows(n)) /\ (Follows(n + 1)' <=> Follows(n + 1))
    BY <1>1, <2>1, FollowsStill
  <2>5. CASE request[r].event \in 1..n
    <3>1. settled' = 1..n  BY <1>1, <2>1, <2>5
    <3>2. Stands(r, n)'  BY <2>1, StandsIdle
    <3>3. Progress(n)'  BY <1>1, <2>1, <2>2, <2>4, <3>1, <3>2, ProgressBy
    <3> QED  BY <2>1, <3>3
  <2>6. CASE request[r].event = n + 1 /\ n + 1 \in recorded
    <3>0. PICK m \in Nat : m = n + 1  BY <1>1
    <3>1. settled' = 1..m  BY <1>1, <2>1, <2>6, <3>0
    <3>2. Stands(r, m)'  BY <2>1, StandsIdle
    <3>3. Follows(m)'  BY <1>1, <2>4, <2>6, <3>0
    <3>4. m <= Len(events)  BY <1>2, <2>1, <2>6, <3>0
    <3>5. settled' \subseteq recorded' /\ recorded' \subseteq 1..(m + 1) /\ m + 1 \notin recorded'
      BY <1>1, <2>1, <2>6, <3>0, <3>1
    <3>6. Progress(m)'  BY <2>1, <2>2, <3>1, <3>2, <3>3, <3>4, <3>5, ProgressBy
    <3> QED  BY <2>1, <3>6
  <2> QED  BY <2>3, <2>5, <2>6
<1>10. ASSUME Fail(r) PROVE Progress(n)' /\ events' = events /\ stripe' = stripe
  <2>1. /\ request[r].at # "idle"
        /\ UNCHANGED <<settled, recorded, row, overridden, events, stripe>>
        /\ request'[r].at = "idle"
        /\ \A q \in Requests : q # r => request'[q] = request[q]
    BY <1>2, <1>10 DEF Fail, Idle
  <2>2. \A q \in Requests : q # r => request'[q].at = "idle"  BY <1>0, <2>1, OthersIdle
  <2>3. (Follows(n)' <=> Follows(n)) /\ (Follows(n + 1)' <=> Follows(n + 1))
    BY <1>1, <2>1, FollowsStill
  <2>4. Stands(r, n)'  BY <2>1, StandsIdle
  <2> QED  BY <1>1, <2>1, <2>2, <2>3, <2>4, ProgressBy
<1> QED  BY <1>5, <1>6, <1>7, <1>8, <1>9, <1>10 DEF Handle

\* An administrator's plan leaves the subscription of the row alone.
LEMMA MirrorOverride ==
    ASSUME TypeOK, MirrorInv, NEW p \in Plans, OverridePlan(p)
    PROVE  MirrorInv'
<1> USE DEF stripeVars, deliveryVars
<1>0. PICK n \in Nat : Progress(n)  BY DEF MirrorInv
<1>1. /\ row'.sub = row.sub /\ overridden' = TRUE
      /\ UNCHANGED <<stripe, events, settled, recorded, request>>
  BY DEF OverridePlan, TypeOK, Row
<1>2. \A k \in Nat : Follows(k) => Follows(k)'  BY <1>1 DEF Follows, EndsAt
<1>3. n + 1 \in Nat  OBVIOUS
<1>4. \A r \in Requests : Stands(r, n)'
  <2> TAKE r \in Requests
  <2>1. Stands(r, n)  BY <1>0 DEF Progress
  <2>2. Applies(events[n + 1], request[r].read) => Applies(events[n + 1], request[r].read)'
    BY <1>1 DEF Applies
  <2> QED  BY <1>1, <1>2, <1>3, <2>1, <2>2 DEF Stands
<1>5. Progress(n)'
  <2>1. \A r, q \in Busy' : r = q  BY <1>0, <1>1 DEF Progress, Busy
  <2> QED  BY <1>0, <1>1, <1>2, <1>3, <1>4, <2>1 DEF Progress
<1>6. (\A k \in 1..Len(events) : Continues(k)) /\ \A s \in Subs : LastEventIsStripe(s)  BY DEF MirrorInv
<1>7. (\A k \in 1..Len(events') : Continues(k)') /\ \A s \in Subs : LastEventIsStripe(s)'
  BY <1>1, <1>6 DEF Continues, LastEventIsStripe, Live
<1> QED  BY <1>5, <1>7 DEF MirrorInv

LEMMA MirrorStep ==
    ASSUME TypeOK, MirrorInv, OneSubscriptionInOrder, [Next]_vars
    PROVE  MirrorInv'
<1> USE DEF stripeVars, deliveryVars
<1>k. ASSUME \E n \in Nat : Progress(n)', events' = events, stripe' = stripe
      PROVE  MirrorInv'
  <2>1. (\A k \in 1..Len(events) : Continues(k)) /\ \A s \in Subs : LastEventIsStripe(s)
    BY DEF MirrorInv
  <2>2. (\A k \in 1..Len(events') : Continues(k)') /\ \A s \in Subs : LastEventIsStripe(s)'
    BY <1>k, <2>1 DEF Continues, LastEventIsStripe, Live
  <2> QED  BY <1>k, <2>2 DEF MirrorInv
<1>1. ASSUME UNCHANGED <<stripe, events, settled, recorded, row, request, overridden>>
      PROVE  MirrorInv'
  <2>1. PICK n \in Nat : Progress(n)  BY DEF MirrorInv
  <2>2. Len(events) \in Nat  BY DEF TypeOK
  <2>3. Progress(n)'  BY <1>1, <2>1, <2>2, ProgressOn
  <2> QED  BY <1>1, <1>k, <2>3
<1>2. ASSUME NEW s \in Subs, NEW p \in PaidPlans, OpenCheckout(s, p) PROVE MirrorInv'
  BY <1>1, <1>2 DEF OpenCheckout
<1>3. CASE \/ \E s \in Subs, full \in BOOLEAN : CompleteCheckout(s, full)
           \/ \E s \in Subs, p \in PaidPlans : ChangePlan(s, p)
           \/ \E s \in Subs : RenewalFails(s) \/ PaymentRecovers(s) \/ EndSubscription(s)
  BY <1>3, MirrorStripeStep
<1>4. ASSUME NEW r \in Requests, (\E e \in DOMAIN events : Receive(r, e)) \/ Handle(r) \/ Fail(r)
      PROVE  MirrorInv'
  <2>1. (\E n \in Nat : Progress(n)') /\ events' = events /\ stripe' = stripe
    BY <1>4, MirrorRequestStep
  <2> QED  BY <1>k, <2>1
<1>5. ASSUME NEW p \in Plans, OverridePlan(p) PROVE MirrorInv'  BY <1>5, MirrorOverride
<1>6. CASE UNCHANGED vars  BY <1>1, <1>6 DEF vars
<1> QED  BY <1>2, <1>3, <1>4, <1>5, <1>6 DEF Next

LEMMA MirrorStart == OneSubscriptionInOrder /\ Init => MirrorInv
<1> SUFFICES ASSUME OneSubscriptionInOrder, Init PROVE MirrorInv  OBVIOUS
<1>1. Len(events) = 0  BY DEF Init
<1>2. /\ settled = {} /\ recorded = {} /\ row = FreeRow /\ overridden = FALSE
      /\ \A r \in Requests : request[r].at = "idle"
      /\ \A s \in Subs : stripe[s].state = "none"
  BY DEF Init, Idle
<1>3. Follows(0)  BY <1>2 DEF Follows, EndsAt, FreeRow
<1>4. \A r \in Requests : Stands(r, 0)  BY <1>2 DEF Stands
<1>5. Progress(0)
  <2>1. settled = 1..0 /\ Busy = {}  BY <1>2 DEF Busy
  <2> QED  BY <1>1, <1>2, <1>3, <1>4, <2>1 DEF Progress
<1>6. \A s \in Subs : LastEventIsStripe(s)  BY <1>1, <1>2 DEF LastEventIsStripe
<1> QED  BY <1>1, <1>5, <1>6 DEF MirrorInv

\* When everything is settled, the row follows the last event.
LEMMA MirrorShows ==
    ASSUME TypeOK, MirrorInv, OneSubscriptionInOrder
    PROVE  Mirrors
<1> SUFFICES ASSUME Quiet, ~ overridden
             PROVE  /\ \A s \in Subs : Live(s) =>
                          row.plan = stripe[s].plan /\ row.status = stripe[s].state /\ row.sub = s
                    /\ (\A s \in Subs : ~ Live(s)) => row.plan = Free /\ row.sub = NoSub
  BY DEF Mirrors
<1>1. PICK s \in Subs : Subs = {s}  BY DEF OneSubscriptionInOrder
<1>2. PICK n \in Nat : Progress(n)  BY DEF MirrorInv
<1>3. DOMAIN events = 1..Len(events) /\ Len(events) \in Nat /\ stripe[s] \in StripeStates
  BY DEF TypeOK, StripeStates
<1>4. n = Len(events) /\ Follows(n)
  <2>1. PICK m \in Nat : m = Len(events)  BY <1>3
  <2>2. n <= m /\ settled = 1..n  BY <1>2, <2>1 DEF Progress
  <2>3. Follows(n) \/ n < m  BY <1>2, <2>1 DEF Progress
  <2>4. 1..m \subseteq 1..n  BY <1>3, <2>1, <2>2 DEF Quiet, Unsettled
  <2>5. n = m  BY <2>2, <2>4
  <2> QED  BY <2>1, <2>3, <2>5, SMTT(30)
<1>5. LastEventIsStripe(s)  BY DEF MirrorInv
<1>6. stripe[s].state \in {"none", "active", "past_due", "ended"}  BY <1>3 DEF StripeStates
<1>7. /\ Live(s) => n # 0 /\ events[n].kind # "deleted"
      /\ ~ Live(s) => EndsAt(n)
  BY <1>4, <1>5, <1>6 DEF LastEventIsStripe, Live, EndsAt
<1>8. Live(s) => row.plan = stripe[s].plan /\ row.status = stripe[s].state /\ row.sub = s
  BY <1>3, <1>4, <1>5, <1>7 DEF LastEventIsStripe, Follows, EndsAt
<1>9. ~ Live(s) => row.plan = Free /\ row.sub = NoSub  BY <1>4, <1>7 DEF Follows
<1> QED  BY <1>1, <1>8, <1>9

\* With one subscription, Redis, and Stripe's events delivered in order - however often
\* a delivery fails half way or comes again, and whatever plans administrators set in
\* between - the row at rest says what Stripe says: nothing that was paid for is lost
\* and nothing that has ended stays granted (handle_webhook_event, upsert_from_stripe).
THEOREM RowMirrorsStripe ==
    ASSUME OneSubscriptionInOrder
    PROVE  Spec => []Mirrors
<1>1. Init => MirrorInv  BY MirrorStart
<1>2. TypeOK /\ MirrorInv /\ [Next]_vars => MirrorInv'  BY MirrorStep
<1>3. TypeOK /\ MirrorInv => Mirrors  BY MirrorShows
<1> QED  BY <1>1, <1>2, <1>3, BillingTypeCorrect, PTL DEF Spec

-----------------------------------------------------------------------------
(* FinanceAdvice: numbers *)

HIDE DEF Plans, Kinds

\* A non-empty set of numbers has a least one.
LEMMA LeastOne ==
    ASSUME NEW T \in SUBSET Nat, T # {}
    PROVE  \E x \in T : \A y \in T : x <= y
<1> DEFINE Less == {w \in Nat \X Nat : w[1] < w[2]}
<1>1. IsWellFoundedOn(Less, Nat)  BY NatLessThanWellFounded DEF OpToRel
<1> HIDE DEF Less
<1>2. PICK x \in T : \A y \in T : ~ (<<y, x>> \in Less)  BY <1>1, WFMin
<1>3. ASSUME NEW y \in T PROVE x <= y
  <2>1. x \in Nat /\ y \in Nat  OBVIOUS
  <2>2. y < x => <<y, x>> \in Less  BY <2>1 DEF Less
  <2> QED  BY <1>2, <2>1, <2>2
<1> QED  BY <1>3

LEMMA DivDef ==
    ASSUME NEW a \in Int, NEW b \in Nat \ {0}
    PROVE  /\ a \div b \in Int
           /\ b * (a \div b) <= a
           /\ a < b * (a \div b) + b
  OBVIOUS

\* Division is monotone.
LEMMA DivMono ==
    ASSUME NEW a \in Int, NEW c \in Int, NEW b \in Nat \ {0}, a <= c
    PROVE  a \div b <= c \div b
  OBVIOUS

\* Rounding up keeps at most what dividing by more leaves.
LEMMA CeilDivFacts ==
    ASSUME NEW a \in Nat, NEW b \in Nat \ {0}
    PROVE  /\ CeilDiv(a, b) \in Nat
           /\ a > 0 => CeilDiv(a, b) > 0
           /\ \A c \in Nat \ {0} : b <= c => CeilDiv(a, c) <= CeilDiv(a, b)
<1>1. PICK n \in Int : n = (-a) \div b /\ b * n <= -a /\ -a < b * n + b  BY DivDef
<1>2. n <= 0
  <2>1. CASE n > 0
    <3>1. b * n > 0  BY <2>1
    <3> QED  BY <1>1, <3>1
  <2> QED  BY <2>1, <1>1
<1>3. a > 0 => n < 0  BY <1>1, <1>2
<1>4. ASSUME NEW c \in Nat \ {0}, b <= c PROVE CeilDiv(a, c) <= CeilDiv(a, b)
  <2>1. PICK m \in Int : m = (-a) \div c /\ c * m <= -a /\ -a < c * m + c  BY DivDef
  <2>2. c * n <= b * n  BY <1>2, <1>4
  <2>3. m >= n
    <3>1. CASE m < n
      <4>1. c * (m + 1) <= c * n  BY <3>1, <2>1, <1>1
      <4>2. c * m + c <= -a  BY <4>1, <2>2, <1>1, <2>1
      <4> QED  BY <4>2, <2>1
    <3> QED  BY <3>1, <2>1, <1>1
  <2> QED  BY <2>3, <2>1, <1>1 DEF CeilDiv
<1> QED  BY <1>1, <1>2, <1>3, <1>4 DEF CeilDiv

\* What rounding gives is within a half.
LEMMA RoundUpFacts ==
    ASSUME NEW a \in Int, NEW b \in Nat \ {0}
    PROVE  /\ RoundHalfUp(a, b) \in Int
           /\ 2 * (b * RoundHalfUp(a, b)) <= 2 * a + b
           /\ 2 * a < 2 * (b * RoundHalfUp(a, b)) + b
<1>1. PICK n \in Int : n = (2 * a + b) \div (2 * b) /\ (2 * b) * n <= 2 * a + b /\ 2 * a + b < (2 * b) * n + 2 * b
  BY DivDef
<1> QED  BY <1>1 DEF RoundHalfUp

\* Of two fractions the smaller is not rounded to more.
LEMMA RoundUpMono ==
    ASSUME NEW a \in Int, NEW b \in Nat \ {0}, NEW c \in Int, NEW d \in Nat \ {0}, a * d <= c * b
    PROVE  RoundHalfUp(a, b) <= RoundHalfUp(c, d)
<1>1. PICK n \in Int : n = RoundHalfUp(a, b) /\ 2 * (b * n) <= 2 * a + b  BY RoundUpFacts
<1>2. PICK m \in Int : m = RoundHalfUp(c, d) /\ 2 * c < 2 * (d * m) + d  BY RoundUpFacts
<1>3. CASE m < n
  <2>1. (2 * (b * n)) * d <= (2 * a + b) * d  BY <1>1
  <2>2. (2 * c) * b < (2 * (d * m) + d) * b  BY <1>2
  <2>3. (b * d) * (m + 1) <= (b * d) * n
    <3>1. PICK e \in Nat : e = b * d  OBVIOUS
    <3>2. e * (m + 1) <= e * n  BY <1>1, <1>2, <1>3, <3>1
    <3> QED  BY <3>1, <3>2
  <2>4. PICK x \in Int, y \in Int, z \in Int, w \in Int, e \in Int :
          x = a * d /\ y = c * b /\ z = (b * d) * n /\ w = (b * d) * m /\ e = b * d
    BY <1>1, <1>2
  <2>5. 2 * z <= 2 * x + e  BY <2>1, <2>4
  <2>6. 2 * y < 2 * w + e  BY <2>2, <2>4
  <2>7. w + e <= z  BY <2>3, <2>4
  <2> QED  BY <2>4, <2>5, <2>6, <2>7
<1> QED  BY <1>3, <1>1, <1>2

LEMMA RoundEvenMono ==
    ASSUME NEW a \in Int, NEW c \in Int, NEW b \in Nat \ {0}, a <= c
    PROVE  /\ RoundHalfEven(a, b) \in Int
           /\ RoundHalfEven(a, b) <= RoundHalfEven(c, b)
<1>1. PICK n \in Int : n = RoundHalfUp(a, b)  BY RoundUpFacts
<1>2. PICK m \in Int : m = RoundHalfUp(c, b)  BY RoundUpFacts
<1>3. a * b <= c * b  OBVIOUS
<1>4. n <= m  BY <1>1, <1>2, <1>3, RoundUpMono
<1>5. PICK u \in Int : u = 2 * b * n  BY <1>1
<1>6. PICK v \in Int : v = 2 * b * m  BY <1>2
<1>7. RoundHalfUp(a, b) = RoundHalfUp(c, b) => u = v  BY <1>1, <1>2, <1>5, <1>6
<1>8. u <= 2 * a + b
  <2>1. 2 * (b * n) <= 2 * a + b  BY <1>1, RoundUpFacts
  <2> QED  BY <2>1, <1>5
<1>9. RoundHalfEven(a, b) = IF 2 * a + b = u /\ n % 2 = 1 THEN n - 1 ELSE n
  BY <1>1, <1>5 DEF RoundHalfEven
<1>10. RoundHalfEven(c, b) = IF 2 * c + b = v /\ m % 2 = 1 THEN m - 1 ELSE m
  BY <1>2, <1>6 DEF RoundHalfEven
<1> QED  BY <1>1, <1>2, <1>4, <1>5, <1>6, <1>7, <1>8, <1>9, <1>10

-----------------------------------------------------------------------------
(* FinanceAdvice: taxes *)

\* The parts of the general regime's tax: they fall with what is taxed, and by no more than
\* their share of it.
VatOn(x) == (12 * AtLeastZero(x)) \div 100
ProfitTax(x) == (15 * AtLeastZero(x)) \div 100

LEMMA PartsFall ==
    ASSUME NEW x \in Int, NEW y \in Int, y <= x
    PROVE  /\ VatOn(x) \in Int /\ VatOn(y) \in Int /\ ProfitTax(x) \in Int /\ ProfitTax(y) \in Int
           /\ VatOn(y) <= VatOn(x) /\ ProfitTax(y) <= ProfitTax(x)
           /\ 100 * (VatOn(x) - VatOn(y)) <= 12 * (x - y) + 99
           /\ 100 * (ProfitTax(x) - ProfitTax(y)) <= 15 * (x - y) + 99
<1>1. PICK u \in Nat : u = AtLeastZero(x)  BY DEF AtLeastZero
<1>2. PICK v \in Nat : v = AtLeastZero(y)  BY DEF AtLeastZero
<1>3. v <= u /\ u - v <= x - y  BY <1>1, <1>2 DEF AtLeastZero
<1>4. /\ VatOn(x) \in Int /\ VatOn(y) \in Int /\ VatOn(y) <= VatOn(x)
      /\ 100 * (VatOn(x) - VatOn(y)) <= 12 * (x - y) + 99
  BY <1>1, <1>2, <1>3 DEF VatOn
<1>5. /\ ProfitTax(x) \in Int /\ ProfitTax(y) \in Int /\ ProfitTax(y) <= ProfitTax(x)
      /\ 100 * (ProfitTax(x) - ProfitTax(y)) <= 15 * (x - y) + 99
  BY <1>1, <1>2, <1>3 DEF ProfitTax
<1> QED  BY <1>4, <1>5

\* What calculate_tax_regimes is given: amounts, and whether it is a person.
Taxable(t) == {t.revenue, t.goods, t.payroll, t.costs} \subseteq Nat

TaxOn(t) == (12 * t.payroll) \div 100
GeneralTax(t) ==
    TaxOn(t) + VatOn(t.revenue - t.goods) + ProfitTax(t.revenue - t.goods - t.payroll - t.costs)

LEMMA PercentOf ==
    ASSUME NEW a \in Int
    PROVE  /\ Percent(a, 1) = a \div 100 /\ Percent(a, 4) = (4 * a) \div 100
           /\ Percent(a, 12) = (12 * a) \div 100 /\ Percent(a, 15) = (15 * a) \div 100
           /\ Percent(a, 1) \in Int /\ Percent(a, 4) \in Int
           /\ Percent(a, 12) \in Int /\ Percent(a, 15) \in Int
  BY DEF Percent

LEMMA TaxValues ==
    ASSUME NEW t, Taxable(t)
    PROVE  /\ TaxOf("self_employed", t) = TaxOn(t) + t.revenue \div 100
           /\ TaxOf("turnover", t) = TaxOn(t) + (4 * t.revenue) \div 100
           /\ TaxOf("general", t) = GeneralTax(t)
           /\ TaxOn(t) \in Int
           /\ \A r \in {"self_employed", "turnover", "general"} : TaxOf(r, t) \in Int
<1>1. /\ t.revenue \in Nat /\ t.goods \in Nat /\ t.payroll \in Nat /\ t.costs \in Nat
  BY DEF Taxable
<1>2. SocialTax(t) = TaxOn(t) /\ TaxOn(t) \in Int
  <2>1. PICK pay \in Int : pay = t.payroll  BY <1>1
  <2>2. Percent(pay, 12) = (12 * pay) \div 100 /\ Percent(pay, 12) \in Int  BY PercentOf
  <2> QED  BY <2>1, <2>2 DEF SocialTax, TaxOn
<1> PICK R \in Int : R = t.revenue  BY <1>1
<1>10. /\ Percent(R, 1) = R \div 100 /\ Percent(R, 1) \in Int
       /\ Percent(R, 4) = (4 * R) \div 100 /\ Percent(R, 4) \in Int
  BY PercentOf
<1>3. TaxOf("self_employed", t) = TaxOn(t) + t.revenue \div 100  BY <1>2, <1>10 DEF TaxOf
<1>4. TaxOf("turnover", t) = TaxOn(t) + (4 * t.revenue) \div 100  BY <1>2, <1>10 DEF TaxOf
<1>5. PICK x \in Int : x = AtLeastZero(t.revenue - t.goods)  BY <1>1 DEF AtLeastZero
<1>6. PICK y \in Int : y = AtLeastZero(t.revenue - t.goods - t.payroll - t.costs)
  BY <1>1 DEF AtLeastZero
<1>7. TaxOf("general", t) = TaxOn(t) + ((12 * x) \div 100 + (15 * y) \div 100)
  <2>1. TaxOf("general", t) = SocialTax(t) + (Percent(x, 12) + Percent(y, 15))  BY <1>5, <1>6 DEF TaxOf
  <2> QED
    <3>1. /\ Percent(x, 12) = (12 * x) \div 100 /\ Percent(x, 12) \in Int
          /\ Percent(y, 15) = (15 * y) \div 100 /\ Percent(y, 15) \in Int
      BY PercentOf
    <3> QED  BY <2>1, <1>2, <3>1
<1>8. TaxOf("general", t) = GeneralTax(t)  BY <1>2, <1>5, <1>6, <1>7 DEF GeneralTax, VatOn, ProfitTax
<1>9. ASSUME NEW r \in {"self_employed", "turnover", "general"} PROVE TaxOf(r, t) \in Int
  <2>1. CASE r = "general"  BY <2>1, <1>2, <1>7
  <2>2. CASE r # "general"  BY <2>2, <1>2, <1>3, <1>4
  <2> QED  BY <2>1, <2>2
<1> QED  BY <1>2, <1>3, <1>4, <1>8, <1>9

\* The regime chosen is open to the business, and none that is open costs less.
ChosenRegime(t, best) ==
    /\ best \in {"self_employed", "turnover", "general"} /\ Eligible(best, t)
    /\ CompareRegimes(t).regime = best
    /\ CompareRegimes(t).annual = TaxOf(best, t)
    /\ CompareRegimes(t).monthly = TaxOf(best, t) \div 12
    /\ \A r \in {"self_employed", "turnover", "general"} : Eligible(r, t) => TaxOf(best, t) <= TaxOf(r, t)

LEMMA CheapestRegime ==
    ASSUME NEW t, Taxable(t)
    PROVE  \E best : ChosenRegime(t, best)
<1> DEFINE Open == {i \in DOMAIN Regimes : Eligible(Regimes[i], t)}
           Tax(i) == TaxOf(Regimes[i], t)
           First(i) == \A j \in Open : Tax(i) < Tax(j) \/ (Tax(i) = Tax(j) /\ i <= j)
<1>1. DOMAIN Regimes = {1, 2, 3} /\ Regimes[1] = "self_employed" /\ Regimes[2] = "turnover" /\ Regimes[3] = "general"
  BY DEF Regimes
<1>2. 3 \in Open  BY <1>1 DEF Eligible
<1>3. Tax(1) \in Int /\ Tax(2) \in Int /\ Tax(3) \in Int  BY <1>1, TaxValues
<1>4. Open \subseteq {1, 2, 3}  BY <1>1
<1>5. \E i \in Open : First(i)
  <2> HIDE DEF Open, Tax
  <2>1. CASE 1 \in Open /\ 2 \in Open  BY <2>1, <1>2, <1>3, <1>4
  <2>2. CASE 1 \in Open /\ 2 \notin Open  BY <2>2, <1>2, <1>3, <1>4
  <2>3. CASE 1 \notin Open /\ 2 \in Open  BY <2>3, <1>2, <1>3, <1>4
  <2>4. CASE 1 \notin Open /\ 2 \notin Open  BY <2>4, <1>2, <1>3, <1>4
  <2> QED  BY <2>1, <2>2, <2>3, <2>4
<1>6. PICK b : b = CHOOSE i \in Open : First(i)  OBVIOUS
<1>7. b \in Open /\ First(b)  BY <1>5, <1>6
<1>8. CompareRegimes(t).regime = Regimes[b] /\ CompareRegimes(t).annual = Tax(b) /\ CompareRegimes(t).monthly = Tax(b) \div 12
  BY <1>6 DEF CompareRegimes
<1>9. ASSUME NEW r \in {"self_employed", "turnover", "general"}, Eligible(r, t) PROVE TaxOf(Regimes[b], t) <= TaxOf(r, t)
  <2>1. PICK j \in {1, 2, 3} : r = Regimes[j]  BY <1>1
  <2>2. j \in Open  BY <2>1, <1>9, <1>1
  <2>3. Tax(b) \in Int /\ Tax(j) \in Int  BY <1>3, <1>4, <1>7, <2>1
  <2>4. Tax(b) <= Tax(j)
    <3> HIDE DEF Open, Tax
    <3> QED  BY <2>2, <2>3, <1>7
  <2> QED  BY <2>1, <2>4
<1>10. Regimes[b] \in {"self_employed", "turnover", "general"} /\ Eligible(Regimes[b], t)  BY <1>1, <1>7
<1> QED  BY <1>8, <1>9, <1>10 DEF ChosenRegime

\* What is dearer in costs is not dearer in taxes, in any regime; whether one is open depends on neither.
CostsMore(u, t) ==
    /\ Taxable(t) /\ Taxable(u)
    /\ u.revenue = t.revenue /\ u.payroll = t.payroll /\ u.individual = t.individual
    /\ u.goods >= t.goods /\ u.costs >= t.costs

LEMMA CostsSave ==
    ASSUME NEW t, NEW u, CostsMore(u, t), NEW r \in {"self_employed", "turnover", "general"}
    PROVE  /\ Eligible(r, u) = Eligible(r, t)
           /\ TaxOf(r, u) <= TaxOf(r, t)
           /\ \A K \in Nat : u.goods = t.goods /\ u.costs = t.costs + 12 * K
                                => 100 * (TaxOf(r, t) - TaxOf(r, u)) <= 180 * K + 99
<1>1. /\ t.revenue \in Nat /\ t.goods \in Nat /\ t.payroll \in Nat /\ t.costs \in Nat
      /\ u.goods \in Nat /\ u.costs \in Nat /\ u.revenue = t.revenue /\ u.payroll = t.payroll
      /\ u.goods >= t.goods /\ u.costs >= t.costs /\ Taxable(t) /\ Taxable(u)
  BY DEF CostsMore, Taxable
<1>2. Eligible(r, u) = Eligible(r, t)  BY DEF CostsMore, Eligible
<1>3. TaxOn(u) = TaxOn(t) /\ TaxOn(t) \in Int  BY <1>1, TaxValues DEF TaxOn
<1>4. CASE r # "general"
  <2>1. TaxOf(r, u) = TaxOf(r, t) /\ TaxOf(r, t) \in Int  BY <1>1, <1>3, <1>4, TaxValues
  <2> QED  BY <1>2, <2>1
<1>5. CASE r = "general"
  <2>1. PICK T \in Int : T = TaxOn(t)  BY <1>3
  <2>2. PICK a \in Int : a = t.revenue - t.goods - t.payroll - t.costs  BY <1>1
  <2>3. PICK b \in Int : b = u.revenue - u.goods - u.payroll - u.costs  BY <1>1
  <2>4. b <= a /\ \A K \in Nat : u.goods = t.goods /\ u.costs = t.costs + 12 * K => a - b = 12 * K
    BY <1>1, <2>2, <2>3
  <2>5. PICK e \in Int : e = t.revenue - t.goods  BY <1>1
  <2>6. PICK f \in Int : f = u.revenue - u.goods /\ f <= e  BY <1>1, <2>5
  <2>7. PICK v \in Int, w \in Int : v = VatOn(e) /\ w = VatOn(f) /\ w <= v /\ (u.goods = t.goods => w = v)
    <3>1. VatOn(e) \in Int /\ VatOn(f) \in Int /\ VatOn(f) <= VatOn(e)  BY <2>5, <2>6, PartsFall
    <3>2. u.goods = t.goods => f = e  BY <1>1, <2>5, <2>6
    <3> QED  BY <3>1, <3>2
  <2>8. PICK x \in Int, y \in Int : x = ProfitTax(a) /\ y = ProfitTax(b) /\ y <= x /\ 100 * (x - y) <= 15 * (a - b) + 99
    BY <2>4, PartsFall, ZenonT(60)
  <2>9. TaxOf(r, t) = T + v + x /\ TaxOf(r, u) = T + w + y
    <3>1. GeneralTax(t) = T + v + x /\ GeneralTax(u) = T + w + y
      BY <1>3, <2>1, <2>2, <2>3, <2>5, <2>6, <2>7, <2>8 DEF GeneralTax
    <3> QED  BY <1>1, <1>5, <3>1, TaxValues
  <2>10. ASSUME NEW K \in Nat, u.goods = t.goods, u.costs = t.costs + 12 * K
         PROVE  100 * (TaxOf(r, t) - TaxOf(r, u)) <= 180 * K + 99
    <3>1. a - b = 12 * K /\ v = w  BY <2>4, <2>7, <2>10
    <3> QED  BY <2>8, <2>9, <3>1
  <2> QED  BY <1>2, <2>7, <2>8, <2>9, <2>10
<1> QED  BY <1>4, <1>5

\* Higher costs never raise the tax of the regime to choose, and a rent saves less than itself.
LEMMA CostsSaveAtBest ==
    ASSUME NEW t, NEW u, CostsMore(u, t)
    PROVE  /\ CompareRegimes(u).annual <= CompareRegimes(t).annual
           /\ \A K \in Nat \ {0} : u.goods = t.goods /\ u.costs = t.costs + 12 * K
                => /\ CompareRegimes(t).monthly - CompareRegimes(u).monthly <= K
                   /\ K > 1 => CompareRegimes(t).monthly - CompareRegimes(u).monthly < K
<1>1. Taxable(t) /\ Taxable(u)  BY DEF CostsMore
<1>2. PICK b : ChosenRegime(t, b)  BY <1>1, CheapestRegime
<1>3. PICK c : ChosenRegime(u, c)  BY <1>1, CheapestRegime
<1>4. b \in {"self_employed", "turnover", "general"} /\ c \in {"self_employed", "turnover", "general"}
  BY <1>2, <1>3 DEF ChosenRegime
<1>5. PICK x \in Int, y \in Int, z \in Int, w \in Int :
        x = TaxOf(b, t) /\ y = TaxOf(c, u) /\ z = TaxOf(b, u) /\ w = TaxOf(c, t)
  BY <1>1, <1>4, TaxValues
<1>6. y <= z
  <2>1. Eligible(b, u)  BY <1>2, <1>4, CostsSave DEF ChosenRegime
  <2> QED  BY <2>1, <1>3, <1>4, <1>5 DEF ChosenRegime
<1>7. x <= w
  <2>1. Eligible(c, t)  BY <1>3, <1>4, CostsSave DEF ChosenRegime
  <2> QED  BY <2>1, <1>2, <1>4, <1>5 DEF ChosenRegime
<1>8. z <= x  BY <1>4, <1>5, CostsSave
<1>9. CompareRegimes(u).annual = y /\ CompareRegimes(t).annual = x  BY <1>2, <1>3, <1>5 DEF ChosenRegime
<1>10. CompareRegimes(u).monthly = y \div 12 /\ CompareRegimes(t).monthly = x \div 12
  BY <1>2, <1>3, <1>5 DEF ChosenRegime
<1>11. ASSUME NEW K \in Nat \ {0}, u.goods = t.goods, u.costs = t.costs + 12 * K
       PROVE  /\ x \div 12 - y \div 12 <= K
              /\ K > 1 => x \div 12 - y \div 12 < K
  <2>1. K \in Nat  OBVIOUS
  <2>2. 100 * (w - y) <= 180 * K + 99  BY <1>4, <1>5, <1>11, <2>1, CostsSave
  <2> QED  BY <2>2, <1>7
<1> QED  BY <1>6, <1>8, <1>9, <1>10, <1>11

-----------------------------------------------------------------------------
(* FinanceAdvice: the business plan *)

\* A city of the catalogue.
Known(city) == city \in DOMAIN City

LEMMA PlanAmounts ==
    ASSUME NEW p \in PlanRequests, NEW city, Known(city)
    PROVE  /\ p.rent \in Nat /\ p.capital \in Nat /\ p.sector.margin \in 4 .. 99
           /\ Payroll(p, city) \in Nat /\ OtherCosts(p, city) \in Nat
           /\ FixedCosts(p, city) \in Nat
           /\ FixedCosts(p, city) = p.rent + Payroll(p, city) + OtherCosts(p, city)
           /\ Capacity(p) \in Nat \ {0}
           /\ PlannedRevenue(p) \in Nat
           /\ \A r \in Nat : p.expected = {r} => PlannedRevenue(p) = r
           /\ Percent(PlannedRevenue(p), p.sector.margin) \in Int
           /\ Taxable(TaxInputs(p, city))
<1>1. /\ p.sector \in Sectors /\ p.staff \in Staff /\ p.rent \in Rents /\ p.capital \in Capitals
      /\ p.expected \in {{}} \cup {{r} : r \in Revenues}
  BY DEF PlanRequests
<1>2. /\ p.rent \in Nat /\ p.capital \in Nat /\ p.staff \in Nat
      /\ p.sector.margin \in 4 .. 99 /\ p.sector.other \in Nat /\ p.sector.capacity \in Nat \ {0}
  BY <1>1, FinanceAssumption
<1>3. City[city].salary \in Nat /\ City[city].index \in Nat  BY FinanceAssumption DEF Known
<1>4. \A a \in Nat, b \in Nat : a * b \in Nat /\ Percent(a, b) \in Nat
  <2> TAKE a \in Nat, b \in Nat
  <2>1. PICK x \in Nat : x = a * b  OBVIOUS
  <2>2. x \div 100 \in Nat  OBVIOUS
  <2> QED  BY <2>1, <2>2 DEF Percent
<1>5. Payroll(p, city) \in Nat  BY <1>2, <1>3, <1>4 DEF Payroll
<1>6. OtherCosts(p, city) \in Nat  BY <1>2, <1>3, <1>4 DEF OtherCosts
<1>7. Capacity(p) \in Nat \ {0}
  <2>1. PICK n \in Nat \ {0} : n = IF p.staff > 1 THEN p.staff ELSE 1  BY <1>2
  <2>2. PICK c \in Nat \ {0} : c = p.sector.capacity  BY <1>2
  <2>3. n * c \in Nat \ {0}  OBVIOUS
  <2> QED  BY <2>1, <2>2, <2>3 DEF Capacity
<1>8. PlannedRevenue(p) \in Nat /\ \A r \in Nat : p.expected = {r} => PlannedRevenue(p) = r
  <2>1. CASE p.expected = {}  BY <2>1, <1>7, <1>4 DEF PlannedRevenue
  <2>2. CASE p.expected # {}
    <3>1. PICK r \in Revenues : p.expected = {r}  BY <2>2, <1>1
    <3>2. r \in Nat  BY FinanceAssumption
    <3>3. PlannedRevenue(p) = r  BY <3>1 DEF PlannedRevenue
    <3> QED  BY <3>1, <3>2, <3>3
  <2> QED  BY <2>1, <2>2
<1>9. PICK a \in Nat : a = PlannedRevenue(p)  BY <1>8
<1>10. /\ Percent(PlannedRevenue(p), p.sector.margin) \in Nat
       /\ Percent(PlannedRevenue(p), 100 - p.sector.margin) \in Nat
  <2>1. PICK m \in Nat : m = p.sector.margin  BY <1>2
  <2>2. PICK k \in Nat : k = 100 - p.sector.margin  BY <1>2
  <2>3. Percent(a, m) \in Nat /\ Percent(a, k) \in Nat  BY <1>4
  <2> QED  BY <2>1, <2>2, <2>3, <1>9
<1>11. Taxable(TaxInputs(p, city))  BY <1>2, <1>5, <1>6, <1>8, <1>10 DEF Taxable, TaxInputs
<1> QED  BY <1>2, <1>5, <1>6, <1>7, <1>8, <1>10, <1>11 DEF FixedCosts

LEMMA ProfitIs ==
    ASSUME NEW p \in PlanRequests, NEW city, Known(city)
    PROVE  /\ CompareRegimes(TaxInputs(p, city)).monthly \in Int
           /\ NetProfit(p, city) \in Int
           /\ NetProfit(p, city) = Percent(PlannedRevenue(p), p.sector.margin) - FixedCosts(p, city)
                                   - CompareRegimes(TaxInputs(p, city)).monthly
<1>1. Taxable(TaxInputs(p, city))  BY PlanAmounts
<1>2. PICK b : ChosenRegime(TaxInputs(p, city), b)  BY <1>1, CheapestRegime
<1>3. TaxOf(b, TaxInputs(p, city)) \in Int  BY <1>1, <1>2, TaxValues DEF ChosenRegime
<1>4. CompareRegimes(TaxInputs(p, city)).monthly \in Int  BY <1>2, <1>3 DEF ChosenRegime
<1> QED  BY <1>4, PlanAmounts DEF NetProfit

\* The verdict is worse where less is earned, more of the capacity is needed, and what the
\* capital is paid back with is less.
LEMMA WorseVerdict ==
    ASSUME NEW p \in PlanRequests, NEW q \in PlanRequests, NEW city, Known(city), q.capital = p.capital,
           NetProfit(q, city) <= NetProfit(p, city),
           Utilisation(p, city) \in Int, Utilisation(q, city) \in Int,
           Utilisation(p, city) <= Utilisation(q, city)
    PROVE  Worse(Verdict(q, city), Verdict(p, city))
<1>1. PICK n \in Int : n = NetProfit(p, city)  BY ProfitIs
<1>2. PICK m \in Int : m = NetProfit(q, city)  BY ProfitIs
<1>3. PICK c \in Nat : c = p.capital  BY PlanAmounts
<1>4. m > 0 /\ c > 0 => /\ Payback(p, city) \in Int /\ Payback(q, city) \in Int
                        /\ Payback(p, city) <= Payback(q, city)
  <2>1. HAVE m > 0 /\ c > 0
  <2>2. n \in Nat \ {0} /\ m \in Nat \ {0} /\ m <= n  BY <2>1, <1>1, <1>2
  <2>3. CeilDiv(c, m) \in Nat /\ CeilDiv(c, n) \in Nat /\ CeilDiv(c, n) <= CeilDiv(c, m)
    BY <2>2, CeilDivFacts
  <2>4. Payback(p, city) = CeilDiv(c, n) /\ Payback(q, city) = CeilDiv(c, m)
    BY <2>1, <2>2, <1>1, <1>2, <1>3 DEF Payback
  <2> QED  BY <2>3, <2>4
<1>5. c = 0 => Payback(p, city) = -1 /\ Payback(q, city) = -1  BY <1>3 DEF Payback, NoPayback
<1>7. m > 0 \/ Verdict(q, city) = "unprofitable"  BY <1>2 DEF Verdict
<1>8. Verdict(p, city) \in {"unprofitable", "tight", "viable"} /\ Verdict(q, city) \in {"unprofitable", "tight", "viable"}
  BY DEF Verdict
<1>9. CASE Verdict(q, city) = "unprofitable"  BY <1>8, <1>9 DEF Worse, VerdictRank
<1>10. CASE m > 0 /\ Verdict(q, city) # "unprofitable"
  <2>1. Utilisation(q, city) <= 900 /\ Utilisation(p, city) <= 900  BY <1>2, <1>10 DEF Verdict
  <2>2. n > 0 /\ Verdict(p, city) # "unprofitable"  BY <1>1, <1>2, <1>10, <2>1 DEF Verdict
  <2>3. CASE Verdict(q, city) = "tight"  BY <2>2, <2>3, <1>8 DEF Worse, VerdictRank
  <2>4. CASE Verdict(q, city) = "viable"
    <3>1. ~ (Utilisation(q, city) > 600) /\ ~ (Payback(q, city) > 24)
      BY <2>4, <2>1, <1>2, <1>10 DEF Verdict
    <3>2. ~ (Utilisation(p, city) > 600)  BY <3>1
    <3>3. ~ (Payback(p, city) > 24)
      <4>1. CASE c > 0  BY <4>1, <3>1, <1>4, <1>10
      <4>2. CASE c = 0  BY <4>2, <1>5
      <4> QED  BY <4>1, <4>2, <1>3
    <3>4. Verdict(p, city) = "viable"  BY <3>2, <3>3, <2>1, <2>2, <1>1 DEF Verdict
    <3> QED  BY <3>4, <2>4 DEF Worse, VerdictRank
  <2> QED  BY <2>3, <2>4, <1>8, <1>10
<1> QED  BY <1>7, <1>9, <1>10

\* A higher rent: never a better verdict, never a higher profit.
LEMMA RentCosts ==
    ASSUME NEW p \in PlanRequests, NEW rent \in Rents, rent > p.rent, NEW city, Known(city)
    PROVE  /\ Worse(Verdict([p EXCEPT !.rent = rent], city), Verdict(p, city))
           /\ NetProfit([p EXCEPT !.rent = rent], city) <= NetProfit(p, city)
           /\ rent > p.rent + 1 => NetProfit([p EXCEPT !.rent = rent], city) < NetProfit(p, city)
<1>1. PICK q : q = [p EXCEPT !.rent = rent]  OBVIOUS
<1>2. /\ q \in PlanRequests /\ q.rent = rent /\ q.sector = p.sector /\ q.staff = p.staff /\ q.capital = p.capital
      /\ q.expected = p.expected /\ q.individual = p.individual
  BY <1>1 DEF PlanRequests
<1>3. /\ Payroll(q, city) = Payroll(p, city) /\ OtherCosts(q, city) = OtherCosts(p, city)
      /\ Capacity(q) = Capacity(p)
  BY <1>2 DEF Payroll, OtherCosts, Capacity
<1>4. PlannedRevenue(q) = PlannedRevenue(p)  BY <1>2, <1>3 DEF PlannedRevenue
<1>5. PICK K \in Nat \ {0} : rent = p.rent + K
  <2>1. rent \in Nat /\ p.rent \in Nat  BY PlanAmounts, FinanceAssumption
  <2>2. rent - p.rent \in Nat \ {0} /\ rent = p.rent + (rent - p.rent)  BY <2>1
  <2> QED  BY <2>2
<1>6. FixedCosts(q, city) = FixedCosts(p, city) + K
  <2>1. p.rent \in Nat /\ Payroll(p, city) \in Nat /\ OtherCosts(p, city) \in Nat  BY PlanAmounts
  <2> QED  BY <2>1, <1>2, <1>3, <1>5 DEF FixedCosts
<1>7. PICK t : t = TaxInputs(p, city)  OBVIOUS
<1>8. PICK u : u = TaxInputs(q, city)  OBVIOUS
<1>9. CostsMore(u, t) /\ u.goods = t.goods /\ u.costs = t.costs + 12 * K
  <2>1. Taxable(t) /\ Taxable(u)  BY <1>2, <1>7, <1>8, PlanAmounts
  <2>2. /\ u.revenue = t.revenue /\ u.payroll = t.payroll /\ u.goods = t.goods /\ u.individual = t.individual
    BY <1>2, <1>3, <1>4, <1>7, <1>8 DEF TaxInputs
  <2>3. u.costs = t.costs + 12 * K
    <3>1. PICK o \in Nat : o = OtherCosts(p, city)  BY PlanAmounts
    <3>2. PICK n \in Nat : n = p.rent  BY PlanAmounts
    <3>3. t.costs = 12 * (n + o) /\ u.costs = 12 * (n + K + o)
      BY <1>2, <1>3, <1>5, <1>7, <1>8, <3>1, <3>2 DEF TaxInputs
    <3> QED  BY <3>3
  <2> QED  BY <2>1, <2>2, <2>3 DEF CostsMore, Taxable
<1>10. PICK x \in Int : x = CompareRegimes(t).monthly  BY <1>7, ProfitIs
<1>11. PICK y \in Int : y = CompareRegimes(u).monthly  BY <1>2, <1>8, ProfitIs
<1>12. x - y <= K /\ (K > 1 => x - y < K)  BY <1>9, <1>10, <1>11, CostsSaveAtBest
<1>13. PICK g \in Int : g = Percent(PlannedRevenue(p), p.sector.margin)  BY PlanAmounts
<1>14. PICK f \in Nat : f = FixedCosts(p, city)  BY PlanAmounts
<1>15. NetProfit(p, city) = g - f - x  BY <1>7, <1>10, <1>13, <1>14, ProfitIs
<1>16. NetProfit(q, city) = g - (f + K) - y  BY <1>2, <1>4, <1>6, <1>8, <1>11, <1>13, <1>14, ProfitIs
<1>17. NetProfit(q, city) <= NetProfit(p, city) /\ (K > 1 => NetProfit(q, city) < NetProfit(p, city))
  BY <1>12, <1>15, <1>16
<1>18. BreakEven(p, city) \in Int /\ BreakEven(q, city) \in Int /\ BreakEven(p, city) <= BreakEven(q, city)
  <2>1. PICK m \in Nat \ {0} : m = p.sector.margin  BY PlanAmounts
  <2>2. 100 * f \in Int /\ 100 * (f + K) \in Int /\ 100 * f <= 100 * (f + K)  OBVIOUS
  <2>3. (100 * f) \div m <= (100 * (f + K)) \div m /\ (100 * f) \div m \in Int /\ (100 * (f + K)) \div m \in Int
    BY <2>2, DivMono, DivDef
  <2>4. BreakEven(p, city) = (100 * f) \div m /\ BreakEven(q, city) = (100 * (f + K)) \div m
    BY <1>2, <1>6, <1>14, <2>1 DEF BreakEven
  <2> QED  BY <2>3, <2>4
<1>19. /\ Utilisation(p, city) \in Int /\ Utilisation(q, city) \in Int
       /\ Utilisation(p, city) <= Utilisation(q, city)
  <2>1. PICK a \in Int, b \in Int : a = 1000 * BreakEven(p, city) /\ b = 1000 * BreakEven(q, city) /\ a <= b
    BY <1>18
  <2>2. PICK c \in Nat \ {0} : c = Capacity(p)  BY PlanAmounts
  <2>3. RoundHalfEven(a, c) \in Int /\ RoundHalfEven(a, c) <= RoundHalfEven(b, c) /\ RoundHalfEven(b, c) \in Int
    BY <2>1, RoundEvenMono
  <2> QED  BY <1>3, <2>1, <2>2, <2>3 DEF Utilisation
<1>20. Worse(Verdict(q, city), Verdict(p, city))  BY <1>2, <1>17, <1>19, WorseVerdict
<1>21. rent > p.rent + 1 => K > 1
  <2>1. p.rent \in Nat  BY PlanAmounts
  <2> QED  BY <2>1, <1>5
<1> QED  BY <1>1, <1>17, <1>20, <1>21

\* What is left of a turnover r, of which X hundredths are the margin, after its purchases.
ValueAdded(r, X) == r - (100 * r - X) \div 100

\* What a regime takes of a turnover a with a margin of X hundredths, beside the tax N on wages
\* and with e of other costs.
TaxedAs(regime, a, X, N, e) ==
    CASE regime = "self_employed" -> N + (12 * a) \div 100
      [] regime = "turnover" -> N + (4 * (12 * a)) \div 100
      [] OTHER -> N + VatOn(12 * ValueAdded(a, X)) + ProfitTax(12 * ValueAdded(a, X) - e)

\* The tax of a month grows by a som more than the margin at most.
TakesLess(x, y, X, Y) == y \div 12 - x \div 12 <= Y \div 100 - X \div 100 + 1

\* Of more turnover, of which at least 4 % are margin, each regime takes a som more than the margin at most.
LEMMA TurnoverTaxed ==
    ASSUME NEW a \in Nat, NEW r \in Nat, a < r, NEW X \in Nat, NEW Y \in Nat, Y - X >= 4 * (r - a),
           NEW N \in Int, NEW e \in Int, NEW regime \in {"self_employed", "turnover", "general"},
           TaxedAs(regime, a, X, N, e) \in Int, TaxedAs(regime, r, Y, N, e) \in Int
    PROVE  TakesLess(TaxedAs(regime, a, X, N, e), TaxedAs(regime, r, Y, N, e), X, Y)
<1> PICK x \in Int, y \in Int : x = TaxedAs(regime, a, X, N, e) /\ y = TaxedAs(regime, r, Y, N, e)
  OBVIOUS
<1> SUFFICES y \div 12 - x \div 12 <= Y \div 100 - X \div 100 + 1  BY DEF TakesLess
<1>1. CASE regime = "self_employed"
  <2>1. x = N + (12 * a) \div 100 /\ y = N + (12 * r) \div 100  BY <1>1 DEF TaxedAs
  <2> QED  BY <2>1
<1>2. CASE regime = "turnover"
  <2>1. x = N + (4 * (12 * a)) \div 100 /\ y = N + (4 * (12 * r)) \div 100  BY <1>2 DEF TaxedAs
  <2> QED  BY <2>1
<1>3. CASE regime = "general"
  <2>1. PICK g \in Int : g = ValueAdded(a, X)  BY DEF ValueAdded
  <2>2. PICK h \in Int : h = ValueAdded(r, Y)  BY DEF ValueAdded
  <2>3. g <= h /\ Y \div 100 - X \div 100 >= (h - g) - 1  BY <2>1, <2>2 DEF ValueAdded
  <2>4. PICK k \in Nat : k = h - g  BY <2>3
  <2>5. PICK v \in Int, w \in Int : /\ v = VatOn(12 * g) /\ w = VatOn(12 * h)
                                    /\ (k = 0 => w = v) /\ 100 * (w - v) <= 144 * k + 99
    <3>1. PICK b \in Int, c \in Int : b = 12 * g /\ c = 12 * h /\ b <= c /\ c - b = 12 * k
      BY <2>3, <2>4
    <3>0. b <= c  BY <3>1
    <3>2. VatOn(b) \in Int /\ VatOn(c) \in Int /\ 100 * (VatOn(c) - VatOn(b)) <= 12 * (c - b) + 99
      BY <3>0, PartsFall
    <3>3. k = 0 => b = c  BY <3>1
    <3> QED  BY <3>1, <3>2, <3>3
  <2>6. PICK s \in Int, t \in Int : /\ s = ProfitTax(12 * g - e) /\ t = ProfitTax(12 * h - e)
                                    /\ (k = 0 => t = s) /\ 100 * (t - s) <= 180 * k + 99
    <3>1. PICK b \in Int, c \in Int : b = 12 * g - e /\ c = 12 * h - e /\ b <= c /\ c - b = 12 * k
      BY <2>3, <2>4
    <3>0. b <= c  BY <3>1
    <3>2. ProfitTax(b) \in Int /\ ProfitTax(c) \in Int /\ 100 * (ProfitTax(c) - ProfitTax(b)) <= 15 * (c - b) + 99
      BY <3>0, PartsFall
    <3>3. k = 0 => b = c  BY <3>1
    <3> QED  BY <3>1, <3>2, <3>3
  <2>7. x = N + v + s /\ y = N + w + t  BY <1>3, <2>1, <2>2, <2>5, <2>6 DEF TaxedAs
  <2>8. y \div 12 - x \div 12 <= k
    <3>1. CASE k = 0  BY <3>1, <2>5, <2>6, <2>7
    <3>2. CASE k > 0
      <4>1. 100 * (y - x) <= 324 * k + 198  BY <2>5, <2>6, <2>7
      <4> QED  BY <3>2, <4>1
    <3> QED  BY <3>1, <3>2
  <2> QED  BY <2>3, <2>4, <2>8
<1> QED  BY <1>1, <1>2, <1>3

CapOf(regime) == IF regime = "self_employed" THEN SelfEmployedCap ELSE TurnoverCap

\* More turnover leaves less by a rounding at most, unless it ends the regime.
LEMMA TurnoverLeaves ==
    ASSUME NEW p \in PlanRequests, p.expected # {}, NEW r \in Revenues, r > PlannedRevenue(p),
           NEW city, Known(city), ~ (12 * r > CapOf(CompareRegimes(TaxInputs(p, city)).regime))
    PROVE  NetProfit([p EXCEPT !.expected = {r}], city) >= NetProfit(p, city) - 1
<1>1. PICK q : q = [p EXCEPT !.expected = {r}]  OBVIOUS
<1>2. /\ q \in PlanRequests /\ q.rent = p.rent /\ q.sector = p.sector /\ q.staff = p.staff
      /\ q.expected = {r} /\ q.individual = p.individual
  BY <1>1 DEF PlanRequests
<1>3. Payroll(q, city) = Payroll(p, city) /\ OtherCosts(q, city) = OtherCosts(p, city)
  BY <1>2 DEF Payroll, OtherCosts
<1>4. FixedCosts(q, city) = FixedCosts(p, city)  BY <1>2, <1>3 DEF FixedCosts
<1>5. PICK a \in Nat : a = PlannedRevenue(p)  BY PlanAmounts
<1>6. r \in Nat  BY FinanceAssumption
<1>7. PICK D \in Nat \ {0} : r = a + D
  <2>1. r - a \in Nat \ {0} /\ r = a + (r - a)  BY <1>5, <1>6
  <2> QED  BY <2>1
<1>8. PlannedRevenue(q) = r  BY <1>2, <1>6, PlanAmounts
<1>9. PICK m \in 4 .. 99 : m = p.sector.margin  BY PlanAmounts
<1>10. PICK X \in Nat : X = a * m  BY <1>5, <1>9
<1>11. PICK Y \in Nat : Y = r * m /\ Y - X >= 4 * D
  <2>1. r * m = a * m + D * m /\ D * m >= D * 4 /\ r * m \in Nat  BY <1>7, <1>9
  <2> QED  BY <2>1, <1>10
<1>12. a * (100 - m) = 100 * a - X /\ r * (100 - m) = 100 * r - Y  BY <1>6, <1>9, <1>10, <1>11
<1>13. PICK t : t = TaxInputs(p, city)  OBVIOUS
<1>14. PICK u : u = TaxInputs(q, city)  OBVIOUS
<1>15. PICK b : ChosenRegime(t, b)  BY <1>13, PlanAmounts, CheapestRegime
<1>16. PICK c : ChosenRegime(u, c)  BY <1>2, <1>14, PlanAmounts, CheapestRegime
<1>17. Taxable(t) /\ Taxable(u) /\ b \in {"self_employed", "turnover", "general"} /\ c \in {"self_employed", "turnover", "general"}
  BY <1>2, <1>13, <1>14, <1>15, <1>16, PlanAmounts DEF ChosenRegime
<1>18. /\ t.revenue = 12 * a /\ u.revenue = 12 * r
       /\ t.goods = 12 * ((100 * a - X) \div 100) /\ u.goods = 12 * ((100 * r - Y) \div 100)
       /\ t.payroll = 12 * Payroll(p, city) /\ u.payroll = t.payroll
       /\ t.costs = 12 * (p.rent + OtherCosts(p, city)) /\ u.costs = t.costs
       /\ u.individual = t.individual
  BY <1>2, <1>3, <1>5, <1>8, <1>9, <1>12, <1>13, <1>14 DEF TaxInputs, Percent
<1>19. Eligible(b, u)
  <2>1. CompareRegimes(t).regime = b /\ Eligible(b, t)  BY <1>15 DEF ChosenRegime
  <2>2. ~ (u.revenue > CapOf(b))  BY <1>13, <1>18, <2>1
  <2>3. u.revenue \in Nat /\ SelfEmployedCap \in Nat /\ TurnoverCap \in Nat
    BY <1>17, FinanceAssumption DEF Taxable
  <2>4. CASE b = "self_employed"
    <3>1. t.individual /\ u.revenue <= SelfEmployedCap  BY <2>1, <2>2, <2>3, <2>4 DEF Eligible, CapOf
    <3> QED  BY <3>1, <1>18, <2>4 DEF Eligible
  <2>5. CASE b = "turnover"
    <3>1. u.revenue <= TurnoverCap  BY <2>2, <2>3, <2>5 DEF CapOf
    <3> QED  BY <3>1, <2>5 DEF Eligible
  <2>6. CASE b = "general"  BY <2>6 DEF Eligible
  <2> QED  BY <1>17, <2>4, <2>5, <2>6
<1>20. PICK x \in Int, y \in Int, z \in Int : x = TaxOf(b, t) /\ y = TaxOf(b, u) /\ z = TaxOf(c, u)
  BY <1>17, TaxValues
<1>21. z <= y  BY <1>16, <1>17, <1>19, <1>20 DEF ChosenRegime
<1>22. PICK N \in Int : N = TaxOn(t) /\ N = TaxOn(u)  BY <1>17, <1>18, TaxValues DEF TaxOn
<1>23. PICK e \in Int : e = t.payroll + t.costs  BY <1>17 DEF Taxable
<1>24. y \div 12 - x \div 12 <= Y \div 100 - X \div 100 + 1
  <2>1. x = TaxedAs(b, a, X, N, e) /\ y = TaxedAs(b, r, Y, N, e)
    <3>1. CASE b = "self_employed"
      <4>1. TaxOf(b, t) = TaxOn(t) + t.revenue \div 100 /\ TaxOf(b, u) = TaxOn(u) + u.revenue \div 100
        BY <1>17, <3>1, TaxValues
      <4>2. x = N + (12 * a) \div 100 /\ y = N + (12 * r) \div 100  BY <4>1, <1>7, <1>18, <1>20, <1>22
      <4> QED  BY <4>2, <3>1 DEF TaxedAs
    <3>2. CASE b = "turnover"
      <4>1. TaxOf(b, t) = TaxOn(t) + (4 * t.revenue) \div 100 /\ TaxOf(b, u) = TaxOn(u) + (4 * u.revenue) \div 100
        BY <1>17, <3>2, TaxValues
      <4>2. x = N + (4 * (12 * a)) \div 100 /\ y = N + (4 * (12 * r)) \div 100
        BY <4>1, <1>7, <1>18, <1>20, <1>22
      <4> QED  BY <4>2, <3>2 DEF TaxedAs
    <3>3. CASE b = "general"
      <4>1. TaxOf(b, t) = GeneralTax(t) /\ TaxOf(b, u) = GeneralTax(u)  BY <1>17, <3>3, TaxValues
      <4>2. t.revenue - t.goods = 12 * ValueAdded(a, X) /\ t.revenue - t.goods - t.payroll - t.costs = 12 * ValueAdded(a, X) - e
        <5>1. PICK w \in Int : w = (100 * a - X) \div 100  OBVIOUS
        <5> QED  BY <5>1, <1>17, <1>18, <1>23 DEF ValueAdded, Taxable
      <4>3. u.revenue - u.goods = 12 * ValueAdded(r, Y) /\ u.revenue - u.goods - u.payroll - u.costs = 12 * ValueAdded(r, Y) - e
        <5>1. PICK w \in Int : w = (100 * r - Y) \div 100  BY <1>6
        <5> QED  BY <5>1, <1>6, <1>7, <1>17, <1>18, <1>23 DEF ValueAdded, Taxable
      <4>4. /\ x = N + VatOn(12 * ValueAdded(a, X)) + ProfitTax(12 * ValueAdded(a, X) - e)
            /\ y = N + VatOn(12 * ValueAdded(r, Y)) + ProfitTax(12 * ValueAdded(r, Y) - e)
        BY <4>1, <4>2, <4>3, <1>20, <1>22 DEF GeneralTax
      <4> QED  BY <4>4, <3>3 DEF TaxedAs
    <3> QED  BY <3>1, <3>2, <3>3, <1>17
  <2>2. PICK n \in Nat : n = r /\ a < n /\ Y - X >= 4 * (n - a)  BY <1>6, <1>7, <1>11
  <2>3. TaxedAs(b, a, X, N, e) \in Int /\ TaxedAs(b, n, Y, N, e) \in Int  BY <2>1, <2>2
  <2>4. TakesLess(TaxedAs(b, a, X, N, e), TaxedAs(b, n, Y, N, e), X, Y)
    BY <2>2, <2>3, <1>17, TurnoverTaxed
  <2> QED  BY <2>1, <2>2, <2>4 DEF TakesLess
<1>25. CompareRegimes(t).monthly = x \div 12 /\ CompareRegimes(u).monthly = z \div 12
  BY <1>15, <1>16, <1>20 DEF ChosenRegime
<1>26. PICK f \in Nat : f = FixedCosts(p, city)  BY PlanAmounts
<1>27. NetProfit(p, city) = X \div 100 - f - x \div 12
  BY <1>5, <1>9, <1>10, <1>13, <1>25, <1>26, ProfitIs DEF Percent
<1>28. NetProfit(q, city) = Y \div 100 - f - z \div 12
  BY <1>2, <1>4, <1>8, <1>9, <1>11, <1>14, <1>25, <1>26, ProfitIs DEF Percent
<1>29. z \div 12 <= y \div 12  BY <1>21
<1>30. NetProfit(q, city) >= NetProfit(p, city) - 1  BY <1>24, <1>27, <1>28, <1>29
<1> QED  BY <1>1, <1>30

\* The cities of a comparison have a best one.
LEMMA BestIsThere ==
    ASSUME NEW D \in SUBSET Nat, D # {}, NEW V \in [D -> Nat], NEW R \in [D -> Nat]
    PROVE  \E i \in D : \A j \in D : /\ V[i] < V[j] \/ (V[i] = V[j] /\ R[i] <= R[j])
                                     /\ j < i => V[i] < V[j] \/ (V[i] = V[j] /\ R[i] < R[j])
<1>1. PICK v \in {V[i] : i \in D} : \A w \in {V[i] : i \in D} : v <= w
  <2>1. {V[i] : i \in D} \in SUBSET Nat /\ {V[i] : i \in D} # {}  OBVIOUS
  <2> QED  BY <2>1, LeastOne
<1> DEFINE E == {i \in D : V[i] = v}
<1>2. PICK r \in {R[i] : i \in E} : \A s \in {R[i] : i \in E} : r <= s
  <2>1. {R[i] : i \in E} \in SUBSET Nat /\ {R[i] : i \in E} # {}  BY <1>1
  <2> QED  BY <2>1, LeastOne
<1> DEFINE F == {i \in E : R[i] = r}
<1>3. PICK i \in F : \A j \in F : i <= j
  <2>1. F \in SUBSET Nat /\ F # {}  BY <1>2
  <2> QED  BY <2>1, LeastOne
<1>4. i \in D /\ V[i] = v /\ R[i] = r /\ i \in Nat /\ V[i] \in Nat /\ R[i] \in Nat  BY <1>3
<1>5. ASSUME NEW j \in D
      PROVE  /\ V[i] < V[j] \/ (V[i] = V[j] /\ R[i] <= R[j])
             /\ j < i => V[i] < V[j] \/ (V[i] = V[j] /\ R[i] < R[j])
  <2>1. j \in Nat /\ V[j] \in Nat /\ R[j] \in Nat /\ v <= V[j]  BY <1>1
  <2>2. CASE v < V[j]  BY <2>1, <2>2, <1>4
  <2>3. CASE V[j] = v
    <3>1. r <= R[j]  BY <2>3, <1>2
    <3>2. R[j] = r => i <= j  BY <2>3, <1>3
    <3> QED  BY <2>1, <2>3, <3>1, <3>2, <1>4
  <2> QED  BY <2>1, <2>2, <2>3, <1>4
<1> QED  BY <1>4, <1>5

\* What the comparison prefers.
Better(x, y) ==
    \/ VerdictRank(x.verdict) < VerdictRank(y.verdict)
    \/ x.verdict = y.verdict /\ PaybackRank(x) < PaybackRank(y)

Rankable(plans) ==
    /\ DOMAIN plans \in SUBSET Nat /\ DOMAIN plans # {}
    /\ \A i \in DOMAIN plans : /\ plans[i].verdict \in {"viable", "tight", "unprofitable"}
                               /\ PaybackRank(plans[i]) \in Nat

LEMMA BestPlanIs ==
    ASSUME NEW plans, Rankable(plans)
    PROVE  \E b \in DOMAIN plans : /\ BestPlan(plans) = plans[b]
                                   /\ \A j \in DOMAIN plans : ~ Better(plans[j], plans[b])
<1> DEFINE D == DOMAIN plans
           V == [i \in D |-> VerdictRank(plans[i].verdict)]
           R == [i \in D |-> PaybackRank(plans[i])]
           First(i) == \A j \in D : ~ Better(plans[j], plans[i]) /\ (j < i => Better(plans[i], plans[j]))
<1>1. \A i \in D : plans[i].verdict \in {"viable", "tight", "unprofitable"} /\ PaybackRank(plans[i]) \in Nat
  BY DEF Rankable
<1>2. \A i \in D : VerdictRank(plans[i].verdict) \in 0 .. 2  BY <1>1 DEF VerdictRank
<1>3. \A i \in D, j \in D : VerdictRank(plans[i].verdict) = VerdictRank(plans[j].verdict)
                             <=> plans[i].verdict = plans[j].verdict
  BY <1>1 DEF VerdictRank
<1>4. D \in SUBSET Nat /\ D # {} /\ V \in [D -> Nat] /\ R \in [D -> Nat]
  <2>1. V \in [D -> Nat]  BY <1>2
  <2>2. R \in [D -> Nat]  BY <1>1
  <2> QED  BY <2>1, <2>2 DEF Rankable
<1>5. PICK i \in D : \A j \in D : /\ V[i] < V[j] \/ (V[i] = V[j] /\ R[i] <= R[j])
                                  /\ j < i => V[i] < V[j] \/ (V[i] = V[j] /\ R[i] < R[j])
  <2> HIDE DEF D, V, R
  <2> QED  BY <1>4, BestIsThere
<1>6. \A k \in D : V[k] = VerdictRank(plans[k].verdict) /\ R[k] = PaybackRank(plans[k])  OBVIOUS
<1> HIDE DEF V, R
<1>7. First(i)
  <2> SUFFICES ASSUME NEW j \in D PROVE ~ Better(plans[j], plans[i]) /\ (j < i => Better(plans[i], plans[j]))
    OBVIOUS
  <2>1. /\ V[i] < V[j] \/ (V[i] = V[j] /\ R[i] <= R[j])
        /\ j < i => V[i] < V[j] \/ (V[i] = V[j] /\ R[i] < R[j])
    BY <1>5
  <2>2. PICK vi \in Nat, vj \in Nat, ri \in Nat, rj \in Nat :
          /\ vi = VerdictRank(plans[i].verdict) /\ vj = VerdictRank(plans[j].verdict)
          /\ ri = PaybackRank(plans[i]) /\ rj = PaybackRank(plans[j])
    BY <1>1, <1>2
  <2>3. /\ vi < vj \/ (vi = vj /\ ri <= rj)
        /\ j < i => vi < vj \/ (vi = vj /\ ri < rj)
    BY <2>1, <2>2, <1>6
  <2>4. vi = vj <=> plans[i].verdict = plans[j].verdict  BY <1>3, <2>2
  <2> QED  BY <2>2, <2>3, <2>4 DEF Better
<1>8. PICK b : b = CHOOSE k \in D : First(k)  OBVIOUS
<1>9. b \in D /\ First(b)  BY <1>7, <1>8
<1>10. BestPlan(plans) = plans[b]  BY <1>8 DEF BestPlan, Better
<1> QED  BY <1>9, <1>10

LEMMA PlanOfCity ==
    ASSUME NEW p \in PlanRequests, NEW city, Known(city)
    PROVE  LET plan == CityPlan(p, city) IN
           /\ plan.city = city /\ plan.net = NetProfit(p, city) /\ plan.verdict = Verdict(p, city)
           /\ plan.payback = Payback(p, city) /\ plan.tax = CompareRegimes(TaxInputs(p, city))
           /\ plan.verdict \in {"viable", "tight", "unprofitable"}
           /\ PaybackRank(plan) \in Nat
           /\ plan.net <= 0 => plan.payback = NoPayback
           /\ plan.net > 0 /\ p.capital > 0 => plan.payback = CeilDiv(p.capital, plan.net) /\ plan.payback \in Nat \ {0}
<1>1. PICK plan : plan = CityPlan(p, city)  OBVIOUS
<1>2. /\ plan.city = city /\ plan.net = NetProfit(p, city) /\ plan.verdict = Verdict(p, city)
      /\ plan.payback = Payback(p, city) /\ plan.tax = CompareRegimes(TaxInputs(p, city))
  BY <1>1 DEF CityPlan
<1>3. plan.verdict \in {"viable", "tight", "unprofitable"}  BY <1>2 DEF Verdict
<1>4. PICK n \in Int : n = NetProfit(p, city)  BY ProfitIs
<1>5. PICK c \in Nat : c = p.capital  BY PlanAmounts
<1>6. n <= 0 => plan.payback = NoPayback  BY <1>2, <1>4 DEF Payback
<1>7. n > 0 /\ c > 0 => plan.payback = CeilDiv(c, n) /\ CeilDiv(c, n) \in Nat \ {0}
  BY <1>2, <1>4, <1>5, CeilDivFacts DEF Payback
<1>8. c = 0 => plan.payback = NoPayback  BY <1>2, <1>5 DEF Payback
<1>9. PaybackRank(plan) \in Nat  BY <1>4, <1>5, <1>6, <1>7, <1>8 DEF PaybackRank, ForGood
<1> QED  BY <1>1, <1>2, <1>3, <1>4, <1>5, <1>6, <1>7, <1>9

\* What a plan is answered with.
PlanAnswered ==
    /\ question \in PlanRequests
    /\ answer = [plans |-> [i \in DOMAIN Cities |-> CityPlan(question, Cities[i])],
                 best |-> BestPlan([i \in DOMAIN Cities |-> CityPlan(question, Cities[i])]).city]

LEMMA CitiesKnown ==
    /\ DOMAIN Cities \in SUBSET Nat /\ DOMAIN Cities # {}
    /\ \A i \in DOMAIN Cities : Known(Cities[i])
<1>1. Cities \in Seq(DOMAIN City) /\ Cities # << >>  BY FinanceAssumption
<1>2. PICK n \in Nat \ {0} : n = Len(Cities) /\ DOMAIN Cities = 1 .. n  BY <1>1
<1>3. DOMAIN Cities \in SUBSET Nat /\ 1 \in DOMAIN Cities  BY <1>2
<1>4. ASSUME NEW i \in DOMAIN Cities PROVE Cities[i] \in DOMAIN City  BY <1>1, <1>2
<1> QED  BY <1>3, <1>4 DEF Known

LEMMA PlanAnswerFits ==
    ASSUME PlanAnswered, NEW i \in DOMAIN Cities
    PROVE  /\ question \in PlanRequests /\ Known(Cities[i])
           /\ answer.plans[i] = CityPlan(question, Cities[i])
           /\ answer.plans[i].net = NetProfit(question, Cities[i])
           /\ answer.plans[i].verdict = Verdict(question, Cities[i])
           /\ answer.plans[i].tax = CompareRegimes(TaxInputs(question, Cities[i]))
  BY CitiesKnown, PlanOfCity DEF PlanAnswered

LEMMA RentNeverHelpsPlans ==
    ASSUME PlanAnswered
    PROVE  RentNeverHelps
<1> SUFFICES ASSUME NEW i \in DOMAIN Cities, NEW rent \in Rents, rent > question.rent
             PROVE  LET dearer == [question EXCEPT !.rent = rent] IN
                    /\ Worse(Verdict(dearer, Cities[i]), answer.plans[i].verdict)
                    /\ NetProfit(dearer, Cities[i]) <= answer.plans[i].net
                    /\ rent > question.rent + 1 => NetProfit(dearer, Cities[i]) < answer.plans[i].net
  BY DEF RentNeverHelps
<1> QED  BY PlanAnswerFits, RentCosts

LEMMA TurnoverPaysPlans ==
    ASSUME PlanAnswered
    PROVE  TurnoverPays
<1> SUFFICES ASSUME question.expected # {}, NEW i \in DOMAIN Cities, NEW r \in Revenues, r > PlannedRevenue(question),
                    NetProfit([question EXCEPT !.expected = {r}], Cities[i]) < answer.plans[i].net - 1
             PROVE  12 * r > CapOf(answer.plans[i].tax.regime)
  BY DEF TurnoverPays, CapOf
<1>1. PICK more : more = [question EXCEPT !.expected = {r}]  OBVIOUS
<1>2. question \in PlanRequests /\ Known(Cities[i])  BY PlanAnswerFits
<1>3. more \in PlanRequests  BY <1>1, <1>2 DEF PlanRequests
<1>4. PICK m \in Int : m = NetProfit(more, Cities[i])  BY <1>2, <1>3, ProfitIs
<1>5. PICK n \in Int : n = NetProfit(question, Cities[i])  BY <1>2, ProfitIs
<1>6. ~ (m >= n - 1)  BY <1>1, <1>4, <1>5, PlanAnswerFits
<1>7. CASE ~ (12 * r > CapOf(CompareRegimes(TaxInputs(question, Cities[i])).regime))
  <2>1. m >= n - 1  BY <1>1, <1>2, <1>4, <1>5, <1>7, TurnoverLeaves
  <2> QED  BY <1>6, <2>1
<1> QED  BY <1>7, PlanAnswerFits

LEMMA BestEarnsMostPlans ==
    ASSUME PlanAnswered
    PROVE  BestEarnsMost
<1>1. question \in PlanRequests  BY DEF PlanAnswered
<1> DEFINE plans == [i \in DOMAIN Cities |-> CityPlan(question, Cities[i])]
<1>2. DOMAIN plans = DOMAIN Cities /\ \A i \in DOMAIN Cities : plans[i] = CityPlan(question, Cities[i])
  OBVIOUS
<1>3. answer.plans = plans /\ answer.best = BestPlan(plans).city  BY DEF PlanAnswered
<1> HIDE DEF plans
<1>4. Rankable(plans)  BY <1>1, <1>2, CitiesKnown, PlanOfCity DEF Rankable
<1>5. PICK b \in DOMAIN plans : BestPlan(plans) = plans[b] /\ \A j \in DOMAIN plans : ~ Better(plans[j], plans[b])
  BY <1>4, BestPlanIs
<1>6. plans[b].city = Cities[b]  BY <1>1, <1>2, CitiesKnown, PlanOfCity
<1>7. PICK best : best = CHOOSE i \in DOMAIN Cities : Cities[i] = answer.best  OBVIOUS
<1>8. best \in DOMAIN Cities /\ Cities[best] = Cities[b]  BY <1>2, <1>3, <1>5, <1>6, <1>7
<1>9. answer.plans[best] = plans[b]  BY <1>2, <1>3, <1>8
<1>10. ASSUME question.capital > 0, NEW i \in DOMAIN Cities
       PROVE  /\ VerdictRank(plans[b].verdict) <= VerdictRank(plans[i].verdict)
              /\ plans[i].verdict = plans[b].verdict /\ plans[i].net > 0 /\ plans[i].payback < ForGood
                 => /\ plans[b].net > 0
                    /\ plans[b].net >= plans[i].net \/ plans[b].payback = plans[i].payback
  <2>1. ~ Better(plans[i], plans[b])  BY <1>2, <1>5
  <2>2. /\ plans[i].verdict \in {"viable", "tight", "unprofitable"} /\ plans[b].verdict \in {"viable", "tight", "unprofitable"}
        /\ PaybackRank(plans[i]) \in Nat /\ PaybackRank(plans[b]) \in Nat
    BY <1>4, <1>2, <1>5 DEF Rankable
  <2>3. VerdictRank(plans[b].verdict) <= VerdictRank(plans[i].verdict)
    BY <2>1, <2>2 DEF Better, VerdictRank
  <2>4. ASSUME plans[i].verdict = plans[b].verdict, plans[i].net > 0, plans[i].payback < ForGood
        PROVE  plans[b].net > 0 /\ (plans[b].net >= plans[i].net \/ plans[b].payback = plans[i].payback)
    <3>1. PaybackRank(plans[b]) <= PaybackRank(plans[i])  BY <2>1, <2>2, <2>4 DEF Better
    <3>2. Known(Cities[i]) /\ Known(Cities[b]) /\ plans[i] = CityPlan(question, Cities[i]) /\ plans[b] = CityPlan(question, Cities[b])
      BY <1>2, <1>5, CitiesKnown
    <3>3. PICK n \in Int : n = plans[i].net  BY <1>1, <3>2, PlanOfCity, ProfitIs
    <3>4. PICK m \in Int : m = plans[b].net  BY <1>1, <3>2, PlanOfCity, ProfitIs
    <3>5. PICK c \in Nat \ {0} : c = question.capital  BY <1>1, <1>10, PlanAmounts, <3>2
    <3>6. plans[i].payback = CeilDiv(c, n) /\ plans[i].payback \in Nat \ {0}
      BY <1>1, <1>10, <2>4, <3>2, <3>3, <3>5, PlanOfCity
    <3>7. m <= 0 => plans[b].payback = NoPayback  BY <1>1, <3>2, <3>4, PlanOfCity
    <3>8. m > 0 => plans[b].payback = CeilDiv(c, m) /\ plans[b].payback \in Nat \ {0}
      BY <1>1, <1>10, <3>2, <3>4, <3>5, PlanOfCity
    <3>9. PaybackRank(plans[i]) = plans[i].payback  BY <3>6 DEF PaybackRank, NoPayback
    <3>10. m > 0  BY <2>4, <3>1, <3>6, <3>7, <3>9 DEF PaybackRank, ForGood
    <3>11. CeilDiv(c, m) <= CeilDiv(c, n)  BY <3>1, <3>6, <3>8, <3>9, <3>10 DEF PaybackRank, NoPayback
    <3>12. m < n => CeilDiv(c, n) <= CeilDiv(c, m)
      <4>1. m < n => n \in Nat \ {0} /\ m \in Nat \ {0} /\ m <= n  BY <3>10
      <4> QED  BY <4>1, CeilDivFacts
    <3>13. m < n => plans[b].payback = plans[i].payback  BY <3>6, <3>8, <3>10, <3>11, <3>12
    <3> QED  BY <3>3, <3>4, <3>10, <3>13
  <2> QED  BY <2>3, <2>4
<1> QED  BY <1>3, <1>7, <1>9, <1>10 DEF BestEarnsMost

-----------------------------------------------------------------------------
(* Recursion over the months of a loan *)

\* Induction up to n: a set with zero that goes on from each of its elements has them all.
LEMMA Induct ==
    ASSUME NEW n \in Nat, NEW S, 0 \in S, \A i \in 0 .. n - 1 : i \in S => i + 1 \in S
    PROVE  \A i \in 0 .. n : i \in S
<1> SUFFICES ASSUME \E i \in 0 .. n : i \notin S PROVE FALSE  OBVIOUS
<1> DEFINE T == {i \in 0 .. n : i \notin S}
<1>1. PICK m \in T : \A i \in T : m <= i
  <2>1. T \in SUBSET Nat /\ T # {}  OBVIOUS
  <2> QED  BY <2>1, LeastOne
<1>2. m \in 0 .. n /\ m \notin S /\ m # 0  OBVIOUS
<1>3. m - 1 \in 0 .. n - 1 /\ (m - 1) + 1 = m /\ m - 1 \in 0 .. n /\ ~ (m <= m - 1)  BY <1>2
<1>4. m - 1 \in S  BY <1>1, <1>3
<1> QED  BY <1>2, <1>3, <1>4

RunsTo(h, a, m, f) == f \in [0 .. m -> Int] /\ f[0] = a /\ \A i \in 1 .. m : f[i] = h[<<i, f[i - 1]>>]

\* A function given by its start and its steps is there, and what CHOOSE makes of it is one.
LEMMA Recursion ==
    ASSUME NEW n \in Nat, NEW a \in Int, NEW h \in [(1 .. n) \X Int -> Int]
    PROVE  \E f : RunsTo(h, a, n, f)
<1> DEFINE S == {m \in 0 .. n : \E f : RunsTo(h, a, m, f)}
<1>1. 0 \in S
  <2>1. RunsTo(h, a, 0, [i \in 0 .. 0 |-> a])  BY DEF RunsTo
  <2> QED  BY <2>1
<1>2. ASSUME NEW m \in 0 .. n - 1, m \in S PROVE m + 1 \in S
  <2>1. PICK f : RunsTo(h, a, m, f)  BY <1>2
  <2>2. m + 1 \in 1 .. n /\ m \in 0 .. m /\ f[m] \in Int  BY <2>1 DEF RunsTo
  <2>3. PICK z \in Int : z = h[<<m + 1, f[m]>>]  BY <2>2
  <2> DEFINE g == [i \in 0 .. m + 1 |-> IF i = m + 1 THEN z ELSE f[i]]
  <2>4. g \in [0 .. m + 1 -> Int]  BY <2>1 DEF RunsTo
  <2>5. g[0] = a  BY <2>1 DEF RunsTo
  <2>6. ASSUME NEW i \in 1 .. m + 1 PROVE g[i] = h[<<i, g[i - 1]>>]
    <3>1. i - 1 \in 0 .. m /\ g[i - 1] = f[i - 1]  OBVIOUS
    <3>2. CASE i = m + 1
      <4>1. i - 1 = m /\ g[i] = z  BY <3>2
      <4> QED  BY <4>1, <3>1, <3>2, <2>3
    <3>3. CASE i # m + 1
      <4>1. i \in 1 .. m /\ g[i] = f[i]  BY <3>3
      <4> QED  BY <4>1, <3>1, <2>1 DEF RunsTo
    <3> QED  BY <3>2, <3>3
  <2>7. RunsTo(h, a, m + 1, g)  BY <2>4, <2>5, <2>6 DEF RunsTo
  <2>8. m + 1 \in 0 .. n  OBVIOUS
  <2> QED  BY <2>7, <2>8
<1>3. \A m \in 0 .. n : m \in S
  <2> HIDE DEF S
  <2> QED  BY <1>1, <1>2, Induct
<1> QED  BY <1>3

\* The function that Power counts up to n with.
PowersOf(b, n, f) == f = [i \in 0 .. n |-> IF i = 0 THEN 1 ELSE b * f[i - 1]]

LEMMA PowersAreThere ==
    ASSUME NEW b \in Nat, NEW n \in Nat
    PROVE  \E f : PowersOf(b, n, f) /\ Power(b, n) = f[n]
<1> DEFINE h == [w \in (1 .. n) \X Int |-> b * w[2]]
<1>1. h \in [(1 .. n) \X Int -> Int]
  <2> SUFFICES ASSUME NEW w \in (1 .. n) \X Int PROVE b * w[2] \in Int  OBVIOUS
  <2>1. PICK z \in Int : z = w[2]  OBVIOUS
  <2> QED  BY <2>1
<1>2. \A i \in 1 .. n, x \in Int : h[<<i, x>>] = b * x  OBVIOUS
<1> HIDE DEF h
<1>3. PICK g : RunsTo(h, 1, n, g)
  <2>1. 1 \in Int  OBVIOUS
  <2> QED  BY <1>1, <2>1, Recursion
<1>4. g \in [0 .. n -> Int] /\ g[0] = 1 /\ \A i \in 1 .. n : g[i] = b * g[i - 1]
  <2>1. g \in [0 .. n -> Int] /\ g[0] = 1 /\ \A i \in 1 .. n : g[i] = h[<<i, g[i - 1]>>]
    BY <1>3 DEF RunsTo
  <2>2. \A i \in 1 .. n : i - 1 \in 0 .. n  OBVIOUS
  <2> QED  BY <2>1, <2>2, <1>2
<1>5. PowersOf(b, n, g)
  <2>1. g = [i \in 0 .. n |-> g[i]]  BY <1>4
  <2>2. \A i \in 0 .. n : g[i] = IF i = 0 THEN 1 ELSE b * g[i - 1]  BY <1>4
  <2> QED  BY <2>1, <2>2 DEF PowersOf
<1>6. PICK f : f = CHOOSE e : PowersOf(b, n, e)  OBVIOUS
<1>7. PowersOf(b, n, f)  BY <1>5, <1>6
<1>8. Power(b, n) = f[n]  BY <1>6 DEF Power, PowersOf
<1> QED  BY <1>7, <1>8

LEMMA PowersAgree ==
    ASSUME NEW b \in Nat, NEW n \in Nat, NEW m \in Nat, n <= m, NEW f, NEW g, PowersOf(b, n, f), PowersOf(b, m, g)
    PROVE  \A i \in 0 .. n : f[i] = g[i] /\ f[i] \in Nat
<1> DEFINE S == {i \in 0 .. n : f[i] = g[i] /\ f[i] \in Nat}
<1>1. f[0] = 1 /\ \A i \in 0 .. n - 1 : f[i + 1] = b * f[i]
  <2>1. ASSUME NEW i \in 0 .. n - 1 PROVE f[i + 1] = b * f[i]
    <3>1. i + 1 \in 0 .. n /\ i + 1 # 0 /\ (i + 1) - 1 = i  OBVIOUS
    <3>2. f[i + 1] = b * f[(i + 1) - 1]  BY <3>1 DEF PowersOf
    <3> QED  BY <3>1, <3>2
  <2> QED  BY <2>1 DEF PowersOf
<1>2. g[0] = 1 /\ \A i \in 0 .. n - 1 : g[i + 1] = b * g[i]
  <2>1. ASSUME NEW i \in 0 .. n - 1 PROVE g[i + 1] = b * g[i]
    <3>1. i + 1 \in 0 .. m /\ i + 1 # 0 /\ (i + 1) - 1 = i  OBVIOUS
    <3>2. g[i + 1] = b * g[(i + 1) - 1]  BY <3>1 DEF PowersOf
    <3> QED  BY <3>1, <3>2
  <2> QED  BY <2>1 DEF PowersOf
<1>3. 0 \in S  BY <1>1, <1>2
<1>4. ASSUME NEW i \in 0 .. n - 1, i \in S PROVE i + 1 \in S
  <2>1. f[i + 1] = b * f[i] /\ g[i + 1] = b * f[i]  BY <1>1, <1>2, <1>4
  <2>2. PICK x \in Nat : x = f[i]  BY <1>4
  <2>3. b * x \in Nat  OBVIOUS
  <2> QED  BY <2>1, <2>2, <2>3
<1>5. \A i \in 0 .. n : i \in S
  <2> HIDE DEF S
  <2> QED  BY <1>3, <1>4, Induct
<1> QED  BY <1>5

\* Power is the power.
LEMMA PowerSteps ==
    ASSUME NEW b \in Nat, NEW n \in Nat
    PROVE  /\ Power(b, n) \in Nat /\ Power(b, 0) = 1
           /\ Power(b, n + 1) = b * Power(b, n)
<1>1. PICK f : PowersOf(b, n, f) /\ Power(b, n) = f[n]  BY PowersAreThere
<1>2. PICK g : PowersOf(b, n + 1, g) /\ Power(b, n + 1) = g[n + 1]
  <2>1. n + 1 \in Nat  OBVIOUS
  <2> QED  BY <2>1, PowersAreThere
<1>3. PICK e : PowersOf(b, 0, e) /\ Power(b, 0) = e[0]
  <2>1. 0 \in Nat  OBVIOUS
  <2> QED  BY <2>1, PowersAreThere
<1>4. e[0] = 1  BY <1>3 DEF PowersOf
<1>5. n + 1 \in Nat /\ n <= n + 1 /\ n \in 0 .. n  OBVIOUS
<1>6. f[n] = g[n] /\ f[n] \in Nat  BY <1>1, <1>2, <1>5, PowersAgree
<1>7. g[n + 1] = b * g[n]
  <2>1. n + 1 \in 0 .. n + 1 /\ n + 1 # 0 /\ (n + 1) - 1 = n  OBVIOUS
  <2>2. g[n + 1] = b * g[(n + 1) - 1]  BY <1>2, <2>1 DEF PowersOf
  <2> QED  BY <2>1, <2>2
<1> QED  BY <1>1, <1>2, <1>3, <1>4, <1>6, <1>7

LEMMA PowerAtLeastOne ==
    ASSUME NEW b \in Nat \ {0}, NEW n \in Nat
    PROVE  Power(b, n) \in Nat \ {0}
<1> DEFINE S == {i \in 0 .. n : Power(b, i) \in Nat \ {0}}
<1>1. 0 \in S  BY PowerSteps
<1>2. ASSUME NEW i \in 0 .. n - 1, i \in S PROVE i + 1 \in S
  <2>1. PICK x \in Nat \ {0} : x = Power(b, i)  BY <1>2
  <2>2. Power(b, i + 1) = b * x  BY <2>1, PowerSteps
  <2>3. b * x \in Nat \ {0}  OBVIOUS
  <2> QED  BY <2>2, <2>3
<1>3. \A i \in 0 .. n : i \in S
  <2> HIDE DEF S
  <2> QED  BY <1>1, <1>2, Induct
<1> QED  BY <1>3

LEMMA PowerOfSum ==
    ASSUME NEW b \in Nat, NEW n \in Nat, NEW m \in Nat
    PROVE  Power(b, n + m) = Power(b, n) * Power(b, m)
<1> DEFINE S == {i \in 0 .. m : Power(b, n + i) = Power(b, n) * Power(b, i)}
<1>0. PICK x \in Nat : x = Power(b, n)  BY PowerSteps
<1>1. 0 \in S  BY <1>0, PowerSteps
<1>2. ASSUME NEW i \in 0 .. m - 1, i \in S PROVE i + 1 \in S
  <2>1. PICK y \in Nat : y = Power(b, i)  BY PowerSteps
  <2>2. PICK z \in Nat : z = Power(b, n + i)  BY PowerSteps
  <2>3. Power(b, i + 1) = b * y  BY <2>1, PowerSteps
  <2>4. Power(b, (n + i) + 1) = b * z
    <3>1. n + i \in Nat  OBVIOUS
    <3> QED  BY <2>2, <3>1, PowerSteps
  <2>5. z = x * y  BY <1>0, <1>2, <2>1, <2>2
  <2>6. b * z = x * (b * y)  BY <2>5
  <2>7. (n + i) + 1 = n + (i + 1)  OBVIOUS
  <2> QED  BY <1>0, <2>3, <2>4, <2>6, <2>7
<1>3. \A i \in 0 .. m : i \in S
  <2> HIDE DEF S
  <2> QED  BY <1>1, <1>2, Induct
<1> QED  BY <1>3

LEMMA PowerGrows ==
    ASSUME NEW a \in Nat \ {0}, NEW d \in Nat \ {0}, d <= a, NEW n \in Nat
    PROVE  Power(d, n) <= Power(a, n) /\ (d < a /\ n > 0 => Power(d, n) < Power(a, n))
<1> DEFINE S == {i \in 0 .. n : Power(d, i) <= Power(a, i) /\ (d < a /\ i > 0 => Power(d, i) < Power(a, i))}
<1>1. 0 \in S  BY PowerSteps
<1>2. ASSUME NEW i \in 0 .. n - 1, i \in S PROVE i + 1 \in S
  <2>1. PICK x \in Nat \ {0} : x = Power(a, i)  BY PowerAtLeastOne
  <2>2. PICK y \in Nat \ {0} : y = Power(d, i)  BY PowerAtLeastOne
  <2>3. y <= x  BY <1>2, <2>1, <2>2
  <2>4. Power(a, i + 1) = a * x /\ Power(d, i + 1) = d * y  BY <2>1, <2>2, PowerSteps
  <2>5. d * y <= d * x /\ d * x <= a * x  BY <2>3
  <2>6. d < a => d * x < a * x  OBVIOUS
  <2>7. d * y \in Nat /\ d * x \in Nat /\ a * x \in Nat  OBVIOUS
  <2>8. d * y <= a * x /\ (d < a => d * y < a * x)  BY <2>5, <2>6, <2>7
  <2> QED  BY <2>4, <2>8
<1>3. \A i \in 0 .. n : i \in S
  <2> HIDE DEF S
  <2> QED  BY <1>1, <1>2, Induct
<1> QED  BY <1>3

\* Powers drift apart by no more than the steps of the larger.
LEMMA PowersApart ==
    ASSUME NEW a \in Nat \ {0}, NEW d \in Nat \ {0}, NEW k \in Nat, a = k + d, NEW n \in Nat
    PROVE  Power(a, n + 1) - Power(d, n + 1) <= (n + 1) * (Power(a, n) * k)
<1> DEFINE S == {i \in 0 .. n : Power(a, i + 1) - Power(d, i + 1) <= (i + 1) * (Power(a, i) * k)}
<1>1. 0 \in S
  <2>1. Power(a, 0) = 1 /\ Power(d, 0) = 1 /\ 0 \in Nat  BY PowerSteps
  <2>2. Power(a, 0 + 1) = a * 1 /\ Power(d, 0 + 1) = d * 1  BY <2>1, PowerSteps
  <2>3. Power(a, 0 + 1) - Power(d, 0 + 1) <= (0 + 1) * (Power(a, 0) * k)  BY <2>1, <2>2
  <2> QED  BY <2>3
<1>2. ASSUME NEW i \in 0 .. n - 1, i \in S PROVE i + 1 \in S
  <2>0. i \in Nat /\ i + 1 \in Nat  OBVIOUS
  <2>1. PICK X \in Nat : X = Power(a, i)  BY <2>0, PowerSteps
  <2>2. PICK x \in Nat : x = Power(a, i + 1) /\ x = a * X  BY <2>0, <2>1, PowerSteps
  <2>3. PICK y \in Nat : y = Power(d, i + 1)  BY <2>0, PowerSteps
  <2>4. y <= x  BY <2>0, <2>2, <2>3, PowerGrows
  <2>5. Power(a, (i + 1) + 1) = a * x /\ Power(d, (i + 1) + 1) = d * y  BY <2>0, <2>2, <2>3, PowerSteps
  <2>6. x - y <= (i + 1) * (X * k)  BY <1>2, <2>1, <2>2, <2>3
  <2>7. a * x - d * y <= ((i + 1) + 1) * (x * k)
    <3>1. PICK u \in Nat : u = X * k  OBVIOUS
    <3>2. a * x - d * y = a * (x - y) + k * y  OBVIOUS
    <3>3. a * (x - y) <= a * ((i + 1) * u)  BY <2>6, <3>1
    <3>4. a * ((i + 1) * u) = (i + 1) * (x * k)
      <4>1. a * u = x * k  BY <2>2, <3>1
      <4>2. a * ((i + 1) * u) = (i + 1) * (a * u)  OBVIOUS
      <4> QED  BY <4>1, <4>2
    <3>5. k * y <= x * k  BY <2>4
    <3>6. PICK w \in Nat : w = x * k  OBVIOUS
    <3>7. ((i + 1) + 1) * w = (i + 1) * w + w  OBVIOUS
    <3> QED  BY <3>2, <3>3, <3>4, <3>5, <3>6, <3>7
  <2> QED  BY <2>2, <2>5, <2>7
<1>3. \A i \in 0 .. n : i \in S
  <2> HIDE DEF S
  <2> QED  BY <1>1, <1>2, Induct
<1>4. n \in S  BY <1>3
<1> QED  BY <1>4

\* Between two powers a mixed one lies below the straight line.
Below(a, d, n, i) == n * (Power(a, i) * Power(d, n - i)) <= i * Power(a, n) + (n - i) * Power(d, n)

LEMMA MixedStep ==
    ASSUME NEW a \in Nat \ {0}, NEW d \in Nat \ {0}, NEW k \in Nat, a = k + d,
           NEW n \in Nat, NEW i \in 0 .. n, Below(a, d, n, i)
    PROVE  Below(a, d, n + 1, i)
<1>0. i \in Nat /\ n - i \in Nat /\ n + 1 - i = (n - i) + 1 /\ n = i + (n - i)  OBVIOUS
<1>1. PICK A \in Nat \ {0}, T \in Nat \ {0} : A = Power(a, i) /\ T = Power(d, n - i)
  BY <1>0, PowerAtLeastOne
<1>2. PICK M \in Nat \ {0}, N \in Nat \ {0} : M = Power(a, n) /\ N = Power(d, n)  BY PowerAtLeastOne
<1>3. PICK B \in Nat \ {0} : B = Power(d, i)  BY <1>0, PowerAtLeastOne
<1>4. N = B * T
  <2>1. Power(d, i + (n - i)) = Power(d, i) * Power(d, n - i)  BY <1>0, PowerOfSum
  <2> QED  BY <2>1, <1>0, <1>1, <1>2, <1>3
<1>5. Power(a, n + 1) = a * M /\ Power(d, n + 1) = d * N /\ Power(d, n + 1 - i) = d * T
  BY <1>0, <1>1, <1>2, PowerSteps
<1>6. n * (A * T) <= i * M + (n - i) * N  BY <1>1, <1>2 DEF Below
\* The powers have drifted apart by less than the whole grows.
<1>7. (d * T) * (A - B) <= i * (M * k)
  <2>1. CASE i = 0
    <3>1. A = 1 /\ B = 1  BY <2>1, <1>1, <1>3, PowerSteps
    <3> QED  BY <2>1, <3>1
  <2>2. CASE i # 0
    <3>1. i - 1 \in Nat /\ (i - 1) + 1 = i /\ (n - i) + 1 \in Nat /\ n = (i - 1) + ((n - i) + 1)
      BY <2>2, <1>0
    <3>2. PICK C \in Nat \ {0} : C = Power(a, i - 1)  BY <3>1, PowerAtLeastOne
    <3>3. A - B <= i * (C * k)
      <4>1. Power(a, (i - 1) + 1) - Power(d, (i - 1) + 1) <= ((i - 1) + 1) * (Power(a, i - 1) * k)
        BY <3>1, PowersApart
      <4> QED  BY <4>1, <3>1, <3>2, <1>1, <1>3
    <3>4. PICK U \in Nat \ {0} : U = Power(a, (n - i) + 1)  BY <3>1, PowerAtLeastOne
    <3>5. d * T <= U
      <4>1. Power(d, (n - i) + 1) <= Power(a, (n - i) + 1)  BY <3>1, PowerGrows
      <4> QED  BY <4>1, <3>4, <1>0, <1>1, PowerSteps
    <3>6. M = C * U
      <4>1. Power(a, (i - 1) + ((n - i) + 1)) = Power(a, i - 1) * Power(a, (n - i) + 1)
        BY <3>1, PowerOfSum
      <4> QED  BY <4>1, <3>1, <3>2, <3>4, <1>2
    <3>7. PICK e \in Nat \ {0} : e = d * T  OBVIOUS
    <3>8. PICK c \in Nat : c = i * (C * k)  BY <1>0
    <3>9. e * (A - B) <= e * c  BY <3>3, <3>8
    <3>10. e * c <= U * c  BY <3>5, <3>7
    <3>11. U * c = i * (M * k)
      <4>1. U * (C * k) = M * k  BY <3>6
      <4>2. PICK g \in Nat : g = C * k  OBVIOUS
      <4>3. U * (i * g) = i * (U * g)  BY <1>0
      <4> QED  BY <4>1, <4>2, <4>3, <3>8
    <3>12. e * (A - B) \in Int /\ e * c \in Int /\ U * c \in Int  OBVIOUS
    <3> QED  BY <3>7, <3>9, <3>10, <3>11, <3>12
  <2> QED  BY <2>1, <2>2
<1>8. (n + 1) * (A * (d * T)) <= i * (a * M) + ((n - i) + 1) * (d * N)
  <2>1. PICK x \in Nat : x = A * T  OBVIOUS
  <2>2. PICK j \in Nat : j = n - i  BY <1>0
  <2>3. n * x <= i * M + j * N  BY <1>6, <2>1, <2>2
  <2>4. d * (n * x) <= d * (i * M + j * N)  BY <2>3, <1>0
  <2>5. A * (d * T) = d * x  BY <2>1
  <2>6. (d * T) * (A - B) = d * x - d * N
    <3>1. (d * T) * (A - B) = d * (T * A) - d * (T * B)  OBVIOUS
    <3>2. T * A = x /\ T * B = N  BY <2>1, <1>4
    <3> QED  BY <3>1, <3>2
  <2>7. PICK p \in Nat : p = d * x  OBVIOUS
  <2>8. PICK r \in Nat : r = d * N  OBVIOUS
  <2>9. PICK s \in Nat : s = i * (d * M)  BY <1>0
  <2>10. PICK t \in Nat : t = i * (M * k)  BY <1>0
  <2>11. p - r <= t  BY <1>7, <2>6, <2>7, <2>8, <2>10
  <2>12. n * p <= s + j * r
    <3>1. d * (n * x) = n * p  BY <2>7
    <3>2. d * (i * M + j * N) = s + j * r
      <4>1. d * (i * M) = s  BY <2>9, <1>0
      <4>2. d * (j * N) = j * r  BY <2>8
      <4>3. d * (i * M + j * N) = d * (i * M) + d * (j * N)  BY <1>0
      <4> QED  BY <4>1, <4>2, <4>3
    <3> QED  BY <2>4, <3>1, <3>2
  <2>13. i * (a * M) = s + t
    <3>1. a * M = d * M + M * k  OBVIOUS
    <3>2. PICK g \in Nat : g = d * M  OBVIOUS
    <3>3. PICK f \in Nat : f = M * k  OBVIOUS
    <3>4. i * (g + f) = i * g + i * f  BY <1>0
    <3> QED  BY <3>1, <3>2, <3>3, <3>4, <2>9, <2>10
  <2>14. (n + 1) * p = n * p + p /\ (j + 1) * r = j * r + r  OBVIOUS
  <2>15. n * p \in Int /\ j * r \in Int  OBVIOUS
  <2>16. (n + 1) * p <= (s + t) + (j + 1) * r  BY <2>11, <2>12, <2>14, <2>15
  <2> QED  BY <2>2, <2>5, <2>7, <2>8, <2>13, <2>16
<1>9. (n + 1) * (Power(a, i) * Power(d, n + 1 - i)) <= i * Power(a, n + 1) + (n + 1 - i) * Power(d, n + 1)
  BY <1>0, <1>1, <1>5, <1>8
<1> QED  BY <1>9 DEF Below

LEMMA PowersConvex ==
    ASSUME NEW a \in Nat \ {0}, NEW d \in Nat \ {0}, NEW k \in Nat, a = k + d, NEW n \in Nat
    PROVE  \A i \in 0 .. n : Below(a, d, n, i)
<1> DEFINE S == {m \in 0 .. n : \A i \in 0 .. m : Below(a, d, m, i)}
<1>1. 0 \in S
  <2>1. Power(a, 0) = 1 /\ Power(d, 0) = 1 /\ 0 - 0 = 0  BY PowerSteps
  <2>2. Below(a, d, 0, 0)  BY <2>1 DEF Below
  <2>3. \A i \in 0 .. 0 : i = 0  OBVIOUS
  <2> QED  BY <2>2, <2>3
<1>2. ASSUME NEW m \in 0 .. n - 1, m \in S PROVE m + 1 \in S
  <2>0. m \in Nat /\ m + 1 \in Nat /\ m + 1 \in 0 .. n  OBVIOUS
  <2>1. ASSUME NEW i \in 0 .. m + 1 PROVE Below(a, d, m + 1, i)
    <3>1. CASE i = m + 1
      <4>1. PICK A \in Nat : A = Power(a, m + 1)  BY <2>0, PowerSteps
      <4>2. PICK z \in Nat : z = Power(d, m + 1)  BY <2>0, PowerSteps
      <4>3. (m + 1) - (m + 1) = 0 /\ Power(d, 0) = 1  BY <2>0, PowerSteps
      <4>4. (m + 1) * (A * 1) <= (m + 1) * A + 0 * z  BY <2>0
      <4>5. Below(a, d, m + 1, m + 1)  BY <4>1, <4>2, <4>3, <4>4 DEF Below
      <4> QED  BY <3>1, <4>5
    <3>2. CASE i # m + 1
      <4>1. i \in 0 .. m /\ Below(a, d, m, i)  BY <3>2, <2>0, <1>2
      <4> QED  BY <4>1, <2>0, MixedStep
    <3> QED  BY <3>1, <3>2
  <2> QED  BY <2>0, <2>1
<1>3. \A i \in 0 .. n : i \in S
  <2> HIDE DEF S
  <2> QED  BY <1>1, <1>2, Induct
<1>4. n \in S  BY <1>3
<1> QED  BY <1>4

-----------------------------------------------------------------------------
(* The schedule of a loan *)

\* What the denominator that Reduced chooses is chosen for.
Whole(rate, e) == (rate * e) % 1200 = 0
LeastWhole(rate, d) == (rate * d) % 1200 = 0 /\ \A e \in 1 .. d - 1 : (rate * e) % 1200 # 0

\* The rate of a month is the fraction k/d.
LEMMA ReducedIs ==
    ASSUME NEW rate \in Nat
    PROVE  \E d \in Nat \ {0}, k \in Nat : /\ Reduced(rate).d = d /\ Reduced(rate).k = k
                                           /\ rate = 0 => k = 0 /\ d = 1
                                           /\ rate # 0 => k # 0
<1> DEFINE T == {e \in 1 .. 1200 : Whole(rate, e)}
<1>1. 1200 \in T
  <2>1. (rate * 1200) % 1200 = 0  OBVIOUS
  <2> QED  BY <2>1 DEF Whole
<1>2. PICK m : m \in T /\ \A e \in T : m <= e
  <2>1. T \in SUBSET Nat /\ T # {}  BY <1>1, SMTT(30)
  <2> HIDE DEF T
  <2> QED  BY <2>1, LeastOne
<1>3. m \in 1 .. 1200 /\ Whole(rate, m) /\ \A e \in 1 .. m - 1 : ~ Whole(rate, e)
  <2>1. ASSUME NEW e \in 1 .. m - 1 PROVE ~ Whole(rate, e)
    <3>1. e \in 1 .. 1200 /\ ~ (m <= e)  BY <1>2
    <3> QED  BY <3>1, <1>2
  <2> QED  BY <1>2, <2>1
<1>4. PICK c : c = CHOOSE e \in 1 .. 1200 : LeastWhole(rate, e)  OBVIOUS
<1>5. c \in 1 .. 1200 /\ Whole(rate, c) /\ \A e \in 1 .. c - 1 : ~ Whole(rate, e)
  <2>1. LeastWhole(rate, m)  BY <1>3, ZenonT(60) DEF Whole, LeastWhole
  <2>2. m \in 1 .. 1200  BY <1>3
  <2>3. c \in 1 .. 1200 /\ LeastWhole(rate, c)  BY <1>4, <2>1, <2>2, ZenonT(60)
  <2> QED  BY <2>3, ZenonT(60) DEF Whole, LeastWhole
<1>6. Reduced(rate) = [k |-> (rate * c) \div 1200, d |-> c]  BY <1>4, ZenonT(60) DEF Reduced, LeastWhole
<1>7. PICK x \in Nat : x = rate * c  BY <1>5
<1>8. PICK z \in Int : z = x \div 1200 /\ x = 1200 * z
  <2>1. x % 1200 = 0  BY <1>5, <1>7 DEF Whole
  <2> QED  BY <2>1
<1>9. z \in Nat  BY <1>8
<1>10. rate = 0 => z = 0 /\ c = 1
  <2>1. rate = 0 => x = 0  BY <1>5, <1>7
  <2>2. rate = 0 => Whole(rate, 1)  BY DEF Whole
  <2>3. 1 < c => 1 \in 1 .. c - 1  BY <1>5
  <2> QED  BY <2>1, <2>2, <2>3, <1>5, <1>8
<1>11. rate # 0 => z # 0
  <2>1. rate # 0 => x # 0  BY <1>5, <1>7
  <2> QED  BY <2>1, <1>8
<1>12. Reduced(rate).d = c /\ Reduced(rate).k = z  BY <1>6, <1>7, <1>8
<1> QED  BY <1>5, <1>9, <1>10, <1>11, <1>12

\* What moves by at most c a step moves by at most m times c in m steps.
LEMMA Drift ==
    ASSUME NEW m \in Nat, NEW f \in [0 .. m -> Int], NEW c \in Nat, f[0] = 0,
           \A j \in 1 .. m : f[j] - f[j - 1] <= c /\ f[j - 1] - f[j] <= c
    PROVE  f[m] <= m * c /\ -f[m] <= m * c
<1> DEFINE S == {i \in 0 .. m : f[i] <= i * c /\ -f[i] <= i * c}
<1>1. 0 \in S  OBVIOUS
<1>2. ASSUME NEW i \in 0 .. m - 1, i \in S PROVE i + 1 \in S
  <2>1. i + 1 \in 1 .. m /\ (i + 1) - 1 = i /\ i \in 0 .. m /\ i + 1 \in 0 .. m  OBVIOUS
  <2>2. PICK x \in Int, y \in Int : x = f[i] /\ y = f[i + 1]  BY <2>1
  <2>3. y - x <= c /\ x - y <= c  BY <2>1, <2>2
  <2>4. x <= i * c /\ -x <= i * c  BY <1>2, <2>2
  <2>5. PICK u \in Int : u = i * c /\ (i + 1) * c = u + c  OBVIOUS
  <2>6. y <= (i + 1) * c /\ -y <= (i + 1) * c  BY <2>3, <2>4, <2>5
  <2> QED  BY <2>1, <2>2, <2>6
<1>3. \A i \in 0 .. m : i \in S
  <2> HIDE DEF S
  <2> QED  BY <1>1, <1>2, Induct
<1>4. m \in S  BY <1>3
<1> QED  BY <1>4

\* The function that SumOf counts with.
SumsOf(rows, field, f) == f = [i \in 0 .. Len(rows) |-> IF i = 0 THEN 0 ELSE f[i - 1] + rows[i][field]]

Counts(rows, field, m, s) ==
    s[0] = 0 /\ SumOf(rows, field) = s[m] /\ \A i \in 1 .. m : s[i] = s[i - 1] + rows[i][field]

LEMMA SumIs ==
    ASSUME NEW rows, NEW field, NEW m \in Nat, Len(rows) = m, \A i \in 1 .. m : rows[i][field] \in Int
    PROVE  \E s \in [0 .. m -> Int] : Counts(rows, field, m, s)
<1> DEFINE h == [w \in (1 .. m) \X Int |-> w[2] + rows[w[1]][field]]
<1>1. h \in [(1 .. m) \X Int -> Int]
  <2> SUFFICES ASSUME NEW w \in (1 .. m) \X Int PROVE w[2] + rows[w[1]][field] \in Int  OBVIOUS
  <2>1. PICK x \in Int : x = w[2]  OBVIOUS
  <2>2. PICK y \in Int : y = rows[w[1]][field]  OBVIOUS
  <2> QED  BY <2>1, <2>2
<1>2. \A i \in 1 .. m, x \in Int : h[<<i, x>>] = x + rows[i][field]  OBVIOUS
<1> HIDE DEF h
<1>3. PICK g : RunsTo(h, 0, m, g)
  <2>1. 0 \in Int  OBVIOUS
  <2> QED  BY <1>1, <2>1, Recursion
<1>4. g \in [0 .. m -> Int] /\ g[0] = 0 /\ \A i \in 1 .. m : g[i] = g[i - 1] + rows[i][field]
  <2>1. g \in [0 .. m -> Int] /\ g[0] = 0 /\ \A i \in 1 .. m : g[i] = h[<<i, g[i - 1]>>]
    BY <1>3 DEF RunsTo
  <2>2. \A i \in 1 .. m : i - 1 \in 0 .. m  OBVIOUS
  <2> QED  BY <2>1, <2>2, <1>2
<1>5. SumsOf(rows, field, g)
  <2>1. g = [i \in 0 .. m |-> g[i]]  BY <1>4
  <2>2. \A i \in 0 .. m : g[i] = IF i = 0 THEN 0 ELSE g[i - 1] + rows[i][field]  BY <1>4
  <2> QED  BY <2>1, <2>2 DEF SumsOf
<1>6. PICK f : f = CHOOSE e : SumsOf(rows, field, e)  OBVIOUS
<1>7. SumsOf(rows, field, f)  BY <1>5, <1>6
<1>8. SumOf(rows, field) = f[m]  BY <1>6 DEF SumOf, SumsOf
<1>9. f[0] = 0 /\ \A i \in 1 .. m : f[i] = f[i - 1] + rows[i][field]
  <2>1. f[0] = 0  BY <1>7 DEF SumsOf
  <2>2. ASSUME NEW i \in 1 .. m PROVE f[i] = f[i - 1] + rows[i][field]
    <3>1. i \in 0 .. m /\ i # 0  OBVIOUS
    <3> QED  BY <3>1, <1>7 DEF SumsOf
  <2> QED  BY <2>1, <2>2
<1>10. f \in [0 .. m -> Int]
  <2> DEFINE S == {i \in 0 .. m : f[i] \in Int}
  <2>1. 0 \in S  BY <1>9
  <2>2. ASSUME NEW i \in 0 .. m - 1, i \in S PROVE i + 1 \in S
    <3>1. i + 1 \in 1 .. m /\ (i + 1) - 1 = i /\ i + 1 \in 0 .. m  OBVIOUS
    <3>2. f[i + 1] = f[i] + rows[i + 1][field]  BY <3>1, <1>9
    <3>3. PICK x \in Int : x = f[i]  BY <2>2
    <3>4. PICK y \in Int : y = rows[i + 1][field]  BY <3>1
    <3> QED  BY <3>1, <3>2, <3>3, <3>4
  <2>3. \A i \in 0 .. m : i \in S
    <3> HIDE DEF S
    <3> QED  BY <2>1, <2>2, Induct
  <2>4. \A i \in 0 .. m : f[i] \in Int  BY <2>3
  <2>5. f = [i \in 0 .. m |-> f[i]]  BY <1>7 DEF SumsOf
  <2> QED  BY <2>4, <2>5
<1> QED  BY <1>8, <1>9, <1>10 DEF Counts

LoanOf(q) == q \in CreditRequests /\ q.grace < q.months

\* The loan in numbers: the principal, the instalments, the rate k/d and two powers of d.
Terms(q, p, n, k, d, D, E) ==
    /\ p = q.principal /\ n = RepayMonths(q) /\ k = Reduced(q.rate).k /\ d = Reduced(q.rate).d
    /\ D = Power(d, n) /\ E = Power(d, n - 1) /\ D = d * E
    /\ q.rate = 0 => k = 0 /\ d = 1 /\ D = 1 /\ E = 1
    /\ q.rate # 0 => k # 0
    /\ q.grace \in Nat /\ q.months \in Nat \ {0} /\ n = q.months - q.grace
    /\ q.method \in {"annuity", "differentiated"}

LEMMA PowerOfOne == \A n \in Nat : Power(1, n) = 1
<1> TAKE n \in Nat
<1> DEFINE S == {i \in 0 .. n : Power(1, i) = 1}
<1>1. 0 \in S  BY PowerSteps
<1>2. ASSUME NEW i \in 0 .. n - 1, i \in S PROVE i + 1 \in S
  <2>1. Power(1, i + 1) = 1 * Power(1, i)  BY PowerSteps
  <2> QED  BY <1>2, <2>1
<1>3. \A i \in 0 .. n : i \in S
  <2> HIDE DEF S
  <2> QED  BY <1>1, <1>2, Induct
<1> QED  BY <1>3

LEMMA TermsAre ==
    ASSUME NEW q, LoanOf(q)
    PROVE  \E p \in Nat \ {0}, n \in Nat \ {0}, k \in Nat, d \in Nat \ {0}, D \in Nat \ {0}, E \in Nat \ {0} :
              Terms(q, p, n, k, d, D, E)
<1>1. /\ q.principal \in Nat \ {0} /\ q.rate \in Nat /\ q.months \in Nat \ {0} /\ q.grace \in Nat
      /\ q.grace < q.months /\ q.method \in {"annuity", "differentiated"}
  <2>1. /\ q.principal \in Loans /\ q.rate \in Rates /\ q.months \in 1 .. MaxTerm /\ q.grace \in 0 .. MaxTerm - 1
        /\ q.grace < q.months /\ q.method \in {"annuity", "differentiated"}
    BY DEF LoanOf, CreditRequests
  <2>2. Loans \subseteq Nat \ {0} /\ Rates \subseteq Nat /\ MaxTerm \in Nat  BY FinanceAssumption
  <2>3. q.principal \in Nat \ {0} /\ q.rate \in Nat  BY <2>1, <2>2
  <2>4. PICK T \in Nat : T = MaxTerm  BY <2>2
  <2>5. q.months \in Nat \ {0} /\ q.grace \in Nat  BY <2>1, <2>4
  <2> QED  BY <2>1, <2>3, <2>5
<1>2. PICK n \in Nat \ {0} : n = RepayMonths(q) /\ n = q.months - q.grace  BY <1>1 DEF RepayMonths
<1>3. PICK d \in Nat \ {0}, k \in Nat : /\ Reduced(q.rate).d = d /\ Reduced(q.rate).k = k
                                        /\ q.rate = 0 => k = 0 /\ d = 1
                                        /\ q.rate # 0 => k # 0
  BY <1>1, ReducedIs
<1>4. n - 1 \in Nat /\ (n - 1) + 1 = n  OBVIOUS
<1>5. PICK E \in Nat \ {0} : E = Power(d, n - 1)  BY <1>4, PowerAtLeastOne
<1>6. PICK D \in Nat \ {0} : D = Power(d, n)  BY PowerAtLeastOne
<1>7. D = d * E
  <2>1. Power(d, (n - 1) + 1) = d * Power(d, n - 1)  BY <1>4, PowerSteps
  <2> QED  BY <2>1, <1>4, <1>5, <1>6
<1>8. q.rate = 0 => D = 1 /\ E = 1  BY <1>3, <1>4, <1>5, <1>6, PowerOfOne
<1>9. PICK p \in Nat \ {0} : p = q.principal  BY <1>1
<1>10. Terms(q, p, n, k, d, D, E)  BY <1>9, <1>1, <1>2, <1>3, <1>5, <1>6, <1>7, <1>8 DEF Terms
<1> QED  BY <1>10

\* What is still owed after t instalments, in parts of Weight(q, 0).
Weight(q, t) ==
    LET a == Reduced(q.rate).k + Reduced(q.rate).d
        n == RepayMonths(q)
    IN  IF q.method = "annuity" /\ q.rate # 0 THEN Power(a, n) - Power(a, t) * Power(Reduced(q.rate).d, n - t) ELSE n - t

\* The powers of a month.
LEMMA MonthPowers ==
    ASSUME NEW q, NEW p \in Nat \ {0}, NEW n \in Nat \ {0}, NEW k \in Nat, NEW d \in Nat \ {0},
           NEW D \in Nat \ {0}, NEW E \in Nat \ {0}, Terms(q, p, n, k, d, D, E), NEW t \in 1 .. n
    PROVE  \E x \in Nat \ {0}, y \in Nat \ {0} :
              /\ x = Power(k + d, t - 1) /\ y = Power(d, n - t)
              /\ Power(k + d, t) = (k + d) * x /\ Power(d, n - (t - 1)) = d * y
<1>2. t - 1 \in Nat /\ n - t \in Nat /\ (t - 1) + 1 = t /\ (n - t) + 1 = n - (t - 1) /\ k + d \in Nat \ {0}
  OBVIOUS
<1>3. PICK x \in Nat \ {0} : x = Power(k + d, t - 1)  BY <1>2, PowerAtLeastOne
<1>4. PICK y \in Nat \ {0} : y = Power(d, n - t)  BY <1>2, PowerAtLeastOne
<1>5. Power(k + d, (t - 1) + 1) = (k + d) * Power(k + d, t - 1)  BY <1>2, PowerSteps
<1>6. Power(d, (n - t) + 1) = d * Power(d, n - t)  BY <1>2, PowerSteps
<1> QED  BY <1>2, <1>3, <1>4, <1>5, <1>6

\* It falls from month to month, and to nothing with the last.
LEMMA WeightFalls ==
    ASSUME NEW q, NEW p \in Nat \ {0}, NEW n \in Nat \ {0}, NEW k \in Nat, NEW d \in Nat \ {0},
           NEW D \in Nat \ {0}, NEW E \in Nat \ {0}, Terms(q, p, n, k, d, D, E)
    PROVE  /\ Weight(q, n) = 0 /\ Weight(q, 0) \in Nat \ {0} /\ ScaleOf(q) = D * Weight(q, 0)
           /\ \A t \in 0 .. n : Weight(q, t) \in Int
           /\ \A t \in 1 .. n : Weight(q, t) <= Weight(q, t - 1)
<1>1. /\ n = RepayMonths(q) /\ k = Reduced(q.rate).k /\ d = Reduced(q.rate).d /\ D = Power(d, n)
      /\ q.rate # 0 => k # 0
      /\ q.rate = 0 => D = 1
  BY DEF Terms
<1>2. PICK a \in Nat \ {0} : a = k + d  OBVIOUS
<1>3. CASE q.method = "annuity" /\ q.rate # 0
  <2>1. \A t : Weight(q, t) = Power(a, n) - Power(a, t) * Power(d, n - t)
    BY <1>1, <1>2, <1>3 DEF Weight
  <2>2. PICK M \in Nat \ {0} : M = Power(a, n)  BY <1>1, PowerAtLeastOne
  <2>3. n - n = 0 /\ n - 0 = n /\ Power(a, 0) = 1 /\ Power(d, 0) = 1
    <3>1. a \in Nat /\ d \in Nat /\ 0 \in Nat /\ n - n = 0 /\ n - 0 = n  OBVIOUS
    <3> QED  BY <3>1, PowerSteps
  <2>4. Weight(q, n) = 0  BY <2>1, <2>2, <2>3
  <2>5. Weight(q, 0) = M - D  BY <2>1, <2>2, <2>3, <1>1
  <2>6. D < M
    <3>1. d < a /\ d <= a /\ n > 0  BY <1>1, <1>2, <1>3
    <3> QED  BY <3>1, <1>1, <2>2, PowerGrows
  <2>7. ScaleOf(q) = D * Weight(q, 0)  BY <1>1, <1>2, <1>3, <2>2, <2>5 DEF ScaleOf, Growth
  <2>8. ASSUME NEW t \in 1 .. n PROVE Weight(q, t) \in Int /\ Weight(q, t) <= Weight(q, t - 1)
    <3>1. PICK x \in Nat \ {0}, y \in Nat \ {0} :
              /\ x = Power(k + d, t - 1) /\ y = Power(d, n - t)
              /\ Power(k + d, t) = (k + d) * x /\ Power(d, n - (t - 1)) = d * y
      BY MonthPowers
    <3>2. Weight(q, t) = M - (a * x) * y  BY <3>1, <2>1, <2>2, <1>2
    <3>3. Weight(q, t - 1) = M - x * (d * y)  BY <3>1, <2>1, <2>2, <1>2
    <3>4. PICK z \in Nat : z = x * y  OBVIOUS
    <3>5. (a * x) * y = a * z /\ x * (d * y) = d * z  BY <3>4, <1>1
    <3>6. d * z <= a * z  BY <1>1, <1>2
    <3>7. a * z \in Int /\ d * z \in Int  BY <1>1
    <3> QED  BY <3>2, <3>3, <3>5, <3>6, <3>7
  <2>9. Weight(q, 0) \in Nat \ {0}  BY <2>5, <2>6, <1>1
  <2>10. \A t \in 0 .. n : t = 0 \/ t \in 1 .. n  BY <1>1
  <2> QED  BY <2>4, <2>7, <2>8, <2>9, <2>10
<1>4. CASE ~ (q.method = "annuity" /\ q.rate # 0)
  <2>1. \A t : Weight(q, t) = n - t  BY <1>1, <1>4 DEF Weight
  <2>2. Weight(q, 0) = n  BY <2>1, <1>1
  <2>3. ScaleOf(q) = D * n  BY <1>1, <1>4 DEF ScaleOf
  <2> QED  BY <2>1, <2>2, <2>3, <1>1
<1> QED  BY <1>3, <1>4

LEMMA ExactDiv ==
    ASSUME NEW b \in Nat \ {0}, NEW a \in Int
    PROVE  (b * a) \div b = a
<1>1. PICK c \in Int : c = b * a  OBVIOUS
<1>2. PICK m \in Int : m = c \div b /\ b * m <= c /\ c < b * m + b  BY DivDef
<1>3. m < a => b * (m + 1) <= b * a  OBVIOUS
<1>4. a < m => b * (a + 1) <= b * m  OBVIOUS
<1>5. b * (m + 1) = b * m + b /\ b * (a + 1) = b * a + b  OBVIOUS
<1>6. PICK z \in Int : z = b * m  OBVIOUS
<1> QED  BY <1>1, <1>2, <1>3, <1>4, <1>5, <1>6

\* An amount of a schedule.
Part(p, D, w) == p * (D * w)

\* The interest of a month is the rate of what is owed, without a rest.
LEMMA InterestIs ==
    ASSUME NEW q, NEW p \in Nat \ {0}, NEW n \in Nat \ {0}, NEW k \in Nat, NEW d \in Nat \ {0},
           NEW D \in Nat \ {0}, NEW E \in Nat \ {0}, Terms(q, p, n, k, d, D, E)
    PROVE  \A w \in Int : Interest(q, Part(p, D, w)) = Part(p, E, k * w)
<1> TAKE w \in Int
<1>1. D = d * E /\ Reduced(q.rate).k = k /\ Reduced(q.rate).d = d  BY DEF Terms
<1>0. PICK z \in Int : z = p * (D * w) /\ z = Part(p, D, w)  BY DEF Part
<1>2. PICK u \in Int : u = k * w  OBVIOUS
<1>3. PICK v \in Int : v = p * (E * u)  OBVIOUS
<1>4. z * k = d * v
  <2>1. (p * ((d * E) * w)) * k = d * (p * (E * (k * w)))  OBVIOUS
  <2> QED  BY <2>1, <1>0, <1>1, <1>2, <1>3
<1>5. (d * v) \div d = v  BY ExactDiv
<1>6. Interest(q, z) = (z * k) \div d  BY <1>1 DEF Interest
<1> QED  BY <1>0, <1>2, <1>3, <1>4, <1>5, <1>6 DEF Part

\* The t-th instalment takes off what the weights say.
LEMMA StepPays ==
    ASSUME NEW q, NEW p \in Nat \ {0}, NEW n \in Nat \ {0}, NEW k \in Nat, NEW d \in Nat \ {0},
           NEW D \in Nat \ {0}, NEW E \in Nat \ {0}, Terms(q, p, n, k, d, D, E), NEW t \in 1 .. n
    PROVE  LET owed == Part(p, D, Weight(q, t - 1)) IN PrincipalPart(q, t, owed) = owed - Part(p, D, Weight(q, t))
<1>w. PICK w \in Int, v \in Int : w = Weight(q, t - 1) /\ v = Weight(q, t)
  <2>1. t \in 0 .. n /\ t - 1 \in 0 .. n  OBVIOUS
  <2> QED  BY <2>1, WeightFalls
<1>z. PICK z \in Int : z = Part(p, D, w) /\ z = p * (D * w)  BY DEF Part
<1>i. Interest(q, z) = Part(p, E, k * w)
  <2>1. \A c \in Int : Interest(q, Part(p, D, c)) = Part(p, E, k * c)  BY InterestIs
  <2>2. Interest(q, Part(p, D, w)) = Part(p, E, k * w)  BY <2>1
  <2> QED  BY <2>2, <1>z
<1>s. SUFFICES PrincipalPart(q, t, z) = p * (D * (w - v))
  <2>1. p * (D * (w - v)) = p * (D * w) - p * (D * v)  OBVIOUS
  <2> QED  BY <2>1, <1>w, <1>z DEF Part
<1>1. /\ n = RepayMonths(q) /\ k = Reduced(q.rate).k /\ d = Reduced(q.rate).d /\ D = d * E /\ p = q.principal
      /\ D = Power(d, n) /\ E = Power(d, n - 1) /\ (q.rate = 0 => k = 0 /\ D = 1)
      /\ q.method \in {"annuity", "differentiated"}
  BY DEF Terms
<1>2. CASE t = n
  <2>1. v = 0  BY <1>2, <1>w, WeightFalls
  <2> QED  BY <2>1, <1>1, <1>2, <1>z DEF PrincipalPart
<1>3. CASE t # n /\ q.method = "annuity" /\ q.rate # 0
  <2>1. PICK a \in Nat \ {0} : a = k + d  OBVIOUS
  <2>2. PICK M \in Nat \ {0} : M = Power(a, n)  BY PowerAtLeastOne
  <2>3. PICK x \in Nat \ {0}, y \in Nat \ {0} :
            /\ x = Power(k + d, t - 1) /\ y = Power(d, n - t)
            /\ Power(k + d, t) = (k + d) * x /\ Power(d, n - (t - 1)) = d * y
    BY MonthPowers
  <2>4. \A s : Weight(q, s) = Power(a, n) - Power(a, s) * Power(d, n - s)
    BY <1>1, <2>1, <1>3 DEF Weight
  <2>5. v = M - (a * x) * y  BY <1>w, <2>1, <2>2, <2>3, <2>4
  <2>6. w = M - x * (d * y)  BY <1>w, <2>1, <2>2, <2>3, <2>4
  <2>7. Annuity(q) = ((p * M) * k) * E  BY <1>1, <1>3, <2>1, <2>2 DEF Annuity
  <2>8. PrincipalPart(q, t, z) = ((p * M) * k) * E - p * (E * (k * w))
    <3>1. PrincipalPart(q, t, z) = Annuity(q) - Interest(q, z)  BY <1>1, <1>3 DEF PrincipalPart
    <3> QED  BY <3>1, <1>i, <2>7 DEF Part
  <2>9. PICK c \in Nat : c = x * y  OBVIOUS
  <2>10. (a * x) * y = a * c /\ x * (d * y) = d * c  BY <2>9
  <2>11. w - v = k * c
    <3>1. a * c = k * c + d * c  BY <2>1
    <3>2. PICK e \in Int, f \in Int : e = a * c /\ f = d * c  OBVIOUS
    <3>3. v = M - e /\ w = M - f  BY <3>2, <2>5, <2>6, <2>10
    <3> QED  BY <3>1, <3>2, <3>3
  <2>12. w = M - d * c  BY <2>6, <2>10
  <2>13. ((p * M) * k) * E - p * (E * (k * (M - d * c))) = p * ((d * E) * (k * c))  OBVIOUS
  <2> QED  BY <2>8, <2>11, <2>12, <2>13, <1>1
<1>4. CASE ~ (q.method = "annuity" /\ q.rate # 0)
  <2>1. \A s : Weight(q, s) = n - s  BY <1>1, <1>4 DEF Weight
  <2>2. w - v = 1  BY <2>1, <1>w
  <2>3. CASE t # n /\ q.method = "annuity"
    <3>1. q.rate = 0 /\ k = 0 /\ D = 1  BY <1>1, <1>4, <2>3
    <3>2. PrincipalPart(q, t, z) = Annuity(q) - Interest(q, z)  BY <1>1, <2>3 DEF PrincipalPart
    <3>3. Annuity(q) = p  BY <1>1, <3>1 DEF Annuity
    <3>4. Interest(q, z) = p * (E * (k * w))  BY <1>i DEF Part
    <3>5. k * w = 0 /\ E * 0 = 0 /\ p * 0 = 0  BY <3>1
    <3> QED  BY <3>1, <3>2, <3>3, <3>4, <3>5, <2>2
  <2>4. CASE t # n /\ q.method # "annuity"
    <3>1. Weight(q, 0) = n  BY <2>1
    <3>2. ScaleOf(q) = D * n  BY <3>1, WeightFalls
    <3>3. PrincipalPart(q, t, z) = (p * (D * n)) \div n  BY <1>1, <2>4, <3>2 DEF PrincipalPart
    <3>4. PICK c \in Nat : c = p * D  OBVIOUS
    <3>5. p * (D * n) = n * c  BY <3>4
    <3>6. (n * c) \div n = c  BY ExactDiv
    <3> QED  BY <3>3, <3>4, <3>5, <3>6, <2>2
  <2> QED  BY <1>2, <2>3, <2>4
<1> QED  BY <1>2, <1>3, <1>4

\* The function that Balances counts with.
BalancesOf(q, n, S, f) == f = [i \in 0 .. n |-> IF i = 0 THEN q.principal * S ELSE f[i - 1] - PrincipalPart(q, i, f[i - 1])]

LEMMA BalancesAre ==
    ASSUME NEW q, NEW p \in Nat \ {0}, NEW n \in Nat \ {0}, NEW k \in Nat, NEW d \in Nat \ {0},
           NEW D \in Nat \ {0}, NEW E \in Nat \ {0}, Terms(q, p, n, k, d, D, E)
    PROVE  \A t \in 0 .. n : Balances(q)[t] = p * (D * Weight(q, t))
<1>1. n = RepayMonths(q) /\ p = q.principal  BY DEF Terms
<1>2. PICK W \in [0 .. n -> Int] : \A t \in 0 .. n : W[t] = Weight(q, t)
  <2>1. [t \in 0 .. n |-> Weight(q, t)] \in [0 .. n -> Int]  BY WeightFalls
  <2> QED  BY <2>1
<1>3. PICK S \in Nat : S = ScaleOf(q) /\ S = D * W[0]
  <2>1. 0 \in 0 .. n  OBVIOUS
  <2>2. PICK c \in Nat : c = Weight(q, 0)  BY WeightFalls
  <2>3. ScaleOf(q) = D * c /\ W[0] = c /\ D * c \in Nat  BY <2>1, <2>2, <1>2, WeightFalls, SMTT(30)
  <2> QED  BY <2>3
<1> DEFINE g == [t \in 0 .. n |-> p * (D * W[t])]
<1>4. ASSUME NEW t \in 1 .. n, NEW z, z = p * (D * W[t - 1]) PROVE p * (D * W[t]) = z - PrincipalPart(q, t, z)
  <2>1. t - 1 \in 0 .. n /\ t \in 0 .. n  OBVIOUS
  <2>2. z = Part(p, D, Weight(q, t - 1)) /\ p * (D * W[t]) = Part(p, D, Weight(q, t))
    BY <2>1, <1>2, <1>4 DEF Part
  <2>3. PICK x \in Int, y \in Int : x = z /\ y = Part(p, D, Weight(q, t))
    <3>1. PICK w \in Int, v \in Int : w = W[t - 1] /\ v = W[t]  BY <2>1
    <3>2. p * (D * w) \in Int /\ p * (D * v) \in Int  OBVIOUS
    <3> QED  BY <2>2, <3>1, <3>2, <1>4
  <2>4. PrincipalPart(q, t, x) = x - y  BY <2>2, <2>3, StepPays
  <2> QED  BY <2>2, <2>3, <2>4
<1>5. BalancesOf(q, n, S, g)
  <2>1. g[0] = p * S  BY <1>3
  <2>2. ASSUME NEW t \in 1 .. n PROVE g[t] = g[t - 1] - PrincipalPart(q, t, g[t - 1])
    <3>1. t \in 0 .. n /\ t - 1 \in 0 .. n  OBVIOUS
    <3>2. g[t - 1] = p * (D * W[t - 1]) /\ g[t] = p * (D * W[t])  BY <3>1
    <3> HIDE DEF g
    <3> QED  BY <3>2, <1>4
  <2>3. g = [i \in 0 .. n |-> g[i]]  OBVIOUS
  <2> HIDE DEF g
  <2>4. \A i \in 0 .. n : g[i] = IF i = 0 THEN q.principal * S ELSE g[i - 1] - PrincipalPart(q, i, g[i - 1])
    BY <2>1, <2>2, <1>1
  <2> QED  BY <2>3, <2>4 DEF BalancesOf
<1>6. PICK f : f = CHOOSE e : BalancesOf(q, n, S, e)  OBVIOUS
<1>7. BalancesOf(q, n, S, f)  BY <1>5, <1>6
<1>8. Balances(q) = f  BY <1>1, <1>3, <1>6 DEF Balances, BalancesOf
<1> DEFINE T == {i \in 0 .. n : f[i] = p * (D * W[i])}
<1>9. 0 \in T  BY <1>1, <1>3, <1>7 DEF BalancesOf
<1>10. ASSUME NEW i \in 0 .. n - 1, i \in T PROVE i + 1 \in T
  <2>1. i + 1 \in 1 .. n /\ i + 1 \in 0 .. n /\ i + 1 # 0 /\ (i + 1) - 1 = i  OBVIOUS
  <2>2. f[i + 1] = f[(i + 1) - 1] - PrincipalPart(q, i + 1, f[(i + 1) - 1])
    BY <2>1, <1>7 DEF BalancesOf
  <2>3. f[i] = p * (D * W[i])  BY <1>10
  <2>4. p * (D * W[i + 1]) = f[i] - PrincipalPart(q, i + 1, f[i])  BY <2>1, <2>3, <1>4
  <2> QED  BY <2>1, <2>2, <2>4
<1>11. \A i \in 0 .. n : i \in T
  <2> HIDE DEF T
  <2> QED  BY <1>9, <1>10, Induct
<1> QED  BY <1>2, <1>8, <1>11

\* What is owed after j months, the months of grace among them.
Left(q, j) == Weight(q, IF j <= q.grace THEN 0 ELSE j - q.grace)

LEMMA WeightIsNat ==
    ASSUME NEW q, NEW p \in Nat \ {0}, NEW n \in Nat \ {0}, NEW k \in Nat, NEW d \in Nat \ {0},
           NEW D \in Nat \ {0}, NEW E \in Nat \ {0}, Terms(q, p, n, k, d, D, E)
    PROVE  \A t \in 0 .. n : Weight(q, t) \in Nat
<1>0. /\ Weight(q, n) = 0 /\ \A t \in 0 .. n : Weight(q, t) \in Int
      /\ \A t \in 1 .. n : Weight(q, t) <= Weight(q, t - 1)
  BY WeightFalls
<1> DEFINE S == {i \in 0 .. n : Weight(q, n - i) \in Nat}
<1>1. 0 \in S
  <2>1. n - 0 = n /\ Weight(q, n) = 0  BY <1>0
  <2> QED  BY <2>1
<1>2. ASSUME NEW i \in 0 .. n - 1, i \in S PROVE i + 1 \in S
  <2>1. PICK t \in 1 .. n : t = n - i  OBVIOUS
  <2>2. t - 1 \in 0 .. n /\ n - (i + 1) = t - 1  BY <2>1
  <2>3. PICK x \in Int, y \in Int : x = Weight(q, t) /\ y = Weight(q, t - 1)  BY <2>2, <1>0
  <2>4. x <= y  BY <2>3, <1>0
  <2>5. x \in Nat  BY <1>2, <2>1, <2>3
  <2> QED  BY <2>2, <2>3, <2>4, <2>5
<1>3. \A i \in 0 .. n : i \in S
  <2> HIDE DEF S
  <2> QED  BY <1>1, <1>2, Induct
<1>4. ASSUME NEW t \in 0 .. n PROVE Weight(q, t) \in Nat
  <2>1. n - t \in 0 .. n /\ n - (n - t) = t  OBVIOUS
  <2>2. n - t \in S  BY <2>1, <1>3
  <2> QED  BY <2>1, <2>2
<1> QED  BY <1>4

LEMMA LeftFalls ==
    ASSUME NEW q, NEW p \in Nat \ {0}, NEW n \in Nat \ {0}, NEW k \in Nat, NEW d \in Nat \ {0},
           NEW D \in Nat \ {0}, NEW E \in Nat \ {0}, Terms(q, p, n, k, d, D, E)
    PROVE  /\ Left(q, 0) = Weight(q, 0) /\ Left(q, q.grace) = Weight(q, 0) /\ Left(q, q.grace + 1) = Weight(q, 1)
           /\ Left(q, q.months) = 0
           /\ \A j \in 0 .. q.months : Left(q, j) \in Nat
           /\ \A j \in 1 .. q.months : Left(q, j) <= Left(q, j - 1)
<1>0. /\ Weight(q, n) = 0 /\ \A t \in 0 .. n : Weight(q, t) \in Int
      /\ \A t \in 1 .. n : Weight(q, t) <= Weight(q, t - 1)
  BY WeightFalls
<1>1. PICK g \in Nat, m \in Nat \ {0} : g = q.grace /\ m = q.months /\ n = m - g  BY DEF Terms
<1>2. \A j \in Int : Left(q, j) = Weight(q, IF j <= g THEN 0 ELSE j - g)  BY <1>1 DEF Left
<1>3. Left(q, 0) = Weight(q, 0) /\ Left(q, g) = Weight(q, 0)  BY <1>2
<1>4. Left(q, g + 1) = Weight(q, 1)
  <2>1. g + 1 \in Int /\ ~ (g + 1 <= g) /\ (g + 1) - g = 1  OBVIOUS
  <2> QED  BY <2>1, <1>2
<1>5. Left(q, m) = 0
  <2>1. ~ (m <= g) /\ m - g = n  BY <1>1
  <2> QED  BY <2>1, <1>2, <1>0
<1>6. ASSUME NEW j \in 0 .. m PROVE Left(q, j) \in Nat
  <2>1. (IF j <= g THEN 0 ELSE j - g) \in 0 .. n  BY <1>1
  <2>2. PICK t \in 0 .. n : t = IF j <= g THEN 0 ELSE j - g  BY <2>1
  <2> QED  BY <2>2, <1>2, WeightIsNat
<1>7. ASSUME NEW j \in 1 .. m PROVE Left(q, j) <= Left(q, j - 1)
  <2>1. j - 1 \in 0 .. m /\ j \in 0 .. m  OBVIOUS
  <2>2. PICK x \in Nat, y \in Nat : x = Left(q, j) /\ y = Left(q, j - 1)  BY <2>1, <1>6
  <2>3. CASE j <= g
    <3>1. x = Weight(q, 0) /\ y = Weight(q, 0)  BY <2>1, <2>2, <2>3, <1>2
    <3> QED  BY <2>2, <3>1
  <2>4. CASE ~ (j <= g)
    <3>1. PICK t \in 1 .. n : t = j - g  BY <2>4, <1>1
    <3>2. x = Weight(q, t)  BY <2>1, <2>2, <2>4, <3>1, <1>2
    <3>3. y = Weight(q, t - 1)
      <4>1. (IF j - 1 <= g THEN 0 ELSE (j - 1) - g) = t - 1  BY <2>4, <3>1
      <4> QED  BY <4>1, <2>1, <2>2, <1>2
    <3> QED  BY <2>2, <3>2, <3>3, <1>0
  <2> QED  BY <2>3, <2>4
<1> QED  BY <1>1, <1>3, <1>4, <1>5, <1>6, <1>7

RowsHold(q, p, k, D, E) ==
    /\ Len(Schedule(q)) = q.months
    /\ \A j \in 1 .. q.months :
          Schedule(q)[j] = PaymentRow(q, Part(p, D, Left(q, j - 1)) - Part(p, D, Left(q, j)),
                                      Part(p, E, k * Left(q, j - 1)), Part(p, D, Left(q, j)))

\* Every row of a schedule in numbers.
LEMMA RowsAre ==
    ASSUME NEW q, NEW p \in Nat \ {0}, NEW n \in Nat \ {0}, NEW k \in Nat, NEW d \in Nat \ {0},
           NEW D \in Nat \ {0}, NEW E \in Nat \ {0}, Terms(q, p, n, k, d, D, E)
    PROVE  RowsHold(q, p, k, D, E)
<1>1. PICK g \in Nat, m \in Nat \ {0} : g = q.grace /\ m = q.months /\ n = m - g /\ n = RepayMonths(q)
  BY DEF Terms
<1>2. PICK b : b = Balances(q)  OBVIOUS
<1>3. \A t \in 0 .. n : b[t] = Part(p, D, Weight(q, t))  BY <1>2, BalancesAre DEF Part
<1>4. \A t \in 0 .. n : Interest(q, b[t]) = Part(p, E, k * Weight(q, t))
  <2>1. \A c \in Int : Interest(q, Part(p, D, c)) = Part(p, E, k * c)  BY InterestIs
  <2>2. \A t \in 0 .. n : Weight(q, t) \in Int  BY WeightFalls
  <2> QED  BY <2>1, <2>2, <1>3
<1>5. PICK grace : grace = [i \in 1 .. g |-> PaymentRow(q, 0, Interest(q, b[0]), b[0])]  OBVIOUS
<1>6. PICK repay : repay = [i \in 1 .. n |-> PaymentRow(q, PrincipalPart(q, i, b[i - 1]), Interest(q, b[i - 1]), b[i])]
  OBVIOUS
<1>7. Schedule(q) = grace \o repay  BY <1>1, <1>2, <1>5, <1>6 DEF Schedule
<1>8. /\ Len(grace \o repay) = g + n
      /\ \A j \in 1 .. g : (grace \o repay)[j] = grace[j]
      /\ \A j \in g + 1 .. g + n : (grace \o repay)[j] = repay[j - g]
  <2> DEFINE R == {grace[i] : i \in 1 .. g} \cup {repay[i] : i \in 1 .. n}
  <2>1. grace \in [1 .. g -> R] /\ repay \in [1 .. n -> R]  BY <1>5, <1>6
  <2> HIDE DEF R
  <2>2. grace \in Seq(R) /\ repay \in Seq(R) /\ Len(grace) = g /\ Len(repay) = n  BY <2>1
  <2>3. Len(grace \o repay) = g + n  BY <2>2
  <2>4. \A j \in 1 .. g : (grace \o repay)[j] = grace[j]  BY <2>2
  <2>5. \A j \in g + 1 .. g + n : (grace \o repay)[j] = repay[j - g]
    <3> SUFFICES ASSUME NEW j \in g + 1 .. g + n PROVE (grace \o repay)[j] = repay[j - g]  OBVIOUS
    <3>1. j \in 1 .. Len(grace) + Len(repay) /\ ~ (j <= Len(grace)) /\ j - Len(grace) = j - g  BY <2>2
    <3> QED  BY <2>2, <3>1, SMTT(30)
  <2> QED  BY <2>3, <2>4, <2>5
<1>9. \A j \in Int : Left(q, j) = Weight(q, IF j <= g THEN 0 ELSE j - g)  BY <1>1 DEF Left
<1>10. ASSUME NEW j \in 1 .. m
       PROVE  Schedule(q)[j] = PaymentRow(q, Part(p, D, Left(q, j - 1)) - Part(p, D, Left(q, j)),
                                          Part(p, E, k * Left(q, j - 1)), Part(p, D, Left(q, j)))
  <2>1. CASE j <= g
    <3>1. Left(q, j) = Weight(q, 0) /\ Left(q, j - 1) = Weight(q, 0)  BY <2>1, <1>9
    <3>2. Schedule(q)[j] = PaymentRow(q, 0, Interest(q, b[0]), b[0])  BY <2>1, <1>5, <1>7, <1>8
    <3>3. 0 \in 0 .. n  OBVIOUS
    <3>4. Part(p, D, Weight(q, 0)) - Part(p, D, Weight(q, 0)) = 0
      <4>1. PICK w \in Int : w = Weight(q, 0)  BY <3>3, WeightFalls
      <4>2. PICK z \in Int : z = p * (D * w)  OBVIOUS
      <4> QED  BY <4>1, <4>2 DEF Part
    <3> QED  BY <3>1, <3>2, <3>3, <3>4, <1>3, <1>4
  <2>2. CASE ~ (j <= g)
    <3>1. PICK t \in 1 .. n : t = j - g  BY <2>2, <1>1
    <3>2. t - 1 \in 0 .. n /\ t \in 0 .. n /\ j \in g + 1 .. g + n  BY <2>2, <3>1, <1>1
    <3>3. Left(q, j) = Weight(q, t)  BY <2>2, <3>1, <1>9
    <3>4. Left(q, j - 1) = Weight(q, t - 1)
      <4>1. (IF j - 1 <= g THEN 0 ELSE (j - 1) - g) = t - 1  BY <2>2, <3>1
      <4> QED  BY <4>1, <1>9
    <3>5. Schedule(q)[j] = PaymentRow(q, PrincipalPart(q, t, b[t - 1]), Interest(q, b[t - 1]), b[t])
      BY <3>1, <3>2, <1>6, <1>7, <1>8
    <3>6. b[t - 1] = Part(p, D, Weight(q, t - 1)) /\ b[t] = Part(p, D, Weight(q, t))  BY <3>2, <1>3
    <3>7. PrincipalPart(q, t, b[t - 1]) = Part(p, D, Weight(q, t - 1)) - Part(p, D, Weight(q, t))
      BY <3>6, StepPays
    <3>8. Interest(q, b[t - 1]) = Part(p, E, k * Weight(q, t - 1))  BY <3>2, <1>4
    <3> QED  BY <3>3, <3>4, <3>5, <3>6, <3>7, <3>8
  <2> QED  BY <2>1, <2>2
<1>11. g + n = m  BY <1>1
<1> QED  BY <1>1, <1>7, <1>8, <1>10, <1>11 DEF RowsHold

\* The schedule of a loan: what is owed, B, and the interest, J, of every month.
RowsIn(q, p, m, S, B, J) ==
    /\ p = q.principal /\ m = q.months /\ S = ScaleOf(q) /\ Len(Schedule(q)) = m
    /\ B[0] = p * S /\ B[m] = 0
    /\ \A j \in 1 .. m : B[j] <= B[j - 1]
    /\ \A j \in 1 .. m : /\ Schedule(q)[j].payment = RoundHalfUp((B[j - 1] - B[j]) + J[j], S)
                         /\ Schedule(q)[j].principal = RoundHalfUp(B[j - 1] - B[j], S)
                         /\ Schedule(q)[j].interest = RoundHalfUp(J[j], S)
                         /\ Schedule(q)[j].balance = RoundHalfUp(B[j], S)

LEMMA PartIs ==
    ASSUME NEW p \in Nat \ {0}, NEW D \in Nat \ {0}
    PROVE  /\ \A w \in Nat : Part(p, D, w) \in Nat
           /\ Part(p, D, 0) = 0
           /\ \A w \in Nat, v \in Nat : v <= w => Part(p, D, v) <= Part(p, D, w)
<1>1. PICK c \in Nat \ {0} : c = p * D  OBVIOUS
<1>2. \A w \in Int : p * (D * w) = c * w  BY <1>1
<1>3. \A w \in Nat, v \in Nat : v <= w => c * v <= c * w  OBVIOUS
<1>4. \A w \in Nat : c * w \in Nat  OBVIOUS
<1> QED  BY <1>2, <1>3, <1>4 DEF Part

LEMMA RowsOfLoan ==
    ASSUME NEW q, LoanOf(q)
    PROVE  \E p \in Nat \ {0}, m \in Nat \ {0}, S \in Nat \ {0} : \E B \in [0 .. m -> Nat], J \in [1 .. m -> Nat] :
              RowsIn(q, p, m, S, B, J)
<1>1. PICK p \in Nat \ {0}, n \in Nat \ {0}, k \in Nat, d \in Nat \ {0}, D \in Nat \ {0}, E \in Nat \ {0} :
         Terms(q, p, n, k, d, D, E)
  BY TermsAre
<1>2. PICK m \in Nat \ {0} : m = q.months /\ p = q.principal  BY <1>1 DEF Terms
<1>3. /\ Weight(q, 0) \in Nat \ {0} /\ ScaleOf(q) = D * Weight(q, 0)
  BY <1>1, WeightFalls
<1>4. PICK S \in Nat \ {0} : S = ScaleOf(q) /\ Part(p, D, Weight(q, 0)) = p * S
  <2>1. PICK w \in Nat \ {0} : w = Weight(q, 0)  BY <1>3
  <2>2. D * w \in Nat \ {0}  OBVIOUS
  <2> QED  BY <2>1, <2>2, <1>3 DEF Part
<1>5. /\ Left(q, 0) = Weight(q, 0) /\ Left(q, m) = 0
      /\ \A j \in 0 .. m : Left(q, j) \in Nat
      /\ \A j \in 1 .. m : Left(q, j) <= Left(q, j - 1)
  BY <1>1, <1>2, LeftFalls
<1>6. /\ \A w \in Nat : Part(p, D, w) \in Nat
      /\ Part(p, D, 0) = 0
      /\ \A w \in Nat, v \in Nat : v <= w => Part(p, D, v) <= Part(p, D, w)
  BY PartIs
<1>7. \A w \in Nat : Part(p, E, k * w) \in Nat
  <2>1. \A w \in Nat : Part(p, E, w) \in Nat  BY PartIs
  <2>2. \A w \in Nat : k * w \in Nat  OBVIOUS
  <2> QED  BY <2>1, <2>2
<1>8. PICK B : B = [j \in 0 .. m |-> Part(p, D, Left(q, j))]  OBVIOUS
<1>9. PICK J : J = [j \in 1 .. m |-> Part(p, E, k * Left(q, j - 1))]  OBVIOUS
<1>10. B \in [0 .. m -> Nat] /\ J \in [1 .. m -> Nat]
  <2>1. \A j \in 0 .. m : Part(p, D, Left(q, j)) \in Nat  BY <1>5, <1>6
  <2>2. ASSUME NEW j \in 1 .. m PROVE Part(p, E, k * Left(q, j - 1)) \in Nat
    <3>1. j - 1 \in 0 .. m  OBVIOUS
    <3> QED  BY <3>1, <1>5, <1>7
  <2> QED  BY <2>1, <2>2, <1>8, <1>9
<1>11. B[0] = p * S /\ B[m] = 0
  <2>1. 0 \in 0 .. m /\ m \in 0 .. m  OBVIOUS
  <2> QED  BY <2>1, <1>2, <1>4, <1>5, <1>6, <1>8
<1>12. ASSUME NEW j \in 1 .. m PROVE B[j] <= B[j - 1]
  <2>1. j \in 0 .. m /\ j - 1 \in 0 .. m  OBVIOUS
  <2>2. B[j] = Part(p, D, Left(q, j)) /\ B[j - 1] = Part(p, D, Left(q, j - 1))  BY <2>1, <1>8
  <2> QED  BY <2>1, <2>2, <1>5, <1>6
<1>13. /\ Len(Schedule(q)) = m
       /\ \A j \in 1 .. m :
             Schedule(q)[j] = PaymentRow(q, Part(p, D, Left(q, j - 1)) - Part(p, D, Left(q, j)),
                                         Part(p, E, k * Left(q, j - 1)), Part(p, D, Left(q, j)))
  <2>1. RowsHold(q, p, k, D, E)  BY <1>1, RowsAre
  <2> QED  BY <2>1, <1>2 DEF RowsHold
<1>14. ASSUME NEW j \in 1 .. m
       PROVE  /\ Schedule(q)[j].payment = RoundHalfUp((B[j - 1] - B[j]) + J[j], S)
              /\ Schedule(q)[j].principal = RoundHalfUp(B[j - 1] - B[j], S)
              /\ Schedule(q)[j].interest = RoundHalfUp(J[j], S)
              /\ Schedule(q)[j].balance = RoundHalfUp(B[j], S)
  <2>1. j \in 0 .. m /\ j - 1 \in 0 .. m  OBVIOUS
  <2>2. Schedule(q)[j] = PaymentRow(q, B[j - 1] - B[j], J[j], B[j])  BY <2>1, <1>8, <1>9, <1>13
  <2>3. PICK z \in Nat : z = B[j]  BY <2>1, <1>10
  <2>4. AtLeastZero(B[j]) = B[j]  BY <2>3 DEF AtLeastZero
  <2> QED  BY <2>2, <2>4, <1>4 DEF PaymentRow
<1>15. RowsIn(q, p, m, S, B, J)  BY <1>2, <1>4, <1>11, <1>12, <1>13, <1>14 DEF RowsIn
<1> QED  BY <1>2, <1>10, <1>15

LEMMA Cancel ==
    ASSUME NEW s \in Nat \ {0}, NEW x \in Int, NEW y \in Int, s * x <= s * y
    PROVE  x <= y
<1>1. y < x => s * (y + 1) <= s * x  OBVIOUS
<1>2. s * (y + 1) = s * y + s  OBVIOUS
<1>3. PICK u \in Int, v \in Int : u = s * x /\ v = s * y  OBVIOUS
<1> QED  BY <1>1, <1>2, <1>3

\* A sum's numbers are close to the exact ones.
Close(e, S, r, x) == e * (S * r) - e * x <= S /\ e * x - e * (S * r) <= S

LEMMA SumsClose ==
    ASSUME NEW m \in Nat \ {0}, NEW S \in Nat \ {0}, NEW e \in Nat \ {0}, NEW s \in [0 .. m -> Int], NEW B \in [0 .. m -> Int],
           s[0] = 0, \A j \in 1 .. m : Close(e, S, s[j] - s[j - 1], B[j - 1] - B[j])
    PROVE  \A t \in Int, x \in Int : t = s[m] /\ S * x = B[0] - B[m] => e * (t - x) <= m /\ e * (x - t) <= m
<1>0. 0 \in 0 .. m /\ m \in 0 .. m /\ \A j \in 1 .. m : j \in 0 .. m /\ j - 1 \in 0 .. m  OBVIOUS
<1>1. PICK f : f = [j \in 0 .. m |-> e * (S * s[j]) - e * (B[0] - B[j])]  OBVIOUS
<1>2. PICK b \in Int : b = B[0]  BY <1>0
<1>3. ASSUME NEW j \in 0 .. m
      PROVE  \E x \in Int, y \in Int : x = s[j] /\ y = B[j] /\ f[j] = e * (S * x) - e * (b - y)
  <2>1. PICK x \in Int, y \in Int : x = s[j] /\ y = B[j]  OBVIOUS
  <2>2. f[j] = e * (S * x) - e * (b - y)  BY <2>1, <1>1, <1>2
  <2> QED  BY <2>1, <2>2
<1>4. f \in [0 .. m -> Int]
  <2>1. ASSUME NEW j \in 0 .. m PROVE f[j] \in Int
    <3>1. PICK x \in Int, y \in Int : f[j] = e * (S * x) - e * (b - y)  BY <1>3
    <3>2. e * (S * x) - e * (b - y) \in Int  OBVIOUS
    <3> QED  BY <3>1, <3>2
  <2>2. f = [j \in 0 .. m |-> f[j]]  BY <1>1
  <2> QED  BY <2>1, <2>2
<1>5. f[0] = 0
  <2>1. PICK x \in Int, y \in Int : x = s[0] /\ y = B[0] /\ f[0] = e * (S * x) - e * (b - y)
    BY <1>0, <1>3
  <2>2. x = 0 /\ b - y = 0  BY <2>1, <1>2
  <2>3. e * (S * 0) - e * 0 = 0  OBVIOUS
  <2> QED  BY <2>1, <2>2, <2>3
<1>6. ASSUME NEW j \in 1 .. m PROVE f[j] - f[j - 1] <= S /\ f[j - 1] - f[j] <= S
  <2>1. PICK x \in Int, y \in Int : x = s[j] /\ y = B[j] /\ f[j] = e * (S * x) - e * (b - y)
    BY <1>0, <1>3
  <2>2. PICK z \in Int, w \in Int : z = s[j - 1] /\ w = B[j - 1] /\ f[j - 1] = e * (S * z) - e * (b - w)
    BY <1>0, <1>3
  <2>3. Close(e, S, x - z, w - y)  BY <2>1, <2>2
  <2>4. e * (S * (x - z)) - e * (w - y) <= S /\ e * (w - y) - e * (S * (x - z)) <= S  BY <2>3 DEF Close
  <2>5. e * (S * (x - z)) = e * (S * x) - e * (S * z) /\ e * (w - y) = e * w - e * y  OBVIOUS
  <2>6. e * (b - y) = e * b - e * y /\ e * (b - w) = e * b - e * w  OBVIOUS
  <2>7. PICK g \in Int, h \in Int, c \in Int, k \in Int, l \in Int :
           g = e * (S * x) /\ h = e * (S * z) /\ c = e * b /\ k = e * w /\ l = e * y
    OBVIOUS
  <2>8. f[j] = g - (c - l) /\ f[j - 1] = h - (c - k)  BY <2>1, <2>2, <2>6, <2>7
  <2>9. (g - h) - (k - l) <= S /\ (k - l) - (g - h) <= S  BY <2>4, <2>5, <2>7
  <2> QED  BY <2>8, <2>9
<1>7. f[m] <= m * S /\ -f[m] <= m * S
  <2>1. S \in Nat /\ m \in Nat  OBVIOUS
  <2> QED  BY <2>1, <1>4, <1>5, <1>6, Drift
<1>8. ASSUME NEW t \in Int, NEW x \in Int, t = s[m], S * x = B[0] - B[m]
      PROVE  e * (t - x) <= m /\ e * (x - t) <= m
  <2>1. PICK z \in Int, y \in Int : z = s[m] /\ y = B[m] /\ f[m] = e * (S * z) - e * (b - y)
    BY <1>0, <1>3
  <2>2. f[m] = e * (S * t) - e * (S * x)  BY <2>1, <1>2, <1>8
  <2>3. e * (S * t) - e * (S * x) = S * (e * (t - x)) /\ -(e * (S * t) - e * (S * x)) = S * (e * (x - t)) /\ m * S = S * m
    OBVIOUS
  <2>4. PICK g \in Int, h \in Int, c \in Int : g = e * (t - x) /\ h = e * (x - t) /\ c = m  OBVIOUS
  <2>5. S * g <= S * c /\ S * h <= S * c  BY <2>2, <2>3, <2>4, <1>7
  <2> QED  BY <2>4, <2>5, Cancel
<1> QED  BY <1>8

\* A row's numbers are close to the exact ones.
LEMMA RowsClose ==
    ASSUME NEW S \in Nat \ {0}, NEW x \in Int, NEW y \in Int
    PROVE  Close(2, S, RoundHalfUp(x, S), x) /\ Close(1, S, RoundHalfUp(x + y, S) - RoundHalfUp(y, S), x)
<1>1. PICK a \in Int : a = RoundHalfUp(x, S) /\ 2 * (S * a) <= 2 * x + S /\ 2 * x < 2 * (S * a) + S
  BY RoundUpFacts
<1>2. PICK z \in Int : z = x + y  OBVIOUS
<1>3. PICK b \in Int : b = RoundHalfUp(z, S) /\ 2 * (S * b) <= 2 * z + S /\ 2 * z < 2 * (S * b) + S
  BY RoundUpFacts
<1>4. PICK c \in Int : c = RoundHalfUp(y, S) /\ 2 * (S * c) <= 2 * y + S /\ 2 * y < 2 * (S * c) + S
  BY RoundUpFacts
<1>5. PICK u \in Int, v \in Int, w \in Int : u = S * a /\ v = S * b /\ w = S * c /\ S * (b - c) = v - w
  OBVIOUS
<1>6. 2 * (S * a) - 2 * x <= S /\ 2 * x - 2 * (S * a) <= S  BY <1>1, <1>5
<1>7. S * (b - c) - x <= S /\ x - S * (b - c) <= S  BY <1>2, <1>3, <1>4, <1>5
<1> QED  BY <1>1, <1>2, <1>3, <1>4, <1>6, <1>7 DEF Close

\* The principal of the rows is the loan, but for half a som a month, and the payments are the
\* principal and the interest, but for a som a month.
LEMMA PrincipalIsRepaid ==
    ASSUME NEW q, NEW m \in Nat \ {0}, NEW S \in Nat \ {0}, NEW B \in [0 .. m -> Nat], NEW J \in [1 .. m -> Nat],
           NEW p \in Nat \ {0}, RowsIn(q, p, m, S, B, J)
    PROVE  \E t \in Int, c \in Int, i \in Int :
              /\ t = SumOf(Schedule(q), "principal") /\ 2 * (t - p) <= m /\ 2 * (p - t) <= m
              /\ c = SumOf(Schedule(q), "payment") /\ i = SumOf(Schedule(q), "interest")
              /\ (c - p) - i <= m /\ -((c - p) - i) <= m
<1>1. PICK rows : rows = Schedule(q)  OBVIOUS
<1>2. /\ Len(rows) = m /\ B[0] = p * S /\ B[m] = 0
      /\ \A j \in 1 .. m : /\ rows[j].payment = RoundHalfUp((B[j - 1] - B[j]) + J[j], S)
                           /\ rows[j].principal = RoundHalfUp(B[j - 1] - B[j], S)
                           /\ rows[j].interest = RoundHalfUp(J[j], S)
  BY <1>1 DEF RowsIn
<1>3. ASSUME NEW j \in 1 .. m
      PROVE  \E x \in Int, y \in Int, r \in Int, c \in Int, i \in Int :
                /\ x = B[j - 1] - B[j] /\ y = J[j] /\ r = rows[j].principal /\ c = rows[j].payment /\ i = rows[j].interest
                /\ Close(2, S, r, x) /\ Close(1, S, c - i, x)
  <2>1. j \in 0 .. m /\ j - 1 \in 0 .. m  OBVIOUS
  <2>2. PICK u \in Int, v \in Int, y \in Int : u = B[j - 1] /\ v = B[j] /\ y = J[j]  BY <2>1
  <2>3. PICK x \in Int, z \in Int : x = u - v /\ z = x + y  OBVIOUS
  <2>4. PICK r \in Int, c \in Int, i \in Int : r = RoundHalfUp(x, S) /\ c = RoundHalfUp(z, S) /\ i = RoundHalfUp(y, S)
    BY RoundUpFacts
  <2>5. Close(2, S, r, x) /\ Close(1, S, c - i, x)
    <3>1. Close(2, S, RoundHalfUp(x, S), x) /\ Close(1, S, RoundHalfUp(x + y, S) - RoundHalfUp(y, S), x)
      BY RowsClose
    <3> QED  BY <3>1, <2>3, <2>4
  <2>6. r = rows[j].principal /\ c = rows[j].payment /\ i = rows[j].interest  BY <2>2, <2>3, <2>4, <1>2
  <2> QED  BY <2>2, <2>3, <2>5, <2>6
<1>4. PICK s \in [0 .. m -> Int] : Counts(rows, "principal", m, s)
  <2>1. \A j \in 1 .. m : rows[j]["principal"] \in Int  BY <1>3
  <2> QED  BY <2>1, <1>2, SumIs
<1>5. PICK f \in [0 .. m -> Int] : Counts(rows, "payment", m, f)
  <2>1. \A j \in 1 .. m : rows[j]["payment"] \in Int  BY <1>3
  <2> QED  BY <2>1, <1>2, SumIs
<1>6. PICK g \in [0 .. m -> Int] : Counts(rows, "interest", m, g)
  <2>1. \A j \in 1 .. m : rows[j]["interest"] \in Int  BY <1>3
  <2> QED  BY <2>1, <1>2, SumIs
<1>7. PICK h \in [0 .. m -> Int] : \A j \in 0 .. m : h[j] = f[j] - g[j]
  <2>1. ASSUME NEW j \in 0 .. m PROVE f[j] - g[j] \in Int
    <3>1. PICK x \in Int, y \in Int : x = f[j] /\ y = g[j]  OBVIOUS
    <3>2. x - y \in Int  OBVIOUS
    <3> QED  BY <3>1, <3>2
  <2>2. [j \in 0 .. m |-> f[j] - g[j]] \in [0 .. m -> Int]  BY <2>1
  <2> QED  BY <2>2
<1>8. 0 \in 0 .. m /\ m \in 0 .. m  OBVIOUS
<1>9. PICK t \in Int, c \in Int, i \in Int : t = s[m] /\ c = f[m] /\ i = g[m]  BY <1>8
<1>10. S * p = B[0] - B[m]
  <2>1. S * p = p * S - 0  OBVIOUS
  <2> QED  BY <2>1, <1>2
<1>11. 2 * (t - p) <= m /\ 2 * (p - t) <= m
  <2>1. ASSUME NEW j \in 1 .. m PROVE Close(2, S, s[j] - s[j - 1], B[j - 1] - B[j])
    <3>1. PICK x \in Int, r \in Int : x = B[j - 1] - B[j] /\ r = rows[j].principal /\ Close(2, S, r, x)
      BY <1>3
    <3>2. s[j] = s[j - 1] + rows[j].principal  BY <1>4 DEF Counts
    <3>3. j \in 0 .. m /\ j - 1 \in 0 .. m  OBVIOUS
    <3>4. PICK v \in Int : v = s[j - 1]  BY <3>3
    <3>5. s[j] = v + r  BY <3>1, <3>2, <3>4
    <3>6. s[j] - s[j - 1] = r  BY <3>4, <3>5
    <3> QED  BY <3>1, <3>6
  <2>2. s[0] = 0 /\ 2 \in Nat \ {0} /\ B \in [0 .. m -> Int]  BY <1>4 DEF Counts
  <2>3. \A z \in Int, x \in Int : z = s[m] /\ S * x = B[0] - B[m] => 2 * (z - x) <= m /\ 2 * (x - z) <= m
    BY <2>1, <2>2, SumsClose
  <2>4. p \in Int  OBVIOUS
  <2> QED  BY <2>3, <2>4, <1>9, <1>10
<1>12. (c - p) - i <= m /\ -((c - p) - i) <= m
  <2>1. ASSUME NEW j \in 1 .. m PROVE Close(1, S, h[j] - h[j - 1], B[j - 1] - B[j])
    <3>1. PICK x \in Int, r \in Int, y \in Int :
             x = B[j - 1] - B[j] /\ r = rows[j].payment /\ y = rows[j].interest /\ Close(1, S, r - y, x)
      BY <1>3
    <3>2. f[j] = f[j - 1] + rows[j].payment /\ g[j] = g[j - 1] + rows[j].interest
      BY <1>5, <1>6 DEF Counts
    <3>3. j \in 0 .. m /\ j - 1 \in 0 .. m  OBVIOUS
    <3>4. PICK u \in Int, v \in Int : u = f[j - 1] /\ v = g[j - 1]  BY <3>3
    <3>5. h[j] = (u + r) - (v + y) /\ h[j - 1] = u - v  BY <3>1, <3>2, <3>3, <3>4, <1>7
    <3>6. h[j] - h[j - 1] = r - y  BY <3>5
    <3> QED  BY <3>1, <3>6
  <2>2. h[0] = 0 /\ 1 \in Nat \ {0} /\ B \in [0 .. m -> Int]
    <3>1. f[0] = 0 /\ g[0] = 0  BY <1>5, <1>6 DEF Counts
    <3> QED  BY <3>1, <1>7, <1>8, SMTT(30)
  <2>3. \A z \in Int, x \in Int : z = h[m] /\ S * x = B[0] - B[m] => 1 * (z - x) <= m /\ 1 * (x - z) <= m
    BY <2>1, <2>2, SumsClose
  <2>4. PICK z \in Int : z = c - i /\ z = h[m]  BY <1>7, <1>8, <1>9
  <2>5. p \in Int  OBVIOUS
  <2>6. 1 * (z - p) <= m /\ 1 * (p - z) <= m  BY <2>3, <2>4, <2>5, <1>10
  <2>7. z - p <= m /\ p - z <= m  BY <2>6
  <2>8. (c - p) - i = z - p /\ -((c - p) - i) = p - z  BY <2>4
  <2> QED  BY <2>7, <2>8
<1>13. t = SumOf(rows, "principal") /\ c = SumOf(rows, "payment") /\ i = SumOf(rows, "interest")
  BY <1>4, <1>5, <1>6, <1>9 DEF Counts
<1> QED  BY <1>1, <1>11, <1>12, <1>13

CreditAnswered ==
    /\ LoanOf(question)
    /\ answer = [credit |-> Credit(question), loads |-> [r \in Revenues \ {0} |-> CreditLoad(Credit(question).monthly, r)]]

LEMMA CreditIs ==
    ASSUME NEW q
    PROVE  /\ Credit(q).schedule = Schedule(q) /\ Credit(q).monthly = Schedule(q)[q.grace + 1].payment
           /\ Credit(q).total = SumOf(Schedule(q), "payment") /\ Credit(q).interest = SumOf(Schedule(q), "interest")
  BY DEF Credit

LEMMA LoansAreRepaid ==
    ASSUME CreditAnswered
    PROVE  LoanIsRepaid
<1>1. PICK q : q = question  OBVIOUS
<1>2. LoanOf(q) /\ answer.credit = Credit(q)  BY <1>1 DEF CreditAnswered
<1>3. PICK p \in Nat \ {0}, m \in Nat \ {0}, S \in Nat \ {0} : \E B \in [0 .. m -> Nat], J \in [1 .. m -> Nat] :
         RowsIn(q, p, m, S, B, J)
  BY <1>2, RowsOfLoan
<1>4. PICK B \in [0 .. m -> Nat], J \in [1 .. m -> Nat] : RowsIn(q, p, m, S, B, J)  BY <1>3
<1>5. PICK rows : rows = Schedule(q)  OBVIOUS
<1>6. /\ p = q.principal /\ m = q.months /\ Len(rows) = m /\ B[m] = 0 /\ \A j \in 1 .. m : B[j] <= B[j - 1]
      /\ \A j \in 1 .. m : rows[j].balance = RoundHalfUp(B[j], S)
  BY <1>4, <1>5 DEF RowsIn
<1>7. rows[m].balance = 0
  <2>1. m \in 1 .. m  OBVIOUS
  <2>2. rows[m].balance = RoundHalfUp(0, S)  BY <2>1, <1>6
  <2>3. PICK a \in Int : a = RoundHalfUp(0, S) /\ 2 * (S * a) <= 2 * 0 + S /\ 2 * 0 < 2 * (S * a) + S
    <3>1. 0 \in Int  OBVIOUS
    <3> QED  BY <3>1, RoundUpFacts
  <2>4. PICK u \in Int : u = S * a  OBVIOUS
  <2>5. 2 * u <= S /\ 0 < 2 * u + S  BY <2>3, <2>4
  <2>6. a >= 1 => u >= S  BY <2>4
  <2>7. a <= -1 => u <= -S  BY <2>4
  <2>8. a = 0  BY <2>5, <2>6, <2>7
  <2> QED  BY <2>2, <2>3, <2>8
<1>8. ASSUME NEW i \in 2 .. m PROVE rows[i].balance <= rows[i - 1].balance
  <2>1. i \in 1 .. m /\ i - 1 \in 1 .. m /\ i \in 0 .. m /\ i - 1 \in 0 .. m  OBVIOUS
  <2>2. PICK x \in Int, y \in Int : x = B[i] /\ y = B[i - 1]  BY <2>1
  <2>3. x <= y  BY <2>1, <2>2, <1>6
  <2>4. x * S <= y * S  BY <2>3
  <2>5. RoundHalfUp(x, S) <= RoundHalfUp(y, S)  BY <2>4, RoundUpMono
  <2> QED  BY <2>1, <2>2, <2>5, <1>6
<1>9. PICK t \in Int, c \in Int, i \in Int :
         /\ t = SumOf(Schedule(q), "principal") /\ 2 * (t - p) <= m /\ 2 * (p - t) <= m
         /\ c = SumOf(Schedule(q), "payment") /\ i = SumOf(Schedule(q), "interest")
         /\ (c - p) - i <= m /\ -((c - p) - i) <= m
  BY <1>4, PrincipalIsRepaid
<1>10. answer.credit.schedule = rows /\ answer.credit.total = c /\ answer.credit.interest = i
  BY <1>2, <1>5, <1>9, CreditIs
<1>11. (c - p) - i \in -m .. m
  <2>1. PICK z \in Int : z = (c - p) - i  OBVIOUS
  <2>2. z <= m /\ -z <= m  BY <2>1, <1>9
  <2>3. z \in -m .. m  BY <2>2
  <2> QED  BY <2>1, <2>3
<1>12. t = SumOf(rows, "principal")  BY <1>5, <1>9
<1> QED  BY <1>1, <1>6, <1>7, <1>8, <1>9, <1>10, <1>11, <1>12 DEF LoanIsRepaid

TakesMore(q, u) ==
    \E w \in Nat \ {0}, v \in Nat \ {0}, x \in Nat, y \in Nat :
       /\ w = Weight(q, 0) /\ x = w - Weight(q, 1) /\ v = Weight(u, 0) /\ y = v - Weight(u, 1)
       /\ y * w <= x * v

\* What a first instalment takes off the whole, in the terms of a longer loan and of a shorter.
LEMMA StepShare ==
    ASSUME NEW q, NEW p \in Nat \ {0}, NEW n \in Nat \ {0}, NEW k \in Nat, NEW d \in Nat \ {0},
           NEW D \in Nat \ {0}, NEW E \in Nat \ {0}, Terms(q, p, n, k, d, D, E),
           NEW u, NEW r \in Nat \ {0}, NEW l \in Nat \ {0}, NEW F \in Nat \ {0}, NEW G \in Nat \ {0},
           Terms(u, r, l, k, d, F, G), n <= l, u.method = q.method, u.rate = q.rate
    PROVE  TakesMore(q, u)
<1>0. 0 \in 0 .. n /\ 1 \in 0 .. n /\ 1 \in 1 .. n /\ 1 - 1 = 0 /\ 1 \in 0 .. l /\ 1 \in 1 .. l  OBVIOUS
<1>1. /\ Weight(q, 0) \in Nat \ {0} /\ Weight(q, 1) \in Int /\ Weight(q, 1) <= Weight(q, 0)
  <2>1. /\ Weight(q, 0) \in Nat \ {0} /\ \A t \in 0 .. n : Weight(q, t) \in Int
        /\ \A t \in 1 .. n : Weight(q, t) <= Weight(q, t - 1)
    BY WeightFalls
  <2> QED  BY <2>1, <1>0
<1>2. /\ Weight(u, 0) \in Nat \ {0} /\ Weight(u, 1) \in Int /\ Weight(u, 1) <= Weight(u, 0)
  <2>1. /\ Weight(u, 0) \in Nat \ {0} /\ \A t \in 0 .. l : Weight(u, t) \in Int
        /\ \A t \in 1 .. l : Weight(u, t) <= Weight(u, t - 1)
    BY WeightFalls
  <2> QED  BY <2>1, <1>0
<1>3. PICK w \in Nat \ {0}, v \in Nat \ {0} : w = Weight(q, 0) /\ v = Weight(u, 0)  BY <1>1, <1>2
<1>4. PICK x \in Nat, y \in Nat : x = w - Weight(q, 1) /\ y = v - Weight(u, 1)
  <2>1. PICK a \in Int, b \in Int : a = Weight(q, 1) /\ b = Weight(u, 1) /\ a <= w /\ b <= v
    BY <1>1, <1>2, <1>3
  <2>2. w - a \in Nat /\ v - b \in Nat  BY <2>1
  <2> QED  BY <2>1, <2>2
<1>5. /\ RepayMonths(q) = n /\ Reduced(q.rate).k = k /\ Reduced(q.rate).d = d /\ D = Power(d, n) /\ E = Power(d, n - 1) /\ D = d * E
      /\ RepayMonths(u) = l /\ F = Power(d, l) /\ G = Power(d, l - 1) /\ F = d * G
  BY DEF Terms
<1>6. CASE q.method = "annuity" /\ q.rate # 0
  <2>1. PICK a \in Nat \ {0} : a = k + d  OBVIOUS
  <2>2. PICK m \in Nat : l = n + m /\ m = l - n  OBVIOUS
  <2>3. PICK M \in Nat \ {0}, N \in Nat \ {0}, H \in Nat \ {0}, h \in Nat \ {0} :
           M = Power(a, n) /\ N = Power(a, l) /\ H = Power(a, m) /\ h = Power(d, m)
    BY PowerAtLeastOne
  <2>4. h <= H
    <3>1. d <= a  BY <2>1
    <3> QED  BY <3>1, <2>3, PowerGrows
  <2>5. N = M * H
    <3>1. Power(a, n + m) = Power(a, n) * Power(a, m)  BY PowerOfSum
    <3> QED  BY <3>1, <2>2, <2>3
  <2>6. F = D * h
    <3>1. Power(d, n + m) = Power(d, n) * Power(d, m)  BY PowerOfSum
    <3> QED  BY <3>1, <2>2, <2>3, <1>5
  <2>7. G = E * h
    <3>1. n - 1 \in Nat /\ (n - 1) + m = l - 1  BY <2>2
    <3>2. Power(d, (n - 1) + m) = Power(d, n - 1) * Power(d, m)  BY <3>1, PowerOfSum
    <3> QED  BY <3>1, <3>2, <2>3, <1>5
  <2>8. Power(a, 0) = 1 /\ Power(a, 1) = a
    <3>1. a \in Nat /\ 0 \in Nat /\ 0 + 1 = 1  OBVIOUS
    <3>2. Power(a, 0) = 1 /\ Power(a, 0 + 1) = a * Power(a, 0)  BY <3>1, PowerSteps
    <3> QED  BY <3>1, <3>2
  <2>9. w = M - D /\ v = N - F
    <3>1. Weight(q, 0) = Power(a, n) - Power(a, 0) * Power(d, n - 0)  BY <1>5, <1>6, <2>1 DEF Weight
    <3>2. Weight(u, 0) = Power(a, l) - Power(a, 0) * Power(d, l - 0)  BY <1>5, <1>6, <2>1 DEF Weight
    <3>3. n - 0 = n /\ l - 0 = l /\ 1 * D = D /\ 1 * F = F  OBVIOUS
    <3>4. Power(a, 0) * Power(d, n - 0) = D /\ Power(a, 0) * Power(d, l - 0) = F  BY <3>3, <2>8, <1>5
    <3>5. Weight(q, 0) = M - D /\ Weight(u, 0) = N - F  BY <3>1, <3>2, <3>4, <2>3
    <3> QED  BY <3>5, <1>3
  <2>10. x = k * E /\ y = k * G
    <3>1. Weight(q, 1) = Power(a, n) - Power(a, 1) * Power(d, n - 1)  BY <1>5, <1>6, <2>1 DEF Weight
    <3>2. Weight(u, 1) = Power(a, l) - Power(a, 1) * Power(d, l - 1)  BY <1>5, <1>6, <2>1 DEF Weight
    <3>3. Weight(q, 1) = M - a * E /\ Weight(u, 1) = N - a * G  BY <3>1, <3>2, <2>3, <2>8, <1>5
    <3>4. a * E = k * E + d * E /\ a * G = k * G + d * G  BY <2>1
    <3>5. PICK b \in Int, c \in Int, e \in Int, f \in Int : b = a * E /\ c = a * G /\ e = k * E /\ f = k * G
      OBVIOUS
    <3>6. b = e + D /\ c = f + F  BY <3>4, <3>5, <1>5
    <3>7. x = w - (M - b) /\ y = v - (N - c)  BY <3>3, <3>5, <1>4
    <3> QED  BY <3>5, <3>6, <3>7, <2>9
  <2>11. (k * (E * h)) * (M - D) <= (k * E) * (M * H - D * h)
    <3>1. PICK c \in Nat : c = k * E  OBVIOUS
    <3>2. (k * (E * h)) * (M - D) = c * (h * (M - D))  BY <3>1
    <3>3. h * M <= H * M  BY <2>4
    <3>4. h * (M - D) = h * M - D * h /\ H * M = M * H  OBVIOUS
    <3>5. PICK f \in Int, g \in Int : f = h * (M - D) /\ g = M * H - D * h  OBVIOUS
    <3>6. f <= g
      <4>1. PICK b \in Int, e \in Int, s \in Int : b = h * M /\ e = M * H /\ s = D * h  OBVIOUS
      <4> QED  BY <4>1, <3>3, <3>4, <3>5
    <3>7. c * f <= c * g  BY <3>6
    <3> QED  BY <3>1, <3>2, <3>5, <3>7
  <2>12. y * w <= x * v  BY <2>5, <2>6, <2>7, <2>9, <2>10, <2>11
  <2> QED  BY <2>12, <1>3, <1>4 DEF TakesMore
<1>7. CASE ~ (q.method = "annuity" /\ q.rate # 0)
  <2>1. Weight(q, 0) = n - 0 /\ Weight(q, 1) = n - 1 /\ Weight(u, 0) = l - 0 /\ Weight(u, 1) = l - 1
    BY <1>5, <1>7 DEF Weight
  <2>2. w = n /\ v = l /\ x = 1 /\ y = 1  BY <2>1, <1>3, <1>4
  <2>3. y * w <= x * v  BY <2>2
  <2> QED  BY <2>3, <1>3, <1>4 DEF TakesMore
<1> QED  BY <1>6, <1>7

FirstIs(q, p, k, D, E) ==
    \A w \in Nat \ {0}, x \in Nat :
       w = Weight(q, 0) /\ x = w - Weight(q, 1) => Credit(q).monthly = RoundHalfUp(p * (D * x + E * (k * w)), D * w)

\* The first instalment in numbers: the share of the principal, x of w, and the interest.
LEMMA MonthlyIs ==
    ASSUME NEW q, NEW p \in Nat \ {0}, NEW n \in Nat \ {0}, NEW k \in Nat, NEW d \in Nat \ {0},
           NEW D \in Nat \ {0}, NEW E \in Nat \ {0}, Terms(q, p, n, k, d, D, E)
    PROVE  FirstIs(q, p, k, D, E)
<1>0. SUFFICES ASSUME NEW w \in Nat \ {0}, NEW x \in Nat, w = Weight(q, 0), x = w - Weight(q, 1)
               PROVE  Credit(q).monthly = RoundHalfUp(p * (D * x + E * (k * w)), D * w)
  BY DEF FirstIs
<1>1. PICK g \in Nat, m \in Nat \ {0} : g = q.grace /\ m = q.months /\ n = m - g  BY DEF Terms
<1>2. g + 1 \in 1 .. m /\ (g + 1) - 1 = g  BY <1>1
<1>3. RowsHold(q, p, k, D, E)  BY RowsAre
<1>4. Left(q, g) = Weight(q, 0) /\ Left(q, g + 1) = Weight(q, 1) /\ \A j \in 0 .. m : Left(q, j) \in Nat
  <2>1. /\ Left(q, q.grace) = Weight(q, 0) /\ Left(q, q.grace + 1) = Weight(q, 1)
        /\ \A j \in 0 .. q.months : Left(q, j) \in Nat
    BY LeftFalls
  <2> QED  BY <2>1, <1>1
<1>5. PICK v \in Nat : v = Weight(q, 1)
  <2>1. g + 1 \in 0 .. m  BY <1>1
  <2> QED  BY <2>1, <1>4
<1>6. Schedule(q)[g + 1] = PaymentRow(q, Part(p, D, w) - Part(p, D, v), Part(p, E, k * w), Part(p, D, v))
  BY <1>0, <1>1, <1>2, <1>3, <1>4, <1>5 DEF RowsHold
<1>7. Credit(q).monthly = RoundHalfUp((Part(p, D, w) - Part(p, D, v)) + Part(p, E, k * w), ScaleOf(q))
  <2>1. Credit(q).monthly = Schedule(q)[g + 1].payment  BY <1>1, CreditIs
  <2>2. PICK line : line = Schedule(q)[g + 1]  OBVIOUS
  <2>3. line.payment = RoundHalfUp((Part(p, D, w) - Part(p, D, v)) + Part(p, E, k * w), ScaleOf(q))
    BY <2>2, <1>6 DEF PaymentRow
  <2> QED  BY <2>1, <2>2, <2>3
<1>8. ScaleOf(q) = D * w
  <2>1. ScaleOf(q) = D * Weight(q, 0)  BY WeightFalls
  <2> QED  BY <2>1, <1>0
<1>9. (Part(p, D, w) - Part(p, D, v)) + Part(p, E, k * w) = p * (D * x + E * (k * w))
  <2>1. v = w - x
    <3>1. x = w - v  BY <1>0, <1>5
    <3> QED  BY <3>1
  <2>2. (p * (D * w) - p * (D * (w - x))) + p * (E * (k * w)) = p * (D * x + E * (k * w))  OBVIOUS
  <2> QED  BY <2>1, <2>2 DEF Part
<1> QED  BY <1>7, <1>8, <1>9

\* A longer term or a smaller loan has no higher first instalment.
LEMMA MonthlyFalls ==
    ASSUME NEW q, NEW p \in Nat \ {0}, NEW n \in Nat \ {0}, NEW k \in Nat, NEW d \in Nat \ {0},
           NEW D \in Nat \ {0}, NEW E \in Nat \ {0}, Terms(q, p, n, k, d, D, E),
           NEW u, NEW r \in Nat \ {0}, NEW l \in Nat \ {0}, NEW F \in Nat \ {0}, NEW G \in Nat \ {0},
           Terms(u, r, l, k, d, F, G), n <= l, r <= p, u.method = q.method, u.rate = q.rate
    PROVE  /\ Credit(u).monthly \in Int /\ Credit(q).monthly \in Int
           /\ Credit(u).monthly <= Credit(q).monthly
<1>1. PICK w \in Nat \ {0}, v \in Nat \ {0}, x \in Nat, y \in Nat :
         /\ w = Weight(q, 0) /\ x = w - Weight(q, 1) /\ v = Weight(u, 0) /\ y = v - Weight(u, 1)
         /\ y * w <= x * v
  <2>1. TakesMore(q, u)  BY StepShare
  <2> QED  BY <2>1 DEF TakesMore
<1>2. D = d * E /\ F = d * G  BY DEF Terms
<1>3. PICK a \in Nat, b \in Nat, S \in Nat \ {0}, T \in Nat \ {0} :
         a = p * (D * x + E * (k * w)) /\ b = r * (F * y + G * (k * v)) /\ S = D * w /\ T = F * v
  OBVIOUS
<1>4. Credit(q).monthly = RoundHalfUp(a, S)
  <2>1. Credit(q).monthly = RoundHalfUp(p * (D * x + E * (k * w)), D * w)
    <3>1. FirstIs(q, p, k, D, E)  BY MonthlyIs
    <3> QED  BY <3>1, <1>1 DEF FirstIs
  <2> QED  BY <2>1, <1>3
<1>5. Credit(u).monthly = RoundHalfUp(b, T)
  <2>1. Credit(u).monthly = RoundHalfUp(r * (F * y + G * (k * v)), F * v)
    <3>1. FirstIs(u, r, k, F, G)  BY MonthlyIs
    <3> QED  BY <3>1, <1>1 DEF FirstIs
  <2> QED  BY <2>1, <1>3
<1>6. b * S <= a * T
  <2>1. PICK e \in Nat, f \in Nat, s \in Nat : e = (F * D) * (y * w) /\ f = (F * D) * (x * v) /\ s = (d * (E * G)) * ((k * w) * v)
    OBVIOUS
  <2>2. e <= f
    <3>1. PICK c \in Nat, g \in Nat, h \in Nat : c = F * D /\ g = y * w /\ h = x * v  OBVIOUS
    <3>2. c * g <= c * h  BY <1>1, <3>1
    <3> QED  BY <2>1, <3>1, <3>2
  <2>3. b * S = r * (e + s)
    <3>1. (r * (F * y + G * (k * v))) * (D * w) = r * ((F * D) * (y * w)) + r * ((D * G) * ((k * w) * v))
      OBVIOUS
    <3>2. D * G = d * (E * G)  BY <1>2
    <3> QED  BY <3>1, <3>2, <2>1, <1>3
  <2>4. a * T = p * (f + s)
    <3>1. (p * (D * x + E * (k * w))) * (F * v) = p * ((F * D) * (x * v)) + p * ((F * E) * ((k * w) * v))
      OBVIOUS
    <3>2. F * E = d * (E * G)  BY <1>2
    <3> QED  BY <3>1, <3>2, <2>1, <1>3
  <2>5. r * (e + s) <= r * (f + s)  BY <2>2
  <2>6. r * (f + s) <= p * (f + s)  OBVIOUS
  <2>7. PICK c \in Int, g \in Int, h \in Int : c = r * (e + s) /\ g = r * (f + s) /\ h = p * (f + s)
    OBVIOUS
  <2> QED  BY <2>3, <2>4, <2>5, <2>6, <2>7
<1>7. RoundHalfUp(b, T) <= RoundHalfUp(a, S) /\ RoundHalfUp(b, T) \in Int /\ RoundHalfUp(a, S) \in Int
  <2>1. a \in Int /\ b \in Int  OBVIOUS
  <2> QED  BY <2>1, <1>6, RoundUpMono, RoundUpFacts
<1> QED  BY <1>4, <1>5, <1>7

\* A lower payment is no heavier load.
LEMMA LoadFalls ==
    ASSUME NEW a \in Int, NEW c \in Int, a <= c, NEW r \in Nat \ {0}
    PROVE  LoadRank(CreditLoad(a, r)) <= LoadRank(CreditLoad(c, r))
<1>1. PICK x \in Int, y \in Int : x = 1000 * a /\ y = 1000 * c /\ x <= y  OBVIOUS
<1>2. PICK m \in Int, n \in Int : m = RoundHalfEven(x, r) /\ n = RoundHalfEven(y, r) /\ m <= n
  <2>1. RoundHalfEven(x, r) \in Int /\ RoundHalfEven(x, r) <= RoundHalfEven(y, r)
    BY <1>1, RoundEvenMono
  <2>2. RoundHalfEven(y, r) \in Int  BY RoundEvenMono
  <2> QED  BY <2>1, <2>2
<1>3. CreditLoad(a, r) = IF m >= 300 THEN "danger" ELSE IF m >= 200 THEN "warning" ELSE "safe"
  BY <1>1, <1>2 DEF CreditLoad
<1>4. CreditLoad(c, r) = IF n >= 300 THEN "danger" ELSE IF n >= 200 THEN "warning" ELSE "safe"
  BY <1>1, <1>2 DEF CreditLoad
<1>5. LoadRank("safe") = 0 /\ LoadRank("warning") = 1 /\ LoadRank("danger") = 2  BY DEF LoadRank
<1> QED  BY <1>2, <1>3, <1>4, <1>5

\* A loan and one at the same rate, in the terms of both.
LEMMA TermsOfTwo ==
    ASSUME NEW q, LoanOf(q), NEW u, LoanOf(u), u.rate = q.rate
    PROVE  \E p \in Nat \ {0}, n \in Nat \ {0}, k \in Nat, d \in Nat \ {0}, D \in Nat \ {0}, E \in Nat \ {0},
              r \in Nat \ {0}, l \in Nat \ {0}, F \in Nat \ {0}, G \in Nat \ {0} :
              Terms(q, p, n, k, d, D, E) /\ Terms(u, r, l, k, d, F, G)
<1>1. PICK p \in Nat \ {0}, n \in Nat \ {0}, k \in Nat, d \in Nat \ {0}, D \in Nat \ {0}, E \in Nat \ {0} :
         Terms(q, p, n, k, d, D, E)
  BY TermsAre
<1>2. PICK r \in Nat \ {0}, l \in Nat \ {0}, b \in Nat, c \in Nat \ {0}, F \in Nat \ {0}, G \in Nat \ {0} :
         Terms(u, r, l, b, c, F, G)
  BY TermsAre
<1>3. b = k /\ c = d  BY <1>1, <1>2 DEF Terms
<1> QED  BY <1>1, <1>2, <1>3

LEMMA LongerIsLighter ==
    ASSUME NEW q, LoanOf(q), NEW u, LoanOf(u), u.rate = q.rate, u.method = q.method, u.grace = q.grace,
           u.months >= q.months, u.principal <= q.principal, NEW r \in Nat \ {0}
    PROVE  LoadRank(CreditLoad(Credit(u).monthly, r)) <= LoadRank(CreditLoad(Credit(q).monthly, r))
<1>1. PICK p \in Nat \ {0}, n \in Nat \ {0}, k \in Nat, d \in Nat \ {0}, D \in Nat \ {0}, E \in Nat \ {0},
           s \in Nat \ {0}, l \in Nat \ {0}, F \in Nat \ {0}, G \in Nat \ {0} :
           Terms(q, p, n, k, d, D, E) /\ Terms(u, s, l, k, d, F, G)
  BY TermsOfTwo, ZenonT(60)
<1>2. n <= l /\ s <= p
  <2>1. PICK g \in Nat, m \in Nat, h \in Nat : g = q.grace /\ m = q.months /\ h = u.months
    BY <1>1 DEF Terms
  <2>2. n = m - g /\ l = h - g /\ h >= m /\ p = q.principal /\ s = u.principal  BY <1>1, <2>1 DEF Terms
  <2>3. n <= l  BY <2>2
  <2>4. s <= p  BY <2>2
  <2> QED  BY <2>3, <2>4
<1>3. PICK a \in Int, c \in Int : a = Credit(u).monthly /\ c = Credit(q).monthly /\ a <= c
  <2>1. Credit(u).monthly \in Int /\ Credit(q).monthly \in Int /\ Credit(u).monthly <= Credit(q).monthly
    BY <1>1, <1>2, MonthlyFalls
  <2> QED  BY <2>1
<1>4. LoadRank(CreditLoad(a, r)) <= LoadRank(CreditLoad(c, r))  BY <1>3, LoadFalls
<1> QED  BY <1>3, <1>4

OwesLess(q, u, t) ==
    \E w \in Nat \ {0}, v \in Nat \ {0}, x \in Nat, y \in Nat :
       /\ w = Weight(q, 0) /\ v = Weight(u, 0) /\ x = Weight(q, t) /\ y = Weight(u, t)
       /\ y * w <= x * v

\* With equal shares of the principal less is owed, of the whole, than with an annuity.
LEMMA SharesOweLess ==
    ASSUME NEW q, NEW p \in Nat \ {0}, NEW n \in Nat \ {0}, NEW k \in Nat, NEW d \in Nat \ {0},
           NEW D \in Nat \ {0}, NEW E \in Nat \ {0}, Terms(q, p, n, k, d, D, E),
           NEW u, Terms(u, p, n, k, d, D, E), u.method = "differentiated", u.rate = q.rate, NEW t \in 0 .. n
    PROVE  OwesLess(q, u, t)
<1>1. Weight(q, 0) \in Nat \ {0} /\ Weight(u, 0) \in Nat \ {0}
  <2>1. Weight(q, 0) \in Nat \ {0}  BY WeightFalls
  <2>2. Weight(u, 0) \in Nat \ {0}  BY WeightFalls
  <2> QED  BY <2>1, <2>2
<1>2. Weight(q, t) \in Nat /\ Weight(u, t) \in Nat
  <2>1. \A s \in 0 .. n : Weight(q, s) \in Nat  BY WeightIsNat
  <2>2. \A s \in 0 .. n : Weight(u, s) \in Nat  BY WeightIsNat
  <2> QED  BY <2>1, <2>2
<1>3. PICK w \in Nat \ {0}, v \in Nat \ {0}, x \in Nat, y \in Nat :
         w = Weight(q, 0) /\ v = Weight(u, 0) /\ x = Weight(q, t) /\ y = Weight(u, t)
  BY <1>1, <1>2
<1>4. /\ RepayMonths(q) = n /\ Reduced(q.rate).k = k /\ Reduced(q.rate).d = d /\ RepayMonths(u) = n
  BY DEF Terms
<1>5. v = n /\ y = n - t
  <2>1. Weight(u, 0) = n - 0 /\ Weight(u, t) = n - t  BY <1>4 DEF Weight
  <2> QED  BY <2>1, <1>3
<1>6. y * w <= x * v
  <2>1. CASE q.method = "annuity" /\ q.rate # 0
    <3>1. PICK a \in Nat \ {0} : a = k + d  OBVIOUS
    <3>2. t \in Nat /\ n - t \in Nat /\ a \in Nat /\ d \in Nat /\ 0 \in Nat  OBVIOUS
    <3>3. PICK M \in Nat \ {0}, N \in Nat \ {0}, A \in Nat \ {0}, T \in Nat \ {0} :
             M = Power(a, n) /\ N = Power(d, n) /\ A = Power(a, t) /\ T = Power(d, n - t)
      BY <3>2, PowerAtLeastOne
    <3>4. Power(a, 0) = 1  BY <3>2, PowerSteps
    <3>5. w = M - N
      <4>1. Weight(q, 0) = Power(a, n) - Power(a, 0) * Power(d, n - 0)  BY <1>4, <2>1, <3>1 DEF Weight
      <4>2. n - 0 = n /\ 1 * N = N  OBVIOUS
      <4>3. Power(a, 0) * Power(d, n - 0) = N  BY <4>2, <3>3, <3>4
      <4> QED  BY <4>1, <4>3, <3>3, <1>3
    <3>6. x = M - A * T
      <4>1. Weight(q, t) = Power(a, n) - Power(a, t) * Power(d, n - t)  BY <1>4, <2>1, <3>1 DEF Weight
      <4> QED  BY <4>1, <3>3, <1>3
    <3>7. n * (A * T) <= t * M + (n - t) * N
      <4>1. n \in Nat  OBVIOUS
      <4>2. Below(a, d, n, t)  BY <4>1, <3>1, PowersConvex
      <4> QED  BY <4>2, <3>3 DEF Below
    <3>8. PICK B \in Nat, j \in Nat : B = A * T /\ j = n - t  OBVIOUS
    <3>9. j * (M - N) <= (M - B) * n
      <4>1. n * B <= t * M + j * N  BY <3>7, <3>8
      <4>2. t * M = n * M - j * M
        <5>1. t = n - j  BY <3>8
        <5> QED  BY <5>1
      <4>3. PICK b \in Int, c \in Int, e \in Int, f \in Int : b = n * B /\ c = n * M /\ e = j * M /\ f = j * N
        OBVIOUS
      <4>4. j * (M - N) = e - f /\ (M - B) * n = c - b  BY <4>3
      <4> QED  BY <4>1, <4>2, <4>3, <4>4
    <3> QED  BY <3>5, <3>6, <3>8, <3>9, <1>5
  <2>2. CASE ~ (q.method = "annuity" /\ q.rate # 0)
    <3>1. Weight(q, 0) = n - 0 /\ Weight(q, t) = n - t  BY <1>4, <2>2 DEF Weight
    <3>2. w = n /\ x = n - t  BY <3>1, <1>3
    <3> QED  BY <3>2, <1>5
  <2> QED  BY <2>1, <2>2
<1> QED  BY <1>3, <1>6 DEF OwesLess

\* A row of equal shares has no more interest than the annuity's.
LEMMA RowCostsLess ==
    ASSUME NEW q, NEW p \in Nat \ {0}, NEW n \in Nat \ {0}, NEW k \in Nat, NEW d \in Nat \ {0},
           NEW D \in Nat \ {0}, NEW E \in Nat \ {0}, Terms(q, p, n, k, d, D, E),
           NEW u, Terms(u, p, n, k, d, D, E), u.method = "differentiated", u.rate = q.rate,
           u.grace = q.grace, u.months = q.months, NEW j \in 1 .. q.months
    PROVE  /\ Schedule(u)[j].interest \in Int /\ Schedule(q)[j].interest \in Int
           /\ Schedule(u)[j].interest <= Schedule(q)[j].interest
<1>1. PICK g \in Nat, m \in Nat \ {0} : g = q.grace /\ m = q.months /\ n = m - g  BY DEF Terms
<1>2. PICK t \in 0 .. n : t = IF j - 1 <= g THEN 0 ELSE (j - 1) - g
  <2>1. (IF j - 1 <= g THEN 0 ELSE (j - 1) - g) \in 0 .. n  BY <1>1
  <2> QED  BY <2>1
<1>3. Left(q, j - 1) = Weight(q, t) /\ Left(u, j - 1) = Weight(u, t)  BY <1>1, <1>2 DEF Left
<1>4. PICK w \in Nat \ {0}, v \in Nat \ {0}, x \in Nat, y \in Nat :
         /\ w = Weight(q, 0) /\ v = Weight(u, 0) /\ x = Weight(q, t) /\ y = Weight(u, t)
         /\ y * w <= x * v
  <2>1. OwesLess(q, u, t)  BY SharesOweLess
  <2> QED  BY <2>1 DEF OwesLess
<1>5. PICK a \in Int, b \in Int, S \in Nat \ {0}, T \in Nat \ {0} :
         a = p * (E * (k * x)) /\ b = p * (E * (k * y)) /\ S = D * w /\ T = D * v
  OBVIOUS
<1>6. Schedule(q)[j].interest = RoundHalfUp(a, S)
  <2>1. RowsHold(q, p, k, D, E)  BY RowsAre
  <2>2. PICK line : line = Schedule(q)[j]  OBVIOUS
  <2>3. line = PaymentRow(q, Part(p, D, Left(q, j - 1)) - Part(p, D, Left(q, j)), Part(p, E, k * Left(q, j - 1)), Part(p, D, Left(q, j)))
    BY <2>1, <2>2 DEF RowsHold
  <2>4. line.interest = RoundHalfUp(Part(p, E, k * Left(q, j - 1)), ScaleOf(q))  BY <2>3 DEF PaymentRow
  <2>5. ScaleOf(q) = D * Weight(q, 0)  BY WeightFalls
  <2>6. ScaleOf(q) = S  BY <2>5, <1>4, <1>5
  <2>7. Part(p, E, k * Left(q, j - 1)) = a  BY <1>3, <1>4, <1>5 DEF Part
  <2> QED  BY <2>2, <2>4, <2>6, <2>7
<1>7. Schedule(u)[j].interest = RoundHalfUp(b, T)
  <2>1. RowsHold(u, p, k, D, E)  BY RowsAre
  <2>2. PICK line : line = Schedule(u)[j]  OBVIOUS
  <2>3. line = PaymentRow(u, Part(p, D, Left(u, j - 1)) - Part(p, D, Left(u, j)), Part(p, E, k * Left(u, j - 1)), Part(p, D, Left(u, j)))
    BY <2>1, <2>2 DEF RowsHold
  <2>4. line.interest = RoundHalfUp(Part(p, E, k * Left(u, j - 1)), ScaleOf(u))  BY <2>3 DEF PaymentRow
  <2>5. ScaleOf(u) = D * Weight(u, 0)  BY WeightFalls
  <2>6. ScaleOf(u) = T  BY <2>5, <1>4, <1>5
  <2>7. Part(p, E, k * Left(u, j - 1)) = b  BY <1>3, <1>4, <1>5 DEF Part
  <2> QED  BY <2>2, <2>4, <2>6, <2>7
<1>8. b * S <= a * T
  <2>1. PICK c \in Nat, e \in Nat, f \in Nat : c = ((p * E) * k) * D /\ e = y * w /\ f = x * v  OBVIOUS
  <2>2. c * e <= c * f  BY <2>1, <1>4
  <2>3. b * S = c * e
    <3>1. (p * (E * (k * y))) * (D * w) = (((p * E) * k) * D) * (y * w)  OBVIOUS
    <3> QED  BY <3>1, <2>1, <1>5
  <2>4. a * T = c * f
    <3>1. (p * (E * (k * x))) * (D * v) = (((p * E) * k) * D) * (x * v)  OBVIOUS
    <3> QED  BY <3>1, <2>1, <1>5
  <2> QED  BY <2>2, <2>3, <2>4
<1>9. RoundHalfUp(b, T) <= RoundHalfUp(a, S) /\ RoundHalfUp(b, T) \in Int /\ RoundHalfUp(a, S) \in Int
  BY <1>8, RoundUpMono, RoundUpFacts
<1> QED  BY <1>6, <1>7, <1>9

\* Rows with no more have no more in all.
LEMMA SumsFall ==
    ASSUME NEW m \in Nat, NEW f \in [0 .. m -> Int], NEW g \in [0 .. m -> Int], f[0] = 0, g[0] = 0,
           \A j \in 1 .. m : f[j] - f[j - 1] <= g[j] - g[j - 1]
    PROVE  f[m] <= g[m]
<1> DEFINE S == {i \in 0 .. m : f[i] <= g[i]}
<1>1. 0 \in S  OBVIOUS
<1>2. ASSUME NEW i \in 0 .. m - 1, i \in S PROVE i + 1 \in S
  <2>1. i + 1 \in 1 .. m /\ (i + 1) - 1 = i /\ i \in 0 .. m /\ i + 1 \in 0 .. m  OBVIOUS
  <2>2. PICK x \in Int, y \in Int, z \in Int, w \in Int : x = f[i] /\ y = f[i + 1] /\ z = g[i] /\ w = g[i + 1]
    BY <2>1
  <2>3. y - x <= w - z /\ x <= z  BY <2>1, <2>2, <1>2
  <2>4. y <= w  BY <2>3
  <2> QED  BY <2>1, <2>2, <2>4
<1>3. \A i \in 0 .. m : i \in S
  <2> HIDE DEF S
  <2> QED  BY <1>1, <1>2, Induct
<1>4. m \in S  BY <1>3
<1> QED  BY <1>4

LEMMA SharesCostLess ==
    ASSUME NEW q, LoanOf(q), NEW u, LoanOf(u), u.method = "differentiated", u.rate = q.rate, u.grace = q.grace,
           u.months = q.months, u.principal = q.principal
    PROVE  Credit(u).interest <= Credit(q).interest
<1>1. PICK p \in Nat \ {0}, n \in Nat \ {0}, k \in Nat, d \in Nat \ {0}, D \in Nat \ {0}, E \in Nat \ {0} :
         Terms(q, p, n, k, d, D, E)
  BY TermsAre
<1>2. PICK m \in Nat \ {0} : m = q.months  BY <1>1 DEF Terms
<1>3. Terms(u, p, n, k, d, D, E)  BY <1>1 DEF Terms, RepayMonths
<1>4. \A j \in 1 .. m : /\ Schedule(u)[j].interest \in Int /\ Schedule(q)[j].interest \in Int
                        /\ Schedule(u)[j].interest <= Schedule(q)[j].interest
  <2>1. SUFFICES ASSUME NEW j \in 1 .. q.months
                 PROVE  /\ Schedule(u)[j].interest \in Int /\ Schedule(q)[j].interest \in Int
                        /\ Schedule(u)[j].interest <= Schedule(q)[j].interest
    BY <1>2
  <2> QED  BY <1>1, <1>3, RowCostsLess
<1>5. Len(Schedule(q)) = m /\ Len(Schedule(u)) = m
  <2>1. RowsHold(q, p, k, D, E)  BY <1>1, RowsAre
  <2>2. RowsHold(u, p, k, D, E)  BY <1>3, RowsAre
  <2> QED  BY <2>1, <2>2, <1>2 DEF RowsHold
<1>6. PICK r : r = Schedule(q)  OBVIOUS
<1>7. PICK s : s = Schedule(u)  OBVIOUS
<1>8. PICK g \in [0 .. m -> Int] : Counts(r, "interest", m, g)
  <2>1. \A j \in 1 .. m : r[j]["interest"] \in Int  BY <1>4, <1>6
  <2> QED  BY <2>1, <1>5, <1>6, SumIs
<1>9. PICK f \in [0 .. m -> Int] : Counts(s, "interest", m, f)
  <2>1. \A j \in 1 .. m : s[j]["interest"] \in Int  BY <1>4, <1>7
  <2> QED  BY <2>1, <1>5, <1>7, SumIs
<1>10. ASSUME NEW j \in 1 .. m PROVE f[j] - f[j - 1] <= g[j] - g[j - 1]
  <2>1. PICK x \in Int, y \in Int : x = s[j].interest /\ y = r[j].interest /\ x <= y
    BY <1>4, <1>6, <1>7
  <2>2. j - 1 \in 0 .. m  OBVIOUS
  <2>3. PICK a \in Int, b \in Int : a = f[j - 1] /\ b = g[j - 1]  BY <2>2
  <2>4. f[j] = a + x /\ g[j] = b + y  BY <2>1, <2>3, <1>8, <1>9 DEF Counts
  <2>5. x <= y  BY <2>1
  <2>6. (a + x) - a <= (b + y) - b  BY <2>5
  <2> QED  BY <2>3, <2>4, <2>6
<1>11. f[m] <= g[m]
  <2>1. f[0] = 0 /\ g[0] = 0 /\ m \in Nat  BY <1>8, <1>9 DEF Counts
  <2> QED  BY <2>1, <1>10, SumsFall
<1>12. Credit(u).interest = f[m] /\ Credit(q).interest = g[m]
  BY <1>6, <1>7, <1>8, <1>9, CreditIs DEF Counts
<1> QED  BY <1>11, <1>12

LEMMA AdviceOnLoans ==
    ASSUME CreditAnswered
    PROVE  AdviceHelps
<1>1. LoanOf(question)  BY DEF CreditAnswered
<1>2. \A r \in Revenues \ {0} : answer.loads[r] = CreditLoad(Credit(question).monthly, r)
  BY DEF CreditAnswered
<1>3. DOMAIN answer.loads = Revenues \ {0} /\ answer.credit = Credit(question) /\ Revenues \ {0} \subseteq Nat \ {0}
  BY FinanceAssumption DEF CreditAnswered
<1>4. question.grace \in Nat /\ question.months \in Nat /\ question.grace < question.months
  <2>1. question.grace < question.months  BY <1>1 DEF LoanOf
  <2>2. PICK p \in Nat \ {0}, n \in Nat \ {0}, k \in Nat, d \in Nat \ {0}, D \in Nat \ {0}, E \in Nat \ {0} :
           Terms(question, p, n, k, d, D, E)
    BY <1>1, TermsAre
  <2> QED  BY <2>1, <2>2 DEF Terms
<1>5. ASSUME NEW q \in CreditRequests, q.method = question.method, q.rate = question.rate, q.grace = question.grace,
             q.months >= question.months, q.principal <= question.principal, NEW r \in DOMAIN answer.loads
      PROVE  LoadRank(CreditLoad(Credit(q).monthly, r)) <= LoadRank(answer.loads[r])
  <2>1. LoanOf(q)
    <3>1. q.months \in 1 .. MaxTerm /\ MaxTerm \in Nat
      <4>1. MaxTerm \in Nat  BY FinanceAssumption
      <4> QED  BY <4>1 DEF CreditRequests
    <3>2. PICK m \in Int, h \in Int, g \in Int : m = question.months /\ h = q.months /\ g = question.grace
      BY <3>1, <1>4
    <3>3. g < h  BY <3>2, <1>4, <1>5
    <3> QED  BY <3>2, <3>3, <1>5 DEF LoanOf
  <2>2. r \in Nat \ {0} /\ answer.loads[r] = CreditLoad(Credit(question).monthly, r)  BY <1>2, <1>3
  <2> QED  BY <2>1, <2>2, <1>1, <1>5, LongerIsLighter
<1>6. ASSUME NEW q \in CreditRequests, q = [question EXCEPT !.method = "differentiated"]
      PROVE  Credit(q).interest <= answer.credit.interest
  <2>1. /\ q.method = "differentiated" /\ q.rate = question.rate /\ q.grace = question.grace /\ q.months = question.months
        /\ q.principal = question.principal
    BY <1>1, <1>6 DEF LoanOf, CreditRequests
  <2>2. LoanOf(q)  BY <2>1, <1>1 DEF LoanOf
  <2>3. Credit(q).interest <= Credit(question).interest  BY <2>1, <2>2, <1>1, SharesCostLess
  <2> QED  BY <2>3, <1>3
<1> QED  BY <1>5, <1>6 DEF AdviceHelps

-----------------------------------------------------------------------------
(* What the finance tools say fits together. *)

TaxAnswered == question \in TaxRequests /\ answer = CompareRegimes(question)

\* The answer is the one to the question.
FinanceInv == question = Nothing \/ TaxAnswered \/ PlanAnswered \/ CreditAnswered

LEMMA CostsNeverTaxRequests ==
    ASSUME TaxAnswered
    PROVE  CostsNeverTax
<1> SUFFICES ASSUME NEW t \in TaxRequests, t.revenue = question.revenue, t.payroll = question.payroll,
                    t.individual = question.individual, t.goods >= question.goods, t.costs >= question.costs
             PROVE  CompareRegimes(t).annual <= answer.annual
  BY DEF CostsNeverTax
<1>1. question \in TaxRequests /\ answer = CompareRegimes(question)  BY DEF TaxAnswered
<1>2. Revenues \subseteq Nat /\ Rents \subseteq Nat  BY FinanceAssumption
<1>3. CostsMore(t, question)  BY <1>1, <1>2 DEF CostsMore, Taxable, TaxRequests
<1> QED  BY <1>1, <1>3, CostsSaveAtBest

LEMMA FinanceKept ==
    /\ FinanceInit => FinanceInv
    /\ FinanceInv /\ [FinanceNext]_financeVars => FinanceInv'
<1>1. FinanceInit => FinanceInv  BY DEF FinanceInit, FinanceInv
<1>2. ASSUME FinanceInv, [FinanceNext]_financeVars PROVE FinanceInv'
  <2>1. ASSUME NEW t \in TaxRequests, PostTax(t) PROVE FinanceInv'
    BY <2>1 DEF PostTax, FinanceInv, TaxAnswered
  <2>2. ASSUME NEW p \in PlanRequests, PostBusinessPlan(p) PROVE FinanceInv'
    BY <2>2 DEF PostBusinessPlan, FinanceInv, PlanAnswered
  <2>3. ASSUME NEW q \in CreditRequests, PostCredit(q) PROVE FinanceInv'
    BY <2>3 DEF PostCredit, FinanceInv, CreditAnswered, LoanOf
  <2>4. CASE UNCHANGED financeVars
    BY <1>2, <2>4 DEF financeVars, FinanceInv, TaxAnswered, PlanAnswered, CreditAnswered
  <2> QED  BY <1>2, <2>1, <2>2, <2>3, <2>4 DEF FinanceNext
<1> QED  BY <1>1, <1>2

LEMMA FinanceFits == FinanceInv => FinanceHolds
<1>1. CASE question = Nothing
  BY <1>1 DEF Nothing, FinanceHolds, RentNeverHelps, TurnoverPays, CostsNeverTax, BestEarnsMost, LoanIsRepaid,
              AdviceHelps, Planned, Borrowed
<1>2. CASE TaxAnswered
  <2>1. question.kind = "tax"  BY <1>2 DEF TaxAnswered, TaxRequests
  <2> QED
    BY <1>2, <2>1, CostsNeverTaxRequests DEF FinanceHolds, RentNeverHelps, TurnoverPays, BestEarnsMost, LoanIsRepaid,
                                             AdviceHelps, Planned, Borrowed
<1>3. CASE PlanAnswered
  <2>1. question.kind = "plan"  BY <1>3 DEF PlanAnswered, PlanRequests
  <2>2. RentNeverHelps /\ TurnoverPays /\ BestEarnsMost
    BY <1>3, RentNeverHelpsPlans, TurnoverPaysPlans, BestEarnsMostPlans
  <2> QED  BY <2>1, <2>2 DEF FinanceHolds, CostsNeverTax, LoanIsRepaid, AdviceHelps, Borrowed
<1>4. CASE CreditAnswered
  <2>1. question.kind = "credit"  BY <1>4 DEF CreditAnswered, LoanOf, CreditRequests
  <2>2. LoanIsRepaid /\ AdviceHelps  BY <1>4, LoansAreRepaid, AdviceOnLoans
  <2> QED  BY <2>1, <2>2 DEF FinanceHolds, CostsNeverTax, RentNeverHelps, TurnoverPays, BestEarnsMost, Planned
<1> QED  BY <1>1, <1>2, <1>3, <1>4 DEF FinanceInv

\* What the calculators answer is the answer to what was asked, computed from it alone.
THEOREM FinanceInvariant == FinanceSpec => []FinanceInv
  BY FinanceKept, PTL DEF FinanceSpec

\* Whatever rents, salaries, rates and terms are entered: a higher rent never helps, more turnover
\* pays unless a regime is lost, costs never raise a tax, the best city earns most, a loan is repaid
\* to the last som but for the roundings, and what is advised to a heavy load lightens it.
THEOREM FinanceAlwaysHolds == FinanceSpec => []FinanceHolds
<1>1. FinanceSpec => []FinanceInv  BY FinanceInvariant
<1>2. FinanceInv => FinanceHolds  BY FinanceFits
<1> QED  BY <1>1, <1>2, PTL
================================================================================
