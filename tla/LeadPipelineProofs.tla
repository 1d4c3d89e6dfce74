-------------------------- MODULE LeadPipelineProofs --------------------------
(***************************************************************************)
(* Theorems of LeadPipeline, for any stages, notes and number of requests: *)
(* the type invariant, a timeline without gaps, and what a commit does to  *)
(* the row however requests overlap; and of Listings, for any rows, page   *)
(* sizes and number of changes: what a walk through a list shows.          *)
(***************************************************************************)
EXTENDS LeadPipeline, Listings, SequenceTheorems, FiniteSetTheorems, TLAPS

Tasks == [at : {"idle", "read", "written"}, patch : Patch, read : Row, seen : Row]
TimelineEvent == [old : Statuses, new : Statuses]

\* A row after a request's UPDATE: typed, column by column what was asked for.
LEMMA ApplyTyped ==
    ASSUME NEW q \in Tasks, NEW current \in Row
    PROVE  /\ Apply(q, current) \in Row
           /\ \A c \in Columns : Apply(q, current)[c] # current[c] =>
                 c \in Changed(q) /\ Apply(q, current)[c] = q.patch[c]
<1> DEFINE f == Apply(q, current)
<1>1. /\ q.patch \in Patch /\ q.read \in Row
      /\ q.patch.status \in Statuses \cup {Absent}
      /\ q.patch.notes \in Notes \cup {NoNotes, Absent}
      /\ q.read.status \in Statuses /\ q.read.notes \in Notes \cup {NoNotes}
      /\ current.status \in Statuses /\ current.notes \in Notes \cup {NoNotes}
  BY DEF Tasks, Patch, Row
<1>2. \A c \in Columns : Wanted(q)[c] = IF q.patch[c] = Absent THEN q.read[c] ELSE q.patch[c]
  BY DEF Wanted
<1>3. \A c \in Columns : f[c] = IF c \in Changed(q) THEN Wanted(q)[c] ELSE current[c]  BY DEF Apply
<1>4. \A c \in Columns : c \in Changed(q) => Wanted(q)[c] # q.read[c]  BY DEF Changed
<1>5. f = [status |-> f.status, notes |-> f.notes]  BY DEF Apply, Columns
<1>6. f.status \in Statuses /\ f.notes \in Notes \cup {NoNotes}  BY <1>1, <1>2, <1>3 DEF Columns
<1>7. \A c \in Columns : f[c] # current[c] => c \in Changed(q) /\ f[c] = q.patch[c]  BY <1>2, <1>3, <1>4
<1> HIDE DEF f
<1>8. f \in Row  BY <1>5, <1>6 DEF Row
<1> QED  BY <1>7, <1>8 DEF f

\* The status that a commit changes is one that the request names, and it
\* differs from the one that the request has read.
LEMMA StatusAsked ==
    ASSUME NEW q \in Tasks, NEW current \in Row,
           Apply(q, current).status # current.status
    PROVE  /\ q.patch.status # Absent
           /\ Apply(q, current).status = q.patch.status
           /\ q.patch.status # q.read.status
<1>1. "status" \in Columns  BY DEF Columns
<1>2. "status" \in Changed(q) /\ Apply(q, current).status = q.patch.status  BY <1>1, ApplyTyped
<1>3. Wanted(q)["status"] # q.read["status"]  BY <1>2 DEF Changed
<1>4. Wanted(q)["status"] = IF q.patch["status"] = Absent THEN q.read["status"] ELSE q.patch["status"]
  BY <1>1 DEF Wanted
<1> QED  BY <1>2, <1>3, <1>4

\* The events of a commit are none, or one from what was read to what was read
\* back.
LEMMA EventsTyped ==
    ASSUME NEW q \in Tasks
    PROVE  /\ StatusEvents(q) \in Seq(TimelineEvent)
           /\ \/ StatusEvents(q) = << >>
              \/ /\ Len(StatusEvents(q)) = 1
                 /\ StatusEvents(q)[1].old = q.read.status
                 /\ StatusEvents(q)[1].new = q.seen.status
<1>1. q.read.status \in Statuses /\ q.seen.status \in Statuses  BY DEF Tasks, Row
<1>2. [old |-> q.read.status, new |-> q.seen.status] \in TimelineEvent  BY <1>1 DEF TimelineEvent
<1>3. CASE q.patch.status # Absent /\ q.read.status # q.seen.status
  <2>1. StatusEvents(q) = << [old |-> q.read.status, new |-> q.seen.status] >>  BY <1>3 DEF StatusEvents
  <2> QED  BY <1>2, <2>1
<1>4. CASE ~ (q.patch.status # Absent /\ q.read.status # q.seen.status)
  <2>1. StatusEvents(q) = << >>  BY <1>4 DEF StatusEvents
  <2> QED  BY <2>1
<1> QED  BY <1>3, <1>4

\* The values of every variable stay in their types.
THEOREM PipelineTypeCorrect == Spec => []TypeOK
<1>1. Init => TypeOK
  <2> SUFFICES ASSUME Init PROVE TypeOK  OBVIOUS
  <2>1. NewRow \in Row /\ NoPatch \in Patch
    BY StatusAssumption DEF NewRow, Row, NoPatch, Patch, Statuses
  <2>2. Idle \in Tasks  BY <2>1 DEF Idle, Tasks
  <2> QED  BY <2>1, <2>2, BoundAssumption DEF Init, TypeOK, Tasks
<1>2. TypeOK /\ [Next]_vars => TypeOK'
  <2> SUFFICES ASSUME TypeOK, [Next]_vars PROVE TypeOK'  OBVIOUS
  <2>0. /\ row \in Row /\ request \in [Requests -> Tasks] /\ events \in Seq(TimelineEvent)
        /\ patches \in 0..MaxPatches /\ MaxPatches \in Nat
    BY BoundAssumption DEF TypeOK, Tasks, TimelineEvent
  <2>1. NewRow \in Row /\ NoPatch \in Patch
    BY StatusAssumption DEF NewRow, Row, NoPatch, Patch, Statuses
  <2>2. Idle \in Tasks  BY <2>1 DEF Idle, Tasks
  <2>3. ASSUME NEW r \in Requests, NEW patch \in Patch, Read(r, patch) PROVE TypeOK'
    <3>1. [at |-> "read", patch |-> patch, read |-> row, seen |-> row] \in Tasks  BY <2>0 DEF Tasks
    <3>2. request' \in [Requests -> Tasks]  BY <2>0, <2>3, <3>1 DEF Read
    <3>3. patches' \in 0..MaxPatches  BY <2>0, <2>3 DEF Read
    <3> QED  BY <2>0, <2>3, <3>2, <3>3 DEF Read, TypeOK, Tasks, TimelineEvent
  <2>4. ASSUME NEW r \in Requests, Write(r) PROVE TypeOK'
    <3>1. request[r] \in Tasks  BY <2>0
    <3>2. Apply(request[r], row) \in Row  BY <2>0, <3>1, ApplyTyped
    <3>3. request' = [request EXCEPT ![r].at = "written", ![r].seen = Apply(request[r], row)]
      BY <2>4 DEF Write
    <3>4. request' \in [Requests -> Tasks]  BY <2>0, <3>1, <3>2, <3>3 DEF Tasks
    <3> QED  BY <2>0, <2>4, <3>4 DEF Write, TypeOK, Tasks, TimelineEvent
  <2>5. ASSUME NEW r \in Requests, Commit(r) PROVE TypeOK'
    <3>1. request[r] \in Tasks  BY <2>0
    <3>2. Apply(request[r], row) \in Row  BY <2>0, <3>1, ApplyTyped
    <3>3. StatusEvents(request[r]) \in Seq(TimelineEvent)  BY <3>1, EventsTyped
    <3>4. /\ row' = Apply(request[r], row)
          /\ events' = events \o StatusEvents(request[r])
          /\ request' = [request EXCEPT ![r] = Idle]
          /\ patches' = patches
      BY <2>5 DEF Commit
    <3>5. events' \in Seq(TimelineEvent)  BY <2>0, <3>3, <3>4
    <3>6. request' \in [Requests -> Tasks]  BY <2>0, <2>2, <3>4
    <3> QED  BY <2>0, <3>2, <3>4, <3>5, <3>6 DEF TypeOK, Tasks, TimelineEvent
  <2>6. ASSUME NEW r \in Requests, Fail(r) PROVE TypeOK'
    <3>1. request' \in [Requests -> Tasks]  BY <2>0, <2>2, <2>6 DEF Fail
    <3> QED  BY <2>0, <2>6, <3>1 DEF Fail, TypeOK, Tasks, TimelineEvent
  <2>7. CASE UNCHANGED vars  BY <2>7 DEF vars, TypeOK
  <2> QED  BY <2>3, <2>4, <2>5, <2>6, <2>7 DEF Next
<1> QED  BY <1>1, <1>2, PTL DEF Spec

\* The length and the parts of a concatenation.
LEMMA Concatenation ==
    ASSUME NEW log \in Seq(TimelineEvent), NEW more \in Seq(TimelineEvent)
    PROVE  /\ Len(log) \in Nat
           /\ Len(log \o more) = Len(log) + Len(more)
           /\ \A i \in 1..Len(log) : (log \o more)[i] = log[i]
           /\ Len(more) = 1 => (log \o more)[Len(log) + 1] = more[1]
<1>1. /\ Len(log) \in Nat /\ Len(more) \in Nat
      /\ Len(log \o more) = Len(log) + Len(more)
      /\ \A i \in 1..(Len(log) + Len(more)) :
            (log \o more)[i] = IF i <= Len(log) THEN log[i] ELSE more[i - Len(log)]
  BY ConcatProperties
<1>2. ASSUME Len(more) = 1
      PROVE  (log \o more)[Len(log) + 1] = more[1]
  <2>1. Len(log) + 1 \in 1..(Len(log) + Len(more)) /\ ~ (Len(log) + 1 <= Len(log))  BY <1>1, <1>2
  <2>2. (Len(log) + 1) - Len(log) = 1  BY <1>1
  <2>3. (log \o more)[Len(log) + 1] = more[(Len(log) + 1) - Len(log)]  BY <1>1, <2>1
  <2> QED  BY <2>2, <2>3
<1> QED  BY <1>1, <1>2

\* Appending the events of a commit keeps the ones before it.
LEMMA TimelineAppend ==
    ASSUME NEW log \in Seq(TimelineEvent), NEW q \in Tasks
    PROVE  LET more == StatusEvents(q) IN
           /\ Len(log) \in Nat
           /\ \A i \in 1..Len(log) : (log \o more)[i] = log[i]
           /\ \/ more = << >> /\ log \o more = log
              \/ /\ Len(log \o more) = Len(log) + 1
                 /\ (log \o more)[Len(log) + 1].old = q.read.status
                 /\ (log \o more)[Len(log) + 1].new = q.seen.status
<1>1. StatusEvents(q) \in Seq(TimelineEvent)  BY EventsTyped
<1>2. Len(log) \in Nat /\ \A i \in 1..Len(log) : (log \o StatusEvents(q))[i] = log[i]
  BY <1>1, Concatenation
<1>3. CASE StatusEvents(q) = << >>
  <2>1. log \o StatusEvents(q) = log  BY <1>3
  <2> QED  BY <1>2, <1>3, <2>1
<1>4. CASE /\ Len(StatusEvents(q)) = 1
           /\ StatusEvents(q)[1].old = q.read.status
           /\ StatusEvents(q)[1].new = q.seen.status
  <2>1. Len(log \o StatusEvents(q)) = Len(log) + 1  BY <1>1, <1>4, Concatenation
  <2>2. (log \o StatusEvents(q))[Len(log) + 1] = StatusEvents(q)[1]  BY <1>1, <1>4, Concatenation
  <2> QED  BY <1>2, <1>4, <2>1, <2>2
<1> QED  BY <1>3, <1>4, EventsTyped

\* A commit of a request whose UPDATE changed a column writes what it read back;
\* any other commit leaves the row alone.
LEMMA CommitWritesSeen ==
    ASSUME TypeOK, PipelineInv, NEW r \in Requests, Commit(r)
    PROVE  row' = row \/ (Locks(r) /\ row' = request[r].seen)
<1>1. row \in Row /\ request[r] \in Tasks  BY DEF TypeOK, Tasks
<1>2. row' = Apply(request[r], row) /\ request[r].at = "written"  BY DEF Commit
<1>3. CASE Locks(r)  BY <1>2, <1>3 DEF PipelineInv
<1>4. CASE ~ Locks(r)
  <2>1. Changed(request[r]) = {}  BY <1>2, <1>4 DEF Locks
  <2>2. Apply(request[r], row) = [c \in Columns |-> row[c]]  BY <2>1 DEF Apply
  <2>3. row = [c \in Columns |-> row[c]]  BY <1>1 DEF Row, Columns
  <2> QED  BY <1>2, <2>2, <2>3
<1> QED  BY <1>3, <1>4

\* A change of the status is one event, from the status the request has read to
\* the status the row has now.
LEMMA CommitRecords ==
    ASSUME TypeOK, PipelineInv, NEW r \in Requests, Commit(r), row'.status # row.status
    PROVE  /\ Locks(r)
           /\ request[r].patch.status # Absent
           /\ request[r].patch.status = row'.status
           /\ request[r].patch.status # request[r].read.status
           /\ request[r].seen.status = row'.status
           /\ Len(events') = Len(events) + 1
           /\ events'[Len(events')].old = request[r].read.status
           /\ events'[Len(events')].new = row'.status
<1> DEFINE q == request[r]
<1>1. row \in Row /\ q \in Tasks /\ events \in Seq(TimelineEvent)  BY DEF TypeOK, Tasks, TimelineEvent
<1>2. row' = Apply(q, row) /\ events' = events \o StatusEvents(q)  BY DEF Commit
<1>3. Locks(r) /\ row' = q.seen  BY CommitWritesSeen
<1>4. q.patch.status # Absent /\ q.patch.status = row'.status /\ q.patch.status # q.read.status
  BY <1>1, <1>2, StatusAsked
<1>5. StatusEvents(q) = << [old |-> q.read.status, new |-> q.seen.status] >>
  BY <1>3, <1>4 DEF StatusEvents
<1>6. StatusEvents(q) # << >>  BY <1>5
<1>7. Len(events') = Len(events) + 1 /\ Len(events) \in Nat
      /\ events'[Len(events) + 1].old = q.read.status
      /\ events'[Len(events) + 1].new = q.seen.status
  BY <1>1, <1>2, <1>6, TimelineAppend, SMTT(30)
<1> QED  BY <1>3, <1>4, <1>7

\* What was on the timeline stays on it.
LEMMA ReachedGrows ==
    ASSUME TypeOK, NEW r \in Requests, Commit(r)
    PROVE  Reached \subseteq Reached'
<1>1. request[r] \in Tasks /\ events \in Seq(TimelineEvent)  BY DEF TypeOK, Tasks, TimelineEvent
<1>2. events' = events \o StatusEvents(request[r])  BY DEF Commit
<1>3. /\ Len(events) \in Nat
      /\ \A i \in 1..Len(events) : events'[i] = events[i]
      /\ events' = events \/ Len(events') = Len(events) + 1
  BY <1>1, <1>2, TimelineAppend
<1>4. StatusEvents(request[r]) \in Seq(TimelineEvent)  BY <1>1, EventsTyped
<1>5. events' \in Seq(TimelineEvent)  BY <1>1, <1>2, <1>4
<1>6. DOMAIN events = 1..Len(events) /\ DOMAIN events' = 1..Len(events')  BY <1>1, <1>5
<1>7. DOMAIN events \subseteq DOMAIN events'
  <2>1. CASE events' = events  BY <2>1
  <2>2. CASE Len(events') = Len(events) + 1
    <3>1. 1..Len(events) \subseteq 1..(Len(events) + 1)  BY <1>3
    <3> QED  BY <2>2, <3>1, <1>6
  <2> QED  BY <1>3, <2>1, <2>2
<1> QED  BY <1>3, <1>6, <1>7 DEF Reached

\* The timeline's last part, for the whole of it: what it says of the row.
LEMMA RowIsReached ==
    ASSUME TypeOK, TimelineHasNoGaps
    PROVE  row.status \in Reached
<1>1. events \in Seq(TimelineEvent)  BY DEF TypeOK, TimelineEvent
<1>2. Len(events) \in Nat /\ DOMAIN events = 1..Len(events)  BY <1>1
<1>3. row.status \in {New} \cup {events[j].new : j \in 1..((Len(events) + 1) - 1)}
  BY DEF TimelineHasNoGaps
<1>4. (Len(events) + 1) - 1 = Len(events)  BY <1>2
<1> QED  BY <1>2, <1>3, <1>4 DEF Reached

\* A new lead, without requests and with an empty timeline.
LEMMA InitInv == Init => PipelineInv
<1> SUFFICES ASSUME Init PROVE PipelineInv  OBVIOUS
<1>1. \A r \in Requests : request[r].at = "idle" /\ ~ Locks(r)  BY DEF Init, Idle, Locks
<1>2. row.status = New /\ events = << >>  BY DEF Init, NewRow
<1>3. TimelineHasNoGaps  BY <1>2 DEF TimelineHasNoGaps
<1> QED  BY <1>1, <1>3 DEF PipelineInv

\* Reading: the status read is on the timeline, and the change of it was allowed.
LEMMA ReadKeepsInv ==
    ASSUME TypeOK, PipelineInv, NEW r \in Requests, NEW patch \in Patch, Read(r, patch)
    PROVE  PipelineInv'
<1> DEFINE q == [at |-> "read", patch |-> patch, read |-> row, seen |-> row]
<1>1. request \in [Requests -> Tasks]  BY DEF TypeOK, Tasks
<1>2. row' = row /\ events' = events /\ request' = [request EXCEPT ![r] = q]  BY DEF Read
<1>3. request'[r] = q /\ \A o \in Requests \ {r} : request'[o] = request[o]  BY <1>1, <1>2
<1>4. ~ Locks(r)'  BY <1>3 DEF Locks
<1>5. \A o \in Requests \ {r} : Locks(o)' = Locks(o)  BY <1>3 DEF Locks
<1>6. \A o, p \in Requests : Locks(o)' /\ Locks(p)' => o = p  BY <1>4, <1>5 DEF PipelineInv
<1>7. \A o \in Requests : Locks(o)' => request'[o].seen = Apply(request'[o], row')
  BY <1>2, <1>3, <1>4, <1>5 DEF PipelineInv
<1>8. TimelineHasNoGaps' /\ Reached' = Reached  BY <1>2 DEF PipelineInv, TimelineHasNoGaps, Reached
<1>9. row.status \in Reached  BY RowIsReached DEF PipelineInv
<1>10. q.read.status \in Reached /\ q.patch = patch
       /\ (patch.status # Absent => ValidateLeadStatusChange(q.read.status, patch.status))
  BY <1>9 DEF Read
<1>11. ASSUME NEW o \in Requests, request'[o].at # "idle"
       PROVE  /\ request'[o].read.status \in Reached'
              /\ request'[o].patch.status # Absent =>
                    ValidateLeadStatusChange(request'[o].read.status, request'[o].patch.status)
  <2>1. CASE o = r  BY <2>1, <1>3, <1>8, <1>10
  <2>2. CASE o # r  BY <2>2, <1>3, <1>8, <1>11 DEF PipelineInv
  <2> QED  BY <2>1, <2>2
<1> QED  BY <1>6, <1>7, <1>8, <1>11 DEF PipelineInv

\* Writing: nobody else holds the row, and what is read back is what the commit
\* will write.
LEMMA WriteKeepsInv ==
    ASSUME TypeOK, PipelineInv, NEW r \in Requests, Write(r)
    PROVE  PipelineInv'
<1> DEFINE q == request[r]
           n == [q EXCEPT !.at = "written", !.seen = Apply(q, row)]
<1>1. request \in [Requests -> Tasks] /\ q \in Tasks  BY DEF TypeOK, Tasks
<1>2. row' = row /\ events' = events /\ q.at = "read"
      /\ request' = [request EXCEPT ![r].at = "written", ![r].seen = Apply(request[r], row)]
      /\ (Changed(q) # {} => \A o \in Requests : ~ Locks(o))
  BY DEF Write
<1>3. request'[r] = n /\ \A o \in Requests \ {r} : request'[o] = request[o]  BY <1>1, <1>2
<1>4. n.at = "written" /\ n.patch = q.patch /\ n.read = q.read /\ n.seen = Apply(q, row)
  BY <1>1 DEF Tasks
<1>5. Wanted(n) = Wanted(q)  BY <1>4 DEF Wanted
<1>6. Changed(n) = Changed(q)  BY <1>4, <1>5 DEF Changed
<1>7. Apply(n, row) = Apply(q, row)  BY <1>5, <1>6 DEF Apply
<1>8. \A o \in Requests \ {r} : Locks(o)' = Locks(o)  BY <1>3 DEF Locks
<1>9. Locks(r)' => Changed(q) # {}  BY <1>3, <1>6 DEF Locks
<1>10. \A o, p \in Requests : Locks(o)' /\ Locks(p)' => o = p  BY <1>2, <1>8, <1>9 DEF PipelineInv
<1>11. ASSUME NEW o \in Requests, Locks(o)'
       PROVE  request'[o].seen = Apply(request'[o], row')
  <2>1. CASE o = r  BY <2>1, <1>2, <1>3, <1>4, <1>7
  <2>2. CASE o # r  BY <2>2, <1>2, <1>3, <1>8, <1>11 DEF PipelineInv
  <2> QED  BY <2>1, <2>2
<1>12. TimelineHasNoGaps' /\ Reached' = Reached  BY <1>2 DEF PipelineInv, TimelineHasNoGaps, Reached
<1>13. ASSUME NEW o \in Requests, request'[o].at # "idle"
       PROVE  /\ request'[o].read.status \in Reached'
              /\ request'[o].patch.status # Absent =>
                    ValidateLeadStatusChange(request'[o].read.status, request'[o].patch.status)
  <2>1. CASE o = r
    <3>1. q.at # "idle"  BY <1>2
    <3>2. /\ q.read.status \in Reached
          /\ q.patch.status # Absent => ValidateLeadStatusChange(q.read.status, q.patch.status)
      BY <3>1 DEF PipelineInv
    <3>3. request'[o].read = q.read /\ request'[o].patch = q.patch  BY <2>1, <1>3, <1>4
    <3> QED  BY <3>2, <3>3, <1>12
  <2>2. CASE o # r  BY <2>2, <1>3, <1>12, <1>13 DEF PipelineInv
  <2> QED  BY <2>1, <2>2
<1> HIDE DEF n, q
<1> QED  BY <1>10, <1>11, <1>12, <1>13 DEF PipelineInv

\* Failing: one holder and one reader less.
LEMMA FailKeepsInv ==
    ASSUME TypeOK, PipelineInv, NEW r \in Requests, Fail(r)
    PROVE  PipelineInv'
<1>1. request \in [Requests -> Tasks]  BY DEF TypeOK, Tasks
<1>2. row' = row /\ events' = events /\ request' = [request EXCEPT ![r] = Idle]  BY DEF Fail
<1>3. request'[r] = Idle /\ \A o \in Requests \ {r} : request'[o] = request[o]  BY <1>1, <1>2
<1>4. request'[r].at = "idle" /\ ~ Locks(r)'  BY <1>3 DEF Locks, Idle
<1>5. \A o \in Requests \ {r} : Locks(o)' = Locks(o)  BY <1>3 DEF Locks
<1>6. \A o, p \in Requests : Locks(o)' /\ Locks(p)' => o = p  BY <1>4, <1>5 DEF PipelineInv
<1>7. \A o \in Requests : Locks(o)' => request'[o].seen = Apply(request'[o], row')
  BY <1>2, <1>3, <1>4, <1>5 DEF PipelineInv
<1>8. TimelineHasNoGaps' /\ Reached' = Reached  BY <1>2 DEF PipelineInv, TimelineHasNoGaps, Reached
<1>9. \A o \in Requests : request'[o].at # "idle" =>
        /\ request'[o].read.status \in Reached'
        /\ request'[o].patch.status # Absent =>
              ValidateLeadStatusChange(request'[o].read.status, request'[o].patch.status)
  BY <1>3, <1>4, <1>8 DEF PipelineInv
<1> QED  BY <1>6, <1>7, <1>8, <1>9 DEF PipelineInv

\* Committing keeps the timeline without gaps: the status that the new event
\* leaves was read off the row, and the one that the row has now is on it.
LEMMA CommitKeepsTimeline ==
    ASSUME TypeOK, PipelineInv, NEW r \in Requests, Commit(r)
    PROVE  TimelineHasNoGaps'
<1> DEFINE q == request[r]
           Before(log, i) == {New} \cup {log[j].new : j \in 1..(i - 1)}
           n == Len(events)
<1>1. q \in Tasks /\ events \in Seq(TimelineEvent)  BY DEF TypeOK, Tasks, TimelineEvent
<1>2. events' = events \o StatusEvents(q) /\ q.at = "written"  BY DEF Commit
<1>3. /\ n \in Nat
      /\ \A i \in 1..n : events'[i] = events[i]
      /\ \/ events' = events
         \/ /\ Len(events') = n + 1
            /\ events'[n + 1].old = q.read.status
  BY <1>1, <1>2, TimelineAppend
<1>4. events' \in Seq(TimelineEvent)  BY <1>1, <1>2, EventsTyped
<1>5. DOMAIN events = 1..n /\ DOMAIN events' = 1..Len(events')  BY <1>1, <1>4
<1>6. \A i \in 1..n : events[i].old \in Before(events, i)  BY <1>5 DEF PipelineInv, TimelineHasNoGaps
<1>7. \A i \in 1..(n + 1) : Before(events', i) = Before(events, i)
  <2> SUFFICES ASSUME NEW i \in 1..(n + 1)
               PROVE  \A j \in 1..(i - 1) : events'[j] = events[j]
    OBVIOUS
  <2>1. 1..(i - 1) \subseteq 1..n  BY <1>3
  <2> QED  BY <1>3, <2>1
<1>8. Reached = Before(events, n + 1)
  <2>1. (n + 1) - 1 = n  BY <1>3
  <2> QED  BY <1>5, <2>1 DEF Reached
<1>9. q.read.status \in Reached  BY <1>2 DEF PipelineInv
<1>10. \A i \in DOMAIN events' : events'[i].old \in Before(events', i)
  <2>1. 1..n \subseteq 1..(n + 1) /\ n + 1 \in 1..(n + 1)  BY <1>3
  <2>2. \A i \in 1..n : events'[i].old \in Before(events', i)  BY <1>3, <1>6, <1>7, <2>1
  <2>3. CASE events' = events  BY <1>5, <2>2, <2>3
  <2>4. CASE Len(events') = n + 1 /\ events'[n + 1].old = q.read.status
    <3>1. events'[n + 1].old \in Before(events', n + 1)  BY <1>7, <1>8, <1>9, <2>1, <2>4
    <3>2. \A i \in 1..(n + 1) : i \in 1..n \/ i = n + 1  BY <1>3
    <3> QED  BY <1>5, <2>2, <2>4, <3>1, <3>2
  <2> QED  BY <1>3, <2>3, <2>4
<1>11. row'.status \in Reached'
  <2>1. CASE row'.status = row.status
    <3>1. row.status \in Reached  BY RowIsReached DEF PipelineInv
    <3> QED  BY <2>1, <3>1, ReachedGrows
  <2>2. CASE row'.status # row.status
    <3>1. events'[Len(events')].new = row'.status /\ Len(events') = n + 1  BY <2>2, CommitRecords
    <3>2. Len(events') \in DOMAIN events'  BY <1>3, <1>5, <3>1
    <3> QED  BY <3>1, <3>2 DEF Reached
  <2> QED  BY <2>1, <2>2
<1>12. Reached' = Before(events', Len(events') + 1)
  <2>1. Len(events') \in Nat  BY <1>4
  <2>2. (Len(events') + 1) - 1 = Len(events')  BY <2>1
  <2> QED  BY <1>5, <2>2 DEF Reached
<1> QED  BY <1>10, <1>11, <1>12 DEF TimelineHasNoGaps

\* Committing: whoever else holds the row would exclude this request, so the row
\* stays as that one read it back.
LEMMA CommitKeepsInv ==
    ASSUME TypeOK, PipelineInv, NEW r \in Requests, Commit(r)
    PROVE  PipelineInv'
<1>1. request \in [Requests -> Tasks]  BY DEF TypeOK, Tasks
<1>2. request' = [request EXCEPT ![r] = Idle]  BY DEF Commit
<1>3. request'[r] = Idle /\ \A o \in Requests \ {r} : request'[o] = request[o]  BY <1>1, <1>2
<1>4. request'[r].at = "idle" /\ ~ Locks(r)'  BY <1>3 DEF Locks, Idle
<1>5. \A o \in Requests \ {r} : Locks(o)' = Locks(o)  BY <1>3 DEF Locks
<1>6. \A o, p \in Requests : Locks(o)' /\ Locks(p)' => o = p  BY <1>4, <1>5 DEF PipelineInv
<1>7. ASSUME NEW o \in Requests, Locks(o)'
      PROVE  request'[o].seen = Apply(request'[o], row')
  <2>1. o # r /\ Locks(o) /\ request'[o] = request[o]  BY <1>3, <1>4, <1>5, <1>7
  <2>2. ~ Locks(r)  BY <2>1 DEF PipelineInv
  <2>3. row' = row  BY <2>2, CommitWritesSeen
  <2> QED  BY <2>1, <2>3 DEF PipelineInv
<1>8. ASSUME NEW o \in Requests, request'[o].at # "idle"
      PROVE  /\ request'[o].read.status \in Reached'
             /\ request'[o].patch.status # Absent =>
                   ValidateLeadStatusChange(request'[o].read.status, request'[o].patch.status)
  <2>1. request'[o] = request[o]  BY <1>3, <1>4, <1>8
  <2>2. Reached \subseteq Reached'  BY ReachedGrows
  <2> QED  BY <1>8, <2>1, <2>2 DEF PipelineInv
<1>9. TimelineHasNoGaps'  BY CommitKeepsTimeline
<1> QED  BY <1>6, <1>7, <1>8, <1>9 DEF PipelineInv

\* One request at a time holds the row, and what requests know of the status is
\* on the timeline.
THEOREM PipelineCorrect == Spec => []PipelineInv
<1>1. TypeOK /\ PipelineInv /\ [Next]_vars => PipelineInv'
  <2> SUFFICES ASSUME TypeOK, PipelineInv, [Next]_vars PROVE PipelineInv'  OBVIOUS
  <2>1. CASE Next  BY <2>1, ReadKeepsInv, WriteKeepsInv, CommitKeepsInv, FailKeepsInv DEF Next
  <2>2. CASE UNCHANGED vars
    <3>1. row' = row /\ request' = request /\ events' = events  BY <2>2 DEF vars
    <3>2. /\ \A r \in Requests : Locks(r)' = Locks(r)
          /\ Reached' = Reached /\ TimelineHasNoGaps'
      BY <3>1 DEF Locks, Reached, TimelineHasNoGaps, PipelineInv
    <3> QED  BY <3>1, <3>2 DEF PipelineInv
  <2> QED  BY <2>1, <2>2
<1> QED  BY <1>1, InitInv, PipelineTypeCorrect, PTL DEF Spec

\* The timeline of a lead has no gaps, however its requests overlap.
THEOREM TimelineIsComplete == Spec => []TimelineHasNoGaps
<1>1. PipelineInv => TimelineHasNoGaps  BY DEF PipelineInv
<1> QED  BY <1>1, PipelineCorrect, PTL

\* Only a commit changes the row.
LEMMA OnlyCommits ==
    ASSUME [Next]_vars, row' # row
    PROVE  \E r \in Requests : Commit(r)
BY DEF Next, vars, Read, Write, Fail

\* A column changes only to the value that some request asked for.
THEOREM NothingIsTakenBack == Spec => ColumnsChangeAsAsked
<1> DEFINE Asked == \A c \in Columns : row'[c] # row[c] =>
                       \E r \in Requests : request[r].at = "written" /\ request[r].patch[c] = row'[c]
<1>1. TypeOK /\ [Next]_vars => Asked
  <2> SUFFICES ASSUME TypeOK, [Next]_vars, NEW c \in Columns, row'[c] # row[c]
               PROVE  \E r \in Requests : request[r].at = "written" /\ request[r].patch[c] = row'[c]
    OBVIOUS
  <2>1. PICK r \in Requests : Commit(r)  BY OnlyCommits
  <2>2. row' = Apply(request[r], row) /\ request[r].at = "written"  BY <2>1 DEF Commit
  <2>3. request[r] \in Tasks /\ row \in Row  BY DEF TypeOK, Tasks
  <2>4. row'[c] = request[r].patch[c]  BY <2>2, <2>3, ApplyTyped
  <2> QED  BY <2>2, <2>4
<1> QED  BY <1>1, PipelineTypeCorrect, PTL DEF Spec, ColumnsChangeAsAsked

\* Every change of the status is recorded on the timeline.
THEOREM ChangesRecorded == Spec => ChangesAreRecorded
<1> DEFINE Recorded == row'.status # row.status =>
                         /\ Len(events') = Len(events) + 1
                         /\ events'[Len(events')].new = row'.status
<1>1. TypeOK /\ PipelineInv /\ [Next]_vars => Recorded
  <2> SUFFICES ASSUME TypeOK, PipelineInv, [Next]_vars, row'.status # row.status
               PROVE  /\ Len(events') = Len(events) + 1
                      /\ events'[Len(events')].new = row'.status
    OBVIOUS
  <2>1. PICK r \in Requests : Commit(r)  BY OnlyCommits
  <2> QED  BY <2>1, CommitRecords
<1> QED  BY <1>1, PipelineTypeCorrect, PipelineCorrect, PTL DEF Spec, ChangesAreRecorded

\* A closed lead is reopened only by a request that read it while it was open.
THEOREM ReopenedByOvertaken == Spec => ReopenedOnlyIfOvertaken
<1> DEFINE Overtaken == row.status \in Terminal /\ row'.status # row.status =>
                \E r \in Requests : request[r].at = "written" /\ request[r].read.status \in Open
<1>1. TypeOK /\ PipelineInv /\ [Next]_vars => Overtaken
  <2> SUFFICES ASSUME TypeOK, PipelineInv, [Next]_vars, row'.status # row.status
               PROVE  \E r \in Requests : request[r].at = "written" /\ request[r].read.status \in Open
    OBVIOUS
  <2>1. PICK r \in Requests : Commit(r)  BY OnlyCommits
  <2>2. request[r].at = "written" /\ request[r].read.status \in Statuses
    BY <2>1 DEF Commit, TypeOK, Row
  <2>3. /\ request[r].patch.status # Absent
        /\ request[r].patch.status # request[r].read.status
    BY <2>1, CommitRecords
  <2>4. ValidateLeadStatusChange(request[r].read.status, request[r].patch.status)
    BY <2>2, <2>3 DEF PipelineInv
  <2>5. request[r].read.status \in Open  BY <2>2, <2>3, <2>4 DEF ValidateLeadStatusChange, Statuses
  <2> QED  BY <2>2, <2>5
<1> QED  BY <1>1, PipelineTypeCorrect, PipelineCorrect, PTL DEF Spec, ReopenedOnlyIfOvertaken

\* The history of a lead is complete and says what its requests asked for.
THEOREM HistoryIsKept == Spec => HistoryHolds
BY TimelineIsComplete, NothingIsTakenBack, ChangesRecorded, ReopenedByOvertaken DEF HistoryHolds


-----------------------------------------------------------------------------
\* Listings.

LEMMA ListFields ==
    ASSUME NEW list \in Lists
    PROVE  /\ list.by \in {"created", "touched"} /\ list.order \in {"newest", "oldest"}
           /\ list.total \in {"first", "after", "none"}
           /\ list.total = "none" => list = LeadCursor
<1>1. \/ \E key \in {"created", "touched"}, total \in {"first", "after"} : list = OffsetList(key, "newest", total)
      \/ list = LeadTimeline \/ list = LeadCursor
  BY Zenon DEF Lists, AdminUsers, AdminBots, AdminBilling, AuditLogs, WebhookLogs, Campaigns_,
               UserTickets, AdminTickets, OwnerLeads, Notifications
<1>2. ASSUME NEW key \in {"created", "touched"}, NEW total \in {"first", "after"}, list = OffsetList(key, "newest", total)
      PROVE  list.by = key /\ list.order = "newest" /\ list.total = total
  BY <1>2, Zenon DEF OffsetList
<1>3. CASE list = LeadTimeline
  <2>1. list.by = "created" /\ list.order = "oldest" /\ list.total = "after"
    BY <1>3, Zenon DEF LeadTimeline
  <2> QED  BY <2>1
<1>4. CASE list = LeadCursor
  <2>1. list.by = "created" /\ list.order = "newest" /\ list.total = "none"
    BY <1>4, Zenon DEF LeadCursor
  <2> QED  BY <1>4, <2>1
<1>5. CASE \E key \in {"created", "touched"}, total \in {"first", "after"} : list = OffsetList(key, "newest", total)
  <2>1. PICK key \in {"created", "touched"}, total \in {"first", "after"} : list = OffsetList(key, "newest", total)
    BY <1>5
  <2>2. list.by = key /\ list.order = "newest" /\ list.total = total  BY <1>2, <2>1, Zenon
  <2> QED  BY <2>2
<1> QED  BY <1>1, <1>3, <1>4, <1>5

LEMMA RowFields ==
    ASSUME NEW cur \in TableRow
    PROVE  cur.created \in Nat /\ cur.touched \in Nat /\ cur.matches \in BOOLEAN
BY Zenon DEF TableRow

LEMMA TableTypes ==
    ASSUME ListingsTypeOK
    PROVE  /\ IsFiniteSet(Rows) /\ Rows \subseteq Nat \ {0}
           /\ DOMAIN table \subseteq Rows /\ Listed \subseteq DOMAIN table /\ steady \subseteq Listed
           /\ IsFiniteSet(Listed) /\ Cardinality(Listed) \in Nat
           /\ IsFiniteSet(steady) /\ Cardinality(steady) \in Nat
           /\ \A id \in DOMAIN table : table[id] \in TableRow
<1>1. IsFiniteSet(Rows) /\ Rows \subseteq Nat \ {0}  BY ListingsAssumption
<1>2. DOMAIN table \subseteq Rows /\ steady \subseteq Listed /\ \A id \in DOMAIN table : table[id] \in TableRow
  BY DEF ListingsTypeOK
<1>3. Listed \subseteq DOMAIN table  BY DEF Listed
<1>4. Listed \in SUBSET Rows /\ steady \in SUBSET Rows  BY <1>2, <1>3
<1>5. IsFiniteSet(Listed) /\ IsFiniteSet(steady)  BY <1>1, <1>4, FS_Subset, Zenon
<1> QED  BY <1>1, <1>2, <1>3, <1>5, FS_CardinalityType

LEMMA KeyIsNat ==
    ASSUME ListingsTypeOK, NEW list \in Lists, NEW id \in DOMAIN table
    PROVE  KeyOf(list, id) \in Nat
<1>1. table[id].created \in Nat /\ table[id].touched \in Nat  BY TableTypes, RowFields
<1>2. list.by = "created" \/ list.by = "touched"  BY ListFields
<1> QED  BY <1>1, <1>2, Zenon DEF KeyOf

WalkFields ==
    /\ walk.list \in Lists /\ walk.limit \in Nat \ {0} /\ walk.phase \in {"idle", "count", "page", "over"}
    /\ walk.offset \in Nat /\ walk.after \in Cursor /\ walk.total \in Nat /\ walk.shown \in Seq(Rows)
    /\ Len(walk.shown) \in Nat

LEMMA WalkTypes ==
    ASSUME ListingsTypeOK
    PROVE  WalkFields
<1>1. walk \in Walk  BY DEF ListingsTypeOK
<1> QED  BY <1>1, LenProperties DEF Walk, WalkFields

\* Keys are compared strictly, whatever the list.
LEMMA PrecedesIsStrict ==
    ASSUME NEW list, NEW i \in Nat, NEW j \in Nat, NEW k \in Nat,
           KeyOf(list, i) \in Nat, KeyOf(list, j) \in Nat, KeyOf(list, k) \in Nat
    PROVE  /\ ~ Precedes(list, i, i)
           /\ Precedes(list, i, j) /\ Precedes(list, j, k) => Precedes(list, i, k)
           /\ i # j /\ (list.tie \/ KeyOf(list, i) # KeyOf(list, j)) => Precedes(list, i, j) \/ Precedes(list, j, i)
<1> DEFINE a == KeyOf(list, i)
           b == KeyOf(list, j)
           c == KeyOf(list, k)
<1>1. a \in Nat /\ b \in Nat /\ c \in Nat  OBVIOUS
<1> HIDE DEF a, b, c
<1>2. ~ Precedes(list, i, i)  BY <1>1 DEF Precedes, a
<1>3. Precedes(list, i, j) /\ Precedes(list, j, k) => Precedes(list, i, k)
  BY <1>1 DEF Precedes, a, b, c
<1>4. i # j /\ (list.tie \/ a # b) => Precedes(list, i, j) \/ Precedes(list, j, i)
  BY <1>1 DEF Precedes, a, b
<1> QED  BY <1>2, <1>3, <1>4 DEF a, b

\* Keys of rows that may be listed.
Keyed(list, ids) == ids \subseteq Nat /\ IsFiniteSet(ids) /\ \A id \in ids : KeyOf(list, id) \in Nat
Told(list, ids) == \A i, j \in ids : i = j \/ Precedes(list, i, j) \/ Precedes(list, j, i)

InOrder(list, ids, s) ==
    /\ Cardinality(ids) \in Nat /\ s \in [1 .. Cardinality(ids) -> ids]
    /\ s \in Seq(ids) /\ Len(s) = Cardinality(ids)
    /\ \A p, q \in 1 .. Cardinality(ids) : s[p] = s[q] => p = q
    /\ \A id \in ids : \E p \in 1 .. Cardinality(ids) : s[p] = id
    /\ \A p, q \in 1 .. Cardinality(ids) : p < q => ~ Precedes(list, s[q], s[p])

\* An order of a statement shows every row at one place.
LEMMA OrderIsListing ==
    ASSUME NEW list, NEW ids, IsFiniteSet(ids), NEW s \in Orders(list, ids)
    PROVE  InOrder(list, ids, s)
<1> DEFINE n == Cardinality(ids)
<1>1. n \in Nat  BY FS_CardinalityType
<1> HIDE DEF n
<1>2. s \in [1 .. n -> ids] /\ \A p, q \in 1 .. n : p < q => s[p] # s[q] /\ ~ Precedes(list, s[q], s[p])
  BY DEF Orders, n
<1>3. \A p, q \in 1 .. n : s[p] = s[q] => p = q  BY <1>1, <1>2
<1>4. s \in Injection(1 .. n, ids)  BY <1>2, <1>3 DEF Injection, IsInjective
<1>5. IsFiniteSet(1 .. n) /\ Cardinality(1 .. n) = n  BY <1>1, FS_Interval
<1>6. s \in Surjection(1 .. n, ids)  BY <1>4, <1>5, FS_Injection DEF n
<1>7. \A id \in ids : \E p \in 1 .. n : s[p] = id  BY <1>6 DEF Surjection
<1>8. s \in Seq(ids) /\ Len(s) = n  BY <1>1, <1>2
<1> QED  BY <1>1, <1>2, <1>3, <1>7, <1>8 DEF n, InOrder

\* Where keys tell the rows apart, an order is sorted.
LEMMA OrderIsSorted ==
    ASSUME NEW list, NEW ids, Keyed(list, ids), Told(list, ids), NEW s \in Orders(list, ids),
           NEW p \in 1 .. Cardinality(ids), NEW q \in 1 .. Cardinality(ids)
    PROVE  Precedes(list, s[p], s[q]) <=> p < q
<1> DEFINE n == Cardinality(ids)
<1>0. IsFiniteSet(ids)  BY DEF Keyed
<1>1. /\ n \in Nat /\ s \in [1 .. n -> ids]
      /\ \A r, t \in 1 .. n : s[r] = s[t] => r = t
      /\ \A r, t \in 1 .. n : r < t => ~ Precedes(list, s[t], s[r])
  BY <1>0, OrderIsListing DEF InOrder
<1>2. q \in 1 .. n /\ p \in 1 .. n  OBVIOUS
<1> HIDE DEF n
<1>3. s[p] \in ids /\ s[q] \in ids  BY <1>1, <1>2
<1>4. s[p] \in Nat /\ s[q] \in Nat /\ KeyOf(list, s[p]) \in Nat /\ KeyOf(list, s[q]) \in Nat
  BY <1>3 DEF Keyed
<1>5. CASE p < q
  <2>1. s[p] # s[q] /\ ~ Precedes(list, s[q], s[p])  BY <1>1, <1>2, <1>5
  <2> QED  BY <1>3, <1>5, <2>1 DEF Told
<1>6. CASE p = q
  <2>1. ~ Precedes(list, s[q], s[q])  BY <1>4, PrecedesIsStrict
  <2> QED  BY <1>2, <1>6, <2>1
<1>7. CASE p > q  BY <1>1, <1>2, <1>7
<1> QED  BY <1>2, <1>5, <1>6, <1>7

\* Where keys tell the rows apart, a row is at the place that the rows before it leave.
LEMMA PlaceInOrder ==
    ASSUME NEW list, NEW ids, Keyed(list, ids), Told(list, ids), NEW s \in Orders(list, ids),
           NEW q \in 1 .. Cardinality(ids)
    PROVE  /\ {j \in ids : Precedes(list, j, s[q])} = {s[p] : p \in 1 .. q - 1}
           /\ Cardinality({j \in ids : Precedes(list, j, s[q])}) = q - 1
<1> DEFINE n == Cardinality(ids)
           before == {j \in ids : Precedes(list, j, s[q])}
<1>0. IsFiniteSet(ids)  BY DEF Keyed
<1>1. /\ n \in Nat /\ s \in [1 .. n -> ids]
      /\ \A p, r \in 1 .. n : s[p] = s[r] => p = r
      /\ \A id \in ids : \E p \in 1 .. n : s[p] = id
      /\ \A p, r \in 1 .. n : p < r => ~ Precedes(list, s[r], s[p])
  BY <1>0, OrderIsListing DEF InOrder
<1>2. q \in 1 .. n  OBVIOUS
<1> HIDE DEF n
<1>3. ASSUME NEW p \in 1 .. n PROVE Precedes(list, s[p], s[q]) <=> p < q  BY OrderIsSorted DEF n
<1>4. before = {s[p] : p \in 1 .. q - 1}
  <2>1. ASSUME NEW j \in before PROVE \E p \in 1 .. q - 1 : j = s[p]
    <3>1. PICK p \in 1 .. n : s[p] = j  BY <1>1
    <3>2. p < q  BY <1>3, <3>1
    <3> QED  BY <1>2, <3>1, <3>2
  <2>2. ASSUME NEW p \in 1 .. q - 1 PROVE s[p] \in before
    <3>1. p \in 1 .. n /\ p < q  BY <1>1, <1>2
    <3> QED  BY <1>1, <1>3, <3>1
  <2> HIDE DEF before
  <2> QED  BY <2>1, <2>2
<1> DEFINE f == [p \in 1 .. q - 1 |-> s[p]]
<1>5. q - 1 \in Nat /\ \A p \in 1 .. q - 1 : p \in 1 .. n  BY <1>1, <1>2
<1>6. f \in [1 .. q - 1 -> before]  BY <1>4
<1>7. \A a, b \in 1 .. q - 1 : f[a] = f[b] => a = b  BY <1>1, <1>5
<1>8. \A j \in before : \E p \in 1 .. q - 1 : f[p] = j  BY <1>4
<1> HIDE DEF f, before
<1>9. f \in Bijection(1 .. q - 1, before)
  BY <1>6, <1>7, <1>8 DEF Bijection, Injection, Surjection, IsInjective
<1>10. IsFiniteSet(1 .. q - 1) /\ Cardinality(1 .. q - 1) = q - 1  BY <1>5, FS_Interval
<1>11. Cardinality(before) = q - 1  BY <1>9, <1>10, FS_Bijection, Zenon DEF ExistsBijection
<1> QED  BY <1>4, <1>11 DEF before

CountIn(seq, id) == Cardinality({p \in DOMAIN seq : seq[p] = id})
Has(seq, id) == \E k \in DOMAIN seq : seq[k] = id
Single(seq) == \A k, l \in DOMAIN seq : seq[k] = seq[l] => k = l

LEMMA CountIsNat ==
    ASSUME NEW S, NEW seq \in Seq(S), NEW id
    PROVE  CountIn(seq, id) \in Nat /\ IsFiniteSet({p \in DOMAIN seq : seq[p] = id}) /\ (CountIn(seq, id) = 0 <=> ~ Has(seq, id))
<1> DEFINE P == {p \in DOMAIN seq : seq[p] = id}
<1>1. DOMAIN seq = 1 .. Len(seq) /\ Len(seq) \in Nat  BY LenProperties
<1>2. IsFiniteSet(1 .. Len(seq))  BY <1>1, FS_Interval
<1>3. P \in SUBSET (1 .. Len(seq))  BY <1>1
<1> HIDE DEF P
<1>4. IsFiniteSet(P)  BY <1>2, <1>3, FS_Subset, Zenon
<1>5. Cardinality(P) \in Nat /\ (Cardinality(P) = 0 <=> P = {})
  BY <1>4, FS_CardinalityType, FS_EmptySet, Zenon
<1> QED  BY <1>4, <1>5 DEF P, CountIn, Has

\* A page in which no row is twice.
LEMMA PageIsCounted ==
    ASSUME NEW S, NEW shown \in Seq(S), NEW page \in Seq(S), Single(page), NEW id
    PROVE  CountIn(shown \o page, id) = CountIn(shown, id) + (IF Has(page, id) THEN 1 ELSE 0)
<1> DEFINE all == shown \o page
           n == Len(shown)
           P == {p \in DOMAIN shown : shown[p] = id}
           Q == {p \in DOMAIN all : all[p] = id}
<1>1. /\ n \in Nat /\ Len(page) \in Nat /\ DOMAIN shown = 1 .. n /\ DOMAIN page = 1 .. Len(page)
      /\ all \in Seq(S) /\ Len(all) = n + Len(page)
      /\ \A i \in 1 .. Len(shown) + Len(page) : all[i] = IF i <= Len(shown) THEN shown[i] ELSE page[i - Len(shown)]
  BY LenProperties, ConcatProperties
<1>2. DOMAIN all = 1 .. n + Len(page)  BY <1>1, LenProperties
<1>3. IsFiniteSet(P) /\ Cardinality(P) \in Nat /\ CountIn(shown, id) = Cardinality(P) /\ CountIn(all, id) = Cardinality(Q)
  BY CountIsNat DEF CountIn
<1> HIDE DEF all, n
<1>4. CASE Has(page, id)
  <2>1. PICK k \in 1 .. Len(page) : page[k] = id /\ \A l \in 1 .. Len(page) : page[l] = id => l = k
    BY <1>1, <1>4 DEF Has, Single
  <2>2. Q = P \cup {n + k}
    <3>1. ASSUME NEW p \in Q PROVE p \in P \/ p = n + k
      <4>1. p \in 1 .. n + Len(page) /\ all[p] = id  BY <1>2
      <4>2. CASE p <= n  BY <1>1, <4>1, <4>2 DEF n
      <4>3. CASE p > n
        <5>1. p - n \in 1 .. Len(page) /\ page[p - n] = id  BY <1>1, <4>1, <4>3 DEF n
        <5> QED  BY <1>1, <2>1, <4>1, <5>1
      <4> QED  BY <1>1, <4>1, <4>2, <4>3
    <3>2. ASSUME NEW p \in P PROVE p \in Q
      <4>1. p \in 1 .. n /\ shown[p] = id  BY <1>1
      <4>2. p \in 1 .. n + Len(page) /\ all[p] = shown[p]  BY <1>1, <4>1 DEF n
      <4> QED  BY <1>2, <4>1, <4>2
    <3>3. n + k \in Q
      <4>1. n + k \in 1 .. n + Len(page) /\ ~ (n + k <= n) /\ n + k - n = k  BY <1>1, <2>1
      <4>2. all[n + k] = page[k]  BY <1>1, <4>1 DEF n
      <4> QED  BY <1>2, <2>1, <4>1, <4>2
    <3> HIDE DEF P, Q
    <3> QED  BY <3>1, <3>2, <3>3
  <2>3. n + k \notin P  BY <1>1, <2>1
  <2> HIDE DEF P, Q
  <2>4. Cardinality(Q) = Cardinality(P) + 1  BY <1>3, <2>2, <2>3, FS_AddElement
  <2> QED  BY <1>3, <1>4, <2>4 DEF all
<1>5. CASE ~ Has(page, id)
  <2>1. \A l \in 1 .. Len(page) : page[l] # id  BY <1>1, <1>5 DEF Has
  <2>2. ASSUME NEW p \in Q PROVE p \in P
    <3>1. p \in 1 .. n + Len(page) /\ all[p] = id  BY <1>2
    <3>2. CASE p <= n  BY <1>1, <3>1, <3>2 DEF n
    <3>3. CASE p > n
      <4>1. p - n \in 1 .. Len(page) /\ page[p - n] = id  BY <1>1, <3>1, <3>3 DEF n
      <4> QED  BY <2>1, <4>1
    <3> QED  BY <1>1, <3>1, <3>2, <3>3
  <2>3. ASSUME NEW p \in P PROVE p \in Q
    <3>1. p \in 1 .. n /\ shown[p] = id  BY <1>1
    <3>2. p \in 1 .. n + Len(page) /\ all[p] = shown[p]  BY <1>1, <3>1 DEF n
    <3> QED  BY <1>2, <3>1, <3>2
  <2> HIDE DEF P, Q
  <2>4. Q = P  BY <2>2, <2>3
  <2> QED  BY <1>3, <1>5, <2>4 DEF all
<1> QED  BY <1>4, <1>5

Covers(page, s, f, m) ==
    /\ \A p \in 1 .. Len(s) : Has(page, s[p]) <=> f < p /\ p <= m
    /\ \A id : Has(page, id) => \E p \in 1 .. Len(s) : s[p] = id /\ f < p /\ p <= m

\* A page is what an order has at some places.
LEMMA PageOfOrder ==
    ASSUME NEW S, NEW s \in Seq(S), Single(s),
           NEW f \in Nat, NEW m \in Nat, m <= Len(s), NEW page, page = SubSeq(s, f + 1, m)
    PROVE  /\ page \in Seq(S) /\ Len(page) = (IF f < m THEN m - f ELSE 0) /\ Single(page)
           /\ Covers(page, s, f, m)
<1>0. Len(s) \in Nat  BY LenProperties
<1>9. DOMAIN s = 1 .. Len(s)  BY LenProperties
<1>1. \A i \in f + 1 .. m : i \in 1 .. Len(s) /\ s[i] \in S  BY <1>0, ElementOfSeq
<1>2. /\ page \in Seq(S) /\ Len(page) = (IF f + 1 <= m THEN m - (f + 1) + 1 ELSE 0)
      /\ \A i \in 1 .. m - (f + 1) + 1 : page[i] = s[f + 1 + i - 1]
  BY <1>1, SubSeqProperties
<1>3. DOMAIN page = 1 .. Len(page)  BY <1>2, LenProperties
<1>4. Len(page) = IF f < m THEN m - f ELSE 0  BY <1>2
<1>5. ASSUME NEW k \in DOMAIN page PROVE f + k \in 1 .. Len(s) /\ f < f + k /\ f + k <= m /\ page[k] = s[f + k]
  <2>1. k \in Nat /\ 1 <= k /\ k <= Len(page)  BY <1>2, <1>3
  <2>2. f < m /\ k <= m - f  BY <1>4, <2>1
  <2>3. k \in 1 .. m - (f + 1) + 1 /\ f + 1 + k - 1 = f + k  BY <2>1, <2>2
  <2>4. page[k] = s[f + k]  BY <1>2, <2>3
  <2> QED  BY <1>0, <2>1, <2>2, <2>4
<1>6. Single(page)
  <2> SUFFICES ASSUME NEW k \in DOMAIN page, NEW l \in DOMAIN page, page[k] = page[l] PROVE k = l
    BY DEF Single
  <2>1. f + k = f + l  BY <1>5, <1>9 DEF Single
  <2>2. k \in Nat /\ l \in Nat  BY <1>3
  <2> QED  BY <2>1, <2>2
<1>7. ASSUME NEW id, Has(page, id) PROVE \E p \in 1 .. Len(s) : s[p] = id /\ f < p /\ p <= m
  <2>1. PICK k \in DOMAIN page : page[k] = id  BY <1>7 DEF Has
  <2> QED  BY <1>5, <2>1
<1>8. ASSUME NEW p \in 1 .. Len(s) PROVE Has(page, s[p]) <=> f < p /\ p <= m
  <2>1. CASE f < p /\ p <= m
    <3>1. p - f \in 1 .. Len(page) /\ f + (p - f) = p  BY <1>0, <1>4, <2>1
    <3>2. p - f \in DOMAIN page  BY <1>3, <3>1
    <3>3. page[p - f] = s[p]  BY <1>5, <3>1, <3>2
    <3> QED  BY <2>1, <3>2, <3>3 DEF Has
  <2>2. CASE ~ (f < p /\ p <= m)
    <3> SUFFICES ASSUME Has(page, s[p]) PROVE FALSE  BY <2>2
    <3>1. PICK q \in 1 .. Len(s) : s[q] = s[p] /\ f < q /\ q <= m  BY <1>7
    <3>2. q = p  BY <1>9, <3>1 DEF Single
    <3> QED  BY <2>2, <3>1, <3>2
  <2> QED  BY <2>1, <2>2
<1> QED  BY <1>2, <1>4, <1>6, <1>7, <1>8 DEF Covers

LEMMA TimesIsCount ==
    ASSUME ListingsTypeOK, NEW id
    PROVE  Times(id) \in Nat /\ Times(id) = CountIn(walk.shown, id)
<1>1. walk.shown \in Seq(Rows)  BY WalkTypes DEF WalkFields
<1>2. CountIn(walk.shown, id) \in Nat  BY <1>1, CountIsNat
<1> QED  BY <1>2 DEF Times, CountIn

LEMMA PlaceIsNat ==
    ASSUME ListingsTypeOK, NEW id
    PROVE  Place(id) \in Nat /\ Ahead(id) \subseteq Listed /\ IsFiniteSet(Ahead(id))
<1>1. IsFiniteSet(Listed) /\ Ahead(id) \in SUBSET Listed  BY TableTypes DEF Ahead
<1>2. IsFiniteSet(Ahead(id))  BY <1>1, FS_Subset, Zenon
<1> QED  BY <1>1, <1>2, FS_CardinalityType DEF Place

LEMMA PlaceInList ==
    ASSUME ListingsTypeOK, NEW id \in Listed
    PROVE  Place(id) < Cardinality(Listed)
<1>1. /\ IsFiniteSet(Listed) /\ Cardinality(Listed) \in Nat
      /\ id \in DOMAIN table /\ id \in Nat /\ walk.list \in Lists
  BY TableTypes, WalkTypes DEF WalkFields
<1>2. KeyOf(walk.list, id) \in Nat  BY <1>1, KeyIsNat
<1>3. ~ Precedes(walk.list, id, id)  BY <1>1, <1>2, PrecedesIsStrict
<1>4. Ahead(id) \in SUBSET (Listed \ {id})  BY <1>3 DEF Ahead
<1>5. IsFiniteSet(Listed \ {id}) /\ Cardinality(Listed \ {id}) = Cardinality(Listed) - 1
  BY <1>1, FS_RemoveElement
<1>6. Cardinality(Ahead(id)) <= Cardinality(Listed \ {id})  BY <1>4, <1>5, FS_Subset, Zenon
<1> QED  BY <1>1, <1>5, <1>6, PlaceIsNat DEF Place

LEMMA PassedByIsFinite ==
    ASSUME ListingsTypeOK
    PROVE  /\ IsFiniteSet(PassedBy) /\ Cardinality(PassedBy) \in Nat
           /\ IsFiniteSet(Missed) /\ Cardinality(Missed) \in Nat
<1>1. IsFiniteSet(steady) /\ PassedBy \in SUBSET steady /\ Missed \in SUBSET steady
  BY TableTypes DEF PassedBy, Missed
<1>2. IsFiniteSet(PassedBy) /\ IsFiniteSet(Missed)  BY <1>1, FS_Subset, Zenon
<1> QED  BY <1>2, FS_CardinalityType

\* While the table and the list stay, so do the places.
LEMMA PlaceStays ==
    ASSUME UNCHANGED table, walk'.list = walk.list, NEW id
    PROVE  Listed' = Listed /\ Place(id)' = Place(id) /\ Ahead(id)' = Ahead(id)
<1>1. Listed' = Listed  BY DEF Listed
<1>2. \A i, j : Precedes(walk.list, i, j)' <=> Precedes(walk.list, i, j)  BY Zenon DEF Precedes, KeyOf
<1>3. Ahead(id)' = Ahead(id)  BY <1>1, <1>2, Zenon DEF Ahead
<1> QED  BY <1>1, <1>3, Zenon DEF Place

LEMMA DistinctStays ==
    ASSUME UNCHANGED <<table, steady>>, walk'.list = walk.list
    PROVE  Distinct(steady)' <=> Distinct(steady)
<1>1. table' = table /\ steady' = steady  OBVIOUS
<1>2. \A i, j : Precedes(walk.list, i, j)' <=> Precedes(walk.list, i, j)
  BY <1>1, Zenon DEF Precedes, KeyOf
<1> QED  BY <1>1, <1>2, Zenon DEF Distinct

\* A step of the client that shows nothing.
LEMMA CountsStay ==
    ASSUME ListingsTypeOK, UNCHANGED <<table, steady>>, walk'.list = walk.list, walk'.shown = walk.shown, PageFront' = PageFront
    PROVE  /\ Listed' = Listed /\ PassedBy' = PassedBy /\ Missed' = Missed
           /\ \A id : Times(id)' = Times(id) /\ Place(id)' = Place(id)
<1>1. \A id : Times(id)' = Times(id)  BY DEF Times
<1>2. \A id : Place(id)' = Place(id)  BY PlaceStays, Zenon
<1>3. Listed' = Listed  BY DEF Listed
<1>4. PassedBy' = PassedBy  BY <1>1, <1>2, Zenon DEF PassedBy
<1>5. Missed' = Missed  BY <1>1, Zenon DEF Missed
<1> QED  BY <1>1, <1>2, <1>3, <1>4, <1>5

LEMMA ListingsStart == ListingsInit => ListingsInv
<1> SUFFICES ASSUME ListingsInit PROVE ListingsInv  OBVIOUS
<1>1. /\ clock = 1 /\ changed = 0 /\ steady = {} /\ tied = FALSE
      /\ walk = [list |-> LeadCursor, limit |-> 1, phase |-> "idle", offset |-> 0, after |-> NoCursor, total |-> 0,
                 shown |-> << >>]
  BY Zenon DEF ListingsInit
<1> DEFINE young == [created : 0 .. 1, touched : 0 .. 1, matches : {TRUE}]
<1>2. PICK ids \in SUBSET Rows : table \in [ids -> young]  BY Zenon DEF ListingsInit
<1>3. young \subseteq TableRow
  <2> DEFINE low == 0 .. 1
  <2>1. low \subseteq Nat  OBVIOUS
  <2> HIDE DEF low
  <2>2. young = [created : low, touched : low, matches : {TRUE}]  BY DEF low
  <2> HIDE DEF young
  <2> QED  BY <2>1, <2>2, Zenon DEF TableRow
<1> HIDE DEF young
<1>4. DOMAIN table \subseteq Rows /\ table \in [DOMAIN table -> TableRow]  BY <1>2, <1>3
<1>5. walk.list = LeadCursor /\ walk.limit = 1 /\ walk.phase = "idle" /\ walk.offset = 0
      /\ walk.after = NoCursor /\ walk.total = 0 /\ walk.shown = << >>
  BY <1>1
<1>6. LeadCursor \in Lists /\ NoCursor \in Cursor /\ << >> \in Seq(Rows)
  <2>1. LeadCursor \in Lists  BY Zenon DEF Lists
  <2>2. NoCursor \in Cursor  BY DEF NoCursor, Cursor
  <2> QED  BY <2>1, <2>2
<1>7. walk \in Walk  BY <1>1, <1>6 DEF Walk
<1>8. ListingsTypeOK
  <2>1. clock \in Nat \ {0} /\ changed \in Nat /\ steady \subseteq Listed  BY <1>1
  <2>2. tied \in BOOLEAN  BY <1>1, Zenon
  <2> QED  BY <1>4, <1>7, <2>1, <2>2, Zenon DEF ListingsTypeOK
<1>9. ListingsHold
  BY <1>5 DEF ListingsHold, CursorShowsAllOnce, OffsetLosesByChangesOnly, UndisturbedPagerIsComplete, Over
<1> QED  BY <1>1, <1>5, <1>8, <1>9 DEF ListingsInv, WalkBegins, CursorParts, LossIsPaid, Undisturbed, Paging

LEMMA BeginKeepsListings ==
    ASSUME ListingsInv, NEW list \in Lists, NEW limit \in PageSizes, Begin(list, limit)
    PROVE  ListingsInv'
<1>1. ListingsTypeOK /\ WalkBegins  BY DEF ListingsInv
<1> DEFINE phase == IF list.total = "first" THEN "count" ELSE "page"
<1>2. /\ walk.phase = "idle" /\ steady' = Listed /\ UNCHANGED <<table, clock, changed, tied>>
      /\ walk' = [walk EXCEPT !.list = list, !.limit = limit, !.phase = phase]
  BY DEF Begin
<1>3. /\ walk.shown = << >> /\ walk.offset = 0 /\ walk.after = NoCursor /\ changed = 0 /\ ~ tied
  BY <1>1, <1>2 DEF WalkBegins
<1>4. limit \in Nat \ {0}  BY ListingsAssumption
<1>5. walk \in Walk  BY <1>1 DEF ListingsTypeOK
<1>6. /\ phase \in {"count", "page"} /\ (phase = "count" <=> list.total = "first")
      /\ list = LeadCursor => phase = "page"
  <2>1. LeadCursor.total = "none"  BY Zenon DEF LeadCursor
  <2> QED  BY <2>1
<1> HIDE DEF phase
<1>7. /\ walk' \in Walk /\ walk'.list = list /\ walk'.phase = phase /\ walk'.offset = 0 /\ walk'.shown = << >>
      /\ walk'.after = NoCursor
  BY <1>2, <1>3, <1>4, <1>5, <1>6 DEF Walk
<1>8. Listed' = Listed /\ steady' \subseteq Listed'  BY <1>2 DEF Listed
<1>9. ListingsTypeOK'  BY <1>1, <1>2, <1>7, <1>8 DEF ListingsTypeOK
<1>10. WalkBegins'  BY <1>6, <1>7 DEF WalkBegins
<1>11. \A id : Times(id)' = 0
  <2> SUFFICES ASSUME NEW id PROVE Cardinality({p \in DOMAIN walk'.shown : walk'.shown[p] = id}) = 0
    BY DEF Times
  <2>1. {p \in DOMAIN walk'.shown : walk'.shown[p] = id} = {}  BY <1>7
  <2> QED  BY <2>1, FS_EmptySet
<1>12. Cardinality(Listed)' \in Nat /\ Cardinality(Listed)' = Cardinality(Listed) /\ Len(walk'.shown) = 0
  BY <1>1, <1>7, <1>8, TableTypes
<1>13. CursorParts'
  <2>1. AfterCursor(walk.after)' = Listed'  BY <1>7 DEF AfterCursor, NoCursor
  <2> QED  BY <1>2, <1>8, <1>11, <1>12, <2>1 DEF CursorParts
<1>14. PageFront' = 0 /\ Excess' = 0  BY <1>6, <1>7 DEF PageFront, Excess
<1>15. ASSUME NEW id PROVE Place(id)' \in Nat
  <2>1. IsFiniteSet(Listed) /\ Ahead(id)' \in SUBSET Listed  BY <1>1, <1>8, TableTypes DEF Ahead
  <2>2. IsFiniteSet(Ahead(id)')  BY <2>1, FS_Subset, Zenon
  <2> QED  BY <2>2, FS_CardinalityType DEF Place
<1>16. PassedBy' = {}  BY <1>14, <1>15 DEF PassedBy
<1>17. Cardinality(PassedBy)' = 0  BY <1>16, FS_EmptySet
<1>18. LossIsPaid'  BY <1>2, <1>3, <1>11, <1>14, <1>15, <1>17 DEF LossIsPaid
<1>19. Undisturbed'
  <2>1. ~ (walk'.list.total = "first" /\ walk'.phase = "page")  BY <1>6, <1>7
  <2> QED  BY <1>2, <1>8, <1>12, <1>14, <2>1 DEF Undisturbed
<1>20. ListingsHold'
  <2>1. ~ Over'  BY <1>6, <1>7 DEF Over
  <2> QED  BY <2>1 DEF ListingsHold, CursorShowsAllOnce, OffsetLosesByChangesOnly, UndisturbedPagerIsComplete
<1> QED  BY <1>9, <1>10, <1>13, <1>18, <1>19, <1>20 DEF ListingsInv

LEMMA CountFirstKeeps ==
    ASSUME ListingsInv, CountFirst
    PROVE  ListingsInv'
<1>1. ListingsTypeOK  BY DEF ListingsInv
<1>2. /\ walk.phase = "count" /\ walk.list.total = "first" /\ UNCHANGED <<table, clock, changed, steady, tied>>
      /\ walk' = [walk EXCEPT !.total = Cardinality(Listed), !.phase = "page"]
  BY DEF CountFirst
<1>3. walk \in Walk /\ Cardinality(Listed) \in Nat  BY <1>1, TableTypes DEF ListingsTypeOK
<1>4. /\ walk' \in Walk /\ walk'.list = walk.list /\ walk'.limit = walk.limit /\ walk'.phase = "page"
      /\ walk'.offset = walk.offset /\ walk'.total = Cardinality(Listed) /\ walk'.shown = walk.shown
  BY <1>2, <1>3 DEF Walk
<1>5. walk.list # LeadCursor
  <2>1. LeadCursor.total = "none"  BY Zenon DEF LeadCursor
  <2> QED  BY <1>2, <2>1
<1>6. PageFront' = PageFront  BY <1>2, <1>4 DEF PageFront
<1>7. /\ Listed' = Listed /\ PassedBy' = PassedBy
      /\ \A id : Times(id)' = Times(id) /\ Place(id)' = Place(id)
  BY <1>1, <1>2, <1>4, <1>6, CountsStay
<1>8. ListingsTypeOK'  BY <1>1, <1>2, <1>4, <1>7 DEF ListingsTypeOK
<1>9. Excess' = 0 /\ Excess = 0  BY <1>2, <1>3, <1>4, <1>7 DEF Excess
<1>10. Distinct(steady)' <=> Distinct(steady)  BY <1>2, <1>4, DistinctStays
<1>11. Paging /\ Paging' /\ LossIsPaid /\ Undisturbed  BY <1>2, <1>4, <1>5 DEF Paging, ListingsInv
<1>12. LossIsPaid'  BY <1>2, <1>6, <1>7, <1>9, <1>10, <1>11 DEF LossIsPaid
<1>13. Undisturbed'  BY <1>2, <1>4, <1>6, <1>7, <1>11 DEF Undisturbed
<1>14. WalkBegins' /\ CursorParts' /\ ListingsHold'
  BY <1>4, <1>5 DEF WalkBegins, CursorParts, ListingsHold, CursorShowsAllOnce, OffsetLosesByChangesOnly,
                    UndisturbedPagerIsComplete, Over
<1> QED  BY <1>8, <1>12, <1>13, <1>14 DEF ListingsInv

LEMMA CountAfterKeeps ==
    ASSUME ListingsInv, CountAfter
    PROVE  ListingsInv'
<1> DEFINE n == Cardinality(Listed)
           front == walk.offset + walk.limit
           phase == NextPhase(walk.offset, n)
<1>1. ListingsTypeOK  BY DEF ListingsInv
<1>2. /\ walk.phase = "count" /\ walk.list.total = "after" /\ UNCHANGED <<table, clock, changed, steady, tied>>
      /\ walk' = [walk EXCEPT !.total = n, !.offset = @ + walk.limit, !.phase = phase]
  BY DEF CountAfter
<1>3. walk \in Walk /\ n \in Nat  BY <1>1, TableTypes DEF ListingsTypeOK
<1>4. walk.limit \in Nat \ {0} /\ walk.offset \in Nat /\ front \in Nat  BY <1>3 DEF Walk
<1>5. phase = IF front < n THEN "page" ELSE "over"  BY <1>2 DEF NextPhase, More
<1> HIDE DEF phase
<1>6. /\ walk' \in Walk /\ walk'.list = walk.list /\ walk'.limit = walk.limit /\ walk'.phase = phase
      /\ walk'.offset = front /\ walk'.total = n /\ walk'.shown = walk.shown
  BY <1>2, <1>3, <1>4, <1>5 DEF Walk
<1>7. walk.list # LeadCursor
  <2>1. LeadCursor.total = "none"  BY Zenon DEF LeadCursor
  <2> QED  BY <1>2, <2>1
<1>8. PageFront' = front /\ PageFront = front  BY <1>2, <1>5, <1>6 DEF PageFront
<1>9. /\ Listed' = Listed /\ PassedBy' = PassedBy /\ Missed' = Missed
      /\ \A id : Times(id)' = Times(id) /\ Place(id)' = Place(id)
  BY <1>1, <1>2, <1>6, <1>8, CountsStay
<1>10. ListingsTypeOK'  BY <1>1, <1>2, <1>6, <1>9 DEF ListingsTypeOK
<1>11. Excess' = 0 /\ Excess = 0  BY <1>2, <1>6 DEF Excess
<1>12. Distinct(steady)' <=> Distinct(steady)  BY <1>2, <1>6, DistinctStays
<1>13. Paging /\ LossIsPaid /\ Undisturbed  BY <1>2, <1>7 DEF Paging, ListingsInv
<1>14. LossIsPaid'  BY <1>2, <1>8, <1>9, <1>11, <1>12, <1>13 DEF LossIsPaid
<1>15. Undisturbed'  BY <1>2, <1>6, <1>8, <1>9, <1>13 DEF Undisturbed
<1>16. WalkBegins' /\ CursorParts' /\ CursorShowsAllOnce'
  BY <1>5, <1>6, <1>7 DEF WalkBegins, CursorParts, CursorShowsAllOnce
<1>17. ASSUME Over' PROVE OffsetLosesByChangesOnly' /\ UndisturbedPagerIsComplete'
  <2>1. n <= front  BY <1>3, <1>4, <1>5, <1>6, <1>17 DEF Over
  <2>2. ASSUME NEW id \in Missed PROVE id \in PassedBy
    <3>1. id \in steady /\ Times(id) = 0 /\ steady \subseteq Listed  BY <1>1, TableTypes DEF Missed
    <3>2. Place(id) < n /\ Place(id) \in Nat  BY <1>1, <3>1, PlaceInList, PlaceIsNat
    <3>3. Place(id) < PageFront  BY <1>3, <1>4, <1>8, <2>1, <3>2
    <3> QED  BY <3>1, <3>3 DEF PassedBy
  <2>3. Missed \in SUBSET PassedBy  BY <2>2
  <2>4. Cardinality(Missed) <= Cardinality(PassedBy) /\ Cardinality(Missed) \in Nat /\ Cardinality(PassedBy) \in Nat
    BY <1>1, <2>3, PassedByIsFinite, FS_Subset
  <2>5. changed \in Nat  BY <1>1 DEF ListingsTypeOK
  <2>6. ~ tied => Cardinality(Missed) <= changed  BY <1>11, <1>13, <2>4, <2>5 DEF LossIsPaid
  <2>7. ASSUME NEW id \in steady, ~ tied PROVE Times(id) <= changed + 1
    <3>1. Times(id) + (IF Place(id) >= PageFront THEN 1 ELSE 0) <= changed + 1 /\ Times(id) \in Nat
      BY <1>1, <1>13, <2>7, TimesIsCount DEF LossIsPaid
    <3> QED  BY <2>5, <3>1
  <2>8. OffsetLosesByChangesOnly'  BY <1>2, <1>9, <2>6, <2>7 DEF OffsetLosesByChangesOnly
  <2>9. changed = 0 => Len(walk.shown) = n /\ steady = Listed
    BY <1>3, <1>4, <1>8, <1>13, <2>1 DEF Undisturbed
  <2>10. changed = 0 /\ ~ tied => Missed = {}  BY <1>1, <2>4, <2>6, PassedByIsFinite, FS_EmptySet
  <2>11. UndisturbedPagerIsComplete'  BY <1>2, <1>6, <1>9, <2>9, <2>10 DEF UndisturbedPagerIsComplete
  <2> QED  BY <2>8, <2>11
<1>18. ListingsHold'
  BY <1>16, <1>17 DEF ListingsHold, OffsetLosesByChangesOnly, UndisturbedPagerIsComplete
<1> QED  BY <1>10, <1>14, <1>15, <1>16, <1>18 DEF ListingsInv

LEMMA ListedIsKeyed ==
    ASSUME ListingsTypeOK, NEW list \in Lists, NEW ids, ids \subseteq Listed
    PROVE  Keyed(list, ids)
<1>1. IsFiniteSet(Listed) /\ Listed \subseteq DOMAIN table /\ DOMAIN table \subseteq Nat  BY TableTypes
<1>2. ids \in SUBSET Listed  OBVIOUS
<1>3. IsFiniteSet(ids)  BY <1>1, <1>2, FS_Subset, Zenon
<1>4. \A id \in ids : KeyOf(list, id) \in Nat  BY <1>1, KeyIsNat
<1> QED  BY <1>1, <1>3, <1>4 DEF Keyed

\* What a page shows, whatever the ties.
LEMMA PageTypes ==
    ASSUME ListingsTypeOK, NEW page \in Page(walk.list, walk.offset, walk.limit)
    PROVE  /\ page \in Seq(Rows) /\ Single(page) /\ Len(page) \in Nat
           /\ Len(page) = IF walk.offset < Cardinality(Listed)
                          THEN IF walk.offset + walk.limit < Cardinality(Listed) THEN walk.limit
                               ELSE Cardinality(Listed) - walk.offset
                          ELSE 0
           /\ \A id : Has(page, id) => id \in Listed
<1> DEFINE n == Cardinality(Listed)
           m == IF walk.offset + walk.limit < n THEN walk.offset + walk.limit ELSE n
<1>1. /\ walk.offset \in Nat /\ walk.limit \in Nat \ {0} /\ IsFiniteSet(Listed) /\ Listed \subseteq Rows
  BY TableTypes, WalkTypes DEF WalkFields
<1>2. PICK s \in Orders(walk.list, Listed) :
          page = SubSeq(s, walk.offset + 1,
                        IF walk.offset + walk.limit < Len(s) THEN walk.offset + walk.limit ELSE Len(s))
  BY DEF Page
<1>3. /\ n \in Nat /\ s \in Seq(Listed) /\ Len(s) = n /\ DOMAIN s = 1 .. n
      /\ \A p \in 1 .. Len(s) : s[p] \in Listed
  BY <1>1, OrderIsListing DEF InOrder
<1>0. Single(s)
  <2>1. InOrder(walk.list, Listed, s)  BY <1>1, OrderIsListing
  <2> QED  BY <1>3, <2>1 DEF InOrder, Single
<1> HIDE DEF n
<1>4. page = SubSeq(s, walk.offset + 1, m)  BY <1>2, <1>3
<1>5. m \in Nat /\ m <= Len(s)  BY <1>1, <1>3
<1>6. s \in Seq(Rows)  BY <1>1, <1>3
<1> HIDE DEF m
<1>7. /\ page \in Seq(Rows) /\ Len(page) = (IF walk.offset < m THEN m - walk.offset ELSE 0) /\ Single(page)
      /\ Covers(page, s, walk.offset, m)
  BY <1>0, <1>1, <1>4, <1>5, <1>6, PageOfOrder
<1>8. \A id : Has(page, id) => id \in Listed  BY <1>3, <1>7, Zenon DEF Covers
<1>9. Len(page) = IF walk.offset < n THEN IF walk.offset + walk.limit < n THEN walk.limit ELSE n - walk.offset ELSE 0
  BY <1>1, <1>3, <1>7 DEF m
<1>10. Len(page) \in Nat  BY <1>7, LenProperties
<1> QED  BY <1>7, <1>8, <1>9, <1>10 DEF n

\* Where keys tell the rows apart, a page shows the rows whose places it covers.
LEMMA PageShowsPlaces ==
    ASSUME ListingsTypeOK, Told(walk.list, Listed), NEW page \in Page(walk.list, walk.offset, walk.limit),
           NEW id \in Listed
    PROVE  Has(page, id) <=> walk.offset <= Place(id) /\ Place(id) < walk.offset + walk.limit
<1> DEFINE n == Cardinality(Listed)
           m == IF walk.offset + walk.limit < n THEN walk.offset + walk.limit ELSE n
<1>1. /\ walk.offset \in Nat /\ walk.limit \in Nat \ {0} /\ IsFiniteSet(Listed) /\ walk.list \in Lists
  BY TableTypes, WalkTypes DEF WalkFields
<1>2. PICK s \in Orders(walk.list, Listed) :
          page = SubSeq(s, walk.offset + 1,
                        IF walk.offset + walk.limit < Len(s) THEN walk.offset + walk.limit ELSE Len(s))
  BY DEF Page
<1>3. /\ n \in Nat /\ s \in Seq(Listed) /\ Len(s) = n /\ DOMAIN s = 1 .. n
      /\ \A x \in Listed : \E p \in 1 .. n : s[p] = x
  BY <1>1, OrderIsListing DEF InOrder
<1>4. PICK p \in 1 .. n : s[p] = id  BY <1>3
<1>5. Keyed(walk.list, Listed)  BY <1>1, ListedIsKeyed
<1>6. Cardinality({j \in Listed : Precedes(walk.list, j, s[p])}) = p - 1  BY <1>5, PlaceInOrder
<1>7. Place(id) = p - 1  BY <1>4, <1>6 DEF Place, Ahead
<1>0. Single(s)
  <2>1. InOrder(walk.list, Listed, s)  BY <1>1, OrderIsListing
  <2> QED  BY <1>3, <2>1 DEF InOrder, Single
<1> HIDE DEF n
<1>8. page = SubSeq(s, walk.offset + 1, m)  BY <1>2, <1>3
<1>9. m \in Nat /\ m <= Len(s)  BY <1>1, <1>3
<1> HIDE DEF m
<1>10. Covers(page, s, walk.offset, m)  BY <1>0, <1>1, <1>3, <1>8, <1>9, PageOfOrder
<1>11. Has(page, id) <=> walk.offset < p /\ p <= m  BY <1>3, <1>4, <1>10 DEF Covers
<1>12. p <= m <=> p <= walk.offset + walk.limit  BY <1>1, <1>3, <1>4 DEF m
<1> QED  BY <1>1, <1>3, <1>4, <1>7, <1>11, <1>12

\* Behind a place there are only so many rows.
LEMMA FewBehind ==
    ASSUME ListingsTypeOK, Told(walk.list, Listed), NEW s \in Orders(walk.list, Listed), NEW k \in Nat
    PROVE  /\ IsFiniteSet({id \in steady : Place(id) >= k}) /\ Cardinality({id \in steady : Place(id) >= k}) \in Nat
           /\ Cardinality({id \in steady : Place(id) >= k})
                <= IF k < Cardinality(Listed) THEN Cardinality(Listed) - k ELSE 0
<1> DEFINE n == Cardinality(Listed)
           T == {id \in Listed : Place(id) >= k}
           U == {id \in steady : Place(id) >= k}
           f == [p \in k + 1 .. n |-> s[p]]
<1>1. /\ IsFiniteSet(Listed) /\ walk.list \in Lists /\ steady \subseteq Listed
  BY TableTypes, WalkTypes DEF WalkFields
<1>2. /\ n \in Nat /\ s \in [1 .. n -> Listed] /\ \A x \in Listed : \E p \in 1 .. n : s[p] = x
  BY <1>1, OrderIsListing DEF InOrder
<1>3. ASSUME NEW p \in 1 .. n PROVE Place(s[p]) = p - 1
  <2>1. Keyed(walk.list, Listed)  BY <1>1, ListedIsKeyed
  <2>2. Cardinality({j \in Listed : Precedes(walk.list, j, s[p])}) = p - 1  BY <2>1, PlaceInOrder
  <2> QED  BY <2>2 DEF Place, Ahead
<1> HIDE DEF n
<1>4. ASSUME NEW p \in k + 1 .. n PROVE f[p] \in T
  <2>1. p \in 1 .. n /\ p - 1 >= k  BY <1>2
  <2> QED  BY <1>2, <1>3, <2>1
<1>5. ASSUME NEW x \in T PROVE \E p \in k + 1 .. n : f[p] = x
  <2>1. PICK p \in 1 .. n : s[p] = x  BY <1>2
  <2>2. p - 1 >= k  BY <1>3, <2>1
  <2> QED  BY <1>2, <2>1, <2>2
<1>6. f \in [k + 1 .. n -> T]  BY <1>4
<1>7. T \in SUBSET Listed /\ U \in SUBSET T  BY <1>1
<1> HIDE DEF T, U, f
<1>8. f \in Surjection(k + 1 .. n, T)  BY <1>5, <1>6 DEF Surjection
<1>9. IsFiniteSet(k + 1 .. n) /\ Cardinality(k + 1 .. n) = IF k + 1 > n THEN 0 ELSE n - (k + 1) + 1
  BY <1>2, FS_Interval
<1>10. IsFiniteSet(T) /\ Cardinality(T) <= Cardinality(k + 1 .. n)  BY <1>8, <1>9, FS_Surjection, Zenon
<1>11. IsFiniteSet(U) /\ Cardinality(U) <= Cardinality(T)  BY <1>7, <1>10, FS_Subset, Zenon
<1>12. Cardinality(U) \in Nat /\ Cardinality(T) \in Nat  BY <1>10, <1>11, FS_CardinalityType
<1>13. Cardinality(U) <= IF k < n THEN n - k ELSE 0  BY <1>2, <1>9, <1>10, <1>11, <1>12
<1> QED  BY <1>11, <1>12, <1>13 DEF n, U

LEMMA SumOfCards ==
    ASSUME NEW S, NEW A, NEW B, IsFiniteSet(A), IsFiniteSet(B), S \subseteq A \cup B
    PROVE  Cardinality(S) <= Cardinality(A) + Cardinality(B) /\ Cardinality(S) \in Nat
<1>1. IsFiniteSet(A \cup B) /\ IsFiniteSet(A \cap B)
      /\ Cardinality(A \cup B) = Cardinality(A) + Cardinality(B) - Cardinality(A \cap B)
  BY FS_Union, FS_Intersection
<1>2. S \in SUBSET (A \cup B)  OBVIOUS
<1>3. IsFiniteSet(S) /\ Cardinality(S) <= Cardinality(A \cup B)  BY <1>1, <1>2, FS_Subset, Zenon
<1>4. {Cardinality(S), Cardinality(A), Cardinality(B), Cardinality(A \cup B), Cardinality(A \cap B)} \subseteq Nat
  BY <1>1, <1>3, FS_CardinalityType
<1> QED  BY <1>1, <1>3, <1>4

\* A page that no tie disturbs shows each row whose place it covers once more.
LEMMA CountsAfterPage ==
    ASSUME ListingsTypeOK, Told(walk.list, Listed), NEW page \in Page(walk.list, walk.offset, walk.limit),
           UNCHANGED <<table, steady>>, walk'.list = walk.list, walk'.shown = walk.shown \o page,
           walk.phase = "page", PageFront' = walk.offset + walk.limit,
           NEW id \in steady
    PROVE  /\ Listed' = Listed /\ Place(id)' = Place(id) /\ Place(id) \in Nat /\ Times(id) \in Nat
           /\ PageFront = walk.offset
           /\ Times(id)' = Times(id) + (IF PageFront <= Place(id) /\ Place(id) < PageFront' THEN 1 ELSE 0)
<1>1. Listed' = Listed /\ Place(id)' = Place(id) /\ Place(id) \in Nat  BY PlaceStays, PlaceIsNat
<1>2. PageFront = walk.offset  BY DEF PageFront
<1>3. Times(id) \in Nat /\ Times(id) = CountIn(walk.shown, id) /\ Times(id)' = CountIn(walk.shown \o page, id)
  BY TimesIsCount DEF Times, CountIn
<1>4. walk.shown \in Seq(Rows) /\ page \in Seq(Rows) /\ Single(page)
  BY WalkTypes, PageTypes DEF WalkFields
<1>5. CountIn(walk.shown \o page, id) = CountIn(walk.shown, id) + (IF Has(page, id) THEN 1 ELSE 0)
  BY <1>4, PageIsCounted
<1>6. id \in Listed  BY TableTypes
<1>7. Has(page, id) <=> walk.offset <= Place(id) /\ Place(id) < walk.offset + walk.limit
  BY <1>6, PageShowsPlaces
<1>8. Has(page, id) <=> PageFront <= Place(id) /\ Place(id) < PageFront'  BY <1>2, <1>7
<1> QED  BY <1>1, <1>2, <1>3, <1>5, <1>8

LEMMA ReadPageKeeps ==
    ASSUME ListingsInv, ReadPage
    PROVE  ListingsInv'
<1> DEFINE n == Cardinality(Listed)
           front == walk.offset + walk.limit
           phase == IF walk.list.total = "first" THEN NextPhase(walk.offset, walk.total) ELSE "count"
           offset == IF walk.list.total = "first" THEN front ELSE walk.offset
<1>1. ListingsTypeOK  BY DEF ListingsInv
<1>2. /\ walk.phase = "page" /\ walk.list # LeadCursor /\ UNCHANGED <<table, clock, changed, steady>>
      /\ tied' = (tied \/ (~walk.list.tie /\ SeesTie))
  BY DEF ReadPage
<1>3. PICK page \in Page(walk.list, walk.offset, walk.limit) :
          walk' = IF walk.list.total = "first"
                  THEN [walk EXCEPT !.shown = @ \o page, !.offset = @ + walk.limit,
                                    !.phase = NextPhase(walk.offset, walk.total)]
                  ELSE [walk EXCEPT !.shown = @ \o page, !.phase = "count"]
  BY Zenon DEF ReadPage
<1>4. walk \in Walk /\ n \in Nat /\ page \in Seq(Rows) /\ Len(page) \in Nat
  BY <1>1, TableTypes, PageTypes DEF ListingsTypeOK
<1>5. /\ walk.limit \in Nat \ {0} /\ walk.offset \in Nat /\ front \in Nat /\ walk.total \in Nat
      /\ walk.list \in Lists /\ walk.list.total \in {"first", "after"} /\ walk.shown \in Seq(Rows)
  BY <1>1, <1>2, WalkTypes, ListFields DEF WalkFields
<1>6. walk.list.total = "first" => phase = IF front < walk.total THEN "count" ELSE "over"
  BY DEF NextPhase, More
<1>7. phase \in {"count", "over"} /\ (walk.list.total = "after" => phase = "count")  BY <1>5, <1>6
<1>8. walk' = [walk EXCEPT !.shown = walk.shown \o page, !.offset = offset, !.phase = phase]
  <2>1. CASE walk.list.total = "first"  BY <1>3, <1>4, <2>1 DEF Walk
  <2>2. CASE walk.list.total # "first"  BY <1>3, <1>4, <2>2 DEF Walk
  <2> QED  BY <2>1, <2>2
<1>9. walk.shown \o page \in Seq(Rows) /\ Len(walk.shown \o page) = Len(walk.shown) + Len(page)
  BY <1>4, <1>5, ConcatProperties
<1> HIDE DEF phase
<1>10. /\ walk' \in Walk /\ walk'.list = walk.list /\ walk'.limit = walk.limit /\ walk'.phase = phase
       /\ walk'.offset = offset /\ walk'.total = walk.total /\ walk'.shown = walk.shown \o page
  BY <1>4, <1>5, <1>7, <1>8, <1>9 DEF Walk
<1>11. PageFront' = front /\ PageFront = walk.offset  BY <1>2, <1>5, <1>7, <1>10 DEF PageFront
<1>12. Listed' = Listed  BY <1>2 DEF Listed
<1>13. ListingsTypeOK'
  <2>1. tied' \in BOOLEAN  BY <1>2, Zenon
  <2>2. /\ table' \in [DOMAIN table' -> TableRow] /\ DOMAIN table' \subseteq Rows
        /\ clock' \in Nat \ {0} /\ changed' \in Nat /\ steady' \subseteq Listed'
    BY <1>1, <1>2, <1>12 DEF ListingsTypeOK
  <2> QED  BY <1>10, <2>1, <2>2, Zenon DEF ListingsTypeOK
<1>14. Paging /\ LossIsPaid /\ Undisturbed  BY <1>2 DEF Paging, ListingsInv
<1>15. ASSUME ~ tied' PROVE ~ tied /\ Told(walk.list, Listed)
  <2>1. ~ tied /\ (walk.list.tie \/ ~ SeesTie)  BY <1>2, <1>15, Zenon
  <2>2. ASSUME NEW i \in Listed, NEW j \in Listed PROVE i = j \/ Precedes(walk.list, i, j) \/ Precedes(walk.list, j, i)
    <3>1. i \in DOMAIN table /\ j \in DOMAIN table /\ i \in Nat /\ j \in Nat  BY <1>1, TableTypes
    <3>2. KeyOf(walk.list, i) \in Nat /\ KeyOf(walk.list, j) \in Nat  BY <1>1, <1>5, <3>1, KeyIsNat
    <3>3. i = j \/ walk.list.tie \/ KeyOf(walk.list, i) # KeyOf(walk.list, j)
      BY <2>1, Zenon DEF SeesTie
    <3> QED  BY <3>1, <3>2, <3>3, PrecedesIsStrict
  <2> QED  BY <2>1, <2>2, Zenon DEF Told
<1>16. ASSUME ~ tied', NEW id \in steady
       PROVE  /\ Place(id)' = Place(id) /\ Place(id) \in Nat /\ Times(id) \in Nat
              /\ Times(id)' = Times(id) + (IF walk.offset <= Place(id) /\ Place(id) < front THEN 1 ELSE 0)
              /\ Times(id) + (IF Place(id) >= walk.offset THEN 1 ELSE 0) <= changed + 1
  <2>1. Told(walk.list, Listed) /\ ~ tied  BY <1>15, <1>16
  <2>2. /\ Place(id)' = Place(id) /\ Place(id) \in Nat /\ Times(id) \in Nat
        /\ Times(id)' = Times(id) + (IF PageFront <= Place(id) /\ Place(id) < PageFront' THEN 1 ELSE 0)
    BY <1>1, <1>2, <1>10, <1>11, <2>1, CountsAfterPage
  <2>3. Times(id) + (IF Place(id) >= PageFront THEN 1 ELSE 0) <= changed + 1
    BY <1>14, <2>1 DEF LossIsPaid
  <2> QED  BY <1>11, <2>2, <2>3
<1>17. ASSUME ~ tied' PROVE PassedBy' = PassedBy
  <2>1. ASSUME NEW id \in steady PROVE Times(id)' = 0 /\ Place(id)' < PageFront' <=> Times(id) = 0 /\ Place(id) < PageFront
    BY <1>5, <1>11, <1>16, <1>17
  <2> QED  BY <1>2, <2>1 DEF PassedBy
<1>18. changed \in Nat /\ Cardinality(PassedBy) \in Nat /\ Excess \in Nat
  BY <1>1, <1>4, <1>5, PassedByIsFinite DEF ListingsTypeOK, Excess
<1>19. ~ tied' => Cardinality(PassedBy) + Excess <= changed  BY <1>14, <1>15 DEF LossIsPaid
<1>20. Excess' = 0  BY <1>7, <1>10 DEF Excess
<1>21. LossIsPaid'
  <2> SUFFICES ASSUME ~ tied', Paging' PROVE LossIsPaid'  BY DEF LossIsPaid
  <2>1. Distinct(steady)  BY <1>1, <1>15, TableTypes, Zenon DEF Told, Distinct
  <2>2. Distinct(steady)'  BY <1>2, <1>10, <2>1, DistinctStays
  <2>3. Cardinality(PassedBy)' + Excess' <= changed'
    <3>1. Cardinality(PassedBy)' = Cardinality(PassedBy)  BY <1>17
    <3> QED  BY <1>2, <1>18, <1>19, <1>20, <3>1
  <2>4. ASSUME NEW id \in steady' PROVE Times(id)' + (IF Place(id)' >= PageFront' THEN 1 ELSE 0) <= changed' + 1
    <3>1. id \in steady /\ changed' = changed  BY <1>2
    <3>2. /\ Place(id)' = Place(id) /\ Place(id) \in Nat /\ Times(id) \in Nat
          /\ Times(id)' = Times(id) + (IF walk.offset <= Place(id) /\ Place(id) < front THEN 1 ELSE 0)
          /\ Times(id) + (IF Place(id) >= walk.offset THEN 1 ELSE 0) <= changed + 1
      BY <1>16, <3>1
    <3> QED  BY <1>5, <1>11, <1>18, <3>1, <3>2
  <2> QED  BY <2>2, <2>3, <2>4 DEF LossIsPaid
<1>22. changed = 0 => /\ steady = Listed
                      /\ Len(walk'.shown) = IF front < n THEN front ELSE n
                      /\ walk.list.total = "first" => walk.total = n
  <2> SUFFICES ASSUME changed = 0 PROVE /\ steady = Listed
                                        /\ Len(walk'.shown) = IF front < n THEN front ELSE n
                                        /\ walk.list.total = "first" => walk.total = n
    OBVIOUS
  <2>1. /\ steady = Listed /\ Len(walk.shown) = IF walk.offset < n THEN walk.offset ELSE n
        /\ walk.list.total = "first" => walk.total = n
    BY <1>2, <1>11, <1>14 DEF Undisturbed
  <2>2. Len(page) = IF walk.offset < n THEN IF front < n THEN walk.limit ELSE n - walk.offset ELSE 0
    BY <1>1, PageTypes
  <2>3. Len(walk'.shown) = Len(walk.shown) + Len(page)  BY <1>9, <1>10
  <2>4. Len(walk'.shown) = IF front < n THEN front ELSE n  BY <1>4, <1>5, <2>1, <2>2, <2>3
  <2> QED  BY <2>1, <2>4
<1>23. Undisturbed'  BY <1>2, <1>7, <1>10, <1>11, <1>12, <1>22 DEF Undisturbed
<1>24. WalkBegins' /\ CursorParts' /\ CursorShowsAllOnce'
  BY <1>2, <1>7, <1>10 DEF WalkBegins, CursorParts, CursorShowsAllOnce
<1>25. ASSUME Over' PROVE OffsetLosesByChangesOnly' /\ UndisturbedPagerIsComplete'
  <2>1. walk.list.total = "first" /\ walk.total <= front  BY <1>5, <1>6, <1>7, <1>10, <1>25 DEF Over
  <2>2. ASSUME ~ tied' PROVE Cardinality(Missed)' <= changed /\ Cardinality(Missed)' \in Nat
    <3> DEFINE late == {id \in steady : Place(id) >= front}
    <3>1. Told(walk.list, Listed)  BY <1>15, <2>2
    <3>2. PICK s : s \in Orders(walk.list, Listed)  BY DEF Page
    <3>3. IsFiniteSet(late) /\ Cardinality(late) \in Nat /\ Cardinality(late) <= IF front < n THEN n - front ELSE 0
      BY <1>1, <1>5, <3>1, <3>2, FewBehind
    <3>4. Cardinality(late) <= Excess  BY <1>2, <1>4, <1>5, <2>1, <3>3 DEF Excess
    <3>5. ASSUME NEW id \in Missed' PROVE id \in PassedBy \cup late
      <4>1. id \in steady /\ Times(id)' = 0  BY <1>2, <3>5 DEF Missed
      <4>2. Place(id) < front => Times(id) = 0 /\ Place(id) < PageFront
        BY <1>5, <1>11, <1>16, <2>2, <4>1
      <4>3. Place(id) \in Nat  BY <1>1, PlaceIsNat
      <4> QED  BY <1>5, <4>1, <4>2, <4>3 DEF PassedBy
    <3> HIDE DEF late
    <3>6. Missed' \subseteq PassedBy \cup late  BY <3>5
    <3>7. Cardinality(Missed') <= Cardinality(PassedBy) + Cardinality(late) /\ Cardinality(Missed') \in Nat
      BY <1>1, <3>3, <3>6, PassedByIsFinite, SumOfCards
    <3> QED  BY <1>18, <1>19, <2>2, <3>3, <3>4, <3>7
  <2>3. ASSUME ~ tied', NEW id \in steady PROVE Times(id)' <= changed + 1
    <3>1. /\ Place(id) \in Nat /\ Times(id) \in Nat
          /\ Times(id)' = Times(id) + (IF walk.offset <= Place(id) /\ Place(id) < front THEN 1 ELSE 0)
          /\ Times(id) + (IF Place(id) >= walk.offset THEN 1 ELSE 0) <= changed + 1
      BY <1>16, <2>3
    <3> QED  BY <1>5, <1>18, <3>1
  <2>4. OffsetLosesByChangesOnly'  BY <1>2, <2>2, <2>3 DEF OffsetLosesByChangesOnly
  <2>5. changed = 0 => Len(walk'.shown) = n /\ steady = Listed /\ walk.total = n
    BY <1>4, <1>5, <1>22, <2>1
  <2>6. changed = 0 /\ ~ tied' => Missed' = {}
    <3> SUFFICES ASSUME changed = 0, ~ tied' PROVE Missed' = {}  OBVIOUS
    <3>1. Cardinality(Missed') = 0  BY <2>2
    <3>2. IsFiniteSet(Missed')
      <4>1. Missed' \in SUBSET steady /\ IsFiniteSet(steady)  BY <1>1, <1>2, TableTypes DEF Missed
      <4> QED  BY <4>1, FS_Subset, Zenon
    <3> QED  BY <3>1, <3>2, FS_EmptySet
  <2>7. UndisturbedPagerIsComplete'  BY <1>2, <1>10, <2>5, <2>6 DEF UndisturbedPagerIsComplete
  <2> QED  BY <2>4, <2>7
<1>26. ListingsHold'
  BY <1>24, <1>25 DEF ListingsHold, OffsetLosesByChangesOnly, UndisturbedPagerIsComplete
<1> QED  BY <1>13, <1>21, <1>23, <1>24, <1>26 DEF ListingsInv

LEMMA CursorIsTold ==
    ASSUME ListingsTypeOK, NEW ids, ids \subseteq Listed
    PROVE  Keyed(LeadCursor, ids) /\ Told(LeadCursor, ids) /\ IsFiniteSet(ids)
<1>1. LeadCursor \in Lists /\ LeadCursor.tie  BY Zenon DEF Lists, LeadCursor
<1>2. Keyed(LeadCursor, ids)  BY <1>1, ListedIsKeyed
<1>3. ASSUME NEW i \in ids, NEW j \in ids PROVE i = j \/ Precedes(LeadCursor, i, j) \/ Precedes(LeadCursor, j, i)
  BY <1>1, <1>2, PrecedesIsStrict DEF Keyed
<1> QED  BY <1>2, <1>3, Zenon DEF Told, Keyed

\* The cursor compares as the list is sorted.
LEMMA BehindIsPreceded ==
    ASSUME ListingsTypeOK, NEW r \in Listed, NEW id \in Listed, NEW cur, cur = [created |-> table[r].created, id |-> r]
    PROVE  id \in Behind(cur) <=> Precedes(LeadCursor, r, id)
<1>1. /\ r \in Nat /\ id \in Nat /\ table[r].created \in Nat /\ table[id].created \in Nat
  BY TableTypes, RowFields
<1>2. LeadCursor.by = "created" /\ LeadCursor.order = "newest" /\ LeadCursor.tie
  BY Zenon DEF LeadCursor
<1>3. KeyOf(LeadCursor, r) = table[r].created /\ KeyOf(LeadCursor, id) = table[id].created
  BY <1>2, Zenon DEF KeyOf
<1>4. Precedes(LeadCursor, r, id) <=> \/ table[r].created > table[id].created
                                      \/ table[r].created = table[id].created /\ r > id
  BY <1>2, <1>3 DEF Precedes
<1>5. id \in Behind(cur) <=> \/ table[id].created < table[r].created
                             \/ table[id].created = table[r].created /\ id < r
  BY DEF Behind
<1> QED  BY <1>1, <1>4, <1>5

\* The order of the pairs a cursor is compared by.
Lower(a, i, b, j) ==
    \/ a < b
    \/ a = b /\ i < j

LEMMA PairsAreOrdered ==
    ASSUME NEW a \in Nat, NEW i \in Nat, NEW b \in Nat, NEW j \in Nat, NEW c \in Nat, NEW k \in Nat,
           Lower(a, i, b, j), Lower(b, j, c, k)
    PROVE  Lower(a, i, c, k)
BY DEF Lower

\* What is behind the cursor of a row is what follows the row.
LEMMA CursorMoves ==
    ASSUME ListingsTypeOK, NEW after \in Cursor, NEW rest, rest = AfterCursor(after),
           NEW s \in Orders(LeadCursor, rest), NEW k \in 1 .. Cardinality(rest),
           NEW cur, cur = [created |-> table[s[k]].created, id |-> s[k]]
    PROVE  /\ cur \in Cursor /\ AfterCursor(cur) \subseteq rest
           /\ \A p \in 1 .. Cardinality(rest) : s[p] \in AfterCursor(cur) <=> k < p
           /\ Cardinality(AfterCursor(cur)) = Cardinality(rest) - k
<1> DEFINE n == Cardinality(rest)
           T == AfterCursor(cur)
<1>1. rest \subseteq Listed  BY DEF AfterCursor, Behind
<1>2. Keyed(LeadCursor, rest) /\ Told(LeadCursor, rest) /\ IsFiniteSet(rest)  BY <1>1, CursorIsTold
<1>3. InOrder(LeadCursor, rest, s)  BY <1>2, OrderIsListing
<1>4. /\ n \in Nat /\ s \in [1 .. n -> rest] /\ \A x \in rest : \E p \in 1 .. n : s[p] = x
      /\ \A p, q \in 1 .. n : s[p] = s[q] => p = q
  BY <1>3 DEF InOrder
<1>5. k \in 1 .. n  OBVIOUS
<1>6. ASSUME NEW p \in 1 .. n PROVE Precedes(LeadCursor, s[k], s[p]) <=> k < p
  BY <1>2, OrderIsSorted DEF n
<1> HIDE DEF n
<1>7. s[k] \in rest /\ s[k] \in Listed  BY <1>1, <1>4, <1>5
<1>8. s[k] \in Rows \ {0} /\ table[s[k]].created \in Nat  BY <1>7, TableTypes, RowFields
<1>9. cur \in Cursor /\ cur.created = table[s[k]].created /\ cur.id = s[k]  BY <1>8 DEF Cursor
<1>10. cur # NoCursor  BY <1>8, <1>9 DEF NoCursor
<1>11. T = Behind(cur)  BY <1>10 DEF AfterCursor
<1>12. ASSUME NEW id \in T PROVE id \in rest
  <2>1. id \in Listed  BY <1>11 DEF Behind
  <2>2. CASE after = NoCursor  BY <2>1, <2>2 DEF AfterCursor
  <2>3. CASE after # NoCursor
    <3>1. rest = Behind(after)  BY <2>3 DEF AfterCursor
    <3>2. Lower(table[s[k]].created, s[k], after.created, after.id)  BY <1>7, <3>1 DEF Behind, Lower
    <3>3. Lower(table[id].created, id, table[s[k]].created, s[k])  BY <1>9, <1>11 DEF Behind, Lower
    <3>4. /\ id \in Nat /\ table[id].created \in Nat /\ table[s[k]].created \in Nat /\ s[k] \in Nat
          /\ after.created \in Nat /\ after.id \in Nat
      BY <1>7, <2>1, TableTypes, RowFields DEF Cursor
    <3>5. Lower(table[id].created, id, after.created, after.id)
      BY <3>2, <3>3, <3>4, PairsAreOrdered, ZenonT(60)
    <3> QED  BY <2>1, <3>1, <3>5 DEF Behind, Lower
  <2> QED  BY <2>2, <2>3
<1>13. ASSUME NEW p \in 1 .. n PROVE s[p] \in T <=> k < p
  <2>1. s[p] \in Listed  BY <1>1, <1>4
  <2>2. s[p] \in Behind(cur) <=> Precedes(LeadCursor, s[k], s[p])  BY <1>7, <2>1, BehindIsPreceded
  <2> QED  BY <1>6, <1>11, <2>2
<1> DEFINE f == [p \in k + 1 .. n |-> s[p]]
<1> HIDE DEF T
<1>14. f \in [k + 1 .. n -> T]
  <2>1. ASSUME NEW p \in k + 1 .. n PROVE s[p] \in T
    <3>1. p \in 1 .. n /\ k < p  BY <1>4, <1>5
    <3> QED  BY <1>13, <3>1
  <2> QED  BY <2>1
<1>15. ASSUME NEW x \in T PROVE \E p \in k + 1 .. n : f[p] = x
  <2>1. PICK p \in 1 .. n : s[p] = x  BY <1>4, <1>12
  <2>2. k < p  BY <1>13, <2>1
  <2>3. p \in k + 1 .. n  BY <1>4, <1>5, <2>2
  <2> QED  BY <2>1, <2>3
<1>16. ASSUME NEW a \in k + 1 .. n, NEW b \in k + 1 .. n, f[a] = f[b] PROVE a = b
  <2>1. a \in 1 .. n /\ b \in 1 .. n  BY <1>4, <1>5
  <2>2. s[a] = s[b]  BY <1>16
  <2> QED  BY <1>4, <2>1, <2>2
<1>17. DOMAIN f = k + 1 .. n  OBVIOUS
<1> HIDE DEF f
<1>18. f \in Bijection(k + 1 .. n, T)
  BY <1>14, <1>15, <1>16, <1>17 DEF Bijection, Injection, Surjection, IsInjective
<1>19. IsFiniteSet(k + 1 .. n) /\ Cardinality(k + 1 .. n) = IF k + 1 > n THEN 0 ELSE n - (k + 1) + 1
  <2>1. k + 1 \in Int /\ n \in Int  BY <1>4, <1>5
  <2> QED  BY <2>1, FS_Interval, Zenon
<1>20. Cardinality(T) = Cardinality(k + 1 .. n)
  BY <1>18, <1>19, FS_Bijection, Zenon DEF ExistsBijection
<1>21. Cardinality(T) = n - k  BY <1>4, <1>5, <1>19, <1>20
<1> QED  BY <1>9, <1>12, <1>13, <1>21 DEF T, n

LEMMA ReadCursorPageKeeps ==
    ASSUME ListingsInv, ReadCursorPage
    PROVE  ListingsInv'
<1> DEFINE rest == AfterCursor(walk.after)
           c == Cardinality(rest)
           n == IF c > walk.limit THEN walk.limit ELSE c
           phase == IF c > n THEN "page" ELSE "over"
<1>1. ListingsTypeOK  BY DEF ListingsInv
<1>2. walk.phase = "page" /\ walk.list = LeadCursor /\ UNCHANGED <<table, clock, changed, steady, tied>>
  BY DEF ReadCursorPage
<1>3. PICK s \in Orders(LeadCursor, rest) :
          walk' = [walk EXCEPT !.shown = @ \o SubSeq(s, 1, n), !.phase = phase,
                               !.after = IF c > n THEN [created |-> table[s[n]].created, id |-> s[n]] ELSE @]
  BY Zenon DEF ReadCursorPage
<1>4. walk \in Walk /\ walk.limit \in Nat \ {0} /\ walk.after \in Cursor /\ walk.shown \in Seq(Rows)
      /\ Cardinality(Listed) \in Nat /\ Listed \subseteq Rows /\ steady \subseteq Listed /\ Len(walk.shown) \in Nat
  BY <1>1, TableTypes, WalkTypes DEF ListingsTypeOK, WalkFields
<1>5. rest \subseteq Listed  BY DEF AfterCursor, Behind
<1>6. IsFiniteSet(rest)  BY <1>1, <1>5, CursorIsTold
<1>7. InOrder(LeadCursor, rest, s)  BY <1>6, OrderIsListing
<1>8. /\ c \in Nat /\ s \in Seq(rest) /\ Len(s) = c /\ s \in [1 .. c -> rest]
      /\ \A x \in rest : \E p \in 1 .. c : s[p] = x
  BY <1>7 DEF InOrder
<1>9. Single(s)  BY <1>7 DEF InOrder, Single
<1> HIDE DEF c
<1>10. n \in Nat /\ n <= c /\ (c > n => n \in 1 .. c /\ n = walk.limit) /\ (c <= n => n = c)
  BY <1>4, <1>8
<1> HIDE DEF n
<1> DEFINE page == SubSeq(s, 1, n)
           after == IF c > n THEN [created |-> table[s[n]].created, id |-> s[n]] ELSE walk.after
<1>11. /\ page \in Seq(Rows) /\ Single(page) /\ Covers(page, s, 0, n) /\ Len(page) = n
  <2>1. PICK f \in Nat : f = 0  OBVIOUS
  <2>2. s \in Seq(Rows) /\ f + 1 = 1 /\ n <= Len(s)  BY <1>4, <1>5, <1>8, <1>10, <2>1
  <2>5. page = SubSeq(s, f + 1, n)  BY <2>2
  <2> HIDE DEF page
  <2>3. /\ page \in Seq(Rows) /\ Single(page) /\ Covers(page, s, f, n)
        /\ Len(page) = IF f < n THEN n - f ELSE 0
    BY <1>9, <1>10, <2>2, <2>5, PageOfOrder, Zenon
  <2>4. (IF f < n THEN n - f ELSE 0) = n  BY <1>10, <2>1
  <2> QED  BY <2>1, <2>3, <2>4
<1>12. walk' = [walk EXCEPT !.shown = walk.shown \o page, !.phase = phase, !.after = after]
  BY <1>3, <1>4 DEF Walk
<1>13. c > n => /\ after \in Cursor /\ AfterCursor(after) \subseteq rest
                /\ \A p \in 1 .. c : s[p] \in AfterCursor(after) <=> n < p
                /\ Cardinality(AfterCursor(after)) = c - n
  <2> SUFFICES ASSUME c > n
               PROVE  /\ after \in Cursor /\ AfterCursor(after) \subseteq rest
                      /\ \A p \in 1 .. c : s[p] \in AfterCursor(after) <=> n < p
                      /\ Cardinality(AfterCursor(after)) = c - n
    OBVIOUS
  <2>1. n \in 1 .. c /\ after = [created |-> table[s[n]].created, id |-> s[n]]  BY <1>10
  <2> HIDE DEF after
  <2> QED  BY <1>1, <1>4, <2>1, CursorMoves DEF c
<1>14. after \in Cursor  BY <1>4, <1>13
<1> HIDE DEF page, after
<1>15. walk.shown \o page \in Seq(Rows) /\ Len(walk.shown \o page) = Len(walk.shown) + n
  BY <1>4, <1>11, ConcatProperties
<1>16. phase = (IF c > n THEN "page" ELSE "over") /\ phase \in {"page", "over"}  OBVIOUS
<1> HIDE DEF phase
<1>17. /\ walk' \in Walk /\ walk'.list = LeadCursor /\ walk'.phase = phase /\ walk'.after = after
       /\ walk'.shown = walk.shown \o page
  BY <1>2, <1>4, <1>12, <1>14, <1>15, <1>16 DEF Walk
<1>18. Listed' = Listed /\ AfterCursor(walk.after)' = AfterCursor(after)
  <2>1. Listed' = Listed  BY <1>2 DEF Listed
  <2> QED  BY <1>2, <1>17, <2>1 DEF AfterCursor, Behind
<1>19. ListingsTypeOK'  BY <1>1, <1>2, <1>17, <1>18 DEF ListingsTypeOK
<1>20. WalkBegins' /\ LossIsPaid' /\ Undisturbed'
  BY <1>16, <1>17 DEF WalkBegins, LossIsPaid, Undisturbed, Paging
<1>21. ASSUME NEW id \in steady
       PROVE  Times(id)' = IF c > n /\ id \in AfterCursor(after) THEN 0 ELSE 1
  <2>1. Times(id)' = CountIn(walk.shown \o page, id)  BY <1>17 DEF Times, CountIn
  <2>2. CountIn(walk.shown \o page, id) = Times(id) + (IF Has(page, id) THEN 1 ELSE 0)
    BY <1>1, <1>4, <1>11, PageIsCounted, TimesIsCount
  <2>3. Times(id) = IF id \in rest THEN 0 ELSE 1  BY <1>2 DEF ListingsInv, CursorParts
  <2>4. CASE id \in rest
    <3>1. PICK p \in 1 .. c : s[p] = id  BY <1>8, <2>4
    <3>2. Has(page, id) <=> 0 < p /\ p <= n  BY <1>8, <1>11, <3>1 DEF Covers
    <3>3. c > n => (id \in AfterCursor(after) <=> n < p)  BY <1>13, <3>1
    <3>4. Times(id)' = 0 + (IF Has(page, id) THEN 1 ELSE 0)  BY <2>1, <2>2, <2>3, <2>4
    <3> QED  BY <1>8, <1>10, <3>2, <3>3, <3>4
  <2>5. CASE id \notin rest
    <3>1. ~ Has(page, id)  BY <1>8, <1>11, <2>5 DEF Covers
    <3>2. c > n => id \notin AfterCursor(after)  BY <1>13, <2>5
    <3> QED  BY <2>1, <2>2, <2>3, <2>5, <3>1, <3>2
  <2> QED  BY <2>4, <2>5
<1>22. ASSUME changed = 0 PROVE steady = Listed /\ Len(walk.shown) + c = Cardinality(Listed)
  <2>1. CursorParts  BY DEF ListingsInv
  <2>2. /\ changed = 0 => steady = Listed
                         /\ Len(walk.shown) + Cardinality(AfterCursor(walk.after)) = Cardinality(Listed)
    BY <1>2, <2>1, Zenon DEF CursorParts
  <2> QED  BY <1>22, <2>2 DEF c
<1>23. CursorParts'
  <2> SUFFICES ASSUME c > n PROVE CursorParts'  BY <1>16, <1>17 DEF CursorParts
  <2>1. \A id \in steady' : Times(id)' = IF id \in AfterCursor(walk.after)' THEN 0 ELSE 1
    BY <1>2, <1>18, <1>21
  <2>2. changed = 0 => steady = Listed /\ Len(walk'.shown) + Cardinality(AfterCursor(after)) = Cardinality(Listed)
    <3> SUFFICES ASSUME changed = 0
                 PROVE  steady = Listed /\ Len(walk'.shown) + Cardinality(AfterCursor(after)) = Cardinality(Listed)
      OBVIOUS
    <3>1. steady = Listed /\ Len(walk.shown) + c = Cardinality(Listed)  BY <1>22
    <3>2. Cardinality(AfterCursor(after)) = c - n  BY <1>13
    <3>3. Len(walk'.shown) = Len(walk.shown) + n  BY <1>15, <1>17
    <3>4. Len(walk.shown) \in Nat /\ c \in Nat /\ n \in Nat  BY <1>4, <1>8, <1>10
    <3> QED  BY <3>1, <3>2, <3>3, <3>4
  <2> QED  BY <1>2, <1>18, <2>1, <2>2 DEF CursorParts
<1>24. ListingsHold'
  <2>1. CASE c > n
    BY <1>16, <1>17, <2>1 DEF ListingsHold, CursorShowsAllOnce, OffsetLosesByChangesOnly, UndisturbedPagerIsComplete, Over
  <2>2. CASE ~ (c > n)
    <3>1. \A id \in steady' : Times(id)' = 1  BY <1>2, <1>21, <2>2
    <3>2. Missed' = {}  BY <3>1 DEF Missed
    <3>3. changed' = 0 => Len(walk'.shown) = Cardinality(steady')
      BY <1>2, <1>4, <1>8, <1>10, <1>15, <1>17, <1>22, <2>2
    <3> QED
      BY <1>17, <3>1, <3>2, <3>3 DEF ListingsHold, CursorShowsAllOnce, OffsetLosesByChangesOnly,
                                      UndisturbedPagerIsComplete
  <2> QED  BY <2>1, <2>2
<1> QED  BY <1>19, <1>20, <1>23, <1>24 DEF ListingsInv

\* One row comes, goes or moves beside the walk: the others stay as they were.
RowChanges(x) ==
    /\ walk.phase \in {"count", "page"} /\ UNCHANGED <<walk, tied>>
    /\ changed' = changed + 1 /\ steady' = steady \ {x}
    /\ \A id : id # x => (id \in DOMAIN table' <=> id \in DOMAIN table)
    /\ \A id \in DOMAIN table : id # x => table'[id] = table[id]

LEMMA OneMore ==
    ASSUME NEW S, NEW x, IsFiniteSet(S)
    PROVE  /\ Cardinality(S \ {x}) \in Nat
           /\ Cardinality(S) = Cardinality(S \ {x}) + IF x \in S THEN 1 ELSE 0
<1>1. Cardinality(S) \in Nat /\ IsFiniteSet(S \ {x})  BY FS_CardinalityType, FS_RemoveElement
<1>2. Cardinality(S \ {x}) \in Nat  BY <1>1, FS_CardinalityType
<1>3. CASE x \in S
  <2>1. Cardinality(S \ {x}) = Cardinality(S) - 1  BY <1>3, FS_RemoveElement
  <2> QED  BY <1>1, <1>2, <1>3, <2>1
<1>4. CASE x \notin S
  <2>1. S \ {x} = S  BY <1>4
  <2> QED  BY <1>1, <1>4, <2>1
<1> QED  BY <1>2, <1>3, <1>4

LEMMA OthersStay ==
    ASSUME NEW x, RowChanges(x)
    PROVE  /\ Listed' \ {x} = Listed \ {x} /\ PageFront' = PageFront
           /\ \A id : Times(id)' = Times(id)
           /\ \A i, j \in DOMAIN table : i # x /\ j # x => (Precedes(walk.list, i, j)' <=> Precedes(walk.list, i, j))
<1>1. /\ walk' = walk
      /\ \A id : id # x => (id \in DOMAIN table' <=> id \in DOMAIN table)
      /\ \A id \in DOMAIN table : id # x => table'[id] = table[id]
  BY Zenon DEF RowChanges
<1>2. ASSUME NEW id, id # x PROVE id \in Listed' <=> id \in Listed  BY <1>1, <1>2 DEF Listed
<1>3. Listed' \ {x} = Listed \ {x}  BY <1>2, Zenon
<1>4. PageFront' = PageFront  BY <1>1, Zenon DEF PageFront
<1>5. \A id : Times(id)' = Times(id)  BY <1>1, Zenon DEF Times
<1>6. ASSUME NEW i \in DOMAIN table, NEW j \in DOMAIN table, i # x, j # x
      PROVE  Precedes(walk.list, i, j)' <=> Precedes(walk.list, i, j)
  <2>1. KeyOf(walk.list, i)' = KeyOf(walk.list, i) /\ KeyOf(walk.list, j)' = KeyOf(walk.list, j)
    BY <1>1, <1>6, Zenon DEF KeyOf
  <2> QED  BY <1>1, <2>1, Zenon DEF Precedes
<1> QED  BY <1>3, <1>4, <1>5, <1>6, Zenon

\* A row's place moves by one at most, and backwards only as one before it goes.
LEMMA PlaceMovesByOne ==
    ASSUME ListingsTypeOK, ListingsTypeOK', NEW x, RowChanges(x), NEW id \in Listed, id # x
    PROVE  /\ Place(id) \in Nat /\ Place(id)' \in Nat /\ Place(id)' >= Place(id) - 1
           /\ x \notin Listed => Place(id)' >= Place(id)
<1>1. /\ Listed' \ {x} = Listed \ {x}
      /\ \A i \in Listed : i # x => (Precedes(walk.list, i, id)' <=> Precedes(walk.list, i, id))
  BY OthersStay, TableTypes
<1>2. Ahead(id)' \ {x} = Ahead(id) \ {x}
  <2>1. ASSUME NEW i, i # x PROVE i \in Ahead(id)' <=> i \in Ahead(id)
    <3>1. i \in Listed' <=> i \in Listed  BY <1>1, <2>1
    <3> QED  BY <1>1, <2>1, <3>1 DEF Ahead
  <2> QED  BY <2>1, Zenon
<1>3. IsFiniteSet(Ahead(id)) /\ Place(id) \in Nat /\ Ahead(id) \subseteq Listed  BY PlaceIsNat
<1>4. IsFiniteSet(Ahead(id)') /\ Place(id)' \in Nat
  <2>1. IsFiniteSet(Listed') /\ Ahead(id)' \in SUBSET Listed'
    <3>1. DOMAIN table' \subseteq Rows /\ IsFiniteSet(Rows)  BY ListingsAssumption DEF ListingsTypeOK
    <3>2. Listed' \in SUBSET Rows  BY <3>1 DEF Listed
    <3>3. IsFiniteSet(Listed')  BY <3>1, <3>2, FS_Subset, Zenon
    <3> QED  BY <3>3 DEF Ahead
  <2>2. IsFiniteSet(Ahead(id)')  BY <2>1, FS_Subset, Zenon
  <2> QED  BY <2>2, FS_CardinalityType DEF Place
<1> DEFINE a == Cardinality(Ahead(id) \ {x})
<1>5. a \in Nat /\ Place(id) = a + IF x \in Ahead(id) THEN 1 ELSE 0  BY <1>3, OneMore DEF Place
<1>6. Place(id)' = a + IF x \in Ahead(id)' THEN 1 ELSE 0
  <2>1. Cardinality(Ahead(id)') = Cardinality(Ahead(id)' \ {x}) + IF x \in Ahead(id)' THEN 1 ELSE 0
    BY <1>4, OneMore
  <2> QED  BY <1>2, <2>1 DEF Place
<1> HIDE DEF a
<1>7. x \notin Listed => x \notin Ahead(id)  BY <1>3
<1> QED  BY <1>3, <1>4, <1>5, <1>6, <1>7

LEMMA PlacesDiffer ==
    ASSUME ListingsTypeOK, NEW i \in Listed, NEW j \in Listed, Precedes(walk.list, i, j)
    PROVE  Place(i) < Place(j)
<1>1. walk.list \in Lists  BY WalkTypes DEF WalkFields
<1>2. \A k \in Listed : k \in Nat /\ KeyOf(walk.list, k) \in Nat  BY <1>1, TableTypes, KeyIsNat
<1>3. ~ Precedes(walk.list, i, i)  BY <1>2, PrecedesIsStrict
<1>4. ASSUME NEW k \in Ahead(i) PROVE k \in Ahead(j)
  <2>1. k \in Listed /\ Precedes(walk.list, k, i)  BY DEF Ahead
  <2>2. Precedes(walk.list, k, j)  BY <1>2, <2>1, PrecedesIsStrict
  <2> QED  BY <2>1, <2>2 DEF Ahead
<1>5. i \in Ahead(j) /\ i \notin Ahead(i)  BY <1>3 DEF Ahead
<1>6. Ahead(i) \in SUBSET (Ahead(j) \ {i})  BY <1>4, <1>5
<1>7. IsFiniteSet(Ahead(j)) /\ Place(i) \in Nat /\ Place(j) \in Nat  BY PlaceIsNat
<1>8. IsFiniteSet(Ahead(j) \ {i}) /\ Cardinality(Ahead(j) \ {i}) = Cardinality(Ahead(j)) - 1
  BY <1>5, <1>7, FS_RemoveElement
<1>9. Cardinality(Ahead(i)) <= Cardinality(Ahead(j) \ {i})  BY <1>6, <1>8, FS_Subset, Zenon
<1> QED  BY <1>7, <1>8, <1>9 DEF Place

\* A change makes the page to come pass by one row more, or the total miss one more, not both.
LEMMA ChangePaysLoss ==
    ASSUME ListingsInv, ListingsTypeOK', NEW x, RowChanges(x), Paging, ~ tied
    PROVE  Cardinality(PassedBy)' + Excess' <= changed'
<1>1. ListingsTypeOK /\ LossIsPaid  BY DEF ListingsInv
<1>2. /\ Listed' \ {x} = Listed \ {x} /\ PageFront' = PageFront /\ steady' = steady \ {x}
      /\ changed' = changed + 1 /\ walk' = walk
      /\ \A id : Times(id)' = Times(id)
  BY OthersStay DEF RowChanges
<1>3. /\ PageFront > 0 => Distinct(steady)
      /\ Cardinality(PassedBy) + Excess <= changed
  BY <1>1 DEF LossIsPaid
<1>4. IsFiniteSet(Listed') /\ Cardinality(Listed)' \in Nat
  <2>1. DOMAIN table' \subseteq Rows /\ IsFiniteSet(Rows)  BY ListingsAssumption DEF ListingsTypeOK
  <2>2. Listed' \in SUBSET Rows  BY <2>1 DEF Listed
  <2>3. IsFiniteSet(Listed')  BY <2>1, <2>2, FS_Subset, Zenon
  <2> QED  BY <2>3, FS_CardinalityType
<1>5. IsFiniteSet(Listed) /\ Cardinality(Listed) \in Nat /\ steady \subseteq Listed /\ IsFiniteSet(steady)
  BY <1>1, TableTypes
<1>6. /\ walk.total \in Nat /\ PageFront \in Nat /\ changed \in Nat
      /\ IsFiniteSet(PassedBy) /\ Cardinality(PassedBy) \in Nat
  <2>1. WalkFields /\ changed \in Nat  BY <1>1, WalkTypes DEF ListingsTypeOK
  <2> QED  BY <1>1, <2>1, PassedByIsFinite DEF WalkFields, PageFront
<1> DEFINE n == Cardinality(Listed)
           m == Cardinality(Listed')
           c == Cardinality(Listed \ {x})
           counted == walk.list.total = "first" /\ walk.phase = "page"
<1>7. c \in Nat /\ n = c + IF x \in Listed THEN 1 ELSE 0  BY <1>5, OneMore
<1>8. m = c + IF x \in Listed' THEN 1 ELSE 0
  <2>1. m = Cardinality(Listed' \ {x}) + IF x \in Listed' THEN 1 ELSE 0  BY <1>4, OneMore
  <2> QED  BY <1>2, <2>1
<1>9. /\ Excess = IF counted /\ n > walk.total THEN n - walk.total ELSE 0
      /\ Excess' = IF counted /\ m > walk.total THEN m - walk.total ELSE 0
  BY <1>2 DEF Excess
<1>10. ASSUME NEW id \in steady'
       PROVE  /\ id \in steady /\ id \in Listed /\ id # x /\ Place(id) \in Nat /\ Place(id)' \in Nat
              /\ Place(id)' >= Place(id) - 1
              /\ x \notin Listed => Place(id)' >= Place(id)
  BY <1>1, <1>2, <1>5, PlaceMovesByOne
<1> HIDE DEF n, m, c, counted
<1>11. IsFiniteSet(PassedBy')
  <2>1. PassedBy' \in SUBSET steady  BY <1>2 DEF PassedBy
  <2> QED  BY <1>5, <2>1, FS_Subset, Zenon
<1>12. Cardinality(PassedBy') \in Nat  BY <1>11, FS_CardinalityType
<1>13. CASE x \notin Listed
  <2>1. ASSUME NEW id \in PassedBy' PROVE id \in PassedBy
    <3>1. id \in steady' /\ Times(id)' = 0 /\ Place(id)' < PageFront'  BY DEF PassedBy
    <3>2. id \in steady /\ Times(id) = 0 /\ Place(id) < PageFront  BY <1>2, <1>6, <1>10, <1>13, <3>1
    <3> QED  BY <3>2 DEF PassedBy
  <2>2. PassedBy' \in SUBSET PassedBy  BY <2>1
  <2>3. Cardinality(PassedBy') <= Cardinality(PassedBy)  BY <1>6, <2>2, FS_Subset, Zenon
  <2>4. Excess' <= Excess + 1 /\ Excess \in Nat /\ Excess' \in Nat  BY <1>6, <1>7, <1>8, <1>9, <1>13
  <2> HIDE DEF Excess, PassedBy
  <2> QED  BY <1>2, <1>3, <1>6, <1>12, <2>3, <2>4
<1>14. CASE x \in Listed
  <2>1. Excess' <= Excess /\ Excess \in Nat /\ Excess' \in Nat  BY <1>6, <1>7, <1>8, <1>9, <1>14
  <2>2. ASSUME NEW i \in PassedBy', i \notin PassedBy PROVE i \in Listed /\ i \in steady /\ Place(i) = PageFront /\ PageFront > 0
    <3>1. i \in steady' /\ Times(i)' = 0 /\ Place(i)' < PageFront'  BY DEF PassedBy
    <3>2. i \in steady /\ i \in Listed /\ Times(i) = 0 /\ Place(i) \in Nat /\ Place(i)' \in Nat
          /\ Place(i)' >= Place(i) - 1
      BY <1>2, <1>10, <3>1
    <3>3. ~ (Place(i) < PageFront)  BY <2>2, <3>2 DEF PassedBy
    <3> QED  BY <1>2, <1>6, <3>1, <3>2, <3>3
  <2>3. ASSUME NEW i \in PassedBy', NEW j \in PassedBy', i \notin PassedBy, j \notin PassedBy PROVE i = j
    <3>1. i \in Listed /\ j \in Listed /\ i \in steady /\ j \in steady /\ Place(i) = PageFront /\ Place(j) = PageFront /\ PageFront > 0
      BY <2>2, <2>3
    <3>2. i = j \/ Precedes(walk.list, i, j) \/ Precedes(walk.list, j, i)
      BY <1>3, <3>1, Zenon DEF Distinct
    <3>3. ~ Precedes(walk.list, i, j) /\ ~ Precedes(walk.list, j, i)
      <4>1. ~ (Place(i) < Place(j)) /\ ~ (Place(j) < Place(i))  BY <1>6, <3>1
      <4> QED  BY <1>1, <3>1, <4>1, PlacesDiffer
    <3> QED  BY <3>2, <3>3
  <2>4. Cardinality(PassedBy') <= Cardinality(PassedBy) + 1
    <3>1. CASE PassedBy' \subseteq PassedBy
      <4>1. Cardinality(PassedBy') <= Cardinality(PassedBy)  BY <1>6, <3>1, FS_Subset, Zenon
      <4> QED  BY <1>6, <1>12, <4>1
    <3>2. CASE ~ (PassedBy' \subseteq PassedBy)
      <4>1. PICK w \in PassedBy' : w \notin PassedBy  BY <3>2
      <4>2. PassedBy' \subseteq PassedBy \cup {w}  BY <2>3, <4>1
      <4>3. IsFiniteSet(PassedBy \cup {w}) /\ Cardinality(PassedBy \cup {w}) = Cardinality(PassedBy) + 1
        BY <1>6, <4>1, FS_AddElement
      <4>4. Cardinality(PassedBy') <= Cardinality(PassedBy \cup {w})  BY <4>2, <4>3, FS_Subset, Zenon
      <4> QED  BY <4>3, <4>4
    <3> QED  BY <3>1, <3>2
  <2> QED  BY <1>2, <1>3, <1>6, <1>12, <2>1, <2>4
<1> QED  BY <1>13, <1>14

LEMMA ChangeKeepsListings ==
    ASSUME ListingsInv, ListingsTypeOK', NEW x, RowChanges(x)
    PROVE  ListingsInv'
<1>1. ListingsTypeOK /\ WalkBegins /\ CursorParts /\ LossIsPaid  BY DEF ListingsInv
<1>2. /\ Listed' \ {x} = Listed \ {x} /\ PageFront' = PageFront
      /\ \A id : Times(id)' = Times(id)
      /\ \A i, j \in Listed : i # x /\ j # x => (Precedes(walk.list, i, j)' <=> Precedes(walk.list, i, j))
  BY <1>1, OthersStay, TableTypes
<1>3. /\ walk.phase \in {"count", "page"} /\ walk' = walk /\ (tied' <=> tied) /\ steady' = steady \ {x}
      /\ changed' = changed + 1
      /\ \A id \in DOMAIN table : id # x => table'[id] = table[id]
  BY Zenon DEF RowChanges
<1>4. changed \in Nat /\ changed' # 0 /\ steady \subseteq Listed /\ PageFront \in Nat
  <2>1. WalkFields /\ changed \in Nat /\ steady \subseteq Listed  BY <1>1, WalkTypes DEF ListingsTypeOK
  <2> QED  BY <1>3, <2>1 DEF WalkFields, PageFront
<1>5. WalkBegins'  BY <1>1, <1>3 DEF WalkBegins
<1>6. CursorParts'
  <2> SUFFICES ASSUME walk.phase = "page", walk.list = LeadCursor, NEW id \in steady'
               PROVE  Times(id)' = IF id \in AfterCursor(walk.after)' THEN 0 ELSE 1
    BY <1>3, <1>4 DEF CursorParts
  <2>1. id \in steady /\ id # x /\ id \in Listed /\ id \in Listed'  BY <1>2, <1>3, <1>4
  <2>2. Times(id) = IF id \in AfterCursor(walk.after) THEN 0 ELSE 1  BY <1>1, <2>1 DEF CursorParts
  <2>3. id \in AfterCursor(walk.after)' <=> id \in AfterCursor(walk.after)
    <3>1. table'[id] = table[id] /\ walk'.after = walk.after  BY <1>1, <1>3, <2>1, TableTypes
    <3> QED  BY <2>1, <3>1 DEF AfterCursor, Behind
  <2> QED  BY <1>2, <2>2, <2>3
<1>7. ASSUME Paging, ~ tied, PageFront > 0 PROVE Distinct(steady)'
  <2>1. Distinct(steady)  BY <1>1, <1>7 DEF LossIsPaid
  <2>2. ASSUME NEW i \in steady', NEW j \in steady'
        PROVE  i = j \/ Precedes(walk.list, i, j)' \/ Precedes(walk.list, j, i)'
    <3>1. /\ i \in steady /\ j \in steady /\ i # x /\ j # x
          /\ i \in Listed /\ j \in Listed
      BY <1>3, <1>4
    <3> QED  BY <1>2, <2>1, <3>1, Zenon DEF Distinct
  <2> QED  BY <2>2, Zenon DEF Distinct
<1>8. ASSUME Paging, ~ tied, NEW id \in steady'
      PROVE  Times(id)' + (IF Place(id)' >= PageFront' THEN 1 ELSE 0) <= changed' + 1
  <2>1. id \in steady /\ id # x  BY <1>3
  <2>2. Times(id) + (IF Place(id) >= PageFront THEN 1 ELSE 0) <= changed + 1 /\ Times(id) \in Nat
    BY <1>1, <1>8, <2>1, TimesIsCount DEF LossIsPaid
  <2>3. Times(id)' = Times(id)  BY <1>2
  <2>4. Times(id) <= changed + 1  BY <1>4, <2>2
  <2> QED  BY <1>3, <1>4, <2>2, <2>3, <2>4
<1>9. LossIsPaid'
  <2> SUFFICES ASSUME Paging, ~ tied
               PROVE  /\ PageFront' > 0 => Distinct(steady)'
                      /\ Cardinality(PassedBy)' + Excess' <= changed'
                      /\ \A id \in steady' : Times(id)' + (IF Place(id)' >= PageFront' THEN 1 ELSE 0) <= changed' + 1
    BY <1>3 DEF LossIsPaid, Paging
  <2>1. PageFront' > 0 => Distinct(steady)'  BY <1>2, <1>7
  <2>2. Cardinality(PassedBy)' + Excess' <= changed'  BY ChangePaysLoss
  <2> QED  BY <1>8, <2>1, <2>2
<1>10. Undisturbed'  BY <1>4 DEF Undisturbed
<1>11. ListingsHold'
  BY <1>3 DEF ListingsHold, CursorShowsAllOnce, OffsetLosesByChangesOnly, UndisturbedPagerIsComplete, Over
<1> QED  BY <1>5, <1>6, <1>9, <1>10, <1>11 DEF ListingsInv

LEMMA InsertKeeps ==
    ASSUME ListingsInv, NEW x \in Rows, Insert(x)
    PROVE  ListingsInv'
<1>1. ListingsTypeOK  BY DEF ListingsInv
<1>2. /\ walk.phase \in {"count", "page"} /\ x \notin DOMAIN table /\ clock' \in {clock, clock + 1}
      /\ changed' = changed + 1 /\ UNCHANGED <<walk, steady, tied>>
  BY DEF Insert, Changing
<1>3. PICK began \in {clock', clock' - 1} :
          table' = [i \in DOMAIN table \cup {x} |->
              IF i = x THEN [created |-> began, touched |-> began, matches |-> TRUE] ELSE table[i]]
  BY Zenon DEF Insert
<1>4. /\ clock \in Nat \ {0} /\ changed \in Nat /\ DOMAIN table \subseteq Rows /\ steady \subseteq Listed
      /\ Listed \subseteq DOMAIN table /\ \A id \in DOMAIN table : table[id] \in TableRow
  BY <1>1, TableTypes DEF ListingsTypeOK
<1>5. clock' \in Nat \ {0} /\ began \in Nat
  <2>1. clock' \in Nat \ {0}  BY <1>2, <1>4
  <2>2. PICK t \in Int : t = clock'  BY <2>1
  <2>3. t >= 1  BY <2>1, <2>2
  <2>5. began \in {t, t - 1}  BY <2>2, Zenon
  <2>4. began \in Nat  BY <2>3, <2>5
  <2> QED  BY <2>1, <2>4
<1> DEFINE fresh == [created |-> began, touched |-> began, matches |-> TRUE]
<1>6. fresh \in TableRow  BY <1>5, Zenon DEF TableRow
<1> HIDE DEF fresh
<1>7. /\ DOMAIN table' = DOMAIN table \cup {x} /\ \A id \in DOMAIN table : table'[id] = table[id]
      /\ table' \in [DOMAIN table' -> TableRow]
  <2>1. table' = [i \in DOMAIN table \cup {x} |-> IF i = x THEN fresh ELSE table[i]]  BY <1>3 DEF fresh
  <2> QED  BY <1>2, <1>4, <1>6, <2>1
<1>8. steady' \subseteq Listed'  BY <1>2, <1>4, <1>7 DEF Listed
<1>9. ListingsTypeOK'
  <2>1. walk' \in Walk /\ tied' \in BOOLEAN  BY <1>1, <1>2, Zenon DEF ListingsTypeOK
  <2>2. DOMAIN table' \subseteq Rows /\ changed' \in Nat  BY <1>2, <1>4, <1>7
  <2> QED  BY <1>5, <1>7, <1>8, <2>1, <2>2, Zenon DEF ListingsTypeOK
<1>10. RowChanges(x)
  <2>1. steady' = steady \ {x}  BY <1>2, <1>4
  <2>2. ASSUME NEW id, id # x PROVE id \in DOMAIN table' <=> id \in DOMAIN table  BY <1>7, <2>2
  <2> QED  BY <1>2, <1>7, <2>1, <2>2, Zenon DEF RowChanges
<1> QED  BY <1>9, <1>10, ChangeKeepsListings

LEMMA UpdateKeeps ==
    ASSUME ListingsInv, NEW x \in Rows, Update(x)
    PROVE  ListingsInv'
<1>1. ListingsTypeOK  BY DEF ListingsInv
<1>2. /\ walk.phase \in {"count", "page"} /\ x \in DOMAIN table /\ clock' \in {clock, clock + 1}
      /\ changed' = changed + 1 /\ steady' = steady \ {x} /\ UNCHANGED <<walk, tied>>
  BY DEF Update, Changing
<1>3. PICK matches \in BOOLEAN : table' = [table EXCEPT ![x].touched = clock', ![x].matches = matches]
  BY Zenon DEF Update
<1>4. /\ clock \in Nat \ {0} /\ changed \in Nat /\ DOMAIN table \subseteq Rows /\ steady \subseteq Listed
      /\ Listed \subseteq DOMAIN table /\ \A id \in DOMAIN table : table[id] \in TableRow
  BY <1>1, TableTypes DEF ListingsTypeOK
<1>5. clock' \in Nat \ {0}  BY <1>2, <1>4
<1> DEFINE fresh == [table[x] EXCEPT !.touched = clock', !.matches = matches]
<1>6. fresh \in TableRow
  <2>1. table[x] \in TableRow /\ clock' \in Nat  BY <1>2, <1>4, <1>5
  <2> QED  BY <2>1, Zenon DEF TableRow
<1>7. table' = [table EXCEPT ![x] = fresh]  BY <1>2, <1>3, Zenon
<1> HIDE DEF fresh
<1>8. /\ DOMAIN table' = DOMAIN table /\ \A id \in DOMAIN table : id # x => table'[id] = table[id]
      /\ \A id \in DOMAIN table : table'[id] \in TableRow
  BY <1>2, <1>4, <1>6, <1>7
<1>9. steady' \subseteq Listed'  BY <1>2, <1>4, <1>8 DEF Listed
<1>10. table' \in [DOMAIN table' -> TableRow]
  <2>1. table \in [DOMAIN table -> TableRow]  BY <1>1 DEF ListingsTypeOK
  <2> QED  BY <1>2, <1>6, <1>7, <2>1
<1>11. ListingsTypeOK'
  <2>1. walk' \in Walk /\ tied' \in BOOLEAN  BY <1>1, <1>2, Zenon DEF ListingsTypeOK
  <2>2. DOMAIN table' \subseteq Rows /\ changed' \in Nat  BY <1>2, <1>4, <1>8
  <2> QED  BY <1>5, <1>9, <1>10, <2>1, <2>2, Zenon DEF ListingsTypeOK
<1>12. RowChanges(x)
  <2>1. ASSUME NEW id, id # x PROVE id \in DOMAIN table' <=> id \in DOMAIN table  BY <1>8
  <2> QED  BY <1>2, <1>8, <2>1, Zenon DEF RowChanges
<1> QED  BY <1>11, <1>12, ChangeKeepsListings

LEMMA DeleteKeeps ==
    ASSUME ListingsInv, NEW x \in Rows, Delete(x)
    PROVE  ListingsInv'
<1>1. ListingsTypeOK  BY DEF ListingsInv
<1>2. /\ walk.phase \in {"count", "page"} /\ x \in DOMAIN table /\ clock' = clock
      /\ changed' = changed + 1 /\ steady' = steady \ {x} /\ UNCHANGED <<walk, tied>>
      /\ table' = [i \in DOMAIN table \ {x} |-> table[i]]
  BY DEF Delete, Changing
<1>3. /\ clock \in Nat \ {0} /\ changed \in Nat /\ DOMAIN table \subseteq Rows /\ steady \subseteq Listed
      /\ Listed \subseteq DOMAIN table /\ \A id \in DOMAIN table : table[id] \in TableRow
  BY <1>1, TableTypes DEF ListingsTypeOK
<1>4. /\ DOMAIN table' = DOMAIN table \ {x} /\ \A id \in DOMAIN table : id # x => table'[id] = table[id]
      /\ table' \in [DOMAIN table' -> TableRow]
  BY <1>2, <1>3
<1>5. steady' \subseteq Listed'  BY <1>2, <1>3, <1>4 DEF Listed
<1>6. ListingsTypeOK'
  <2>1. walk' \in Walk /\ tied' \in BOOLEAN  BY <1>1, <1>2, Zenon DEF ListingsTypeOK
  <2>2. DOMAIN table' \subseteq Rows /\ changed' \in Nat /\ clock' \in Nat \ {0}  BY <1>2, <1>3, <1>4
  <2> QED  BY <1>4, <1>5, <2>1, <2>2, Zenon DEF ListingsTypeOK
<1>7. RowChanges(x)
  <2>1. ASSUME NEW id, id # x PROVE id \in DOMAIN table' <=> id \in DOMAIN table  BY <1>4, <2>1
  <2> QED  BY <1>2, <1>4, <2>1, Zenon DEF RowChanges
<1> QED  BY <1>6, <1>7, ChangeKeepsListings

LEMMA ListingsStutter ==
    ASSUME ListingsInv, UNCHANGED listingVars
    PROVE  ListingsInv'
<1>1. UNCHANGED <<table, clock, walk, changed, steady, tied>>  BY DEF listingVars
<1>2. PageFront' = PageFront /\ walk'.list = walk.list /\ walk'.shown = walk.shown
  BY <1>1 DEF PageFront
<1>3. /\ Listed' = Listed /\ PassedBy' = PassedBy /\ Missed' = Missed
      /\ \A id : Times(id)' = Times(id) /\ Place(id)' = Place(id)
  BY <1>1, <1>2, CountsStay DEF ListingsInv
<1>4. Distinct(steady)' <=> Distinct(steady)  BY <1>1, <1>2, DistinctStays
<1>5. ListingsTypeOK' /\ WalkBegins'  BY <1>1, <1>3 DEF ListingsInv, ListingsTypeOK, WalkBegins
<1>6. CursorParts'
  <2>1. AfterCursor(walk.after)' = AfterCursor(walk.after)  BY <1>1, <1>3 DEF AfterCursor, Behind
  <2>2. CursorParts  BY DEF ListingsInv
  <2> QED  BY <1>1, <1>3, <2>1, <2>2 DEF CursorParts
<1>7. LossIsPaid'
  <2>1. Excess' = Excess /\ (Paging' <=> Paging) /\ LossIsPaid
    BY <1>1, <1>3 DEF Excess, Paging, ListingsInv
  <2> QED  BY <1>1, <1>2, <1>3, <1>4, <2>1 DEF LossIsPaid
<1>8. Undisturbed'
  <2>1. (Paging' <=> Paging) /\ Undisturbed  BY <1>1 DEF Paging, ListingsInv
  <2> QED  BY <1>1, <1>2, <1>3, <2>1 DEF Undisturbed
<1>9. ListingsHold'
  BY <1>1, <1>3 DEF ListingsInv, ListingsHold, CursorShowsAllOnce, OffsetLosesByChangesOnly,
                    UndisturbedPagerIsComplete, Over
<1> QED  BY <1>5, <1>6, <1>7, <1>8, <1>9 DEF ListingsInv

\* The invariant of the lists: rows, pages, client and the changes beside them keep the
\* account of which rows were passed by and which changes paid for it.
THEOREM ListingsInvariant == ListingsSpec => []ListingsInv
<1>1. ListingsInit => ListingsInv  BY ListingsStart
<1>2. ListingsInv /\ [ListingsNext]_listingVars => ListingsInv'
  <2> SUFFICES ASSUME ListingsInv, [ListingsNext]_listingVars PROVE ListingsInv'  OBVIOUS
  <2>1. CASE UNCHANGED listingVars  BY <2>1, ListingsStutter
  <2>2. CASE \E list \in Lists, limit \in PageSizes : Begin(list, limit)  BY <2>2, BeginKeepsListings
  <2>3. CASE CountFirst  BY <2>3, CountFirstKeeps
  <2>4. CASE ReadPage  BY <2>4, ReadPageKeeps
  <2>5. CASE CountAfter  BY <2>5, CountAfterKeeps
  <2>6. CASE ReadCursorPage  BY <2>6, ReadCursorPageKeeps
  <2>7. CASE \E id \in Rows : Insert(id) \/ Update(id) \/ Delete(id)
    BY <2>7, InsertKeeps, UpdateKeeps, DeleteKeeps
  <2> QED  BY <2>1, <2>2, <2>3, <2>4, <2>5, <2>6, <2>7 DEF ListingsNext
<1> QED  BY <1>1, <1>2, PTL DEF ListingsSpec

\* The cursor of the leads shows every row that stayed exactly once, a pager by offset loses
\* and repeats no more of them than rows came, went or moved, and one that nothing disturbed
\* is complete: for any table, page size and number of changes.
THEOREM ListsAlwaysHold == ListingsSpec => []ListingsHold
<1>1. ListingsInv => ListingsHold  BY DEF ListingsInv
<1> QED  BY <1>1, ListingsInvariant, PTL
================================================================================
