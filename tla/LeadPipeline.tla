----------------------------- MODULE LeadPipeline -----------------------------
(***************************************************************************)
(* The CRM row of one lead and the PATCH requests of its owner             *)
(* (app/services/lead_pipeline_service.py, lead_pipeline_policy.py,        *)
(* app/repositories/lead_repository.py, lead_event_service.py).  A request *)
(* reads the row and checks the change of status against what it has read, *)
(* writes the columns that differ from it, reads the row back, and commits *)
(* the columns together with the events of the timeline.                   *)
(***************************************************************************)
EXTENDS Naturals, Sequences

CONSTANTS
    Open, Terminal,  \* the pipeline stages; the outcomes won and lost
    New,             \* the stage of a new lead
    Notes,           \* the texts of the owner's notes; every other column is alike
    NoNotes,
    Absent,          \* the field is not in the request
    Requests,
    MaxPatches       \* bound: the requests that are begun

ASSUME StatusAssumption == New \in Open /\ Open \cap Terminal = {} /\ Absent \notin Open \cup Terminal
ASSUME NotesAssumption == NoNotes \notin Notes /\ Absent \notin Notes \cup {NoNotes}
ASSUME BoundAssumption == MaxPatches \in Nat

VARIABLES
    row,      \* the committed row
    request,  \* what each request is doing
    events,   \* the status changes on the timeline, the oldest first
    patches

vars == <<row, request, events, patches>>

Statuses == Open \cup Terminal
Columns == {"status", "notes"}
Row == [status : Statuses, notes : Notes \cup {NoNotes}]
Patch == [status : Statuses \cup {Absent}, notes : Notes \cup {NoNotes, Absent}]
NewRow == [status |-> New, notes |-> NoNotes]
NoPatch == [status |-> Absent, notes |-> Absent]
Idle == [at |-> "idle", patch |-> NoPatch, read |-> NewRow, seen |-> NewRow]

Init ==
    /\ row = NewRow
    /\ request = [r \in Requests |-> Idle]
    /\ events = << >>
    /\ patches = 0

-----------------------------------------------------------------------------
\* Won and lost are left for no other stage; the same status is always allowed.
ValidateLeadStatusChange(from, to) == from = to \/ from \notin Terminal

\* The row object in the session once the fields of the request are set.
Wanted(q) == [c \in Columns |-> IF q.patch[c] = Absent THEN q.read[c] ELSE q.patch[c]]

\* Mutant: the session writes every column.
ChangedWhole(q) == Columns

\* The columns that differ from what was read: the only ones the session writes.
Changed(q) == {c \in Columns : Wanted(q)[c] # q.read[c]}

Apply(q, current) == [c \in Columns |-> IF c \in Changed(q) THEN Wanted(q)[c] ELSE current[c]]

Locks(r) == request[r].at = "written" /\ Changed(request[r]) # {}

\* The request reads the row and is refused at once if its status may not follow.
Read(r, patch) ==
    /\ request[r].at = "idle" /\ patches < MaxPatches
    /\ patch.status # Absent => ValidateLeadStatusChange(row.status, patch.status)
    /\ request' = [request EXCEPT ![r] = [at |-> "read", patch |-> patch, read |-> row, seen |-> row]]
    /\ patches' = patches + 1
    /\ UNCHANGED <<row, events>>

\* The UPDATE waits for the row if another request has written it, and the row
\* is read back; without a changed column there is no UPDATE.
Write(r) ==
    LET q == request[r]
    IN  /\ q.at = "read"
        /\ Changed(q) # {} => \A other \in Requests : ~ Locks(other)
        /\ request' = [request EXCEPT ![r].at = "written", ![r].seen = Apply(q, row)]
        /\ UNCHANGED <<row, events, patches>>

\* Mutant: the old status is read off the refreshed row.
StatusEventsAfterRefresh(q) ==
    IF q.patch.status # Absent /\ q.read.status # q.seen.status
    THEN << [old |-> q.seen.status, new |-> q.seen.status] >> ELSE << >>

\* The event compares the status that was read first with the one read back.
StatusEvents(q) ==
    IF q.patch.status # Absent /\ q.read.status # q.seen.status
    THEN << [old |-> q.read.status, new |-> q.seen.status] >> ELSE << >>

Commit(r) ==
    LET q == request[r]
    IN  /\ q.at = "written"
        /\ row' = Apply(q, row)
        /\ events' = events \o StatusEvents(q)
        /\ request' = [request EXCEPT ![r] = Idle]
        /\ UNCHANGED patches

\* The database fails, or the assignee does not exist: all is rolled back.
Fail(r) ==
    /\ request[r].at # "idle"
    /\ request' = [request EXCEPT ![r] = Idle]
    /\ UNCHANGED <<row, events, patches>>

Next ==
    \/ \E r \in Requests, patch \in Patch \ {NoPatch} : Read(r, patch)
    \/ \E r \in Requests : Write(r) \/ Commit(r) \/ Fail(r)

Spec == Init /\ [][Next]_vars

-----------------------------------------------------------------------------
TypeOK ==
    /\ row \in Row
    /\ request \in [Requests -> [at : {"idle", "read", "written"}, patch : Patch,
                                 read : Row, seen : Row]]
    /\ events \in Seq([old : Statuses, new : Statuses])
    /\ patches \in 0..MaxPatches

\* However requests overlap, a column changes only to the value some request
\* asked for: an edit of the notes never takes back a change of the status.
ColumnsChangeAsAsked ==
    [][\A c \in Columns : row'[c] # row[c] =>
         \E r \in Requests : request[r].at = "written" /\ request[r].patch[c] = row'[c]]_vars

\* Every change of the status is on the timeline with the status it led to.
ChangesAreRecorded ==
    [][row'.status # row.status =>
         /\ Len(events') = Len(events) + 1
         /\ events'[Len(events')].new = row'.status]_vars

\* A closed lead is reopened only by a request that had read it before it was
\* closed, and so checked its change of status against an open stage.
ReopenedOnlyIfOvertaken ==
    [][row.status \in Terminal /\ row'.status # row.status =>
         \E r \in Requests : request[r].at = "written" /\ request[r].read.status \in Open]_vars

\* The timeline has no gaps: what an event says of the status before is what a
\* new lead begins with or what some earlier event led to, and the row's status
\* is on it.
TimelineHasNoGaps ==
    LET ReachedBefore(i) == {New} \cup {events[j].new : j \in 1..(i - 1)}
    IN  /\ \A i \in DOMAIN events : events[i].old \in ReachedBefore(i)
        /\ row.status \in ReachedBefore(Len(events) + 1)

\* The inductive strengthening.  One request at a time holds the row, so what it
\* read back is what its commit makes of the row; what a request has read was on
\* the timeline then, and its change of the status was allowed from there.
Reached == {New} \cup {events[j].new : j \in DOMAIN events}

PipelineInv ==
    /\ \A r, other \in Requests : Locks(r) /\ Locks(other) => r = other
    /\ \A r \in Requests : Locks(r) => request[r].seen = Apply(request[r], row)
    /\ \A r \in Requests : request[r].at # "idle" =>
           /\ request[r].read.status \in Reached
           /\ request[r].patch.status # Absent =>
                  ValidateLeadStatusChange(request[r].read.status, request[r].patch.status)
    /\ TimelineHasNoGaps

\* The history of a lead is complete and says what its requests asked for, however they
\* overlap (update_lead_pipeline_fields, append_pipeline_events).
HistoryHolds ==
    []TimelineHasNoGaps /\ ColumnsChangeAsAsked /\ ChangesAreRecorded /\ ReopenedOnlyIfOvertaken
=============================================================================
