------------------------------ MODULE AdminOffice ------------------------------
(***************************************************************************)
(* Moderation by superadmins: users and bots are suspended and activated,  *)
(* one at a time or in bulk, tenants are inspected and impersonated, and   *)
(* each step leaves an audit entry in the transaction of its request       *)
(* (services/admin_moderation_service.py, services/audit_service.py and    *)
(* their endpoints).  A request changes the objects of its session and     *)
(* flushes each of them under its row's lock; what it wrote is there for   *)
(* others only if the session is committed.                                *)
(***************************************************************************)
EXTENDS Naturals, Sequences

CONSTANTS
    Officers,          \* the superadmins, who are users too
    Clients,           \* other users
    Machines,          \* bots
    Missing,           \* an id without a row
    Desks,             \* the requests served at one time
    Nobody,            \* holds no lock
    MaxOffice          \* bounds the requests

\* Users and bots are rows of different tables.
ASSUME OfficeAssumption ==
    /\ Nobody \notin Desks /\ Missing \notin Officers \cup Clients \cup Machines
    /\ Machines \cap (Officers \cup Clients) = {}

VARIABLES
    subject,    \* the committed rows: [active, suspended]
    held,       \* the request that holds the lock of a row
    audit,      \* the committed audit entries, in the order of their commits
    desk,       \* the requests
    asked       \* how many there were

officeVars == <<subject, held, audit, desk, asked>>

Persons == Officers \cup Clients
Subjects == Persons \cup Machines
FreeDesk == [phase |-> "idle"]

Entry(action, s, before, after) == [action |-> action, subject |-> s, before |-> before, after |-> after]

-----------------------------------------------------------------------------
(* One row: whether there is anything to do, and what the row is to be.  A  *)
(* bot has no flag of its own beside the time of its suspension.            *)

IsSuspended(s, row) == row.suspended /\ (s \in Persons => ~row.active)
IsActive(s, row) == ~row.suspended /\ (s \in Persons => row.active)
AsWanted(op, s, row) == IF op = "suspend" THEN IsSuspended(s, row) ELSE IsActive(s, row)

SuspendedRow(s, row) == [active |-> row.active /\ s \in Machines, suspended |-> TRUE]
ActivatedRow(s, row) == [active |-> TRUE, suspended |-> FALSE]
Wanted(op, s, row) == IF op = "suspend" THEN SuspendedRow(s, row) ELSE ActivatedRow(s, row)

\* Of a changed object the columns that differ from what was read are written.
ChangedColumns(old, new) ==
    {c \in {"active", "suspended"} : IF c = "active" THEN old.active # new.active ELSE old.suspended # new.suspended}
WrittenOver(row, new, columns) ==
    [active |-> IF "active" \in columns THEN new.active ELSE row.active,
     suspended |-> IF "suspended" \in columns THEN new.suspended ELSE row.suspended]

-----------------------------------------------------------------------------
OfficeInit ==
    /\ subject = [s \in Subjects |-> [active |-> TRUE, suspended |-> FALSE]]
    /\ held = [s \in Subjects |-> Nobody]
    /\ audit = << >>
    /\ desk = [r \in Desks |-> FreeDesk]
    /\ asked = 0

MayAsk(actor) == asked < MaxOffice /\ IsActive(actor, subject[actor])

\* The session of a request holds its actor's row from the start.
Arrive(r, kind, op, actor, todo) ==
    /\ desk[r] = FreeDesk /\ MayAsk(actor) /\ asked' = asked + 1
    /\ desk' = [desk EXCEPT ![r] =
           [phase |-> "next", kind |-> kind, op |-> op, actor |-> actor, todo |-> todo,
            copies |-> [s \in {actor} |-> subject[s]], columns |-> [s \in Subjects |-> {}],
            entries |-> << >>, kept |-> {}, broken |-> FALSE]]
    /\ UNCHANGED <<subject, held, audit>>

\* POST /admin/users/{id}/suspend and activate, /admin/bots/{id}/suspend and activate.
PostUser(r, op, actor, s) == s \in Persons \cup {Missing} /\ Arrive(r, "one", op, actor, <<s>>)
PostBot(r, op, actor, s) == s \in Machines \cup {Missing} /\ Arrive(r, "one", op, actor, <<s>>)

\* POST /admin/users/bulk-action and /admin/bots/bulk-action, in the order of the body.
BulkUsers(r, op, actor, todo) == Arrive(r, "bulk", op, actor, todo)
BulkBots(r, op, actor, todo) == Arrive(r, "bulk", op, actor, todo)

Doing(r, phase) == desk[r].phase = phase
Target(r) == Head(desk[r].todo)

\* The object of the session once it is loaded, until then the committed row.
Copy(r, s) == IF s \in DOMAIN desk[r].copies THEN desk[r].copies[s] ELSE subject[s]
WithCopy(r, s, row) == [x \in DOMAIN desk[r].copies \cup {s} |-> IF x = s THEN row ELSE Copy(r, x)]

\* On to the next one; "kept" are those the answer calls a success.
Onward(q, ok) ==
    [q EXCEPT !.todo = Tail(@), !.phase = "next", !.kept = IF ok THEN @ \cup {Head(q.todo)} ELSE @]

\* A mutant: superadmins may suspend themselves.
RefusedNever(q, s) == s = Missing \/ q.broken

\* No such row, oneself, or a session that an error of the database has broken.
Refused(q, s) == s = Missing \/ (q.op = "suspend" /\ s = q.actor) \/ q.broken

Decline(r) ==
    /\ Doing(r, "next") /\ desk[r].todo # << >> /\ Refused(desk[r], Target(r))
    /\ desk' = [desk EXCEPT ![r] = Onward(@, FALSE)]
    /\ UNCHANGED <<subject, held, audit, asked>>

\* The row is read; if it is as wanted that is the answer, else the object is
\* changed, the audit entry added, and both are flushed next.
Moderate(r) ==
    LET q == desk[r]
        s == Target(r)
        row == Copy(r, s)
        new == Wanted(q.op, s, row)
    IN  /\ Doing(r, "next") /\ q.todo # << >> /\ ~Refused(q, s)
        /\ desk' = [desk EXCEPT ![r] =
               IF AsWanted(q.op, s, row)
               THEN [Onward(q, TRUE) EXCEPT !.copies = WithCopy(r, s, row)]
               ELSE [q EXCEPT !.copies = WithCopy(r, s, new), !.phase = "flush",
                              !.columns = [q.columns EXCEPT ![s] = @ \cup ChangedColumns(row, new)],
                              !.entries = Append(@, Entry(q.op, s, row.suspended, new.suspended))]]
        /\ UNCHANGED <<subject, held, audit, asked>>

\* The UPDATE waits for the row's lock, which is kept to the end of the transaction.
FlushRow(r) ==
    /\ Doing(r, "flush") /\ held[Target(r)] \in {Nobody, r}
    /\ held' = [held EXCEPT ![Target(r)] = r]
    /\ desk' = [desk EXCEPT ![r] = Onward(@, TRUE)]
    /\ UNCHANGED <<subject, audit, asked>>

Released(r) == [s \in Subjects |-> IF held[s] = r THEN Nobody ELSE held[s]]

\* A mutant: the loop goes on in a new transaction, the audit entries still pending.
RolledBackKeeping(q) == [Onward(q, FALSE) EXCEPT !.columns = [s \in Subjects |-> {}]]

\* What the session is after an error of the database: rolled back and closed to
\* every further statement.
RolledBack(q) == [Onward(q, FALSE) EXCEPT !.columns = [s \in Subjects |-> {}], !.entries = << >>, !.broken = TRUE]

\* Two that wait for each other's rows: the database ends one of them; the loop
\* notes an error for that row and for each that follows.
BreakDeadlock(r) ==
    /\ Doing(r, "flush") /\ held[Target(r)] \notin {Nobody, r}
    /\ LET other == held[Target(r)]
       IN  Doing(other, "flush") /\ held[Target(other)] = r
    /\ held' = Released(r)
    /\ desk' = [desk EXCEPT ![r] = RolledBack(@)]
    /\ UNCHANGED <<subject, audit, asked>>

EndRequest(r) == desk' = [desk EXCEPT ![r] = FreeDesk] /\ held' = Released(r) /\ UNCHANGED asked

\* The bulk endpoints commit once; in a broken session that raises.
CommitBulk(r) ==
    LET q == desk[r]
    IN  /\ Doing(r, "next") /\ q.todo = << >> /\ q.kind = "bulk"
        /\ IF q.broken
           THEN UNCHANGED <<subject, audit>>
           ELSE /\ subject' = [s \in Subjects |-> WrittenOver(subject[s], Copy(r, s), q.columns[s])]
                /\ audit' = audit \o q.entries
        /\ EndRequest(r)

\* The endpoints for one row answer with what the session holds; the session is
\* closed without a commit.
CloseOne(r) ==
    /\ Doing(r, "next") /\ desk[r].todo = << >> /\ desk[r].kind = "one"
    /\ UNCHANGED <<subject, audit>>
    /\ EndRequest(r)

\* The process dies, or the client is gone.
OfficeDies(r) ==
    /\ desk[r] # FreeDesk
    /\ UNCHANGED <<subject, audit>>
    /\ EndRequest(r)

\* An inspection adds its audit entry, flushes it and does not commit either.
InspectTenant(actor) ==
    /\ MayAsk(actor) /\ asked' = asked + 1
    /\ UNCHANGED <<subject, held, audit, desk>>

\* The audit entry is committed before the token is handed out; never a superadmin's.
Impersonate(actor, s) ==
    /\ MayAsk(actor) /\ asked' = asked + 1
    /\ audit' = Append(audit, Entry("impersonate", s, FALSE, FALSE))
    /\ UNCHANGED <<subject, held, desk>>

OfficeNext ==
    \/ \E r \in Desks :
          \/ Decline(r) \/ Moderate(r) \/ FlushRow(r) \/ BreakDeadlock(r) \/ CommitBulk(r) \/ CloseOne(r) \/ OfficeDies(r)
          \/ \E op \in {"suspend", "activate"}, actor \in Officers :
                \/ \E s \in Subjects \cup {Missing} : PostUser(r, op, actor, s) \/ PostBot(r, op, actor, s)
                \/ \E todo \in Persons \X Persons : BulkUsers(r, op, actor, todo)
                \/ \E todo \in (Machines \cup {Missing}) \X (Machines \cup {Missing}) : BulkBots(r, op, actor, todo)
    \/ \E actor \in Officers : InspectTenant(actor) \/ \E s \in Clients : Impersonate(actor, s)

OfficeSpec == OfficeInit /\ [][OfficeNext]_officeVars

-----------------------------------------------------------------------------
IsModeration(e, s) == e.subject = s /\ e.action # "impersonate"
IsLastModeration(i, s) == IsModeration(audit[i], s) /\ \A j \in DOMAIN audit : j > i => ~IsModeration(audit[j], s)

\* The last committed entry about a row says what the row is: entries become
\* visible with their change, in the order in which the row was locked, and a
\* request that found nothing to do, lost a deadlock or died leaves none.  The two
\* columns that make a user suspended agree, although an UPDATE writes only those
\* that differ from what its request had read, perhaps long before
\* (AdminModerationService, bulk_user_action and admin_bulk_bot_action).
TrailTellsTruth ==
    \A s \in Subjects :
        /\ s \in Persons => subject[s].active = ~subject[s].suspended
        /\ \A i \in DOMAIN audit : IsLastModeration(i, s) => audit[i].after = subject[s].suspended
        /\ (\A i \in DOMAIN audit : ~IsModeration(audit[i], s)) => ~subject[s].suspended

FreeOfficers == {s \in Officers : subject[s].active}

\* The last superadmin who can act is suspended only by one who was suspended on
\* the way: nobody may suspend himself, but a superadmin's role is looked at when
\* his request arrives and not when it commits (suspend_user, RequireSuperadmin).
LastOfficerFallsByOverlap ==
    [][FreeOfficers # {} /\ FreeOfficers' = {} =>
        \E r \in Desks : CommitBulk(r) /\ ~subject[desk[r].actor].active]_officeVars

\* The trail and the superadmins (admin_moderation_service.py).
OfficeHolds == []TrailTellsTruth /\ LastOfficerFallsByOverlap

\* What the tests of the moderation API expect: when a request to suspend or to
\* activate is answered with success, the rows it has written, and holds the locks
\* of, are so for those who come next (tests/test_admin_moderation_integration.py,
\* admin_moderation.py).
AnsweredIsDone ==
    [][\A r \in Desks : CloseOne(r) \/ (CommitBulk(r) /\ ~desk[r].broken) =>
            \A s \in desk[r].kept : held[s] = r => subject'[s].suspended = (desk[r].op = "suspend")]_officeVars

-----------------------------------------------------------------------------
(* What keeps the trail true: a request that has something to write for a row   *)
(* writes all that its action asks for, and holds an entry that says so.        *)

Ops == {"suspend", "activate"}
SubjectRow == [active : BOOLEAN, suspended : BOOLEAN]
EntryType == [action : Ops \cup {"impersonate"}, subject : Subjects, before : BOOLEAN, after : BOOLEAN]
CopiesType == UNION {[D -> SubjectRow] : D \in SUBSET Subjects}
DeskType ==
    [phase : {"next", "flush"}, kind : {"one", "bulk"}, op : Ops, actor : Officers,
     todo : Seq(Subjects \cup {Missing}), copies : CopiesType,
     columns : [Subjects -> SUBSET {"active", "suspended"}],
     entries : Seq(EntryType), kept : SUBSET (Subjects \cup {Missing}), broken : BOOLEAN]

OfficeTypeOK ==
    /\ subject \in [Subjects -> SubjectRow]
    /\ held \in [Subjects -> Desks \cup {Nobody}]
    /\ audit \in Seq(EntryType)
    /\ desk \in [Desks -> DeskType \cup {FreeDesk}]
    /\ asked \in Nat

\* The two columns of a user agree.
Agrees(s, row) == s \in Persons => row.active = ~row.suspended

\* What a request with columns to write has in its copy of the row.
WritesItsAction(q, s) ==
    q.columns[s] # {} =>
        /\ s \in DOMAIN q.copies /\ "suspended" \in q.columns[s]
        /\ s \in Persons => "active" \in q.columns[s]
        /\ q.copies[s].suspended = (q.op = "suspend")
        /\ q.op = "suspend" => s # q.actor
        /\ \E i \in DOMAIN q.entries : q.entries[i].subject = s

TellsItsAction(q, e) == e.action = q.op /\ e.after = (q.op = "suspend") /\ q.columns[e.subject] # {}

DeskOK(q) ==
    /\ \A s \in DOMAIN q.copies : Agrees(s, q.copies[s])
    /\ \A s \in Subjects : WritesItsAction(q, s)
    /\ \A i \in DOMAIN q.entries : TellsItsAction(q, q.entries[i])
    /\ q.phase = "flush" => q.todo # << >>

OfficeInv ==
    /\ OfficeTypeOK
    /\ \A r \in Desks : desk[r] # FreeDesk => DeskOK(desk[r])
    /\ TrailTellsTruth
=============================================================================
