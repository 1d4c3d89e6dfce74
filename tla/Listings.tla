------------------------------- MODULE Listings -------------------------------
(***************************************************************************)
(* The lists of the API, read page by page while their rows come, go and   *)
(* move.  A page is one statement and the total another, under READ        *)
(* COMMITTED; a client asks for the next page until the total is reached   *)
(* (the console's pagers), or follows the cursor of the leads.  Rows with  *)
(* equal keys come in any order, another one in every statement, unless    *)
(* the list breaks the tie by id.                                          *)
(***************************************************************************)
EXTENDS Naturals, FiniteSets, Sequences

CONSTANTS
    Rows,          \* ids, whose order has nothing to do with time
    PageSizes,        \* the page sizes a client asks for, all within the API's cap
    MaxChanges     \* bounds the changes of the table

ASSUME ListingsAssumption == IsFiniteSet(Rows) /\ Rows \cup PageSizes \subseteq Nat \ {0}

VARIABLES
    table,     \* id |-> [created, touched, matches], for the rows there are
    clock,
    walk,      \* [list, limit, phase, offset, after, total, shown]
    changed,   \* how many rows came, went or moved since the walk began
    steady,    \* the rows that did neither
    tied       \* did a page see two equal keys

listingVars == <<table, clock, walk, changed, steady, tied>>

-----------------------------------------------------------------------------
(* The lists: the key, the end they begin at, the tie break, and whether    *)
(* the total is counted before the page is read or after it.                *)

OffsetList(key, order, total) == [by |-> key, order |-> order, tie |-> FALSE, total |-> total]

AdminUsers == OffsetList("created", "newest", "first")
AdminBots == OffsetList("touched", "newest", "first")
AdminBilling == OffsetList("touched", "newest", "first")
AuditLogs == OffsetList("created", "newest", "first")
WebhookLogs == OffsetList("created", "newest", "first")
Campaigns_ == OffsetList("created", "newest", "first")
UserTickets == OffsetList("created", "newest", "first")
AdminTickets == OffsetList("created", "newest", "first")
OwnerLeads == OffsetList("touched", "newest", "after")
Notifications == OffsetList("created", "newest", "after")
LeadTimeline == [by |-> "created", order |-> "oldest", tie |-> TRUE, total |-> "after"]
LeadCursor == [by |-> "created", order |-> "newest", tie |-> TRUE, total |-> "none"]

Lists == {AdminUsers, AdminBots, AdminBilling, AuditLogs, WebhookLogs, Campaigns_, UserTickets, AdminTickets,
          OwnerLeads, Notifications, LeadTimeline, LeadCursor}

-----------------------------------------------------------------------------
(* One statement. *)

Listed == {id \in DOMAIN table : table[id].matches}
KeyOf(list, id) == table[id][list.by]

\* Row i comes before row j for certain.
Precedes(list, i, j) ==
    LET a == KeyOf(list, i)
        b == KeyOf(list, j)
    IN  \/ IF list.order = "newest" THEN a > b ELSE a < b
        \/ list.tie /\ a = b /\ IF list.order = "newest" THEN i > j ELSE i < j

\* The orders in which a statement may return these rows.
Orders(list, ids) ==
    {s \in [1 .. Cardinality(ids) -> ids] :
        \A p, q \in 1 .. Cardinality(ids) : p < q => s[p] # s[q] /\ ~Precedes(list, s[q], s[p])}

Page(list, offset, limit) ==
    {SubSeq(s, offset + 1, IF offset + limit < Len(s) THEN offset + limit ELSE Len(s)) : s \in Orders(list, Listed)}

\* The rows behind a cursor, which is the created_at and the id of a row.
BehindLoose(row) == {id \in Listed : table[id].created < row.created}   \* a mutant: the tie forgotten
Behind(row) ==
    {id \in Listed : \/ table[id].created < row.created
                     \/ table[id].created = row.created /\ id < row.id}

\* A cursor that is missing or cannot be decoded stands for the beginning.
NoCursor == [created |-> 0, id |-> 0]
AfterCursor(cursor) == IF cursor = NoCursor THEN Listed ELSE Behind(cursor)

-----------------------------------------------------------------------------
ListingsInit ==
    /\ clock = 1
    /\ \E ids \in SUBSET Rows : table \in [ids -> [created : 0 .. 1, touched : 0 .. 1, matches : {TRUE}]]
    /\ \A id \in DOMAIN table : table[id].created <= table[id].touched
    /\ walk = [list |-> LeadCursor, limit |-> 1, phase |-> "idle", offset |-> 0, after |-> NoCursor, total |-> 0,
               shown |-> << >>]
    /\ changed = 0 /\ steady = {} /\ tied = FALSE

Begin(list, limit) ==
    /\ walk.phase = "idle"
    /\ walk' = [walk EXCEPT !.list = list, !.limit = limit, !.phase = IF list.total = "first" THEN "count" ELSE "page"]
    /\ steady' = Listed
    /\ UNCHANGED <<table, clock, changed, tied>>

\* A pager has another page as long as the total says so.
More(offset, total) == offset + walk.limit < total
NextPhase(offset, total) == IF More(offset, total) THEN IF walk.list.total = "first" THEN "count" ELSE "page" ELSE "over"

\* The total of the admin lists, before the page.
CountFirst ==
    /\ walk.phase = "count" /\ walk.list.total = "first"
    /\ walk' = [walk EXCEPT !.total = Cardinality(Listed), !.phase = "page"]
    /\ UNCHANGED <<table, clock, changed, steady, tied>>

SeesTie == \E i, j \in Listed : i # j /\ KeyOf(walk.list, i) = KeyOf(walk.list, j)

ReadPage ==
    /\ walk.phase = "page" /\ walk.list # LeadCursor
    /\ \E page \in Page(walk.list, walk.offset, walk.limit) :
          walk' = IF walk.list.total = "first"
                  THEN [walk EXCEPT !.shown = @ \o page, !.offset = @ + walk.limit,
                                    !.phase = NextPhase(walk.offset, walk.total)]
                  ELSE [walk EXCEPT !.shown = @ \o page, !.phase = "count"]
    /\ tied' = (tied \/ (~walk.list.tie /\ SeesTie))
    /\ UNCHANGED <<table, clock, changed, steady>>

\* The total of the owner's lists, after the page.
CountAfter ==
    /\ walk.phase = "count" /\ walk.list.total = "after"
    /\ walk' = [walk EXCEPT !.total = Cardinality(Listed), !.offset = @ + walk.limit,
                            !.phase = NextPhase(walk.offset, Cardinality(Listed))]
    /\ UNCHANGED <<table, clock, changed, steady, tied>>

\* One row more than the page tells whether there is another page.
ReadCursorPage ==
    /\ walk.phase = "page" /\ walk.list = LeadCursor
    /\ LET rest == AfterCursor(walk.after)
           n == IF Cardinality(rest) > walk.limit THEN walk.limit ELSE Cardinality(rest)
       IN  \E s \in Orders(LeadCursor, rest) :
              walk' = [walk EXCEPT !.shown = @ \o SubSeq(s, 1, n),
                                   !.phase = IF Cardinality(rest) > n THEN "page" ELSE "over",
                                   !.after = IF Cardinality(rest) > n
                                             THEN [created |-> table[s[n]].created, id |-> s[n]] ELSE @]
    /\ UNCHANGED <<table, clock, changed, steady, tied>>

-----------------------------------------------------------------------------
(* What goes on beside the walk. *)

Changing == walk.phase \in {"count", "page"} /\ changed < MaxChanges

\* The time of a transaction is that of its beginning: the present one, or that
\* of a transaction that began before others that are through.
Insert(id) ==
    /\ Changing /\ id \notin DOMAIN table
    /\ clock' \in {clock, clock + 1}
    /\ \E began \in {clock', clock' - 1} :
          table' = [i \in DOMAIN table \cup {id} |->
              IF i = id THEN [created |-> began, touched |-> began, matches |-> TRUE] ELSE table[i]]
    /\ changed' = changed + 1
    /\ UNCHANGED <<walk, steady, tied>>

\* An update sets updated_at, and may take the row out of the filter or into it.
Update(id) ==
    /\ Changing /\ id \in DOMAIN table
    /\ clock' \in {clock, clock + 1}
    /\ \E matches \in BOOLEAN :
          table' = [table EXCEPT ![id].touched = clock', ![id].matches = matches]
    /\ changed' = changed + 1 /\ steady' = steady \ {id}
    /\ UNCHANGED <<walk, tied>>

Delete(id) ==
    /\ Changing /\ id \in DOMAIN table
    /\ table' = [i \in DOMAIN table \ {id} |-> table[i]]
    /\ changed' = changed + 1 /\ steady' = steady \ {id}
    /\ UNCHANGED <<clock, walk, tied>>

ListingsNext ==
    \/ \E list \in Lists, limit \in PageSizes : Begin(list, limit)
    \/ CountFirst \/ ReadPage \/ CountAfter \/ ReadCursorPage
    \/ \E id \in Rows : Insert(id) \/ Update(id) \/ Delete(id)

ListingsSpec == ListingsInit /\ [][ListingsNext]_listingVars

-----------------------------------------------------------------------------
Times(id) == Cardinality({p \in DOMAIN walk.shown : walk.shown[p] = id})
Missed == {id \in steady : Times(id) = 0}
Over == walk.phase = "over"

\* The cursor of the leads shows every row that stayed as it was once, whatever
\* comes, goes or moves beside it and however many leads were made at one moment
\* (lead_repository.list_leads_for_owner_cursor).
CursorShowsAllOnce == Over /\ walk.list = LeadCursor => \A id \in steady : Times(id) = 1

\* A pager by offset loses no more unchanged rows than there were changes, and
\* shows none of them more often than once for each change besides, unless rows
\* share a key: the total that ends it may be as old as the changes.
OffsetLosesByChangesOnly ==
    Over /\ walk.list # LeadCursor /\ ~tied =>
        /\ Cardinality(Missed) <= changed
        /\ \A id \in steady : Times(id) <= changed + 1

\* Nothing is shown that was not there, and a pager that nothing disturbed has
\* shown as many rows as it announced, even when ties made them other rows.
UndisturbedPagerIsComplete ==
    Over /\ changed = 0 =>
        /\ Len(walk.shown) = Cardinality(steady)
        /\ walk.list # LeadCursor => walk.total = Cardinality(steady)
        /\ ~tied => Missed = {}

ListingsHold == CursorShowsAllOnce /\ OffsetLosesByChangesOnly /\ UndisturbedPagerIsComplete

-----------------------------------------------------------------------------
\* The strengthening that makes ListingsHold inductive.
TableRow == [created : Nat, touched : Nat, matches : BOOLEAN]
Cursor == [created : Nat, id : Rows \cup {0}]
Walk == [list : Lists, limit : Nat \ {0}, phase : {"idle", "count", "page", "over"}, offset : Nat,
         after : Cursor, total : Nat, shown : Seq(Rows)]

ListingsTypeOK ==
    /\ table \in [DOMAIN table -> TableRow] /\ DOMAIN table \subseteq Rows
    /\ clock \in Nat \ {0} /\ changed \in Nat /\ tied \in BOOLEAN
    /\ walk \in Walk /\ steady \subseteq Listed

\* A walk that has not begun has shown nothing, and the leads are never counted.
WalkBegins ==
    /\ walk.phase = "idle" => walk.shown = << >> /\ walk.offset = 0 /\ walk.after = NoCursor /\ changed = 0 /\ ~tied
    /\ walk.phase = "count" => walk.list # LeadCursor

\* Of the rows that stayed, those behind the cursor are to come and the others were shown.
CursorParts ==
    walk.phase = "page" /\ walk.list = LeadCursor =>
        /\ \A id \in steady : Times(id) = IF id \in AfterCursor(walk.after) THEN 0 ELSE 1
        /\ changed = 0 => steady = Listed
                          /\ Len(walk.shown) + Cardinality(AfterCursor(walk.after)) = Cardinality(Listed)

\* A row's place in its list, and the place the next page begins at.
Ahead(id) == {j \in Listed : Precedes(walk.list, j, id)}
Place(id) == Cardinality(Ahead(id))
PageFront == IF walk.phase = "count" /\ walk.list.total = "after" THEN walk.offset + walk.limit ELSE walk.offset
Distinct(ids) == \A i, j \in ids : i = j \/ Precedes(walk.list, i, j) \/ Precedes(walk.list, j, i)

Paging == walk.phase \in {"count", "page"} /\ walk.list # LeadCursor

\* The rows that came before the front without being shown, and those the total will miss:
\* a change adds to one of both at most.
PassedBy == {id \in steady : Times(id) = 0 /\ Place(id) < PageFront}
Excess ==
    IF walk.list.total = "first" /\ walk.phase = "page" /\ Cardinality(Listed) > walk.total
    THEN Cardinality(Listed) - walk.total ELSE 0

LossIsPaid ==
    Paging /\ ~tied =>
        /\ PageFront > 0 => Distinct(steady)
        /\ Cardinality(PassedBy) + Excess <= changed
        /\ \A id \in steady : Times(id) + (IF Place(id) >= PageFront THEN 1 ELSE 0) <= changed + 1

Undisturbed ==
    Paging /\ changed = 0 =>
        /\ steady = Listed
        /\ Len(walk.shown) = IF PageFront < Cardinality(Listed) THEN PageFront ELSE Cardinality(Listed)
        /\ walk.list.total = "first" /\ walk.phase = "page" => walk.total = Cardinality(Listed)

ListingsInv == ListingsTypeOK /\ WalkBegins /\ CursorParts /\ LossIsPaid /\ Undisturbed /\ ListingsHold
=============================================================================
