----------------------------- MODULE OfficeCatalog -----------------------------
(***************************************************************************)
(* What superadmins keep in order beside users and bots: feature flags and *)
(* coupons, which have a unique key and an audit trail, support tickets,   *)
(* which users open and delete with their accounts, and the log of         *)
(* webhooks (the endpoints admin_feature_flags, admin_coupons, support,    *)
(* admin_support and admin_webhook_logs with their repositories).  A call  *)
(* reads a row, changes its copy and commits the columns that differ; the  *)
(* calls overlap.                                                          *)
(***************************************************************************)
EXTENDS Naturals, Sequences

CONSTANTS
    Ids,           \* of rows, never used twice
    Labels,        \* the keys of flags and the codes of coupons
    Callers,       \* the calls served at one time
    MaxCatalog     \* bounds the calls

VARIABLES
    catalog,   \* id |-> the committed row
    used,      \* the ids given out
    ledger,    \* the committed audit entries
    call,      \* the calls
    calls      \* how many there were

catalogVars == <<catalog, used, ledger, call, calls>>

Keyed == {"flag", "coupon"}
NoCall == [at |-> "idle"]
Left == "left"   \* a field the body omits

\* A flag or a coupon is on or off, for all or for some; a ticket is open or
\* resolved, of some priority, with the time it was resolved; a log entry has failed or not.
NewRow(kind, label, status, scope) == [kind |-> kind, label |-> label, status |-> status, scope |-> scope, stamped |-> FALSE]
NewTicket == NewRow("ticket", "ticket", "open", "all")

\* E-mails that belong to nobody leave a new flag without targets, for everyone,
\* and an old one as it was.
ScopeOfNew(scope) == IF scope = "some" THEN "some" ELSE "all"
ScopeOfOld(body, old) == IF body.clear THEN "all" ELSE IF body.scope = "some" THEN "some" ELSE old

\* A mutant: a ticket that is opened again loses the time.
EditedClearing(body, row) ==
    [row EXCEPT !.status = IF body.status = Left THEN @ ELSE body.status,
                !.scope = ScopeOfOld(body, @),
                !.stamped = IF body.status = Left THEN @ ELSE body.status = "resolved"]

\* The clear_* fields win over values; a ticket is stamped when it is resolved the
\* first time.
Edited(body, row) ==
    [row EXCEPT !.status = IF body.status = Left THEN @ ELSE body.status,
                !.scope = ScopeOfOld(body, @),
                !.stamped = @ \/ (row.kind = "ticket" /\ body.status = "resolved")]

-----------------------------------------------------------------------------
CatalogInit ==
    /\ catalog = << >>
    /\ used = {}
    /\ ledger = << >>
    /\ call = [c \in Callers |-> NoCall]
    /\ calls = 0

Ask(c, what) ==
    /\ call[c] = NoCall /\ calls < MaxCatalog /\ calls' = calls + 1
    /\ call' = [call EXCEPT ![c] = what]
    /\ UNCHANGED <<catalog, used, ledger>>

Bodies(statuses) == [status : statuses \cup {Left}, scope : {Left, "some", "nobody"}, clear : BOOLEAN]

CreateKeyed(c, kind, label, scope) ==
    Ask(c, [at |-> "look", op |-> "created", row |-> NewRow(kind, label, "on", ScopeOfNew(scope))])
Patch(c, id, body) == Ask(c, [at |-> "read", op |-> "updated", id |-> id, body |-> body])
PatchKeyed(c, id, body) == id \in DOMAIN catalog /\ catalog[id].kind \in Keyed /\ Patch(c, id, body)
PatchTicket(c, id, body) == id \in DOMAIN catalog /\ catalog[id].kind = "ticket" /\ ~body.clear /\ Patch(c, id, body)
RetryLog(c, id) ==
    /\ id \in DOMAIN catalog /\ catalog[id].kind = "log"
    /\ Patch(c, id, [status |-> "received", scope |-> Left, clear |-> FALSE])
DeleteKeyed(c, id) ==
    /\ id \in DOMAIN catalog /\ catalog[id].kind \in Keyed
    /\ Ask(c, [at |-> "read", op |-> "deleted", id |-> id])

EndCall(c) == call' = [call EXCEPT ![c] = NoCall]

Taken(kind, label) == \E id \in DOMAIN catalog : catalog[id].kind = kind /\ catalog[id].label = label
Inserting(kind, label) == {c \in Callers : call[c].at = "insert" /\ call[c].row.kind = kind /\ call[c].row.label = label}

\* The key is looked up; one that is taken is a conflict.
LookUpKey(c) ==
    /\ call[c].at = "look"
    /\ IF Taken(call[c].row.kind, call[c].row.label) THEN EndCall(c) ELSE call' = [call EXCEPT ![c].at = "flush"]
    /\ UNCHANGED <<catalog, used, ledger, calls>>

\* A mutant: a flush that trusts the look-up, with no unique index behind it.
FlushInsertUnchecked(c) ==
    /\ call[c].at = "flush"
    /\ call' = [call EXCEPT ![c].at = "insert"]
    /\ UNCHANGED <<catalog, used, ledger, calls>>

\* The insert waits while another transaction inserts the same key, and raises if it is there.
FlushInsert(c) ==
    LET row == call[c].row IN
    /\ call[c].at = "flush" /\ Inserting(row.kind, row.label) = {}
    /\ IF Taken(row.kind, row.label) THEN EndCall(c) ELSE call' = [call EXCEPT ![c].at = "insert"]
    /\ UNCHANGED <<catalog, used, ledger, calls>>

Put(id, row) == [i \in DOMAIN catalog \cup {id} |-> IF i = id THEN row ELSE catalog[i]]
Noted(op, id, columns) == Append(ledger, [op |-> op, id |-> id, columns |-> columns])

\* The row and its audit entry come together.  Reading it back changes nothing.
CommitInsert(c, id) ==
    /\ call[c].at = "insert" /\ id \in Ids \ used
    /\ catalog' = Put(id, call[c].row) /\ used' = used \cup {id}
    /\ ledger' = Noted("created", id, {})
    /\ EndCall(c) /\ UNCHANGED calls

\* A row that is not there is a 404, and so is a log entry that has not failed.
ReadRow(c) ==
    LET q == call[c] IN
    /\ q.at = "read"
    /\ IF q.id \notin DOMAIN catalog \/ (catalog[q.id].kind = "log" /\ catalog[q.id].status # "failed")
       THEN EndCall(c)
       ELSE call' = [call EXCEPT ![c] = [at |-> "commit", op |-> q.op, id |-> q.id, row |-> catalog[q.id],
                                         body |-> IF q.op = "updated" THEN q.body ELSE << >>]]
    /\ UNCHANGED <<catalog, used, ledger, calls>>

Columns(old, new) == {f \in DOMAIN old : old[f] # new[f]}

\* A mutant: the whole row is written, as it was read and edited.
MergedWhole(row, old, new) == new

\* The columns whose value differs from what was read are written over the row.
Merged(row, old, new) == [f \in DOMAIN row |-> IF f \in Columns(old, new) THEN new[f] ELSE row[f]]

\* An UPDATE that finds no row raises and takes the audit entry with it; without a
\* changed column there is none.  Only flags and coupons are audited.
CommitUpdate(c) ==
    LET q == call[c]
        new == Edited(q.body, q.row)
        gone == q.id \notin DOMAIN catalog
        columns == Columns(q.row, new)
    IN  /\ q.at = "commit" /\ q.op = "updated"
        /\ catalog' = IF gone \/ columns = {} THEN catalog ELSE Put(q.id, Merged(catalog[q.id], q.row, new))
        /\ ledger' = IF q.row.kind \in Keyed /\ ~(gone /\ columns # {}) THEN Noted("updated", q.id, columns) ELSE ledger
        /\ EndCall(c) /\ UNCHANGED <<used, calls>>

\* A DELETE that finds no row only warns: two of them leave two entries.
CommitDelete(c) ==
    LET q == call[c] IN
    /\ q.at = "commit" /\ q.op = "deleted"
    /\ catalog' = [i \in DOMAIN catalog \ {q.id} |-> catalog[i]]
    /\ ledger' = Noted("deleted", q.id, {})
    /\ EndCall(c) /\ UNCHANGED <<used, calls>>

\* The process dies, or the client is gone.
CallDies(c) ==
    /\ call[c] # NoCall
    /\ EndCall(c) /\ UNCHANGED <<catalog, used, ledger, calls>>

-----------------------------------------------------------------------------
\* A user opens a ticket; the ticket goes with the account.
OpenTicket(id) ==
    /\ id \in Ids \ used /\ used' = used \cup {id} /\ catalog' = Put(id, NewTicket)
    /\ UNCHANGED <<ledger, call, calls>>

DropTicket(id) ==
    /\ id \in DOMAIN catalog /\ catalog[id].kind = "ticket"
    /\ catalog' = [i \in DOMAIN catalog \ {id} |-> catalog[i]]
    /\ UNCHANGED <<used, ledger, call, calls>>

\* A webhook is logged as it ended; nothing handles it again after a retry.
LogWebhook(id, status) ==
    /\ id \in Ids \ used /\ used' = used \cup {id} /\ catalog' = Put(id, NewRow("log", "log", status, "all"))
    /\ UNCHANGED <<ledger, call, calls>>

CatalogNext ==
    \/ \E c \in Callers :
          \/ LookUpKey(c) \/ FlushInsert(c) \/ ReadRow(c) \/ CommitUpdate(c) \/ CommitDelete(c) \/ CallDies(c)
          \/ \E id \in Ids : CommitInsert(c, id) \/ DeleteKeyed(c, id) \/ RetryLog(c, id)
          \/ \E kind \in Keyed, label \in Labels, scope \in {"some", "nobody"} : CreateKeyed(c, kind, label, scope)
          \/ \E id \in Ids, body \in Bodies({"on", "off"}) : PatchKeyed(c, id, body)
          \/ \E id \in Ids, body \in Bodies({"open", "resolved"}) : PatchTicket(c, id, body)
    \/ \E id \in Ids : OpenTicket(id) \/ DropTicket(id) \/ \E status \in {"failed", "received"} : LogWebhook(id, status)

CatalogSpec == CatalogInit /\ [][CatalogNext]_catalogVars

-----------------------------------------------------------------------------
\* No two flags and no two coupons have one key, though the key is looked up well
\* before the insert (create_feature_flag, create_coupon).
KeysUnique ==
    \A i, j \in DOMAIN catalog :
        i # j /\ catalog[i].kind = catalog[j].kind /\ catalog[i].kind \in Keyed => catalog[i].label # catalog[j].label

\* A resolved ticket has the time of its resolution, whoever opened it again or
\* resolved it meanwhile (SupportTicketRepository.admin_update).
ResolvedIsStamped ==
    \A id \in DOMAIN catalog : catalog[id].kind = "ticket" /\ catalog[id].status = "resolved" => catalog[id].stamped

\* The trail of a flag or coupon begins with its creation, and once it says deleted
\* the row is gone for good and nothing follows but further deletions and updates
\* that changed nothing (log_entity_event before the commit of each endpoint).
TrailInOrder ==
    \A i \in DOMAIN ledger :
        /\ (ledger[i].op = "created") = (\A j \in DOMAIN ledger : j < i => ledger[j].id # ledger[i].id)
        /\ ledger[i].op = "deleted" =>
               /\ ledger[i].id \notin DOMAIN catalog
               /\ \A j \in DOMAIN ledger :
                     j > i /\ ledger[j].id = ledger[i].id => ledger[j].op = "deleted" \/ ledger[j].columns = {}

\* Every change of a column is one that a call asked for by name, with its value,
\* however long ago it had read the row: calls that edit different columns of one
\* row do not undo each other (FeatureFlagRepository.update, CouponRepository.update,
\* SupportTicketRepository.admin_update, WebhookLogRepository.mark_for_retry).
ChangesAreAskedFor ==
    [][\A id \in DOMAIN catalog \cap DOMAIN catalog' : \A f \in Columns(catalog[id], catalog'[id]) :
          \E c \in Callers :
              /\ call[c].at = "commit" /\ call[c].op = "updated" /\ call[c].id = id
              /\ LET body == call[c].body
                 IN  CASE f = "status" -> catalog'[id].status = body.status
                       [] f = "scope" -> body.clear \/ body.scope = "some"
                       [] f = "stamped" -> body.status = "resolved" /\ catalog'[id].stamped
                       [] OTHER -> FALSE]_catalogVars

\* The catalogue (admin_feature_flags.py, admin_coupons.py, admin_support.py,
\* admin_webhook_logs.py).
CatalogHolds == [](KeysUnique /\ ResolvedIsStamped /\ TrailInOrder) /\ ChangesAreAskedFor

-----------------------------------------------------------------------------
(* What a call under way knows: a key that is being inserted is nobody else's,  *)
(* and of the row it has read the key stays and the stamp can only come.        *)

CatalogRow ==
    [kind : Keyed \cup {"ticket", "log"}, label : Labels \cup {"ticket", "log"},
     status : {"on", "off", "open", "resolved", "failed", "received"}, scope : {"all", "some"}, stamped : BOOLEAN]
BodyType == Bodies({"on", "off", "open", "resolved", "received"})
Fields == {"kind", "label", "status", "scope", "stamped"}
LedgerEntry == [op : {"created", "updated", "deleted"}, id : Ids, columns : SUBSET Fields]

Creating == [at : {"look", "flush", "insert"}, op : {"created"}, row : CatalogRow]
Reading == [at : {"read"}, op : {"updated"}, id : Ids, body : BodyType] \cup [at : {"read"}, op : {"deleted"}, id : Ids]
Writing == [at : {"commit"}, op : {"updated"}, id : Ids, row : CatalogRow, body : BodyType]
Removing == [at : {"commit"}, op : {"deleted"}, id : Ids, row : CatalogRow, body : {<< >>}]

CatalogTypeOK ==
    /\ used \in SUBSET Ids
    /\ catalog \in UNION {[D -> CatalogRow] : D \in SUBSET used}
    /\ ledger \in Seq(LedgerEntry)
    /\ call \in [Callers -> {NoCall} \cup Creating \cup Reading \cup Writing \cup Removing]
    /\ calls \in Nat

InLedger(id) == \E i \in DOMAIN ledger : ledger[i].id = id

\* The row of the catalogue has the key of the one that was read, and its stamp.
ReadStillHolds(row, id) ==
    id \in DOMAIN catalog =>
        /\ catalog[id].kind = row.kind /\ catalog[id].label = row.label
        /\ row.stamped => catalog[id].stamped

CallFitsCatalog(q) ==
    /\ q.op = "created" => q.row.kind \in Keyed
    /\ q.at = "insert" => ~Taken(q.row.kind, q.row.label)
    /\ q.at \in {"read", "commit"} => q.id \in used
    /\ q.at = "read" /\ q.op = "deleted" => (q.id \in DOMAIN catalog => catalog[q.id].kind \in Keyed)
    /\ q.at = "commit" =>
           /\ ReadStillHolds(q.row, q.id)
           /\ q.row.kind \in Keyed => InLedger(q.id)
           /\ q.op = "deleted" => q.row.kind \in Keyed

\* A key is inserted by one transaction at a time.
OneInserts ==
    \A c, d \in Callers :
        c # d /\ call[c].at = "insert" /\ call[d].at = "insert" =>
            call[c].row.kind # call[d].row.kind \/ call[c].row.label # call[d].row.label

LedgerFits ==
    /\ \A i \in DOMAIN ledger : ledger[i].id \in used
    /\ \A id \in DOMAIN catalog : catalog[id].kind \in Keyed => InLedger(id)

CatalogInv ==
    /\ CatalogTypeOK
    /\ \A c \in Callers : call[c] # NoCall => CallFitsCatalog(call[c])
    /\ OneInserts
    /\ LedgerFits
    /\ KeysUnique /\ ResolvedIsStamped /\ TrailInOrder
=============================================================================
