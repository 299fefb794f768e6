----------------------------- MODULE Invoices -----------------------------
(***************************************************************************)
(* The invoice requests of the service: create, change status, delete,     *)
(* the overdue batch, and the deletion of a client as far as it concerns   *)
(* invoices.                                                               *)
(*                                                                         *)
(* A request is served by an asyncio task with a database session of its   *)
(* own.  Between two awaits on the database another task may run, so a     *)
(* request is a sequence of steps: one per statement whose result the code *)
(* uses later, one per commit.  PostgreSQL runs at READ COMMITTED, so a    *)
(* statement sees what has been committed by others when it starts, and a  *)
(* commit applies the statements of its transaction at once: they hold the *)
(* locks of the rows they write until then.                                *)
(*                                                                         *)
(* The module is about what one request can do to the work of another; the *)
(* text, the items and the amounts of an invoice are left out.             *)
(***************************************************************************)
EXTENDS InvoiceStatus, Naturals, Sequences

CONSTANTS
    Requests,       \* slots: the requests that are in flight at the same time
    Users,          \* tenants, named by the subject of the access token
    ClientIds,      \* primary keys of the table clients
    InvoiceIds,     \* primary keys of the table invoices; none is used twice
    Numbers,        \* values of invoice_number
    MaxDay,         \* bound: the calendar runs from day 0 to day MaxDay
    MaxAudit,       \* bound: no status change starts with more audit entries
    NotInserted,    \* the primary key has not been handed out yet
    Deleted         \* the row has been deleted

ASSUME MaxDayAssumption == MaxDay \in Nat
ASSUME MaxAuditAssumption == MaxAudit \in Nat

Days == 0 .. MaxDay

\* A row of the table invoices.
Row == [owner : Users, client : ClientIds, number : Numbers, due : Days,
        status : Status]

ASSUME MarkersAssumption ==
    /\ NotInserted \notin Row
    /\ Deleted \notin Row
    /\ Deleted # NotInserted
    /\ Deleted \notin Users

VARIABLES
    invoices,       \* the committed rows of invoices
    audit,          \* the entries of audit_log for each invoice, in order
    clients,        \* the owner of each committed row of clients, or Deleted
    today,          \* what date.today() returns
    task            \* for each slot, where its request is and what it has read

vars == <<invoices, audit, clients, today, task>>
data == <<invoices, audit, clients>>

-----------------------------------------------------------------------------
(* Rows.                                                                   *)

Live(i) == invoices[i] \in Row

\* due_date_not_in_past refuses the date.
DueInPast(due) == due < today

\* The row InvoiceRepo.create_invoice adds: the status is the column default.
NewRow(uid, client, number, due) ==
    [owner |-> uid, client |-> client, number |-> number, due |-> due,
     status |-> "draft"]

\* get_one_invoice: SELECT ... WHERE id = i AND owner_id = uid.
Visible(uid, i) == Live(i) /\ invoices[i].owner = uid

\* get_one_client: SELECT ... WHERE id = c AND owner_id = uid.
HasClient(uid, c) == clients[c] = uid

\* The unique index on invoice_number, over the invoices of every owner.
NumberTaken(number) == \E i \in InvoiceIds : Live(i) /\ invoices[i].number = number

\* A variant: no foreign key, the lookup of is_user_has_client is relied on.
ClientAssumedToExist(c) == TRUE

\* The foreign key invoices.client_id: the row of the client must exist ...
ClientExists(c) == clients[c] # Deleted

\* ... and cannot go while an invoice refers to it.
ClientInUse(c) == \E i \in InvoiceIds : Live(i) /\ invoices[i].client = c

\* A variant: any other status is accepted.
AnyStatusChange(old, new) == new # old

\* valid_status_change.
ValidStatusChange(old, new) == new \in STATUS_MAP[old]

\* draft_invoice_checker.
IsDraft(row) == row.status = "draft"

\* A variant: the batch does not filter by owner.
PastDueOfAnyone(row, uid, day) ==
    /\ row.due < day
    /\ row.status = "sent"

\* A variant: an invoice is overdue on its due date already.
DueToday(row, uid, day) ==
    /\ row.owner = uid
    /\ row.due <= day
    /\ row.status = "sent"

\* The WHERE clause of update_overdue_invoices.
PastDue(row, uid, day) ==
    /\ row.owner = uid
    /\ row.due < day
    /\ row.status = "sent"

LogEntry == [old : Status, new : Status]

\* A variant: the entry is forgotten.
LogNothing(log, old, new) == log

\* The AuditLog entry change_invoice_status adds to its transaction.
LogChange(log, old, new) == Append(log, [old |-> old, new |-> new])

-----------------------------------------------------------------------------
(* Requests.                                                               *)

Idle == [pc |-> "idle"]

\* The request has ended with this answer about the resource it names ...
Answered(on, code) == [pc |-> "answered", on |-> on, code |-> code]

\* ... or with an unhandled exception: 500, or no answer at all.
Failed == [pc |-> "failed"]

Codes == {200, 201, 204, 404, 405, 409, 422}
Resources == InvoiceIds \cup ClientIds \cup Users

\* What a request keeps between two of its steps.
InFlight ==
    [pc : {"insert"}, uid : Users, client : ClientIds, number : Numbers, due : Days]
        \cup
    [pc : {"reload", "exists_check"}, id : InvoiceIds]
        \cup
    [pc : {"set_status"}, uid : Users, id : InvoiceIds, old : Status, new : Status]
        \cup
    [pc : {"delete_row"}, uid : Users, id : InvoiceIds]
        \cup
    [pc : {"overdue_scan"}, uid : Users, day : Days]
        \cup
    [pc : {"overdue_commit"}, uid : Users, day : Days, rows : SUBSET InvoiceIds]
        \cup
    [pc : {"delete_client"}, client : ClientIds]

Tasks ==
    {Idle, Failed} \cup InFlight \cup
    [pc : {"answered"}, on : Resources, code : Codes]

\* The slot can take another request.
Free(r) == task[r].pc \in {"idle", "answered", "failed"}

Continue(r, next) == task' = [task EXCEPT ![r] = next]

Answer(r, on, code) == Continue(r, Answered(on, code))

\* No client row is lost and no invoice exists at the start.
Init ==
    /\ invoices = [i \in InvoiceIds |-> NotInserted]
    /\ audit = [i \in InvoiceIds |-> <<>>]
    /\ clients \in [ClientIds -> Users]
    /\ today = 0
    /\ task = [r \in Requests |-> Idle]

-----------------------------------------------------------------------------
(* POST /invoices/create_invoice                                           *)

\* is_user_has_client, after the validator has refused a due date in the
\* past: the client must be one of the caller's.
CreateLoad(r, uid, client, number, due) ==
    /\ Free(r)
    /\ \/ /\ DueInPast(due)
          /\ Answer(r, client, 422)
       \/ /\ ~DueInPast(due)
          /\ ~HasClient(uid, client)
          /\ Answer(r, client, 404)
       \/ /\ ~DueInPast(due)
          /\ HasClient(uid, client)
          /\ Continue(r, [pc |-> "insert", uid |-> uid, client |-> client,
                          number |-> number, due |-> due])
    /\ UNCHANGED <<data, today>>

\* The invoice and its items are inserted in one transaction; either
\* constraint makes it fail with an unhandled IntegrityError.
InsertInvoice(r) ==
    LET t == task[r] IN
    /\ t.pc = "insert"
    /\ \/ /\ ClientExists(t.client)
          /\ ~NumberTaken(t.number)
          /\ \E i \in InvoiceIds :
                /\ invoices[i] = NotInserted
                /\ invoices' = [invoices EXCEPT ![i] =
                                    NewRow(t.uid, t.client, t.number, t.due)]
                /\ Continue(r, [pc |-> "reload", id |-> i])
       \/ /\ ~ClientExists(t.client) \/ NumberTaken(t.number)
          /\ Continue(r, Failed)
          /\ UNCHANGED invoices
    /\ UNCHANGED <<audit, clients, today>>

\* The invoice is read again in a new transaction; scalar_one raises when
\* another request has deleted it in between.
ReloadInvoice(r) ==
    LET t == task[r] IN
    /\ t.pc = "reload"
    /\ Continue(r, IF Live(t.id) THEN Answered(t.id, 201) ELSE Failed)
    /\ UNCHANGED <<data, today>>

-----------------------------------------------------------------------------
(* PATCH /invoices/{invoice_id}/status                                     *)

\* invoice_getter and valid_status_change.
StatusLoad(r, uid, i, new) ==
    /\ Free(r)
    /\ Len(audit[i]) < MaxAudit
    /\ \/ /\ ~Visible(uid, i)
          /\ Answer(r, i, 404)
       \/ /\ Visible(uid, i)
          /\ ~ValidStatusChange(invoices[i].status, new)
          /\ Answer(r, i, 422)
       \/ /\ Visible(uid, i)
          /\ ValidStatusChange(invoices[i].status, new)
          /\ Continue(r, [pc |-> "set_status", uid |-> uid, id |-> i,
                          old |-> invoices[i].status, new |-> new])
    /\ UNCHANGED <<data, today>>

\* change_invoice_status: the audit entry and UPDATE ... WHERE id = i in one
\* transaction.  The UPDATE names neither the status nor a version; when the
\* row is gone SQLAlchemy raises StaleDataError and both are rolled back.
\* The answer to a commit can be lost.
SetStatus(r) ==
    LET t == task[r] IN
    /\ t.pc = "set_status"
    /\ \/ /\ Live(t.id)
          /\ invoices' = [invoices EXCEPT ![t.id] = [@ EXCEPT !.status = t.new]]
          /\ audit' = [audit EXCEPT ![t.id] = LogChange(@, t.old, t.new)]
          /\ Answer(r, t.id, 200) \/ Continue(r, Failed)
       \/ /\ ~Live(t.id)
          /\ Continue(r, Failed)
          /\ UNCHANGED <<invoices, audit>>
    /\ UNCHANGED <<clients, today>>

-----------------------------------------------------------------------------
(* DELETE /invoices/{invoice_id}                                           *)

\* invoice_getter and draft_invoice_checker.
DeleteLoad(r, uid, i) ==
    /\ Free(r)
    /\ \/ /\ ~Visible(uid, i)
          /\ Answer(r, i, 404)
       \/ /\ Visible(uid, i)
          /\ ~IsDraft(invoices[i])
          /\ Answer(r, i, 405)
       \/ /\ Visible(uid, i)
          /\ IsDraft(invoices[i])
          /\ Continue(r, [pc |-> "delete_row", uid |-> uid, id |-> i])
    /\ UNCHANGED <<data, today>>

\* DELETE ... WHERE id = i.  A row that is already gone only draws a warning.
DeleteRow(r) ==
    LET t == task[r] IN
    /\ t.pc = "delete_row"
    /\ invoices' = [invoices EXCEPT ![t.id] = Deleted]
    /\ Continue(r, [pc |-> "exists_check", id |-> t.id])
    /\ UNCHANGED <<audit, clients, today>>

\* _invoice_exist_checker: the answer is a conflict if the row is there.
ExistsCheck(r) ==
    LET t == task[r] IN
    /\ t.pc = "exists_check"
    /\ Answer(r, t.id, IF Live(t.id) THEN 409 ELSE 204)
    /\ UNCHANGED <<data, today>>

-----------------------------------------------------------------------------
(* GET /invoices/update_overdue                                            *)

\* date.today() is evaluated when the statement is built, before the session
\* gets a connection.
OverdueCall(r, uid) ==
    /\ Free(r)
    /\ Continue(r, [pc |-> "overdue_scan", uid |-> uid, day |-> today])
    /\ UNCHANGED <<data, today>>

\* The snapshot of the UPDATE finds the rows that satisfy its WHERE clause.
OverdueScan(r) ==
    LET t == task[r] IN
    /\ t.pc = "overdue_scan"
    /\ Continue(r, [pc |-> "overdue_commit", uid |-> t.uid, day |-> t.day,
                    rows |-> {i \in InvoiceIds :
                                Live(i) /\ PastDue(invoices[i], t.uid, t.day)}])
    /\ UNCHANGED <<data, today>>

\* A variant: the rows are written as the snapshot found them.
FoundPastDue(t, i) == i \in t.rows /\ Live(i)

\* READ COMMITTED evaluates the WHERE clause again on the newest version of
\* a row it had to wait for.
StillPastDue(t, i) ==
    /\ i \in t.rows
    /\ Live(i)
    /\ PastDue(invoices[i], t.uid, t.day)

\* No audit entry is written for the rows the batch changes.
OverdueCommit(r) ==
    LET t == task[r] IN
    /\ t.pc = "overdue_commit"
    /\ invoices' = [i \in InvoiceIds |->
                        IF StillPastDue(t, i)
                        THEN [invoices[i] EXCEPT !.status = "overdue"]
                        ELSE invoices[i]]
    /\ Answer(r, t.uid, 200) \/ Continue(r, Failed)
    /\ UNCHANGED <<audit, clients, today>>

-----------------------------------------------------------------------------
(* DELETE /clients/{client_id}                                             *)

\* client_getter.
ClientDeleteLoad(r, uid, c) ==
    /\ Free(r)
    /\ \/ /\ ~HasClient(uid, c)
          /\ Answer(r, c, 404)
       \/ /\ HasClient(uid, c)
          /\ Continue(r, [pc |-> "delete_client", client |-> c])
    /\ UNCHANGED <<data, today>>

\* delete_client: with an invoice left the commit fails (the flush sets its
\* client_id to NULL, or the foreign key refuses the DELETE); a row that is
\* already gone fails the version check.  Both are unhandled.
ClientDelete(r) ==
    LET t == task[r] IN
    /\ t.pc = "delete_client"
    /\ \/ /\ ClientExists(t.client)
          /\ ~ClientInUse(t.client)
          /\ clients' = [clients EXCEPT ![t.client] = Deleted]
          /\ Answer(r, t.client, 204) \/ Continue(r, Failed)
       \/ /\ ~ClientExists(t.client) \/ ClientInUse(t.client)
          /\ Continue(r, Failed)
          /\ UNCHANGED clients
    /\ UNCHANGED <<invoices, audit, today>>

-----------------------------------------------------------------------------
(* A statement fails, or the pool has no connection within 30 seconds: the *)
(* session is closed and what it has not committed is rolled back.         *)

Fail(r) ==
    /\ task[r] \in InFlight
    /\ Continue(r, Failed)
    /\ UNCHANGED <<data, today>>

\* Midnight.
NewDay ==
    /\ today < MaxDay
    /\ today' = today + 1
    /\ UNCHANGED <<data, task>>

Start(r) ==
    \E uid \in Users :
        \/ \E c \in ClientIds, n \in Numbers, due \in Days : CreateLoad(r, uid, c, n, due)
        \/ \E i \in InvoiceIds, new \in Status : StatusLoad(r, uid, i, new)
        \/ \E i \in InvoiceIds : DeleteLoad(r, uid, i)
        \/ OverdueCall(r, uid)
        \/ \E c \in ClientIds : ClientDeleteLoad(r, uid, c)

Proceed(r) ==
    \/ InsertInvoice(r) \/ ReloadInvoice(r)
    \/ SetStatus(r)
    \/ DeleteRow(r) \/ ExistsCheck(r)
    \/ OverdueScan(r) \/ OverdueCommit(r)
    \/ ClientDelete(r)

Next ==
    \/ \E r \in Requests : Start(r) \/ Proceed(r) \/ Fail(r)
    \/ NewDay

Spec == Init /\ [][Next]_vars

-----------------------------------------------------------------------------
(* What holds under every interleaving.                                    *)

\* Every variable has its type.
TypeOK ==
    /\ invoices \in [InvoiceIds -> Row \cup {NotInserted, Deleted}]
    /\ audit \in [InvoiceIds -> Seq(LogEntry)]
    /\ clients \in [ClientIds -> Users \cup {Deleted}]
    /\ today \in Days
    /\ task \in [Requests -> Tasks]

\* The audit log accounts for the status of every invoice: the status is the
\* one the last entry names, or the batch has since moved it from "sent" to
\* "overdue" without an entry.  change_invoice_status writes both in one
\* transaction so that neither a race nor a failed commit can part them.
ExplainedBy(status, log) ==
    IF log = <<>>
    THEN status = "draft"
    ELSE LET last == log[Len(log)].new IN
         \/ status = last
         \/ last = "sent" /\ status = "overdue"

AuditExplainsStatus ==
    \A i \in InvoiceIds : Live(i) => ExplainedBy(invoices[i].status, audit[i])

\* Every entry of the audit log is a transition of STATUS_MAP, even when the
\* entry was written from a status that was stale by then.
AuditEntriesLegal ==
    \A i \in InvoiceIds : \A k \in DOMAIN audit[i] :
        audit[i][k].new \in STATUS_MAP[audit[i][k].old]

\* An invoice and its client belong to the same user, and the client of an
\* invoice exists: is_user_has_client looks the client up in an earlier
\* statement than the INSERT, and the client may be deleted in between.
TenantConsistent ==
    \A i \in InvoiceIds :
        Live(i) => clients[invoices[i].client] = invoices[i].owner

\* A request changes the invoices of the user it was authenticated as and no
\* others: the writes name a row by its id alone and rely on the SELECT of an
\* earlier step, and the batch runs over the whole table.
OnlyOwnerWrites ==
    [][\A r \in Requests, i \in InvoiceIds :
            /\ task[r].pc \in {"set_status", "delete_row", "overdue_commit"}
            /\ task'[r] # task[r]
            /\ Live(i)
            /\ invoices'[i] # invoices[i]
            => task[r].uid = invoices[i].owner]_vars

\* What a request has read before it writes may be stale, but not in these
\* points: the client of a pending INSERT is the caller's or has been deleted,
\* a pending status change is one of STATUS_MAP, and the invoice a pending
\* write names is the caller's if it still exists.
PendingWriteSound(t) ==
    /\ t.pc = "insert" => clients[t.client] \in {t.uid, Deleted}
    /\ t.pc = "set_status" => t.new \in STATUS_MAP[t.old]
    /\ t.pc \in {"set_status", "delete_row"} =>
            /\ invoices[t.id] # NotInserted
            /\ Live(t.id) => invoices[t.id].owner = t.uid

PendingWritesSound == \A r \in Requests : PendingWriteSound(task[r])

\* A step that takes the status "paid" from an invoice, or deletes a paid
\* invoice, is the write of a request that read the invoice before: the batch
\* never does, whatever it saw when it started.
WritesInvoice(t, i) == t.pc \in {"set_status", "delete_row"} /\ t.id = i

PaidIsLostOnlyToStaleRequests ==
    [][\A i \in InvoiceIds :
            Live(i) /\ invoices[i].status = "paid"
                /\ ~(Live(i)' /\ invoices'[i].status = "paid")
            => \E r \in Requests :
                    WritesInvoice(task[r], i) /\ task'[r] # task[r]]_vars

Ledger == INSTANCE InvoiceLedger

\* However requests overlap, every commit is a step of InvoiceLedger: it does
\* what the checks before it allowed, on what the database has become since
\* (the repositories, which check in one statement and write in a later one).
ImplementsLedger == Ledger!Spec

\* What of a check cannot become stale: a status that was read is one that the
\* log accounts for, and a day that was today is not in the future.
StaleButSound(t) ==
    /\ t.pc = "set_status" => t.old \in Ledger!Had(audit[t.id])
    /\ t.pc \in {"overdue_scan", "overdue_commit"} => t.day <= today

StaleChecksSound == \A r \in Requests : StaleButSound(task[r])

-----------------------------------------------------------------------------
(* What holds when requests do not overlap.                                *)

\* What a handler has checked about the invoice still holds when it writes.
CheckStillHolds(t) ==
    /\ t.pc = "set_status" => Live(t.id) /\ invoices[t.id].status = t.old
    /\ t.pc = "delete_row" => Live(t.id) /\ invoices[t.id].status = "draft"

ChecksStillHold == \A r \in Requests : CheckStillHolds(task[r])

\* The life cycle of InvoiceLifecycle: the check in each handler and the
\* write it guards act as one step.
LifecycleStatus(x) ==
    IF x = NotInserted THEN "unborn" ELSE IF x = Deleted THEN "gone" ELSE x.status

Lifecycle ==
    INSTANCE InvoiceLifecycle
        WITH status <- [i \in InvoiceIds |-> LifecycleStatus(invoices[i])]

ImplementsLifecycle == Lifecycle!Spec

-----------------------------------------------------------------------------
(* What the repository says and overlapping requests can break.            *)

\* STATUS_MAP has no way out of "paid", and "Not allowed to delete invoices
\* that was sent already": a paid invoice stays as it is (schemas.py,
\* test_invoices.py, draft_invoice_checker).
PaidIsFinal ==
    [][\A i \in InvoiceIds :
            Live(i) /\ invoices[i].status = "paid"
            => Live(i)' /\ invoices'[i].status = "paid"]_vars
=============================================================================
