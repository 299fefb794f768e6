--------------------------- MODULE InvoiceLedger ---------------------------
(***************************************************************************)
(* What the requests about invoices do together to the database, without   *)
(* the requests: each commit is one step here, and its guard is what is    *)
(* left, when others run in between, of the checks made before it.  An     *)
(* invoice is of its owner's client and has a number of its own; it is     *)
(* moved along STATUS_MAP from a status it has had, which the audit log    *)
(* accounts for; it is overdue only after its due date; and no row comes   *)
(* back.  Invoices is shown to implement this module, however many         *)
(* requests overlap.                                                       *)
(***************************************************************************)
EXTENDS InvoiceStatus, Naturals, Sequences

CONSTANTS Users, ClientIds, InvoiceIds, Numbers, Days, NotInserted, Deleted

VARIABLES invoices, audit, clients, today       \* as in Invoices

vars == <<invoices, audit, clients, today>>

Row == [owner : Users, client : ClientIds, number : Numbers, due : Days, status : Status]

Live(i) == invoices[i] \in Row

\* The statuses that an invoice with this log has had: the first one, those
\* it was moved to, and what the batch, which logs nothing, makes of "sent".
Moved(log) == {"draft"} \cup {log[k].new : k \in DOMAIN log}

Had(log) == Moved(log) \cup (IF "sent" \in Moved(log) THEN {"overdue"} ELSE {})

Init ==
    /\ invoices = [i \in InvoiceIds |-> NotInserted]
    /\ audit = [i \in InvoiceIds |-> <<>>]
    /\ clients \in [ClientIds -> Users]
    /\ today = 0

Create(i, row) ==
    /\ invoices[i] = NotInserted
    /\ row.status = "draft"
    /\ clients[row.client] = row.owner
    /\ \A other \in InvoiceIds : Live(other) => invoices[other].number # row.number
    /\ invoices' = [invoices EXCEPT ![i] = row]
    /\ UNCHANGED <<audit, clients, today>>

\* The status that the change starts from may be that of some time ago.
Move(i, old, new) ==
    /\ Live(i)
    /\ old \in Had(audit[i])
    /\ new \in STATUS_MAP[old]
    /\ invoices' = [invoices EXCEPT ![i] = [@ EXCEPT !.status = new]]
    /\ audit' = [audit EXCEPT ![i] = Append(@, [old |-> old, new |-> new])]
    /\ UNCHANGED <<clients, today>>

MarkOverdue(uid, S) ==
    /\ \A i \in S : /\ Live(i)
                    /\ invoices[i].owner = uid
                    /\ invoices[i].status = "sent"
                    /\ invoices[i].due < today
    /\ invoices' = [i \in InvoiceIds |-> IF i \in S
                                         THEN [invoices[i] EXCEPT !.status = "overdue"]
                                         ELSE invoices[i]]
    /\ UNCHANGED <<audit, clients, today>>

Delete(i) ==
    /\ Live(i)
    /\ invoices' = [invoices EXCEPT ![i] = Deleted]
    /\ UNCHANGED <<audit, clients, today>>

DropClient(c) ==
    /\ clients[c] # Deleted
    /\ \A i \in InvoiceIds : Live(i) => invoices[i].client # c
    /\ clients' = [clients EXCEPT ![c] = Deleted]
    /\ UNCHANGED <<invoices, audit, today>>

NewDay ==
    /\ today' = today + 1
    /\ UNCHANGED <<invoices, audit, clients>>

Next ==
    \/ \E i \in InvoiceIds, row \in Row : Create(i, row)
    \/ \E i \in InvoiceIds, old, new \in Status : Move(i, old, new)
    \/ \E uid \in Users, S \in SUBSET InvoiceIds : MarkOverdue(uid, S)
    \/ \E i \in InvoiceIds : Delete(i)
    \/ \E c \in ClientIds : DropClient(c)
    \/ NewDay

Spec == Init /\ [][Next]_vars
=============================================================================
