------------------------- MODULE InvoiceLifecycle -------------------------
(***************************************************************************)
(* What the service promises about the life of an invoice, without         *)
(* requests, clients, numbers or an audit log: an invoice is created as a  *)
(* draft, moves along STATUS_MAP, is marked overdue by the batch while it  *)
(* is sent, and is deleted only while it is a draft.  A deleted invoice    *)
(* stays deleted.  Invoices, with requests served one at a time, is shown  *)
(* to implement this module.                                               *)
(***************************************************************************)
EXTENDS InvoiceStatus

CONSTANT InvoiceIds

VARIABLE status     \* the status of each invoice, or "unborn" or "gone"

Init == status = [i \in InvoiceIds |-> "unborn"]

Create(i) ==
    /\ status[i] = "unborn"
    /\ status' = [status EXCEPT ![i] = "draft"]

Move(i, new) ==
    /\ status[i] \in Status
    /\ new \in STATUS_MAP[status[i]]
    /\ status' = [status EXCEPT ![i] = new]

\* One batch marks any set of sent invoices; which ones are past due is
\* decided below this level.
MarkOverdue(S) ==
    /\ \A i \in S : status[i] = "sent"
    /\ status' = [i \in InvoiceIds |-> IF i \in S THEN "overdue" ELSE status[i]]

Delete(i) ==
    /\ status[i] = "draft"
    /\ status' = [status EXCEPT ![i] = "gone"]

Next ==
    \/ \E i \in InvoiceIds : Create(i) \/ Delete(i)
    \/ \E i \in InvoiceIds, new \in Status : Move(i, new)
    \/ \E S \in SUBSET InvoiceIds : MarkOverdue(S)

Spec == Init /\ [][Next]_status
=============================================================================
