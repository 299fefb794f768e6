--------------------------- MODULE InvoiceStatus ---------------------------
(***************************************************************************)
(* The statuses of an invoice and the transition table of schemas.py.      *)
(* Both the abstract life cycle (InvoiceLifecycle) and the request level   *)
(* model (Invoices) are built on this table.                               *)
(***************************************************************************)

\* schemas.py, class Status.
Status == {"draft", "sent", "paid", "overdue"}

\* schemas.py, STATUS_MAP: the statuses a caller may move an invoice to.
STATUS_MAP ==
    [s \in Status |->
        CASE s = "draft"   -> {"sent", "paid", "overdue"}
          [] s = "sent"    -> {"paid", "overdue"}
          [] s = "paid"    -> {}
          [] s = "overdue" -> {"sent", "paid"}]
=============================================================================
