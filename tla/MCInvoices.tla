---------------------------- MODULE MCInvoices ----------------------------
(* Instances of Invoices for TLC. *)
EXTENDS Invoices, TLC

CONSTANTS r1, r2, u1, u2, c1, c2, i1, i2, n1, n2

\* Slots, invoices and numbers are interchangeable; tenants and clients are
\* too, the initial owners being arbitrary.
Symmetry ==
    Permutations(Requests) \cup Permutations(Users) \cup Permutations(ClientIds)
        \cup Permutations(InvoiceIds) \cup Permutations(Numbers)
=============================================================================
