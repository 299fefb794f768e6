-------------------------- MODULE MCInvoiceReports --------------------------
EXTENDS InvoiceReports

CONSTANTS u1, u2, c1, c2, deleted, notInserted, none

Line(price, quantity, rate) == [unit_price |-> price, quantity |-> quantity, vat_rate |-> rate]

\* 0.50 at 21 % is a tie, and shows when it is rounded item by item; 1.005
\* does not fit the column; no items are refused.
MCItemLists == {
    <<Line(500, 1000, 21), Line(500, 1000, 21)>>,
    <<Line(1005, 3000, 21)>>,
    <<>>}

Listing(status, order, limit) == [status |-> status, order |-> order, limit |-> limit]

MCWalks == {Listing(none, "id", 1), Listing("draft", "id", 1), Listing(none, "due_date", 1),
            Listing(none, none, none)}

MCDue == <<5, 7, 5>>
=============================================================================
