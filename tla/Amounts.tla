------------------------------- MODULE Amounts -------------------------------
(* The money of an invoice: the computed fields of InvoiceItemCreate and   *)
(* the columns of InvoiceItem.  Prices and quantities are in thousandths,  *)
(* amounts in hundredths, none is negative.                                *)
EXTENDS Integers, SequencesExt

\* InvoiceItemCreate, with the rates of VatRate.
Item == [unit_price : Nat, quantity : Nat, vat_rate : {12, 21}]

\* sum(): f[1] + ... + f[n].
SumTo(f, n) ==
    LET sum[k \in 0 .. n] == IF k = 0 THEN 0 ELSE sum[k - 1] + f[k]
    IN  sum[n]

\* round() of a Decimal: to the nearest, ties to even.
HalfEven(n, d) ==
    LET q == n \div d
        r == n % d IN
    IF 2 * r > d \/ (2 * r = d /\ q % 2 = 1) THEN q + 1 ELSE q

\* PostgreSQL rounds a numeric to the nearest, ties away from zero.
HalfUp(n, d) == (2 * n + d) \div (2 * d)

\* Numeric(10, 2): what the columns keep of a price or a quantity.
Kept(x) == 10 * HalfUp(x, 10)

Stored(item) == [item EXCEPT !.unit_price = Kept(@), !.quantity = Kept(@)]

subtotal(item) == HalfEven(item.unit_price * item.quantity, 10000)

\* 1 + Decimal(vat_rate / 100): the float is a little less than the rate, so
\* that a tie goes down.
total_with_vat(item) ==
    LET n == subtotal(item) * (100 + item.vat_rate) IN
    IF 2 * (n % 100) > 100 THEN n \div 100 + 1 ELSE n \div 100

\* A variant: the items are added up before they are rounded.
RoundedOnce(items) ==
    HalfEven(SumTo([k \in DOMAIN items |-> subtotal(items[k]) * (100 + items[k].vat_rate)],
                   Len(items)), 100)

\* total_amount of create_invoice.
TotalAmount(items) ==
    SumTo([k \in DOMAIN items |-> total_with_vat(items[k])], Len(items))

\* The items as they were given fit the columns.
FitsColumns(items) == \A k \in DOMAIN items : Stored(items[k]) = items[k]
=============================================================================
