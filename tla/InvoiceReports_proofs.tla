----------------------- MODULE InvoiceReports_proofs -----------------------
(***************************************************************************)
(* Proofs about InvoiceReports and Amounts, for any number of users and    *)
(* creating requests, any bound on the invoices, any lists of items and    *)
(* any walks.                                                              *)
(***************************************************************************)
EXTENDS InvoiceReports, FiniteSetTheorems, SequenceTheorems, TLAPS

-----------------------------------------------------------------------------
(* Induction.                                                              *)

LEMMA LeastElement ==
    ASSUME NEW S \in SUBSET Nat, S # {}
    PROVE  \E n \in S : \A m \in S : n <= m
<1> DEFINE R == OpToRel(<, Nat)
<1>1. IsWellFoundedOn(R, Nat)
  BY NatLessThanWellFounded
<1>2. \A x, y \in Nat : <<x, y>> \in R <=> x < y
  BY DEF OpToRel
<1> HIDE DEF R
<1>3. PICK n \in S : \A m \in S : ~(<<m, n>> \in R)
  BY <1>1, WFMin
<1>4. ASSUME NEW m \in S
      PROVE  n <= m
  <2>1. m \in Nat /\ n \in Nat
    OBVIOUS
  <2>2. ~(m < n)
    BY <1>2, <1>3, <2>1
  <2> QED BY <2>1, <2>2
<1> QED BY <1>4

\* A set of naturals that has 0 and with each number the next has them all.
LEMMA InductionOnNat ==
    ASSUME NEW S \in SUBSET Nat, 0 \in S, \A n \in S : n + 1 \in S
    PROVE  S = Nat
<1> SUFFICES ASSUME S # Nat
             PROVE  FALSE
  OBVIOUS
<1>1. PICK n \in Nat \ S : \A m \in Nat \ S : n <= m
  BY LeastElement
<1>2. n # 0 /\ n - 1 \in Nat
  OBVIOUS
<1>3. n - 1 \in S
  BY <1>1, <1>2
<1> QED BY <1>2, <1>3

-----------------------------------------------------------------------------
(* Sums.                                                                   *)

\* s[k] is the sum of the first k numbers, up to n of them.
IsSum(s, f, n) ==
    s = [k \in 0 .. n |-> IF k = 0 THEN 0 ELSE s[k - 1] + f[k]]

LEMMA SumExists ==
    ASSUME NEW f, NEW n \in Nat
    PROVE  \E s : IsSum(s, f, n)
<1> DEFINE S == {m \in Nat : \E s : IsSum(s, f, m)}
<1>1. 0 \in S
  <2>1. IsSum([k \in 0 .. 0 |-> 0], f, 0)
    BY DEF IsSum
  <2> QED BY <2>1
<1>2. ASSUME NEW m \in S
      PROVE  m + 1 \in S
  <2>1. PICK s : IsSum(s, f, m)
    OBVIOUS
  <2> DEFINE t == [k \in 0 .. m + 1 |-> IF k = m + 1 THEN s[m] + f[m + 1] ELSE s[k]]
             u == [k \in 0 .. m + 1 |-> IF k = 0 THEN 0 ELSE t[k - 1] + f[k]]
  <2>2. ASSUME NEW k \in 0 .. m + 1
        PROVE  t[k] = u[k]
    <3>1. CASE k = m + 1
      BY <3>1
    <3>2. CASE k # m + 1
      <4>1. k \in 0 .. m /\ (k # 0 => k - 1 \in 0 .. m + 1 /\ k - 1 # m + 1)
        BY <3>2
      <4> QED BY <2>1, <3>2, <4>1 DEF IsSum
    <3> QED BY <3>1, <3>2
  <2>3. t = u
    BY <2>2
  <2>4. IsSum(t, f, m + 1)
    BY <2>3 DEF IsSum
  <2> QED BY <2>4
<1>3. S = Nat
  BY <1>1, <1>2, InductionOnNat
<1> QED BY <1>3

LEMMA SumsAgree ==
    ASSUME NEW f, NEW s, NEW t, NEW m \in Nat, NEW n \in Nat, m <= n,
           IsSum(s, f, m), IsSum(t, f, n)
    PROVE  s[m] = t[m]
<1> DEFINE S == {k \in Nat : k <= m => s[k] = t[k]}
<1>1. 0 \in S
  BY DEF IsSum
<1>2. ASSUME NEW k \in S
      PROVE  k + 1 \in S
  <2> SUFFICES ASSUME k + 1 <= m
               PROVE  s[k + 1] = t[k + 1]
    OBVIOUS
  <2>1. k + 1 \in 0 .. m /\ k + 1 \in 0 .. n /\ k + 1 # 0 /\ k + 1 - 1 = k
    OBVIOUS
  <2> QED BY <2>1 DEF IsSum
<1>3. S = Nat
  BY <1>1, <1>2, InductionOnNat
<1> QED BY <1>3

LEMMA SumToIsSum ==
    ASSUME NEW f, NEW n \in Nat
    PROVE  \E s : IsSum(s, f, n) /\ SumTo(f, n) = s[n]
<1> DEFINE s == CHOOSE s : IsSum(s, f, n)
<1>1. IsSum(s, f, n)
  BY SumExists
<1>2. SumTo(f, n) = s[n]
  BY DEF SumTo, IsSum
<1> QED BY <1>1, <1>2

\* What a sum is, by the number of its terms.
LEMMA SumToStep ==
    ASSUME NEW f
    PROVE  /\ SumTo(f, 0) = 0
           /\ \A n \in Nat : SumTo(f, n + 1) = SumTo(f, n) + f[n + 1]
<1>1. SumTo(f, 0) = 0
  BY SumToIsSum DEF IsSum
<1>2. ASSUME NEW n \in Nat
      PROVE  SumTo(f, n + 1) = SumTo(f, n) + f[n + 1]
  <2>1. PICK s : IsSum(s, f, n) /\ SumTo(f, n) = s[n]
    BY SumToIsSum
  <2>2. PICK t : IsSum(t, f, n + 1) /\ SumTo(f, n + 1) = t[n + 1]
    BY SumToIsSum
  <2>3. t[n + 1] = t[n] + f[n + 1]
    BY <2>2 DEF IsSum
  <2>4. s[n] = t[n]
    BY <2>1, <2>2, SumsAgree
  <2> QED BY <2>1, <2>2, <2>3, <2>4
<1> QED BY <1>1, <1>2

LEMMA SumToType ==
    ASSUME NEW n \in Nat, NEW f, \A k \in 1 .. n : f[k] \in Nat
    PROVE  SumTo(f, n) \in Nat
<1> DEFINE S == {m \in Nat : m <= n => SumTo(f, m) \in Nat}
<1>1. 0 \in S
  BY SumToStep
<1>2. ASSUME NEW m \in S
      PROVE  m + 1 \in S
  <2>1. m + 1 <= n => m + 1 \in 1 .. n
    OBVIOUS
  <2> QED BY <2>1, SumToStep
<1>3. S = Nat
  BY <1>1, <1>2, InductionOnNat
<1> QED BY <1>3

\* Sums add up term by term.
LEMMA SumToAdds ==
    ASSUME NEW n \in Nat, NEW f, NEW g, NEW h,
           \A k \in 1 .. n : f[k] \in Nat /\ g[k] \in Nat /\ h[k] = f[k] + g[k]
    PROVE  SumTo(h, n) = SumTo(f, n) + SumTo(g, n)
<1> DEFINE S == {m \in Nat : m <= n =>
                    /\ SumTo(f, m) \in Nat /\ SumTo(g, m) \in Nat
                    /\ SumTo(h, m) = SumTo(f, m) + SumTo(g, m)}
<1>1. 0 \in S
  BY SumToStep
<1>2. ASSUME NEW m \in S
      PROVE  m + 1 \in S
  <2> SUFFICES ASSUME m + 1 <= n
               PROVE  /\ SumTo(f, m + 1) \in Nat /\ SumTo(g, m + 1) \in Nat
                      /\ SumTo(h, m + 1) = SumTo(f, m + 1) + SumTo(g, m + 1)
    OBVIOUS
  <2>1. m + 1 \in 1 .. n /\ m \in Nat /\ m <= n
    OBVIOUS
  <2>2. /\ SumTo(f, m + 1) = SumTo(f, m) + f[m + 1]
        /\ SumTo(g, m + 1) = SumTo(g, m) + g[m + 1]
        /\ SumTo(h, m + 1) = SumTo(h, m) + h[m + 1]
    BY <2>1, SumToStep
  <2>3. f[m + 1] \in Nat /\ g[m + 1] \in Nat /\ h[m + 1] = f[m + 1] + g[m + 1]
    BY <2>1
  <2> QED BY <2>1, <2>2, <2>3
<1>3. S = Nat
  BY <1>1, <1>2, InductionOnNat
<1> QED BY <1>3

LEMMA SumToZero ==
    ASSUME NEW n \in Nat, NEW f, \A k \in 1 .. n : f[k] = 0
    PROVE  SumTo(f, n) = 0
<1> DEFINE S == {m \in Nat : m <= n => SumTo(f, m) = 0}
<1>1. 0 \in S
  BY SumToStep
<1>2. ASSUME NEW m \in S
      PROVE  m + 1 \in S
  <2>1. m + 1 <= n => m + 1 \in 1 .. n
    OBVIOUS
  <2> QED BY <2>1, SumToStep
<1>3. S = Nat
  BY <1>1, <1>2, InductionOnNat
<1> QED BY <1>3

-----------------------------------------------------------------------------
(* Amounts.                                                                *)

LEMMA HalfEvenType ==
    ASSUME NEW n \in Nat, NEW d \in Nat \ {0}
    PROVE  HalfEven(n, d) \in Nat
<1>1. n \div d \in Nat
  OBVIOUS
<1> QED BY <1>1 DEF HalfEven

LEMMA ItemTotalType ==
    ASSUME NEW item \in Item
    PROVE  total_with_vat(item) \in Nat
<1>1. item.unit_price \in Nat /\ item.quantity \in Nat /\ item.vat_rate \in {12, 21}
  BY DEF Item
<1>2. item.unit_price * item.quantity \in Nat
  BY <1>1
<1>3. subtotal(item) \in Nat
  BY <1>2, HalfEvenType DEF subtotal
<1>4. subtotal(item) * (100 + item.vat_rate) \in Nat
  BY <1>1, <1>3
<1>5. (subtotal(item) * (100 + item.vat_rate)) \div 100 \in Nat
  BY <1>4
<1> QED BY <1>5 DEF total_with_vat

LEMMA TotalAmountType ==
    ASSUME NEW items \in Seq(Item)
    PROVE  TotalAmount(items) \in Nat
<1> DEFINE f == [k \in DOMAIN items |-> total_with_vat(items[k])]
<1>1. Len(items) \in Nat /\ DOMAIN items = 1 .. Len(items)
      /\ \A k \in DOMAIN items : items[k] \in Item
  OBVIOUS
<1>2. \A k \in 1 .. Len(items) : f[k] \in Nat
  BY <1>1, ItemTotalType
<1> HIDE DEF f
<1>3. SumTo(f, Len(items)) \in Nat
  BY <1>1, <1>2, SumToType
<1> QED BY <1>3 DEF TotalAmount, f

\* PostgreSQL keeps prices and quantities that are not negative.
LEMMA StoredType ==
    ASSUME NEW item \in Item
    PROVE  Stored(item) \in Item
<1>1. ASSUME NEW x \in Nat
      PROVE  Kept(x) \in Nat
  BY DEF Kept, HalfUp
<1> QED BY <1>1 DEF Stored, Item

-----------------------------------------------------------------------------
(* Rounding.                                                               *)

\* What the columns have kept of an item they keep as it is: the items that
\* are read back, and sent again as those of another invoice, fit the columns.
LEMMA KeptTwice ==
    ASSUME NEW x \in Nat
    PROVE  Kept(Kept(x)) = Kept(x)
  BY DEF Kept, HalfUp

LEMMA StoredFits ==
    ASSUME NEW items \in Seq(Item)
    PROVE  FitsColumns([k \in DOMAIN items |-> Stored(items[k])])
<1>1. ASSUME NEW item \in Item
      PROVE  /\ Stored(item).unit_price = Kept(item.unit_price)
             /\ Stored(item).quantity = Kept(item.quantity)
             /\ Stored(item).vat_rate = item.vat_rate
  BY DEF Stored, Item
<1>2. ASSUME NEW item \in Item
      PROVE  Stored(Stored(item)) = Stored(item)
  <2> DEFINE kept == Stored(item)
             again == Stored(kept)
  <2>1. /\ kept \in Item /\ item.unit_price \in Nat /\ item.quantity \in Nat
        /\ kept.unit_price = Kept(item.unit_price) /\ kept.quantity = Kept(item.quantity)
    BY <1>1, StoredType DEF Item
  <2> HIDE DEF kept
  <2>2. /\ again \in Item /\ again.vat_rate = kept.vat_rate
        /\ again.unit_price = Kept(kept.unit_price) /\ again.quantity = Kept(kept.quantity)
    BY <1>1, <2>1, StoredType
  <2> HIDE DEF again
  <2>3. again.unit_price = kept.unit_price /\ again.quantity = kept.quantity
    BY <2>1, <2>2, KeptTwice
  <2>4. again = kept
    BY <2>1, <2>2, <2>3 DEF Item
  <2> QED BY <2>4 DEF kept, again
<1>3. \A k \in DOMAIN items : items[k] \in Item
  OBVIOUS
<1> QED BY <1>2, <1>3 DEF FitsColumns

\* A price times a quantity with VAT, in hundred-millionths.
Exact(item) == item.unit_price * item.quantity * (100 + item.vat_rate)

ExactAmount(items) == SumTo([k \in DOMAIN items |-> Exact(items[k])], Len(items))

\* The most that the two roundings of an item take or add, in the same unit:
\* half a hundredth before VAT, and half a hundredth after.
Slack == 1105000

\* An amount in hundredths is that in hundred-millionths but for e of these.
Near(amount, exact, e) ==
    1000000 * amount <= exact + e /\ exact <= 1000000 * amount + e

LEMMA HalfEvenIsNearest ==
    ASSUME NEW n \in Nat
    PROVE  /\ HalfEven(n, 10000) \in Nat
           /\ 10000 * HalfEven(n, 10000) <= n + 5000
           /\ n <= 10000 * HalfEven(n, 10000) + 5000
<1> DEFINE q == n \div 10000
           r == n % 10000
<1>1. q \in Nat /\ r \in 0 .. 9999 /\ n = 10000 * q + r
  BY SMTT(30)
<1>2. HalfEven(n, 10000) = IF 2 * r > 10000 \/ (2 * r = 10000 /\ q % 2 = 1) THEN q + 1 ELSE q
  BY SMTT(30) DEF HalfEven
<1> HIDE DEF q, r
<1>3. CASE HalfEven(n, 10000) = q + 1 /\ 2 * r >= 10000
  BY <1>1, <1>3, SMTT(30)
<1>4. CASE HalfEven(n, 10000) = q /\ 2 * r <= 10000
  BY <1>1, <1>4, SMTT(30)
<1> QED BY <1>1, <1>2, <1>3, <1>4

LEMMA ItemIsClose ==
    ASSUME NEW item \in Item
    PROVE  /\ Exact(item) \in Nat /\ total_with_vat(item) \in Nat
           /\ Near(total_with_vat(item), Exact(item), Slack)
<1> DEFINE n == item.unit_price * item.quantity
           s == subtotal(item)
           t == total_with_vat(item)
           v == 100 + item.vat_rate
           w == s * v
<1>1. n \in Nat /\ v \in {112, 121}
  <2>1. item.unit_price \in Nat /\ item.quantity \in Nat /\ item.vat_rate \in {12, 21}
    BY DEF Item
  <2> QED BY <2>1
<1>2. s \in Nat /\ 10000 * s <= n + 5000 /\ n <= 10000 * s + 5000
  BY <1>1, HalfEvenIsNearest DEF subtotal
<1>3. Exact(item) = n * v
  BY DEF Exact
<1>4. t = IF 2 * (w % 100) > 100 THEN w \div 100 + 1 ELSE w \div 100
  BY DEF total_with_vat
<1> HIDE DEF n, s, t
<1>5. w \in Nat
  BY <1>1, <1>2
<1> HIDE DEF w
<1>6. t \in Nat /\ 100 * t <= w + 50 /\ w <= 100 * t + 50
  BY <1>4, <1>5
<1> USE DEF w
<1>7. CASE v = 112
  BY <1>1, <1>2, <1>3, <1>6, <1>7, SMTT(60) DEF Near, Slack, t
<1>8. CASE v = 121
  BY <1>1, <1>2, <1>3, <1>6, <1>8, SMTT(60) DEF Near, Slack, t
<1> QED BY <1>1, <1>7, <1>8

LEMMA CloseAdds ==
    ASSUME NEW a \in Nat, NEW b \in Nat, NEW c \in Nat, NEW d \in Nat,
           NEW e \in Nat, NEW slack \in Nat,
           Near(a, b, e), Near(c, d, slack)
    PROVE  a + c \in Nat /\ b + d \in Nat /\ Near(a + c, b + d, e + slack)
  BY SMTT(30) DEF Near

\* The amount of an invoice is at most 1.105 hundredths for each item from
\* what prices, quantities and rates come to without any rounding, whatever
\* the items are (create_invoice, subtotal and total_with_vat).
THEOREM TotalAmountIsClose ==
    ASSUME NEW items \in Seq(Item)
    PROVE  Near(TotalAmount(items), ExactAmount(items), Slack * Len(items))
<1> DEFINE f == [k \in DOMAIN items |-> total_with_vat(items[k])]
           g == [k \in DOMAIN items |-> Exact(items[k])]
           n == Len(items)
           Close(m) == /\ SumTo(f, m) \in Nat /\ SumTo(g, m) \in Nat
                       /\ Near(SumTo(f, m), SumTo(g, m), Slack * m)
           S == {m \in Nat : m <= n => Close(m)}
<1>1. n \in Nat /\ \A k \in 1 .. n : items[k] \in Item /\ k \in DOMAIN items
  OBVIOUS
<1>2. \A k \in 1 .. n : f[k] = total_with_vat(items[k]) /\ g[k] = Exact(items[k])
  BY <1>1
<1> HIDE DEF f, g, n, Close
<1>3. \A k \in 1 .. n : f[k] \in Nat /\ g[k] \in Nat /\ Near(f[k], g[k], Slack)
  BY <1>1, <1>2, ItemIsClose
<1>4. 0 \in S
  BY SumToStep, SMTT(30) DEF Close, Near, Slack
<1>5. ASSUME NEW m \in S
      PROVE  m + 1 \in S
  <2> SUFFICES ASSUME m + 1 <= n
               PROVE  Close(m + 1)
    OBVIOUS
  <2>1. m \in Nat /\ m + 1 \in 1 .. n /\ Close(m)
    BY <1>1
  <2>2. SumTo(f, m + 1) = SumTo(f, m) + f[m + 1] /\ SumTo(g, m + 1) = SumTo(g, m) + g[m + 1]
    BY <2>1, SumToStep
  <2>3. f[m + 1] \in Nat /\ g[m + 1] \in Nat /\ Near(f[m + 1], g[m + 1], Slack)
    BY <1>3, <2>1
  <2>4. Slack * (m + 1) = Slack * m + Slack /\ Slack * m \in Nat /\ Slack \in Nat
    BY <2>1, SMTT(30) DEF Slack
  <2>5. PICK a, b, c, d, e : /\ a = SumTo(f, m) /\ b = SumTo(g, m) /\ e = Slack * m
                             /\ c = f[m + 1] /\ d = g[m + 1]
    OBVIOUS
  <2>6. a + c \in Nat /\ b + d \in Nat /\ Near(a + c, b + d, e + Slack)
    <3>1. a \in Nat /\ b \in Nat /\ e \in Nat /\ Near(a, b, e)
      BY <2>1, <2>4, <2>5 DEF Close
    <3>2. c \in Nat /\ d \in Nat /\ Near(c, d, Slack)
      BY <2>3, <2>5
    <3> QED BY <2>4, <3>1, <3>2, CloseAdds
  <2> QED BY <2>2, <2>4, <2>5, <2>6 DEF Close
<1>6. n \in S
  <2>1. S = Nat
    BY <1>4, <1>5, InductionOnNat
  <2> QED BY <1>1, <2>1
<1> QED BY <1>1, <1>6 DEF TotalAmount, ExactAmount, Close, f, g, n

-----------------------------------------------------------------------------
(* Types.                                                                  *)

Making == {"groups", "walk", "page"}

Free == [pc |-> "free"]

Tasks == [pc : {"free"}]
         \cup [pc : {"flushed", "itemized"}, id : Ids, owner : Users, items : ItemLists]

ReadingOK ==
    \E S \in SUBSET Status : reading \in Reports([S -> [count : Nat, total : Nat]])

LEMMA LiveIsRow ==
    ASSUME TypeOK, NEW i \in Ids, Live(i)
    PROVE  invoices[i] \in Row
  BY DEF TypeOK, Live

\* What a write leaves of the report that is being made.
LEMMA WriteReport ==
    ASSUME TypeOK, NEW gone \in SUBSET Ids, Writes(gone),
           NEW u, NEW status, reading.pc \in Making => u = reading.uid /\ status = reading.status
    PROVE  /\ ReadingOK'
           /\ reading'.pc = reading.pc
           /\ reading.pc \notin Making => reading' = reading
           /\ reading.pc \in Making =>
                 reading' = [reading EXCEPT
                        !.quiet = FALSE,
                        !.moved = @ \/ Moved(Selected(u, status), Selected(u, status)'),
                        !.always = @ \cap Selected(u, status)',
                        !.gone = @ \cup gone]
<1>1. CASE reading.pc \notin Making
  BY <1>1 DEF Writes, Making, TypeOK, ReadingOK
<1>2. CASE reading.pc \in Making
  <2> DEFINE before == Selected(u, status)
             after == Selected(u, status)'
             new == [reading EXCEPT !.quiet = FALSE, !.moved = @ \/ Moved(before, after),
                                    !.always = @ \cap after, !.gone = @ \cup gone]
  <2>1. reading' = new
    BY <1>2 DEF Writes, Making
  <2>2. PICK S \in SUBSET Status : reading \in Reports([S -> [count : Nat, total : Nat]])
    BY DEF TypeOK
  <2>3. (reading.moved \/ Moved(before, after)) \in BOOLEAN
    OBVIOUS
  <2> HIDE DEF before, after
  <2>4. new \in Reports([S -> [count : Nat, total : Nat]]) /\ new.pc = reading.pc
    BY <1>2, <2>2, <2>3 DEF Reports, Listings, NoReport, Making
  <2> QED BY <1>2, <2>1, <2>2, <2>4 DEF ReadingOK, before, after
<1> QED BY <1>1, <1>2

LEMMA IsListing ==
    ASSUME TypeOK, reading.pc \in {"walk", "page", "walked"}
    PROVE  reading \in Listings
  BY DEF TypeOK, Reports, NoReport

LEMMA IdSets ==
    ASSUME NEW S \in SUBSET Ids
    PROVE  IsFiniteSet(S) /\ Cardinality(S) \in Nat
<1>1. IsFiniteSet(Ids)
  BY InvoiceReportsAssumption, FS_Interval DEF Ids
<1> QED BY <1>1, FS_Subset, FS_CardinalityType

LEMMA SelectedOf ==
    ASSUME TypeOK, NEW u
    PROVE  /\ Of(u) \subseteq Ids
           /\ \A i \in Of(u) : Live(i) /\ invoices[i] \in Row
           /\ \A status : Selected(u, status) \subseteq Of(u)
  BY LiveIsRow DEF Of, Selected

\* The sum of the rows that a statement selects.
Amount(S) == [i \in Ids |-> IF i \in S THEN invoices[i].total_amount ELSE 0]

LEMMA AmountType ==
    ASSUME TypeOK, NEW S \in SUBSET Ids, \A i \in S : Live(i)
    PROVE  /\ \A i \in 1 .. MaxId : Amount(S)[i] \in Nat
           /\ SumOf(S) = SumTo(Amount(S), MaxId)
           /\ SumOf(S) \in Nat
<1>1. ASSUME NEW i \in 1 .. MaxId
      PROVE  Amount(S)[i] \in Nat
  <2>1. i \in S => invoices[i].total_amount \in Nat
    BY LiveIsRow DEF Row
  <2> QED BY <2>1 DEF Amount, Ids
<1>2. SumOf(S) = SumTo(Amount(S), MaxId)
  BY DEF SumOf, Amount
<1> QED BY <1>1, <1>2, SumToType, InvoiceReportsAssumption

\* The rows of a listing, in the order in which they come.
LEMMA OrderedType ==
    ASSUME NEW S \in SUBSET Ids, NEW order, NEW rows \in Ordered(S, order)
    PROVE  /\ rows \in Seq(Ids)
           /\ Len(rows) = Cardinality(S)
           /\ ToSet(rows) = S
           /\ \A k \in 1 .. Len(rows) : rows[k] \in S
<1>1. Cardinality(S) \in Nat
  BY IdSets
<1>2. rows \in [1 .. Cardinality(S) -> S] /\ ToSet(rows) = S
  BY DEF Ordered
<1> HIDE DEF Ids
<1> QED BY <1>1, <1>2

LEMMA PageType ==
    ASSUME NEW rows \in Seq(Ids), NEW limit \in {None} \cup (Nat \ {0}), NEW offset \in Nat
    PROVE  /\ Page(rows, limit, offset) \in Seq(Ids)
           /\ limit = None => Len(Page(rows, limit, offset))
                              = IF offset < Len(rows) THEN Len(rows) - offset ELSE 0
           /\ limit # None => Len(Page(rows, limit, offset))
                              = IF offset + limit <= Len(rows) THEN limit
                                ELSE IF offset < Len(rows) THEN Len(rows) - offset ELSE 0
           /\ \A k \in 1 .. Len(Page(rows, limit, offset)) :
                 /\ offset + k \in 1 .. Len(rows)
                 /\ Page(rows, limit, offset)[k] = rows[offset + k]
<1> DEFINE m == offset + 1
           n == IF limit = None \/ offset + limit > Len(rows) THEN Len(rows) ELSE offset + limit
<1>1. Len(rows) \in Nat /\ \A i \in 1 .. Len(rows) : rows[i] \in Ids
  BY LenProperties, ElementOfSeq
<1>2. m \in Nat /\ n \in Nat /\ n <= Len(rows) /\ m >= 1
  BY <1>1
<1>3. \A i \in m .. n : rows[i] \in Ids
  BY <1>1, <1>2
<1>4. Page(rows, limit, offset) = SubSeq(rows, m, n)
  BY DEF Page
<1>5. /\ SubSeq(rows, m, n) \in Seq(Ids)
      /\ Len(SubSeq(rows, m, n)) = IF m <= n THEN n - m + 1 ELSE 0
      /\ \A k \in 1 .. n - m + 1 : SubSeq(rows, m, n)[k] = rows[m + k - 1]
  <2> HIDE DEF m, n
  <2> QED BY <1>2, <1>3, SubSeqProperties
<1> HIDE DEF Ids
<1>6. \A k \in 1 .. Len(Page(rows, limit, offset)) :
          offset + k \in 1 .. Len(rows) /\ Page(rows, limit, offset)[k] = rows[offset + k]
  <2> HIDE DEF n
  <2> QED BY <1>1, <1>2, <1>4, <1>5
<1>7. limit = None => n = Len(rows)
  OBVIOUS
<1>8. limit # None => /\ limit \in Nat \ {0}
                     /\ n = IF offset + limit > Len(rows) THEN Len(rows) ELSE offset + limit
  OBVIOUS
<1>9. Len(Page(rows, limit, offset)) = IF offset < n THEN n - offset ELSE 0
  <2> HIDE DEF n
  <2> QED BY <1>2, <1>4, <1>5
<1> HIDE DEF n
<1> QED BY <1>1, <1>2, <1>4, <1>5, <1>6, <1>7, <1>8, <1>9

LEMMA GroupsType ==
    ASSUME TypeOK, NEW u
    PROVE  \E S \in SUBSET Status :
              [s \in {invoices[i].status : i \in Of(u)} |->
                  [count |-> Cardinality(Selected(u, s)), total |-> SumOf(Selected(u, s))]]
              \in [S -> [count : Nat, total : Nat]]
<1> DEFINE S == {invoices[i].status : i \in Of(u)}
<1>1. S \in SUBSET Status
  BY SelectedOf DEF Row
<1>2. ASSUME NEW s \in S
      PROVE  Cardinality(Selected(u, s)) \in Nat /\ SumOf(Selected(u, s)) \in Nat
  <2>1. Selected(u, s) \in SUBSET Ids /\ \A i \in Selected(u, s) : Live(i)
    BY SelectedOf
  <2> QED BY <2>1, IdSets, AmountType
<1> QED BY <1>1, <1>2

\* Where the invoices and the report stay as they are.
LEMMA CreationType ==
    ASSUME TypeOK, NEW c \in Creations, CreateItems(c) \/ CreateFail(c)
    PROVE  TypeOK'
<1>1. creation' \in [Creations -> Tasks]
  <2>1. creation \in [Creations -> Tasks]
    BY DEF TypeOK, Tasks
  <2>2. ASSUME CreateItems(c)
        PROVE  creation' \in [Creations -> Tasks]
    <3>1. creation[c] \in [pc : {"flushed"}, id : Ids, owner : Users, items : ItemLists]
      BY <2>1, <2>2 DEF CreateItems, Tasks
    <3>2. [creation[c] EXCEPT !.pc = "itemized"] \in Tasks /\ [pc |-> "free"] \in Tasks
      BY <3>1 DEF Tasks
    <3>3. creation' = [creation EXCEPT ![c] = IF creation[c].items = <<>> THEN [pc |-> "free"]
                                              ELSE [creation[c] EXCEPT !.pc = "itemized"]]
      BY <2>2 DEF CreateItems
    <3> QED BY <2>1, <3>2, <3>3
  <2>3. ASSUME CreateFail(c)
        PROVE  creation' \in [Creations -> Tasks]
    BY <2>1, <2>3 DEF CreateFail, Tasks
  <2> QED BY <2>2, <2>3
<1>2. UNCHANGED <<invoices, next_id, reading>>
  BY DEF CreateItems, CreateFail
<1> QED BY <1>1, <1>2 DEF TypeOK, Tasks, Reports

LEMMA NewRow ==
    ASSUME TypeOK, NEW c \in Creations, CreateCommit(c)
    PROVE  /\ creation[c].id \in Ids
           /\ creation[c].items \in Seq(Item)
           /\ invoices'[creation[c].id] \in Row
           /\ invoices'[creation[c].id].total_amount = TotalAmount(creation[c].items)
           /\ invoices'[creation[c].id].invoice_items
              = [k \in DOMAIN creation[c].items |-> Stored(creation[c].items[k])]
           /\ invoices'[creation[c].id].exact = FitsColumns(creation[c].items)
           /\ \A i \in Ids \ {creation[c].id} : invoices'[i] = invoices[i]
           /\ invoices' \in [Ids -> Row \cup {Deleted, NotInserted}]
<1> DEFINE items == creation[c].items
           stored == [k \in DOMAIN items |-> Stored(items[k])]
           row == [owner |-> creation[c].owner, status |-> "draft",
                   total_amount |-> TotalAmount(items), invoice_items |-> stored,
                   exact |-> FitsColumns(items)]
<1>1. creation[c] \in [pc : {"itemized"}, id : Ids, owner : Users, items : ItemLists]
  BY DEF TypeOK, CreateCommit, CommitsFrom
<1>2. items \in Seq(Item) /\ creation[c].id \in Ids /\ creation[c].owner \in Users
  BY <1>1, InvoiceReportsAssumption
<1>3. stored \in Seq(Item)
  <2>1. \A k \in DOMAIN items : Stored(items[k]) \in Item
    BY <1>2, StoredType
  <2> QED BY <1>2, <2>1
<1>4. TotalAmount(items) \in Nat
  BY <1>2, TotalAmountType
<1>5. FitsColumns(items) \in BOOLEAN
  BY DEF FitsColumns
<1>6. invoices' = [invoices EXCEPT ![creation[c].id] = row]
  BY <1>1 DEF CreateCommit
<1>7. row \in Row
  <2> HIDE DEF items, stored
  <2> QED BY <1>2, <1>3, <1>4, <1>5 DEF Row, Status, items
<1> HIDE DEF Ids
<1> QED BY <1>2, <1>6, <1>7 DEF TypeOK

\* The writes that are committed, what they leave of the rows and which of
\* them they delete.
LEMMA CommittedRows ==
    ASSUME TypeOK, NEW i \in Ids, Delete(i) \/ \E new \in NewStatuses : ChangeStatus(i, new)
    PROVE  /\ invoices' \in [Ids -> Row \cup {Deleted, NotInserted}]
           /\ \A j \in Ids \ {i} : invoices'[j] = invoices[j]
           /\ UNCHANGED <<next_id, creation>>
           /\ \/ Delete(i) /\ Writes({i})
              \/ /\ Writes({})
                 /\ invoices'[i] \in Row
                 /\ invoices'[i].total_amount = invoices[i].total_amount
                 /\ invoices'[i].invoice_items = invoices[i].invoice_items
                 /\ invoices'[i].exact = invoices[i].exact
<1>1. CASE Delete(i)
  BY <1>1 DEF Delete, TypeOK
<1>2. ASSUME NEW new \in NewStatuses, ChangeStatus(i, new)
      PROVE  /\ invoices'[i] \in Row
             /\ invoices' = [invoices EXCEPT ![i] = invoices'[i]]
             /\ invoices'[i].total_amount = invoices[i].total_amount
             /\ invoices'[i].invoice_items = invoices[i].invoice_items
             /\ invoices'[i].exact = invoices[i].exact
  <2>1. invoices[i] \in Row
    BY <1>2, LiveIsRow DEF ChangeStatus
  <2>2. [invoices[i] EXCEPT !.status = new] \in Row
    BY <2>1, InvoiceReportsAssumption DEF Row
  <2>3. invoices' = [invoices EXCEPT ![i] = [invoices[i] EXCEPT !.status = new]]
    BY <1>2 DEF ChangeStatus
  <2> QED BY <2>1, <2>2, <2>3 DEF TypeOK, Row
<1>3. CASE \E new \in NewStatuses : ChangeStatus(i, new)
  BY <1>2, <1>3 DEF ChangeStatus, TypeOK
<1> QED BY <1>1, <1>3

\* The steps of a report change nothing else.
ReportSteps ==
    \/ \E u \in Readers : StatsGroups(u) \/ \E walk \in Walks : WalkBegin(u, walk)
    \/ StatsTotals \/ PageSelect \/ PageItems \/ Finish

LEMMA ReportType ==
    ASSUME TypeOK, ReportSteps
    PROVE  ReadingOK' /\ UNCHANGED <<invoices, next_id, creation>>
<1>1. ASSUME NEW u \in Readers, StatsGroups(u)
      PROVE  ReadingOK'
  <2> DEFINE groups == [s \in {invoices[i].status : i \in Of(u)} |->
                 [count |-> Cardinality(Selected(u, s)), total |-> SumOf(Selected(u, s))]]
  <2>1. PICK S \in SUBSET Status : groups \in [S -> [count : Nat, total : Nat]]
    BY GroupsType
  <2>2. reading' = [pc |-> "groups", uid |-> u, status |-> None, quiet |-> TRUE,
                    moved |-> FALSE, always |-> {}, gone |-> {}, by_status |-> groups]
    BY <1>1 DEF StatsGroups
  <2> HIDE DEF groups
  <2>3. reading' \in Reports([S -> [count : Nat, total : Nat]])
    BY <2>1, <2>2, InvoiceReportsAssumption DEF Reports
  <2> QED BY <2>3 DEF ReadingOK
<1>2. ASSUME NEW u \in Readers, NEW walk \in Walks, WalkBegin(u, walk)
      PROVE  ReadingOK'
  <2>1. Selected(u, walk.status) \in SUBSET Ids
    BY SelectedOf
  <2>2. walk.status \in Status \cup {None} /\ walk.order \in {"id", "due_date", None}
        /\ walk.limit \in {None} \cup (Nat \ {0})
    BY InvoiceReportsAssumption DEF Walk
  <2>3. <<>> \in Seq(Ids) /\ u \in Users
    BY InvoiceReportsAssumption
  <2>4. reading' \in Listings
    BY <1>2, <2>1, <2>2, <2>3 DEF WalkBegin, Listings
  <2> QED BY <2>4 DEF ReadingOK, Reports
<1>3. ASSUME StatsTotals
      PROVE  ReadingOK'
  <2>1. PICK S \in SUBSET Status : reading \in Reports([S -> [count : Nat, total : Nat]])
    BY DEF TypeOK
  <2>2. reading.pc = "groups"
    BY <1>3 DEF StatsTotals
  <2>3. reading.quiet \in BOOLEAN /\ reading.by_status \in [S -> [count : Nat, total : Nat]]
    BY <2>1, <2>2 DEF Reports, Listings, NoReport
  <2>4. Cardinality(CountedFor(reading.uid)) \in Nat /\ SumOf(CountedFor(reading.uid)) \in Nat
    BY SelectedOf, IdSets, AmountType DEF CountedFor
  <2>5. reading' \in Reports([S -> [count : Nat, total : Nat]])
    BY <1>3, <2>3, <2>4 DEF StatsTotals, Reports
  <2> QED BY <2>5 DEF ReadingOK
<1>4. ASSUME PageSelect
      PROVE  ReadingOK'
  <2>1. reading \in Listings
    BY <1>4, IsListing DEF PageSelect
  <2>3. PICK rows \in Ordered(Selected(reading.uid, reading.status), reading.order) :
            reading' = [reading EXCEPT !.pc = "page",
                                       !.page = Page(rows, reading.limit, reading.offset)]
    BY <1>4 DEF PageSelect
  <2>4. reading.limit \in {None} \cup (Nat \ {0}) /\ reading.offset \in Nat
    BY <2>1 DEF Listings
  <2>5. Page(rows, reading.limit, reading.offset) \in Seq(Ids)
    BY <2>3, <2>4, SelectedOf, OrderedType, PageType
  <2>6. reading' \in Listings
    BY <2>1, <2>3, <2>5 DEF Listings
  <2> QED BY <2>6 DEF ReadingOK, Reports
<1>5. ASSUME PageItems
      PROVE  ReadingOK'
  <2>1. reading \in Listings
    BY <1>5, IsListing DEF PageItems
  <2> DEFINE page == reading.page
             hollow == {i \in ToSet(page) : ~Live(i) \/ invoices[i].invoice_items = <<>>}
             full == reading.limit # None /\ Len(page) = reading.limit
             next == IF full THEN "walk" ELSE "walked"
             met == reading.met \o page
             all == reading.hollow \cup hollow
             offset == reading.offset + Len(page)
  <2>3. page \in Seq(Ids) /\ reading.met \in Seq(Ids) /\ reading.offset \in Nat
        /\ reading.hollow \in SUBSET Ids
    BY <2>1 DEF Listings
  <2>4. reading.met \o page \in Seq(Ids) /\ Len(page) \in Nat /\ <<>> \in Seq(Ids)
    BY <2>3, ConcatProperties
  <2>5. hollow \in SUBSET Ids
    BY <2>3 DEF ToSet
  <2>6. reading' = [reading EXCEPT !.pc = next, !.met = met, !.hollow = all,
                                   !.offset = offset, !.page = <<>>]
    BY <1>5 DEF PageItems
  <2>7. next \in {"walk", "walked"} /\ met \in Seq(Ids) /\ all \in SUBSET Ids /\ offset \in Nat
    BY <2>3, <2>4, <2>5
  <2> HIDE DEF page, hollow, full, next, met, all, offset
  <2>8. reading' \in Listings
    BY <2>1, <2>4, <2>6, <2>7 DEF Listings
  <2> QED BY <2>8 DEF ReadingOK, Reports
<1>6. ASSUME Finish
      PROVE  ReadingOK'
  BY <1>6 DEF Finish, ReadingOK, Reports
<1> QED BY <1>1, <1>2, <1>3, <1>4, <1>5, <1>6
        DEF ReportSteps, StatsGroups, WalkBegin, StatsTotals, PageSelect, PageItems, Finish

\* Every variable of InvoiceReports keeps its type, and an amount is a number
\* that is not negative, whatever items are sent.
THEOREM TypeCorrect == Spec => []TypeOK
<1>1. Init => TypeOK
  <2>1. NoReport \in Reports([{} -> [count : Nat, total : Nat]])
    BY DEF Reports
  <2>2. ASSUME Init
        PROVE  \E S \in SUBSET Status : reading \in Reports([S -> [count : Nat, total : Nat]])
    BY <2>1, <2>2 DEF Init
  <2>3. Init => creation \in [Creations -> Tasks]
    BY DEF Init, Tasks
  <2>4. Init => /\ invoices \in [Ids -> Row \cup {Deleted, NotInserted}]
                /\ next_id \in Nat \ {0}
    BY DEF Init
  <2> QED BY <2>2, <2>3, <2>4 DEF TypeOK, Tasks
<1>2. TypeOK /\ [Next]_vars => TypeOK'
  <2> SUFFICES ASSUME TypeOK, [Next]_vars
               PROVE  TypeOK'
    OBVIOUS
  <2>1. ASSUME NEW c \in Creations, NEW u \in Users, NEW items \in ItemLists,
               CreateFlush(c, u, items)
        PROVE  TypeOK'
    <3>1. next_id \in Ids /\ next_id + 1 \in Nat \ {0}
      BY <2>1, InvoiceReportsAssumption DEF CreateFlush, TypeOK, Ids
    <3> QED BY <2>1, <3>1 DEF CreateFlush, TypeOK
  <2>2. ASSUME NEW c \in Creations, CreateItems(c) \/ CreateFail(c)
        PROVE  TypeOK'
    BY <2>2, CreationType
  <2>3. ASSUME NEW c \in Creations, CreateCommit(c)
        PROVE  TypeOK'
    <3>1. ReadingOK'
      BY <2>3, WriteReport DEF CreateCommit
    <3> QED BY <2>3, <3>1, NewRow DEF CreateCommit, TypeOK, ReadingOK
  <2>4. ASSUME NEW i \in Ids, Delete(i) \/ \E new \in NewStatuses : ChangeStatus(i, new)
        PROVE  TypeOK'
    <3>1. ReadingOK'
      BY <2>4, CommittedRows, WriteReport
    <3> QED BY <2>4, <3>1, CommittedRows DEF TypeOK, ReadingOK
  <2>5. ASSUME ReportSteps
        PROVE  TypeOK'
    BY <2>5, ReportType DEF TypeOK, ReadingOK
  <2>6. CASE UNCHANGED vars
    BY <2>6 DEF vars, TypeOK, Reports
  <2> QED BY <2>1, <2>2, <2>3, <2>4, <2>5, <2>6 DEF Next, ReportSteps
<1> QED BY <1>1, <1>2, PTL DEF Spec

-----------------------------------------------------------------------------
(* The steps, field by field.                                              *)

\* What a write leaves of the report that is being made.
LEMMA WriteFields ==
    ASSUME TypeOK, NEW gone \in SUBSET Ids, Writes(gone), reading.pc \in Making,
           NEW u, NEW status, u = reading.uid, status = reading.status
    PROVE  /\ reading'.pc = reading.pc /\ reading'.uid = u /\ reading'.status = status
           /\ reading'.quiet = FALSE
           /\ reading'.moved = (reading.moved \/ Moved(Selected(u, status), Selected(u, status)'))
           /\ reading'.always = reading.always \cap Selected(u, status)'
           /\ reading'.gone = reading.gone \cup gone
           /\ reading.pc \in {"walk", "page"} =>
                 /\ reading'.order = reading.order /\ reading'.limit = reading.limit
                 /\ reading'.offset = reading.offset /\ reading'.page = reading.page
                 /\ reading'.met = reading.met /\ reading'.hollow = reading.hollow
<1> DEFINE moved == reading.moved \/ Moved(Selected(u, status), Selected(u, status)')
           always == reading.always \cap Selected(u, status)'
<1>1. reading' = [reading EXCEPT !.quiet = FALSE, !.moved = moved, !.always = always,
                                 !.gone = reading.gone \cup gone]
  BY DEF Writes, Making
<1>2. PICK S \in SUBSET Status : reading \in Reports([S -> [count : Nat, total : Nat]])
  BY DEF TypeOK
<1> HIDE DEF moved, always
<1>3. /\ reading'.pc = reading.pc /\ reading'.uid = u /\ reading'.status = status
      /\ reading'.quiet = FALSE /\ reading'.moved = moved /\ reading'.always = always
      /\ reading'.gone = reading.gone \cup gone
  BY <1>1, <1>2 DEF Reports, Listings, NoReport, Making
<1>4. reading.pc \in {"walk", "page"} =>
          /\ reading'.order = reading.order /\ reading'.limit = reading.limit
          /\ reading'.offset = reading.offset /\ reading'.page = reading.page
          /\ reading'.met = reading.met /\ reading'.hollow = reading.hollow
  BY <1>1, IsListing DEF Listings
<1> QED BY <1>3, <1>4 DEF moved, always

\* What a write tells it of the rows.
LEMMA WriteMoves ==
    ASSUME TypeOK, NEW gone \in SUBSET Ids, Writes(gone), reading.pc \in Making,
           NEW u, NEW status, u = reading.uid, status = reading.status,
           NEW before, NEW after, before = Selected(u, status), after = Selected(u, status)'
    PROVE  /\ reading'.uid = u /\ reading'.status = status
           /\ reading'.moved = (reading.moved \/ Moved(before, after))
           /\ reading'.always = reading.always \cap after
<1> DEFINE moved == reading.moved \/ Moved(before, after)
           always == reading.always \cap after
<1>1. reading' = [reading EXCEPT !.quiet = FALSE, !.moved = moved, !.always = always,
                                 !.gone = reading.gone \cup gone]
  BY DEF Writes, Making
<1>2. PICK S \in SUBSET Status : reading \in Reports([S -> [count : Nat, total : Nat]])
  BY DEF TypeOK
<1> HIDE DEF moved, always
<1>3. /\ reading'.uid = u /\ reading'.status = status
      /\ reading'.moved = moved /\ reading'.always = always
  BY <1>1, <1>2 DEF Reports, Listings, NoReport, Making
<1> QED BY <1>3 DEF moved, always

\* PageSelect reads a page.
LEMMA SelectFields ==
    ASSUME TypeOK, PageSelect
    PROVE  /\ reading \in Listings /\ reading.pc = "walk" /\ reading'.pc = "page"
           /\ \E rows \in Ordered(Selected(reading.uid, reading.status), reading.order) :
                 reading'.page = Page(rows, reading.limit, reading.offset)
           /\ reading'.uid = reading.uid /\ reading'.status = reading.status
           /\ reading'.order = reading.order /\ reading'.limit = reading.limit
           /\ reading'.offset = reading.offset /\ reading'.met = reading.met
           /\ reading'.hollow = reading.hollow /\ reading'.quiet = reading.quiet
           /\ reading'.moved = reading.moved /\ reading'.always = reading.always
           /\ reading'.gone = reading.gone
           /\ invoices' = invoices
<1>1. reading \in Listings
  BY IsListing DEF PageSelect
<1> QED BY <1>1 DEF PageSelect, Listings

\* PageItems reads the items of the page.
LEMMA ItemsFields ==
    ASSUME TypeOK, PageItems
    PROVE  /\ reading \in Listings /\ reading.pc = "page"
           /\ reading'.pc = IF reading.limit # None /\ Len(reading.page) = reading.limit
                            THEN "walk" ELSE "walked"
           /\ reading'.uid = reading.uid /\ reading'.status = reading.status
           /\ reading'.order = reading.order /\ reading'.limit = reading.limit
           /\ reading'.offset = reading.offset + Len(reading.page)
           /\ reading'.met = reading.met \o reading.page
           /\ reading'.hollow = reading.hollow \cup
                 {i \in ToSet(reading.page) : ~Live(i) \/ invoices[i].invoice_items = <<>>}
           /\ reading'.quiet = reading.quiet
           /\ reading'.moved = reading.moved /\ reading'.always = reading.always
           /\ reading'.gone = reading.gone
           /\ invoices' = invoices
<1>1. reading \in Listings
  BY IsListing DEF PageItems
<1> DEFINE pc == IF reading.limit # None /\ Len(reading.page) = reading.limit
                 THEN "walk" ELSE "walked"
           hollow == reading.hollow \cup
                 {i \in ToSet(reading.page) : ~Live(i) \/ invoices[i].invoice_items = <<>>}
<1>2. reading' = [reading EXCEPT !.pc = pc, !.met = reading.met \o reading.page,
                                 !.hollow = hollow,
                                 !.offset = reading.offset + Len(reading.page), !.page = <<>>]
  BY DEF PageItems
<1> HIDE DEF pc, hollow
<1>3. /\ reading'.pc = pc /\ reading'.hollow = hollow
      /\ reading'.offset = reading.offset + Len(reading.page)
      /\ reading'.met = reading.met \o reading.page
      /\ reading'.uid = reading.uid /\ reading'.status = reading.status
      /\ reading'.order = reading.order /\ reading'.limit = reading.limit
      /\ reading'.quiet = reading.quiet /\ reading'.moved = reading.moved
      /\ reading'.always = reading.always /\ reading'.gone = reading.gone
  BY <1>1, <1>2 DEF Listings
<1> QED BY <1>1, <1>3 DEF PageItems, pc, hollow

-----------------------------------------------------------------------------
(* The statistics.                                                         *)

LEMMA DisjointSums ==
    ASSUME TypeOK, NEW S \in SUBSET Ids, NEW T \in SUBSET Ids, S \cap T = {},
           \A i \in S \cup T : Live(i)
    PROVE  /\ SumOf(S \cup T) = SumOf(S) + SumOf(T)
           /\ Cardinality(S \cup T) = Cardinality(S) + Cardinality(T)
<1>1. \A i \in 1 .. MaxId : /\ Amount(S)[i] \in Nat /\ Amount(T)[i] \in Nat
                            /\ Amount(S \cup T)[i] = Amount(S)[i] + Amount(T)[i]
  <2>1. \A i \in 1 .. MaxId : Amount(S)[i] \in Nat /\ Amount(T)[i] \in Nat
    BY AmountType
  <2>2. ASSUME NEW i \in Ids
        PROVE  Amount(S \cup T)[i] = Amount(S)[i] + Amount(T)[i]
    <3>1. i \in S \/ i \in T => invoices[i].total_amount \in Nat
      BY LiveIsRow DEF Row
    <3> QED BY <3>1 DEF Amount
  <2> QED BY <2>1, <2>2 DEF Ids
<1>2. SumTo(Amount(S \cup T), MaxId) = SumTo(Amount(S), MaxId) + SumTo(Amount(T), MaxId)
  BY <1>1, SumToAdds, InvoiceReportsAssumption
<1>3. SumOf(S \cup T) = SumOf(S) + SumOf(T)
  BY <1>2 DEF SumOf, Amount
<1>4. Cardinality(S \cup T) = Cardinality(S) + Cardinality(T)
  <2>1. Cardinality(S \cap T) = 0
    BY FS_EmptySet
  <2>2. /\ IsFiniteSet(S) /\ Cardinality(S) \in Nat
        /\ IsFiniteSet(T) /\ Cardinality(T) \in Nat
    BY IdSets
  <2>3. Cardinality(S \cup T) = Cardinality(S) + Cardinality(T) - Cardinality(S \cap T)
    BY <2>2, FS_Union
  <2> QED BY <2>1, <2>2, <2>3
<1> QED BY <1>3, <1>4

LEMMA EmptySum == SumOf({}) = 0 /\ Cardinality({}) = 0
<1>1. \A i \in 1 .. MaxId : Amount({})[i] = 0
  BY DEF Amount, Ids
<1>2. SumTo(Amount({}), MaxId) = 0
  BY <1>1, SumToZero, InvoiceReportsAssumption
<1> QED BY <1>2, FS_EmptySet DEF SumOf, Amount

\* get_sum_by_status.
Grouped(u) ==
    [s \in {invoices[i].status : i \in Of(u)} |->
        [count |-> Cardinality(Selected(u, s)), total |-> SumOf(Selected(u, s))]]

\* In one state of the rows, the groups are all that is counted.
LEMMA GroupsAddUp ==
    ASSUME TypeOK, NEW u
    PROVE  /\ AllGroups(Grouped(u), "count") = Cardinality(Of(u))
           /\ AllGroups(Grouped(u), "total") = SumOf(Of(u))
<1> DEFINE A(s) == Selected(u, s)
           group(s, field) == IF s \in DOMAIN Grouped(u) THEN Grouped(u)[s][field] ELSE 0
<1>1. \A s \in Status : A(s) = {i \in Of(u) : invoices[i].status = s}
  BY MarkersAssumption DEF Selected
<1>2. \A i \in Of(u) : invoices[i].status \in Status
  BY SelectedOf DEF Row
<1>3. \A s \in Status : A(s) \in SUBSET Ids /\ \A i \in A(s) : Live(i)
  BY SelectedOf
<1>4. ASSUME NEW s \in Status
      PROVE  /\ group(s, "count") = Cardinality(A(s)) /\ Cardinality(A(s)) \in Nat
             /\ group(s, "total") = SumOf(A(s)) /\ SumOf(A(s)) \in Nat
  <2>1. Cardinality(A(s)) \in Nat /\ SumOf(A(s)) \in Nat
    BY <1>3, IdSets, AmountType
  <2>2. CASE s \in DOMAIN Grouped(u)
    BY <2>1, <2>2 DEF Grouped
  <2>3. CASE s \notin DOMAIN Grouped(u)
    <3>1. A(s) = {}
      BY <1>1, <2>3 DEF Grouped
    <3> QED BY <2>1, <2>3, <3>1, EmptySum
  <2> QED BY <2>2, <2>3
<1> DEFINE S1 == A("draft") \cup A("sent")
           S2 == A("paid") \cup A("overdue")
<1>5. Of(u) = S1 \cup S2 /\ S1 \cap S2 = {}
  BY <1>1, <1>2 DEF Status
<1>6. A("draft") \cap A("sent") = {} /\ A("paid") \cap A("overdue") = {}
  BY <1>1 DEF Status
<1>7. /\ \A s \in {"draft", "sent", "paid", "overdue"} : A(s) \in SUBSET Ids
      /\ \A i \in S1 \cup S2 : Live(i)
  BY <1>3 DEF Status
<1> HIDE DEF A
<1>8. /\ SumOf(S1) = SumOf(A("draft")) + SumOf(A("sent"))
      /\ Cardinality(S1) = Cardinality(A("draft")) + Cardinality(A("sent"))
  BY <1>6, <1>7, DisjointSums
<1>9. /\ SumOf(S2) = SumOf(A("paid")) + SumOf(A("overdue"))
      /\ Cardinality(S2) = Cardinality(A("paid")) + Cardinality(A("overdue"))
  BY <1>6, <1>7, DisjointSums
<1>10. /\ SumOf(Of(u)) = SumOf(S1) + SumOf(S2)
       /\ Cardinality(Of(u)) = Cardinality(S1) + Cardinality(S2)
  BY <1>5, <1>7, DisjointSums
<1>11. \A field : AllGroups(Grouped(u), field)
                  = group("draft", field) + group("sent", field)
                    + group("paid", field) + group("overdue", field)
  BY DEF AllGroups
<1>12. "draft" \in Status /\ "sent" \in Status /\ "paid" \in Status /\ "overdue" \in Status
  BY DEF Status
<1> HIDE DEF group, S1, S2
<1> QED BY <1>4, <1>8, <1>9, <1>10, <1>11, <1>12

\* Nothing was written since the groups were read: they are those of the rows.
StatsInv ==
    /\ reading.pc = "groups" /\ reading.quiet => reading.by_status = Grouped(reading.uid)
    /\ QuietStatsAddUp

\* Between the two statements of the statistics every write is noticed, so
\* that what adds up in one state of the rows adds up in the answer.
THEOREM StatsAddUp == Spec => []QuietStatsAddUp
<1>1. Init => StatsInv
  BY DEF Init, StatsInv, QuietStatsAddUp, NoReport
<1>2. TypeOK /\ StatsInv /\ [Next]_vars => StatsInv'
  <2> SUFFICES ASSUME TypeOK, StatsInv, [Next]_vars
               PROVE  StatsInv'
    OBVIOUS
  <2>1. ASSUME NEW gone \in SUBSET Ids, Writes(gone)
        PROVE  StatsInv'
    <3>1. CASE reading.pc \in Making
      <4>1. reading'.pc = reading.pc /\ ~reading'.quiet
        BY <2>1, <3>1, WriteFields
      <4> QED BY <4>1 DEF StatsInv, QuietStatsAddUp
    <3>2. CASE reading.pc \notin Making
      BY <2>1, <3>2, WriteReport DEF Making, StatsInv, QuietStatsAddUp
    <3> QED BY <3>1, <3>2
  <2>2. ASSUME UNCHANGED <<invoices, reading>>
        PROVE  StatsInv'
    BY <2>2 DEF StatsInv, QuietStatsAddUp, Grouped, Of, Selected, SumOf, Live
  <2>3. ASSUME NEW u \in Readers, StatsGroups(u)
        PROVE  StatsInv'
    <3>1. reading'.pc = "groups" /\ reading'.uid = u /\ reading'.by_status = Grouped(u)
      BY <2>3 DEF StatsGroups, Grouped
    <3>2. invoices' = invoices
      BY <2>3 DEF StatsGroups
    <3>3. Grouped(u)' = Grouped(u)
      BY <3>2 DEF Grouped, Of, Selected, SumOf, Live
    <3> QED BY <3>1, <3>3 DEF StatsInv, QuietStatsAddUp, Grouped
  <2>4. ASSUME StatsTotals
        PROVE  StatsInv'
    <3>1. /\ reading'.pc = "stats" /\ reading'.quiet = reading.quiet
          /\ reading'.by_status = reading.by_status
          /\ reading'.total_invoices = Cardinality(Of(reading.uid))
          /\ reading'.total_revenue = SumOf(Of(reading.uid))
      BY <2>4 DEF StatsTotals, CountedFor
    <3>2. reading.quiet => reading.by_status = Grouped(reading.uid)
      BY <2>4 DEF StatsTotals, StatsInv
    <3> QED BY <3>1, <3>2, GroupsAddUp DEF StatsInv, QuietStatsAddUp
  <2>5. ASSUME NEW u \in Readers, NEW walk \in Walks, WalkBegin(u, walk)
        PROVE  StatsInv'
    BY <2>5 DEF WalkBegin, StatsInv, QuietStatsAddUp
  <2>6. ASSUME PageSelect \/ PageItems \/ Finish
        PROVE  StatsInv'
    <3>1. PageSelect => reading'.pc = "page"
      BY SelectFields
    <3>2. PageItems => reading'.pc \in {"walk", "walked"}
      BY ItemsFields
    <3>3. Finish => reading'.pc = "none"
      BY DEF Finish, NoReport
    <3> QED BY <2>6, <3>1, <3>2, <3>3 DEF StatsInv, QuietStatsAddUp
  <2>7. ASSUME NEW i \in Ids, Delete(i) \/ \E new \in NewStatuses : ChangeStatus(i, new)
        PROVE  StatsInv'
    BY <2>1, <2>7, CommittedRows
  <2>8. ASSUME NEW c \in Creations, CreateCommit(c)
        PROVE  StatsInv'
    BY <2>1, <2>8 DEF CreateCommit
  <2>9. ASSUME NEW c \in Creations,
               \/ \E u \in Users, items \in ItemLists : CreateFlush(c, u, items)
               \/ CreateItems(c) \/ CreateFail(c)
        PROVE  StatsInv'
    BY <2>2, <2>9 DEF CreateFlush, CreateItems, CreateFail
  <2> QED BY <2>2, <2>3, <2>4, <2>5, <2>6, <2>7, <2>8, <2>9 DEF Next, vars
<1>3. StatsInv => QuietStatsAddUp
  BY DEF StatsInv
<1> QED BY <1>1, <1>2, <1>3, TypeCorrect, PTL DEF Spec

-----------------------------------------------------------------------------
(* The items.                                                              *)

\* What was given and fits the columns is what is stored, and an invoice is
\* only committed after its items were inserted.
AmountInv ==
    /\ AmountIsThatOfItems
    /\ \A c \in Creations : creation[c].pc = "itemized" => creation[c].items # <<>>

\* The row with its items and amount.
AmountOf(row) ==
    /\ row.invoice_items # <<>>
    /\ row.exact => row.total_amount = Shown(row.invoice_items)

LEMMA RowAmount ==
    ASSUME TypeOK, AmountInv, NEW c \in Creations, CreateCommit(c)
    PROVE  AmountOf(invoices'[creation[c].id])
<1> DEFINE items == creation[c].items
           row == invoices'[creation[c].id]
<1>1. items \in Seq(Item) /\ items # <<>>
  BY NewRow DEF CreateCommit, CommitsFrom, AmountInv
<1>2. /\ row.total_amount = TotalAmount(items)
      /\ row.invoice_items = [k \in DOMAIN items |-> Stored(items[k])]
      /\ row.exact = FitsColumns(items)
  BY NewRow
<1> HIDE DEF row
<1>3. row.invoice_items # <<>>
  BY <1>1, <1>2
<1>4. ASSUME FitsColumns(items)
      PROVE  row.invoice_items = items
  <2>1. \A k \in DOMAIN items : Stored(items[k]) = items[k]
    BY <1>4 DEF FitsColumns
  <2> QED BY <1>1, <1>2, <2>1
<1>5. TotalAmount(items) = Shown(items)
  BY DEF TotalAmount, Shown
<1> HIDE DEF items
<1> QED BY <1>2, <1>3, <1>4, <1>5 DEF AmountOf, row

LEMMA AmountStep ==
    ASSUME TypeOK, AmountInv, [Next]_vars
    PROVE  AmountInv'
<1>1. \A i \in Ids : Live(i) => AmountOf(invoices[i])
  BY DEF AmountInv, AmountIsThatOfItems, AmountOf
<1>2. ASSUME \A i \in Ids : Live(i)' => AmountOf(invoices'[i])
      PROVE  AmountIsThatOfItems'
  BY <1>2 DEF AmountIsThatOfItems, AmountOf, Shown
<1>3. ASSUME invoices' = invoices
      PROVE  AmountIsThatOfItems'
  BY <1>1, <1>2, <1>3 DEF Live
<1>4. ASSUME NEW c \in Creations, NEW u \in Users, NEW items \in ItemLists,
             CreateFlush(c, u, items)
      PROVE  AmountInv'
  BY <1>3, <1>4 DEF CreateFlush, AmountInv, TypeOK
<1>5. ASSUME NEW c \in Creations, CreateItems(c)
      PROVE  AmountInv'
  <2>1. creation[c] \in [pc : {"flushed"}, id : Ids, owner : Users, items : ItemLists]
    BY <1>5 DEF CreateItems, TypeOK
  <2>2. creation' = [creation EXCEPT ![c] = IF creation[c].items = <<>> THEN [pc |-> "free"]
                                            ELSE [creation[c] EXCEPT !.pc = "itemized"]]
    BY <1>5 DEF CreateItems
  <2>3. creation'[c].pc = "itemized" => creation'[c].items # <<>>
    <3>1. CASE creation[c].items = <<>>
      BY <2>2, <3>1 DEF TypeOK
    <3>2. CASE creation[c].items # <<>>
      <4>1. creation'[c] = [creation[c] EXCEPT !.pc = "itemized"]
        BY <2>2, <3>2 DEF TypeOK
      <4> QED BY <2>1, <3>2, <4>1
    <3> QED BY <3>1, <3>2
  <2>4. \A d \in Creations \ {c} : creation'[d] = creation[d]
    BY <2>2 DEF TypeOK
  <2> QED BY <1>3, <1>5, <2>3, <2>4 DEF CreateItems, AmountInv
<1>6. ASSUME NEW c \in Creations, CreateFail(c)
      PROVE  AmountInv'
  BY <1>3, <1>6 DEF CreateFail, AmountInv, TypeOK
<1>7. ASSUME NEW c \in Creations, CreateCommit(c)
      PROVE  AmountInv'
  <2>1. \A i \in Ids : Live(i)' => AmountOf(invoices'[i])
    <3> SUFFICES ASSUME NEW i \in Ids, Live(i)'
                 PROVE  AmountOf(invoices'[i])
      OBVIOUS
    <3>1. CASE i = creation[c].id
      BY <1>7, <3>1, RowAmount
    <3>2. CASE i # creation[c].id
      <4>1. invoices'[i] = invoices[i]
        BY <1>7, <3>2, NewRow
      <4> QED BY <1>1, <4>1 DEF Live
    <3> QED BY <3>1, <3>2
  <2>2. \A d \in Creations : creation'[d].pc = "itemized" => creation'[d] = creation[d]
    BY <1>7 DEF CreateCommit, TypeOK
  <2> QED BY <1>2, <2>1, <2>2 DEF AmountInv
<1>8. ASSUME NEW i \in Ids, Delete(i) \/ \E new \in NewStatuses : ChangeStatus(i, new)
      PROVE  AmountInv'
  <2>1. Live(i)
    BY <1>8 DEF Delete, ChangeStatus
  <2>2. Live(i)' => /\ invoices'[i].total_amount = invoices[i].total_amount
                    /\ invoices'[i].invoice_items = invoices[i].invoice_items
                    /\ invoices'[i].exact = invoices[i].exact
    <3>1. Delete(i) => ~Live(i)'
      BY DEF Delete, TypeOK, Live
    <3> QED BY <1>8, <3>1, CommittedRows
  <2>3. \A j \in Ids : Live(j)' => AmountOf(invoices'[j])
    <3>1. \A j \in Ids \ {i} : invoices'[j] = invoices[j]
      BY <1>8, CommittedRows
    <3>2. Live(i)' => AmountOf(invoices'[i])
      BY <1>1, <2>1, <2>2 DEF AmountOf
    <3> QED BY <1>1, <3>1, <3>2 DEF Live
  <2>4. creation' = creation
    BY <1>8, CommittedRows
  <2> QED BY <1>2, <2>3, <2>4 DEF AmountInv
<1>9. ASSUME ReportSteps
      PROVE  AmountInv'
  BY <1>3, <1>9, ReportType DEF AmountInv
<1>10. CASE UNCHANGED vars
  BY <1>3, <1>10 DEF AmountInv, vars
<1> QED BY <1>4, <1>5, <1>6, <1>7, <1>8, <1>9, <1>10 DEF Next, ReportSteps

\* An invoice is never there without items, and the amount that was computed
\* from what was given is that of what is shown, when it fits the columns.
THEOREM AmountIsSound == Spec => []AmountIsThatOfItems
<1>1. Init => AmountInv
  BY DEF Init, AmountInv, AmountIsThatOfItems, Live
<1>2. AmountInv => AmountIsThatOfItems
  BY DEF AmountInv
<1> QED BY <1>1, <1>2, AmountStep, TypeCorrect, PTL DEF Spec

\* Of what is shown with an invoice, too, the amount is that close to the exact
\* price, when what was given fits the columns.
ShownIsClose ==
    \A i \in Ids : Live(i) /\ invoices[i].exact =>
        Near(invoices[i].total_amount, ExactAmount(invoices[i].invoice_items),
             Slack * Len(invoices[i].invoice_items))

\* The amount that is committed with an invoice is that close to the exact
\* price of the items it is shown with (create_invoice, InvoiceItemResponse).
THEOREM AmountIsClose == Spec => []ShownIsClose
<1>1. TypeOK /\ AmountIsThatOfItems => ShownIsClose
  <2> SUFFICES ASSUME TypeOK, AmountIsThatOfItems, NEW i \in Ids, Live(i), invoices[i].exact
               PROVE  Near(invoices[i].total_amount, ExactAmount(invoices[i].invoice_items),
                           Slack * Len(invoices[i].invoice_items))
    BY DEF ShownIsClose
  <2>1. invoices[i].invoice_items \in Seq(Item)
    BY LiveIsRow DEF Row
  <2>2. invoices[i].total_amount = TotalAmount(invoices[i].invoice_items)
    BY DEF AmountIsThatOfItems, Shown, TotalAmount
  <2> QED BY <2>1, <2>2, TotalAmountIsClose
<1> QED BY <1>1, AmountIsSound, TypeCorrect, PTL

\* An invoice of the page that is not there any more was deleted meanwhile.
ItemsInv ==
    /\ ListedWithItems
    /\ reading.pc = "page" => \A i \in ToSet(reading.page) : Live(i) \/ i \in reading.gone

LEMMA PageIds ==
    ASSUME TypeOK, reading.pc = "page"
    PROVE  /\ reading.page \in Seq(Ids)
           /\ ToSet(reading.page) \subseteq Ids
<1>1. reading.page \in Seq(Ids)
  BY IsListing DEF Listings
<1> HIDE DEF Ids
<1> QED BY <1>1 DEF ToSet

\* The elements of a page are among the rows.
LEMMA PageOfRows ==
    ASSUME NEW S \in SUBSET Ids, NEW order, NEW rows \in Ordered(S, order),
           NEW limit \in {None} \cup (Nat \ {0}), NEW offset \in Nat
    PROVE  ToSet(Page(rows, limit, offset)) \subseteq S
<1> DEFINE page == Page(rows, limit, offset)
<1>1. rows \in Seq(Ids) /\ \A k \in 1 .. Len(rows) : rows[k] \in S
  BY OrderedType
<1>2. page \in Seq(Ids) /\ \A k \in 1 .. Len(page) : offset + k \in 1 .. Len(rows)
                                                     /\ page[k] = rows[offset + k]
  BY <1>1, PageType
<1> HIDE DEF page, Ids
<1>3. \A k \in DOMAIN page : page[k] \in S
  BY <1>1, <1>2
<1> QED BY <1>3 DEF ToSet, page

LEMMA ItemsStep ==
    ASSUME TypeOK, AmountIsThatOfItems, ItemsInv, [Next]_vars
    PROVE  ItemsInv'
<1>1. ASSUME NEW gone \in SUBSET Ids, Writes(gone),
             \A i \in Ids \ gone : Live(i) => Live(i)'
      PROVE  ItemsInv'
  <2>1. CASE reading.pc \in {"walk", "page"}
    <3>1. /\ reading'.pc = reading.pc
          /\ reading'.page = reading.page /\ reading'.hollow = reading.hollow
          /\ reading'.gone = reading.gone \cup gone
      BY <1>1, <2>1, WriteFields DEF Making
    <3>2. ListedWithItems'
      BY <2>1, <3>1 DEF ItemsInv, ListedWithItems
    <3>3. reading.pc = "page" => \A i \in ToSet(reading.page) : Live(i)' \/ i \in reading'.gone
      BY <1>1, <3>1, PageIds DEF ItemsInv
    <3> QED BY <3>1, <3>2, <3>3 DEF ItemsInv
  <2>2. CASE reading.pc \notin {"walk", "page"}
    <3>1. reading'.pc = reading.pc /\ (reading.pc \notin Making => reading' = reading)
      BY <1>1, WriteReport
    <3> QED BY <2>2, <3>1 DEF Making, ItemsInv, ListedWithItems
  <2> QED BY <2>1, <2>2
<1>2. ASSUME UNCHANGED <<invoices, reading>>
      PROVE  ItemsInv'
  BY <1>2 DEF ItemsInv, ListedWithItems, Live
<1>3. ASSUME NEW c \in Creations, CreateCommit(c)
      PROVE  ItemsInv'
  <2>1. ASSUME NEW i \in Ids, Live(i)
        PROVE  Live(i)'
    <3>1. i = creation[c].id => invoices'[i] \in Row
      BY <1>3, NewRow
    <3>2. i # creation[c].id => invoices'[i] = invoices[i]
      BY <1>3, NewRow
    <3> QED BY <2>1, <3>1, <3>2, MarkersAssumption DEF Live
  <2>2. Writes({})
    BY <1>3 DEF CreateCommit
  <2> QED BY <1>1, <2>1, <2>2
<1>4. ASSUME NEW i \in Ids, Delete(i) \/ \E new \in NewStatuses : ChangeStatus(i, new)
      PROVE  ItemsInv'
  <2>1. \A j \in Ids \ {i} : Live(j) => Live(j)'
    BY <1>4, CommittedRows DEF Live
  <2>2. CASE Writes({i})
    BY <1>1, <2>1, <2>2
  <2>3. CASE Writes({}) /\ invoices'[i] \in Row
    BY <1>1, <2>1, <2>3, MarkersAssumption DEF Live
  <2> QED BY <1>4, <2>2, <2>3, CommittedRows
<1>5. ASSUME NEW u \in Readers, StatsGroups(u) \/ \E walk \in Walks : WalkBegin(u, walk)
      PROVE  ItemsInv'
  BY <1>5 DEF StatsGroups, WalkBegin, ItemsInv, ListedWithItems
<1>6. ASSUME StatsTotals \/ Finish
      PROVE  ItemsInv'
  BY <1>6 DEF StatsTotals, Finish, NoReport, ItemsInv, ListedWithItems
<1>7. ASSUME PageSelect
      PROVE  ItemsInv'
  <2>1. PICK rows \in Ordered(Selected(reading.uid, reading.status), reading.order) :
            reading'.page = Page(rows, reading.limit, reading.offset)
    BY <1>7, SelectFields
  <2>2. reading.limit \in {None} \cup (Nat \ {0}) /\ reading.offset \in Nat
    BY <1>7, SelectFields DEF Listings
  <2>3. ToSet(reading'.page) \subseteq Selected(reading.uid, reading.status)
    BY <2>1, <2>2, PageOfRows, SelectedOf
  <2>4. \A i \in ToSet(reading'.page) : Live(i)'
    BY <1>7, <2>3, SelectedOf, SelectFields DEF Live
  <2> QED BY <1>7, <2>4, SelectFields DEF ItemsInv, ListedWithItems
<1>8. ASSUME PageItems
      PROVE  ItemsInv'
  <2>1. reading.pc = "page" /\ reading'.pc # "page"
    BY <1>8, ItemsFields
  <2>2. ToSet(reading.page) \subseteq Ids
    BY <2>1, PageIds
  <2>3. \A i \in ToSet(reading.page) :
            ~Live(i) \/ invoices[i].invoice_items = <<>> => i \in reading.gone
    BY <2>1, <2>2 DEF ItemsInv, AmountIsThatOfItems
  <2> QED BY <1>8, <2>1, <2>3, ItemsFields DEF ItemsInv, ListedWithItems
<1>9. ASSUME NEW c \in Creations,
             \/ \E u \in Users, items \in ItemLists : CreateFlush(c, u, items)
             \/ CreateItems(c) \/ CreateFail(c)
      PROVE  ItemsInv'
  BY <1>2, <1>9 DEF CreateFlush, CreateItems, CreateFail
<1> QED BY <1>2, <1>3, <1>4, <1>5, <1>6, <1>7, <1>8, <1>9 DEF Next, vars

\* Whatever is created, changed and deleted between the statement of a page
\* and that of its items, an invoice is given with its items unless it was
\* deleted.
THEOREM ItemsComeAlong == Spec => []ListedWithItems
<1>1. Init => ItemsInv
  BY DEF Init, ItemsInv, ListedWithItems, NoReport
<1>2. ItemsInv => ListedWithItems
  BY DEF ItemsInv
<1> QED BY <1>1, <1>2, ItemsStep, AmountIsSound, TypeCorrect, PTL DEF Spec

-----------------------------------------------------------------------------
(* The pages.                                                              *)

\* What the rows are ordered by.
Key(order, i) == IF order = "id" THEN i ELSE Due[i]

Distinct(S) == \A i, j \in S : Due[i] = Due[j] => i = j

\* The rows of L come before the others of S.
ComesFirst(L, S, order) ==
    L \subseteq S /\ \A i \in L, j \in S \ L : Key(order, i) < Key(order, j)

Now == Selected(reading.uid, reading.status)

\* PagesMeetEachOnce promises something of this walk.
Sure ==
    IF reading.order = "id" THEN ~reading.moved
    ELSE reading.quiet /\ Distinct(reading.always)

\* What has been met is what comes first of the rows there are.
MetFirst(met) ==
    /\ IsInjective(met)
    /\ ComesFirst(ToSet(met), Now, reading.order)

StillThere ==
    /\ reading.always \subseteq Now
    /\ reading.quiet => reading.always = Now
    /\ reading.limit # None => reading.order # None

\* All at once, as the export.
OnePage ==
    /\ reading.met = <<>> /\ reading.offset = 0
    /\ reading.pc = "page" => /\ IsInjective(reading.page)
                              /\ reading.always \subseteq ToSet(reading.page)

PagesInv ==
    /\ reading.pc \in {"walk", "page"} => StillThere /\ (reading.limit = None => OnePage)
    /\ reading.pc = "walk" /\ reading.limit # None /\ Sure =>
          /\ Len(reading.met) = reading.offset
          /\ MetFirst(reading.met)
    /\ reading.pc = "page" /\ reading.limit # None /\ Sure =>
          /\ MetFirst(reading.met \o reading.page)
          /\ Len(reading.met) = reading.offset
          /\ Len(reading.page) # reading.limit
             => reading.always \subseteq ToSet(reading.met \o reading.page)
    /\ reading.pc = "walked" /\ (reading.limit = None \/ Sure) =>
          IsInjective(reading.met) /\ reading.always \subseteq ToSet(reading.met)

LEMMA KeyType ==
    ASSUME NEW order, NEW i \in Ids
    PROVE  Key(order, i) \in Nat
  BY InvoiceReportsAssumption DEF Key, Ids

\* A list without repetitions is as long as the set of its elements.
LEMMA Counted ==
    ASSUME NEW s \in Seq(Ids), IsInjective(s)
    PROVE  IsFiniteSet(ToSet(s)) /\ Cardinality(ToSet(s)) = Len(s)
<1> DEFINE n == Len(s)
<1>1. n \in Nat /\ s \in [1 .. n -> Ids] /\ DOMAIN s = 1 .. n
  BY LenProperties
<1> HIDE DEF n
<1>2. s \in Bijection(1 .. n, ToSet(s))
  <2>1. s \in [1 .. n -> ToSet(s)]
    BY <1>1 DEF ToSet
  <2>2. \A t \in ToSet(s) : \E k \in 1 .. n : s[k] = t
    BY <1>1 DEF ToSet
  <2>3. \A a, b \in 1 .. n : s[a] = s[b] => a = b
    BY <1>1 DEF IsInjective
  <2> QED BY <2>1, <2>2, <2>3 DEF Bijection, Injection, IsInjective, Surjection
<1>3. ExistsBijection(1 .. n, ToSet(s))
  BY <1>2 DEF ExistsBijection
<1>4. Cardinality(ToSet(s)) = n
  BY <1>1, <1>3, FS_CountingElements
<1>5. IsFiniteSet(ToSet(s))
  BY <1>1, <1>3, FS_NatBijection
<1> QED BY <1>4, <1>5 DEF n

\* The rows of a statement do not repeat.
LEMMA RowsDoNotRepeat ==
    ASSUME NEW S \in SUBSET Ids, NEW order, NEW rows \in Ordered(S, order)
    PROVE  IsInjective(rows)
<1> DEFINE n == Cardinality(S)
<1>1. n \in Nat /\ IsFiniteSet(S)
  BY IdSets
<1>2. rows \in [1 .. n -> S] /\ ToSet(rows) = S
  BY DEF Ordered
<1> HIDE DEF n
<1>3. rows \in Surjection(1 .. n, S)
  BY <1>2 DEF Surjection, ToSet
<1>4. IsFiniteSet(1 .. n) /\ Cardinality(1 .. n) = n
  BY <1>1, FS_Interval
<1>5. rows \in Injection(1 .. n, S)
  BY <1>3, <1>4, FS_Surjection DEF n
<1> QED BY <1>2, <1>5 DEF Injection, IsInjective

\* The order has no equals.
Strict(S, order) == order = "id" \/ (order = "due_date" /\ Distinct(S))

LEMMA RowsAscend ==
    ASSUME NEW S \in SUBSET Ids, NEW order, NEW rows \in Ordered(S, order), Strict(S, order)
    PROVE  \A k, m \in 1 .. Len(rows) : k < m => Key(order, rows[k]) < Key(order, rows[m])
<1> DEFINE n == Len(rows)
           key(k) == Key(order, rows[k])
<1>1. n \in Nat /\ n = Cardinality(S) /\ \A k \in 1 .. n : rows[k] \in S
  BY OrderedType, IdSets
<1>2. DOMAIN rows = 1 .. n
  BY OrderedType
<1>3. \A k \in 1 .. n : key(k) \in Nat
  BY <1>1, KeyType
<1>4. ASSUME NEW k \in 1 .. n - 1
      PROVE  key(k) < key(k + 1)
  <2>1. k \in 1 .. n /\ k + 1 \in 1 .. n
    BY <1>1
  <2>2. /\ order = "id" => rows[k] < rows[k + 1]
        /\ order = "due_date" => Due[rows[k]] <= Due[rows[k + 1]]
    BY <1>1 DEF Ordered
  <2>3. CASE order = "id"
    BY <2>2, <2>3 DEF Key
  <2>4. CASE order = "due_date" /\ Distinct(S)
    <3>1. rows[k] # rows[k + 1]
      BY <1>2, <2>1, RowsDoNotRepeat DEF IsInjective
    <3>2. Due[rows[k]] # Due[rows[k + 1]]
      BY <1>1, <2>1, <2>4, <3>1 DEF Distinct
    <3>3. key(k) = Due[rows[k]] /\ key(k + 1) = Due[rows[k + 1]]
      BY <2>4 DEF Key
    <3> QED BY <1>3, <2>1, <2>2, <2>4, <3>2, <3>3
  <2> QED BY <2>3, <2>4 DEF Strict
<1> HIDE DEF n, key
<1> DEFINE D == {d \in Nat : \A k \in 1 .. n : k + d + 1 \in 1 .. n => key(k) < key(k + d + 1)}
<1>5. 0 \in D
  <2>1. \A k \in 1 .. n : k + 0 + 1 \in 1 .. n => k \in 1 .. n - 1 /\ k + 0 + 1 = k + 1
    BY <1>1
  <2> QED BY <1>4, <2>1
<1>6. ASSUME NEW d \in D
      PROVE  d + 1 \in D
  <2> SUFFICES ASSUME NEW k \in 1 .. n, k + (d + 1) + 1 \in 1 .. n
               PROVE  key(k) < key(k + (d + 1) + 1)
    OBVIOUS
  <2>1. k + d + 1 \in 1 .. n /\ k + d + 1 \in 1 .. n - 1 /\ k + d + 1 + 1 = k + (d + 1) + 1
    BY <1>1
  <2>2. key(k) < key(k + d + 1)
    BY <2>1
  <2>3. key(k + d + 1) < key(k + d + 1 + 1)
    BY <1>4, <2>1
  <2> QED BY <1>3, <2>1, <2>2, <2>3
<1>7. D = Nat
  BY <1>5, <1>6, InductionOnNat
<1>8. ASSUME NEW k \in 1 .. n, NEW m \in 1 .. n, k < m
      PROVE  key(k) < key(m)
  <2>1. m - k - 1 \in Nat /\ k + (m - k - 1) + 1 = m
    BY <1>8
  <2>2. m - k - 1 \in D
    BY <1>7, <2>1
  <2> QED BY <2>1, <2>2
<1> QED BY <1>8 DEF n, key

\* Of two sets that come first and are as large as each other none is left.
LEMMA SameFirst ==
    ASSUME NEW S \in SUBSET Ids, NEW order, NEW L, NEW M,
           ComesFirst(L, S, order), ComesFirst(M, S, order),
           Cardinality(L) = Cardinality(M)
    PROVE  L = M
<1>1. \A i \in S : Key(order, i) \in Nat
  BY KeyType
<1>2. L \subseteq M \/ M \subseteq L
  <2> SUFFICES ASSUME NEW i \in L \ M, NEW j \in M \ L
               PROVE  FALSE
    OBVIOUS
  <2>1. Key(order, i) < Key(order, j) /\ Key(order, j) < Key(order, i)
    BY DEF ComesFirst
  <2>2. i \in S /\ j \in S
    BY DEF ComesFirst
  <2> QED BY <1>1, <2>1, <2>2
<1>3. L \in SUBSET Ids /\ M \in SUBSET Ids
  BY DEF ComesFirst
<1>4. IsFiniteSet(L) /\ IsFiniteSet(M)
  BY <1>3, IdSets
<1>5. L \subseteq M => L = M
  BY <1>4, FS_Subset
<1>6. M \subseteq L => L = M
  BY <1>4, FS_Subset
<1> QED BY <1>2, <1>5, <1>6

\* The first p rows.
FirstRows(rows, p) == {rows[k] : k \in 1 .. p}

LEMMA FirstRowsComeFirst ==
    ASSUME NEW S \in SUBSET Ids, NEW order, NEW rows \in Ordered(S, order), Strict(S, order),
           NEW p \in 0 .. Len(rows)
    PROVE  /\ ComesFirst(FirstRows(rows, p), S, order)
           /\ Cardinality(FirstRows(rows, p)) = p
           /\ p = Len(rows) => FirstRows(rows, p) = S
<1> DEFINE n == Len(rows)
           F == FirstRows(rows, p)
<1>1. n \in Nat /\ DOMAIN rows = 1 .. n /\ \A k \in 1 .. n : rows[k] \in S
  <2>1. rows \in Seq(Ids) /\ \A k \in 1 .. n : rows[k] \in S
    BY OrderedType
  <2> QED BY <2>1, LenProperties
<1>2. \A j \in S : \E m \in 1 .. n : rows[m] = j
  <2>1. ToSet(rows) = S
    BY OrderedType
  <2> HIDE DEF n
  <2> QED BY <1>1, <2>1 DEF ToSet
<1>3. \A k \in 1 .. p : k \in 1 .. n
  BY <1>1
<1>4. F \subseteq S
  BY <1>1, <1>3 DEF FirstRows
<1>5. ASSUME NEW i \in F, NEW j \in S \ F
      PROVE  Key(order, i) < Key(order, j)
  <2>1. PICK k \in 1 .. p : rows[k] = i
    BY DEF FirstRows
  <2>2. PICK m \in 1 .. n : rows[m] = j
    BY <1>2
  <2>3. m \notin 1 .. p
    BY <2>2 DEF FirstRows
  <2>4. k < m /\ k \in 1 .. n
    BY <1>1, <1>3, <2>3
  <2> QED BY <2>1, <2>2, <2>4, RowsAscend
<1>6. Cardinality(F) = p
  <2> DEFINE f == [k \in 1 .. p |-> rows[k]]
  <2>1. f \in [1 .. p -> F] /\ \A t \in F : \E k \in 1 .. p : f[k] = t
    BY DEF FirstRows
  <2>2. \A a, b \in 1 .. p : f[a] = f[b] => a = b
    BY <1>1, <1>3, RowsDoNotRepeat DEF IsInjective
  <2>3. DOMAIN f = 1 .. p
    OBVIOUS
  <2> HIDE DEF f, F
  <2>4. f \in Bijection(1 .. p, F)
    BY <2>1, <2>2, <2>3 DEF Bijection, Injection, IsInjective, Surjection
  <2>5. ExistsBijection(1 .. p, F) /\ p \in Nat
    BY <1>1, <2>4 DEF ExistsBijection
  <2> QED BY <2>5, FS_CountingElements
<1>7. p = n => F = S
  BY <1>1, <1>2 DEF FirstRows, ToSet
<1> QED BY <1>4, <1>5, <1>6, <1>7 DEF ComesFirst

LEMMA SequenceSets ==
    ASSUME NEW s \in Seq(Ids), NEW t \in Seq(Ids)
    PROVE  ToSet(s \o t) = ToSet(s) \cup ToSet(t)
<1>1. /\ Len(s) \in Nat /\ Len(t) \in Nat
      /\ DOMAIN s = 1 .. Len(s) /\ DOMAIN t = 1 .. Len(t)
  BY LenProperties
<1>2. /\ s \o t \in Seq(Ids)
      /\ DOMAIN (s \o t) = 1 .. Len(s) + Len(t)
      /\ \A i \in 1 .. Len(s) + Len(t) :
            (s \o t)[i] = IF i <= Len(s) THEN s[i] ELSE t[i - Len(s)]
  BY ConcatProperties, LenProperties
<1> DEFINE u == s \o t
<1> HIDE DEF u
<1>3. ASSUME NEW i \in 1 .. Len(s)
      PROVE  i \in 1 .. Len(s) + Len(t) /\ (s \o t)[i] = s[i]
  BY <1>1, <1>2
<1>4. ASSUME NEW i \in 1 .. Len(t)
      PROVE  Len(s) + i \in 1 .. Len(s) + Len(t) /\ (s \o t)[Len(s) + i] = t[i]
  BY <1>1, <1>2
<1>5. ASSUME NEW i \in 1 .. Len(s) + Len(t)
      PROVE  i \in 1 .. Len(s) \/ i - Len(s) \in 1 .. Len(t)
  BY <1>1
<1>6. ToSet(u) \subseteq ToSet(s) \cup ToSet(t)
  <2> SUFFICES ASSUME NEW i \in 1 .. Len(s) + Len(t)
               PROVE  u[i] \in ToSet(s) \cup ToSet(t)
    BY <1>2 DEF ToSet, u
  <2> QED BY <1>1, <1>2, <1>5 DEF ToSet, u
<1>7. ToSet(s) \subseteq ToSet(u)
  BY <1>1, <1>2, <1>3 DEF ToSet, u
<1>8. ToSet(t) \subseteq ToSet(u)
  <2> SUFFICES ASSUME NEW i \in 1 .. Len(t)
               PROVE  t[i] \in ToSet(u)
    BY <1>1 DEF ToSet
  <2>1. Len(s) + i \in DOMAIN u /\ u[Len(s) + i] = t[i]
    BY <1>2, <1>4 DEF u
  <2> QED BY <2>1 DEF ToSet
<1> QED BY <1>6, <1>7, <1>8 DEF u

\* The page that follows what was met, in the same rows.
LEMMA NextPage ==
    ASSUME NEW S \in SUBSET Ids, NEW order, NEW rows \in Ordered(S, order), Strict(S, order),
           NEW met \in Seq(Ids), IsInjective(met), ComesFirst(ToSet(met), S, order),
           NEW limit \in Nat \ {0}, limit # None,
           NEW page, page = Page(rows, limit, Len(met))
    PROVE  /\ IsInjective(met \o page)
           /\ ComesFirst(ToSet(met \o page), S, order)
           /\ Len(page) # limit => ToSet(met \o page) = S
<1> DEFINE offset == Len(met)
           q == offset + Len(page)
<1>1. rows \in Seq(Ids) /\ Len(rows) \in Nat /\ Len(rows) = Cardinality(S)
  BY OrderedType, IdSets
<1>2. offset \in Nat
  BY LenProperties
<1>3. offset <= Len(rows)
  <2>1. Cardinality(ToSet(met)) = offset
    BY Counted
  <2>2. ToSet(met) \in SUBSET S
    BY DEF ComesFirst
  <2>3. IsFiniteSet(S)
    BY IdSets
  <2> QED BY <1>1, <2>1, <2>2, <2>3, FS_Subset
<1>4. ToSet(met) = FirstRows(rows, offset)
  <2>1. /\ ComesFirst(FirstRows(rows, offset), S, order)
        /\ Cardinality(FirstRows(rows, offset)) = offset
    <3>1. offset \in 0 .. Len(rows)
      BY <1>1, <1>2, <1>3
    <3> HIDE DEF offset
    <3> QED BY <3>1, FirstRowsComeFirst
  <2> QED BY <2>1, Counted, SameFirst
<1>5. /\ page \in Seq(Ids)
      /\ Len(page) = IF offset + limit <= Len(rows) THEN limit
                     ELSE IF offset < Len(rows) THEN Len(rows) - offset ELSE 0
      /\ \A k \in 1 .. Len(page) : /\ offset + k \in 1 .. Len(rows)
                                   /\ page[k] = rows[offset + k]
  <2>1. page = Page(rows, limit, offset)
    OBVIOUS
  <2> HIDE DEF offset
  <2> QED BY <1>1, <1>2, <2>1, PageType
<1>6. Len(page) \in Nat /\ DOMAIN page = 1 .. Len(page)
  BY <1>5, LenProperties
<1>7. q \in 0 .. Len(rows) /\ (Len(page) # limit => q = Len(rows))
  BY <1>1, <1>2, <1>3, <1>5, <1>6
<1>8. ToSet(met) \cup ToSet(page) = FirstRows(rows, q)
  <2>1. ToSet(page) = {rows[k] : k \in offset + 1 .. q}
    <3>1. \A k \in 1 .. Len(page) : offset + k \in offset + 1 .. q
      BY <1>2, <1>6
    <3>2. \A m \in offset + 1 .. q : m - offset \in 1 .. Len(page) /\ page[m - offset] = rows[m]
      BY <1>2, <1>5, <1>6
    <3>3. ToSet(page) \subseteq {rows[k] : k \in offset + 1 .. q}
      BY <1>5, <1>6, <3>1 DEF ToSet
    <3>4. {rows[k] : k \in offset + 1 .. q} \subseteq ToSet(page)
      BY <1>6, <3>2 DEF ToSet
    <3> QED BY <3>3, <3>4
  <2>2. 1 .. q = (1 .. offset) \cup (offset + 1 .. q)
    BY <1>2, <1>6
  <2> QED BY <1>4, <2>1, <2>2 DEF FirstRows
<1>9. ToSet(met \o page) = FirstRows(rows, q)
  BY <1>5, <1>8, SequenceSets
<1>10. /\ ComesFirst(ToSet(met \o page), S, order)
       /\ Len(page) # limit => ToSet(met \o page) = S
  BY <1>7, <1>9, FirstRowsComeFirst
<1>11. Cardinality(ToSet(met \o page)) = Len(met \o page)
  <2>1. Cardinality(FirstRows(rows, q)) = q
    BY <1>7, FirstRowsComeFirst
  <2>2. Len(met \o page) = q
    BY <1>5, ConcatProperties
  <2> QED BY <1>9, <2>1, <2>2
<1>12. IsInjective(met \o page)
  <2> DEFINE u == met \o page
             n == Len(u)
  <2>1. u \in Seq(Ids)
    BY <1>5, ConcatProperties
  <2>2. n \in Nat /\ DOMAIN u = 1 .. n
    BY <2>1, LenProperties
  <2>3. u \in Surjection(1 .. n, ToSet(u))
    <3>1. u \in [1 .. n -> ToSet(u)]
      BY <2>1, <2>2, LenProperties DEF ToSet
    <3> HIDE DEF u, n
    <3> QED BY <2>2, <3>1 DEF Surjection, ToSet
  <2>4. IsFiniteSet(1 .. n) /\ Cardinality(1 .. n) = n
    BY <2>2, FS_Interval
  <2>5. Cardinality(ToSet(u)) = n
    BY <1>11
  <2> HIDE DEF u, n
  <2>6. u \in Injection(1 .. n, ToSet(u))
    BY <2>3, <2>4, <2>5, FS_Surjection
  <2> QED BY <2>6 DEF Injection, u
<1> QED BY <1>10, <1>12

\* Rows that come in front of none that were there change nothing of this.
LEMMA MoreRows ==
    ASSUME NEW S \in SUBSET Ids, NEW T \in SUBSET Ids, NEW L,
           ComesFirst(L, S, "id"), ~Moved(S, T)
    PROVE  ComesFirst(L, T, "id")
  BY DEF ComesFirst, Moved, Key, Ids

LEMMA MetIsSequence ==
    ASSUME TypeOK, reading.pc \in {"walk", "page", "walked"}
    PROVE  /\ reading.met \in Seq(Ids) /\ reading.page \in Seq(Ids)
           /\ reading.offset \in Nat /\ Len(reading.page) \in Nat
           /\ reading.limit \in {None} \cup (Nat \ {0})
           /\ reading.always \in SUBSET Ids
           /\ reading.order \in {"id", "due_date", None}
<1>1. reading \in Listings
  BY IsListing
<1>2. reading.page \in Seq(Ids)
  BY <1>1 DEF Listings
<1> QED BY <1>1, <1>2, LenProperties DEF Listings

\* A write is noticed, or it changes nothing of what the pages have passed.
LEMMA WritePages ==
    ASSUME TypeOK, PagesInv, NEW gone \in SUBSET Ids, Writes(gone)
    PROVE  PagesInv'
<1>1. CASE reading.pc \in {"walk", "page"}
  <2>1. PICK u, status, before, after :
            /\ u = reading.uid /\ status = reading.status
            /\ before = Selected(u, status) /\ after = Selected(u, status)'
    OBVIOUS
  <2>2. /\ reading'.pc = reading.pc /\ reading'.uid = reading.uid
        /\ reading'.status = reading.status
        /\ reading'.order = reading.order /\ reading'.limit = reading.limit
        /\ reading'.offset = reading.offset /\ reading'.page = reading.page
        /\ reading'.met = reading.met
        /\ reading'.quiet = FALSE
        /\ reading'.moved = (reading.moved \/ Moved(before, after))
        /\ reading'.always = reading.always \cap after
    <3>1. /\ reading'.uid = u /\ reading'.status = status
          /\ reading'.moved = (reading.moved \/ Moved(before, after))
          /\ reading'.always = reading.always \cap after
      BY <1>1, <2>1, WriteMoves DEF Making
    <3>2. /\ reading'.pc = reading.pc /\ reading'.quiet = FALSE
          /\ reading'.order = reading.order /\ reading'.limit = reading.limit
          /\ reading'.offset = reading.offset /\ reading'.page = reading.page
          /\ reading'.met = reading.met
      BY <1>1, <2>1, WriteFields DEF Making
    <3> QED BY <2>1, <3>1, <3>2
  <2>3. before = Now /\ after = Now'
    BY <2>1, <2>2 DEF Now
  <2>4. before \in SUBSET Ids /\ after \in SUBSET Ids
    BY <2>3 DEF Now, Selected, Of
  <2>5. Sure' => /\ reading.order = "id" /\ Sure
                 /\ \A L : ComesFirst(L, before, "id") => ComesFirst(L, after, "id")
    <3> SUFFICES ASSUME Sure'
                 PROVE  /\ reading.order = "id" /\ ~reading.moved
                        /\ \A L : ComesFirst(L, before, "id") => ComesFirst(L, after, "id")
      BY DEF Sure
    <3>1. reading.order = "id" /\ ~reading'.moved
      BY <2>2 DEF Sure
    <3>2. ~reading.moved /\ ~Moved(before, after)
      BY <2>2, <3>1
    <3> QED BY <2>4, <3>1, <3>2, MoreRows
  <2>6. StillThere' /\ (reading.limit = None => OnePage')
    <3>1. StillThere /\ (reading.limit = None => OnePage)
      BY <1>1 DEF PagesInv
    <3>2. StillThere'
      BY <2>2, <2>3, <3>1 DEF StillThere
    <3>3. OnePage => OnePage'
      BY <2>2 DEF OnePage
    <3> QED BY <3>1, <3>2, <3>3
  <2>7. ASSUME Sure', NEW met, MetFirst(met)
        PROVE  MetFirst(met)'
    <3>1. IsInjective(met) /\ ComesFirst(ToSet(met), before, "id")
      BY <2>3, <2>5, <2>7 DEF MetFirst
    <3>2. ComesFirst(ToSet(met), after, "id")
      BY <2>5, <2>7, <3>1
    <3> QED BY <2>2, <2>3, <2>5, <2>7, <3>1, <3>2 DEF MetFirst
  <2>8. CASE reading.pc = "walk"
    <3>1. Sure' /\ reading.limit # None => Len(reading.met) = reading.offset /\ MetFirst(reading.met)
      BY <2>5, <2>8 DEF PagesInv
    <3>2. Sure' /\ reading.limit # None => MetFirst(reading.met)'
      BY <2>2, <2>7, <3>1 DEF MetFirst
    <3> QED BY <2>2, <2>6, <2>8, <3>1, <3>2 DEF PagesInv
  <2>9. CASE reading.pc = "page"
    <3>1. Sure' /\ reading.limit # None =>
             /\ MetFirst(reading.met \o reading.page)
             /\ Len(reading.met) = reading.offset
             /\ Len(reading.page) # reading.limit
                => reading.always \subseteq ToSet(reading.met \o reading.page)
      BY <2>5, <2>9 DEF PagesInv
    <3>2. Sure' /\ reading.limit # None => MetFirst(reading.met \o reading.page)'
      BY <2>2, <2>7, <3>1 DEF MetFirst
    <3> QED BY <2>2, <2>6, <2>9, <3>1, <3>2 DEF PagesInv
  <2> QED BY <1>1, <2>8, <2>9
<1>2. CASE reading.pc \notin {"walk", "page"}
  <2>1. reading'.pc = reading.pc /\ (reading.pc # "groups" => reading' = reading)
    BY <1>2, WriteReport DEF Making
  <2> QED BY <1>2, <2>1 DEF PagesInv, Sure
<1> QED BY <1>1, <1>2

LEMMA SelectPages ==
    ASSUME TypeOK, PagesInv, PageSelect
    PROVE  PagesInv'
<1>1. PICK rows \in Ordered(Now, reading.order) :
          reading'.page = Page(rows, reading.limit, reading.offset)
  BY SelectFields DEF Now
<1>2. /\ reading.pc = "walk" /\ reading'.pc = "page"
      /\ reading'.order = reading.order /\ reading'.limit = reading.limit
      /\ reading'.offset = reading.offset /\ reading'.met = reading.met
      /\ reading'.quiet = reading.quiet /\ reading'.moved = reading.moved
      /\ reading'.always = reading.always
  BY SelectFields
<1>3. Now' = Now /\ Now \in SUBSET Ids
  <2>1. reading'.uid = reading.uid /\ reading'.status = reading.status /\ invoices' = invoices
    BY SelectFields
  <2> QED BY <2>1 DEF Now, Selected, Of, Live
<1>4. /\ reading.met \in Seq(Ids) /\ reading.offset \in Nat
      /\ reading.limit \in {None} \cup (Nat \ {0})
      /\ reading.order \in {"id", "due_date", None}
  BY <1>2, MetIsSequence
<1>5. StillThere /\ (reading.limit = None => OnePage)
  BY <1>2 DEF PagesInv
<1>6. StillThere'
  BY <1>2, <1>3, <1>5 DEF StillThere
<1>7. ASSUME reading.limit = None
      PROVE  OnePage'
  <2>1. reading.met = <<>> /\ reading.offset = 0
    BY <1>5, <1>7 DEF OnePage
  <2>2. rows \in Seq(Ids) /\ ToSet(rows) = Now
    BY <1>3, OrderedType
  <2>3. reading'.page = rows
    <3>1. Page(rows, reading.limit, reading.offset) = SubSeq(rows, 1, Len(rows))
      BY <1>7, <2>1 DEF Page
    <3> QED BY <1>1, <2>2, <3>1, SubSeqFull
  <2>4. IsInjective(rows)
    BY <1>3, RowsDoNotRepeat
  <2> QED BY <1>2, <1>5, <2>1, <2>2, <2>3, <2>4 DEF OnePage, StillThere
<1>8. ASSUME reading.limit # None, Sure'
      PROVE  /\ IsInjective(reading.met \o reading'.page)
             /\ ComesFirst(ToSet(reading.met \o reading'.page), Now, reading.order)
             /\ Len(reading.met) = reading.offset
             /\ Len(reading'.page) # reading.limit
                => reading.always \subseteq ToSet(reading.met \o reading'.page)
  <2>1. Sure
    BY <1>2, <1>8 DEF Sure
  <2>2. /\ Len(reading.met) = reading.offset
        /\ IsInjective(reading.met)
        /\ ComesFirst(ToSet(reading.met), Now, reading.order)
    BY <1>2, <1>8, <2>1 DEF PagesInv, MetFirst
  <2>3. Strict(Now, reading.order)
    BY <1>4, <1>5, <1>8, <2>1 DEF Strict, Sure, StillThere
  <2>4. reading.limit \in Nat \ {0}
    BY <1>4, <1>8
  <2>5. /\ IsInjective(reading.met \o reading'.page)
        /\ ComesFirst(ToSet(reading.met \o reading'.page), Now, reading.order)
        /\ Len(reading'.page) # reading.limit => ToSet(reading.met \o reading'.page) = Now
    <3>1. reading'.page = Page(rows, reading.limit, Len(reading.met))
      BY <1>1, <2>2
    <3>2. PICK S, order, met, limit, page :
              /\ S = Now /\ order = reading.order /\ met = reading.met
              /\ limit = reading.limit /\ page = reading'.page
      OBVIOUS
    <3>3. S \in SUBSET Ids /\ rows \in Ordered(S, order) /\ Strict(S, order)
      BY <1>1, <1>3, <2>3, <3>2
    <3>4. met \in Seq(Ids) /\ IsInjective(met) /\ ComesFirst(ToSet(met), S, order)
      BY <1>4, <2>2, <3>2
    <3>5. limit \in Nat \ {0} /\ limit # None /\ page = Page(rows, limit, Len(met))
      BY <1>8, <2>4, <3>1, <3>2
    <3>6. /\ IsInjective(met \o page)
          /\ ComesFirst(ToSet(met \o page), S, order)
          /\ Len(page) # limit => ToSet(met \o page) = S
      BY ONLY <3>3, <3>4, <3>5, NextPage
    <3> QED BY ONLY <3>2, <3>6
  <2> QED BY <1>5, <2>2, <2>5 DEF StillThere
<1> QED BY <1>2, <1>3, <1>6, <1>7, <1>8 DEF PagesInv, MetFirst

LEMMA ItemsPages ==
    ASSUME TypeOK, PagesInv, PageItems
    PROVE  PagesInv'
<1> DEFINE met == reading.met \o reading.page
           full == reading.limit # None /\ Len(reading.page) = reading.limit
<1>1. /\ reading.pc = "page"
      /\ reading'.pc = IF full THEN "walk" ELSE "walked"
      /\ reading'.order = reading.order /\ reading'.limit = reading.limit
      /\ reading'.offset = reading.offset + Len(reading.page)
      /\ reading'.met = met
      /\ reading'.quiet = reading.quiet /\ reading'.moved = reading.moved
      /\ reading'.always = reading.always
  BY ItemsFields
<1>2. Now' = Now
  <2>1. reading'.uid = reading.uid /\ reading'.status = reading.status /\ invoices' = invoices
    BY ItemsFields
  <2> QED BY <2>1 DEF Now, Selected, Of, Live
<1>3. /\ reading.met \in Seq(Ids) /\ reading.page \in Seq(Ids)
      /\ Len(met) = Len(reading.met) + Len(reading.page)
  BY <1>1, MetIsSequence, ConcatProperties
<1>4. StillThere /\ (reading.limit = None => OnePage)
  BY <1>1 DEF PagesInv
<1>5. Sure' = Sure
  BY <1>1 DEF Sure
<1>6. reading.limit # None /\ Sure =>
          /\ MetFirst(met)
          /\ Len(reading.met) = reading.offset
          /\ Len(reading.page) # reading.limit => reading.always \subseteq ToSet(met)
  BY <1>1 DEF PagesInv
<1>7. reading.limit = None => IsInjective(met) /\ reading.always \subseteq ToSet(met)
  <2>1. ASSUME reading.limit = None
        PROVE  met = reading.page
    BY <1>3, <1>4, <2>1, ConcatEmptySeq DEF OnePage
  <2> QED BY <1>1, <1>4, <2>1 DEF OnePage
<1> HIDE DEF met
<1>8. StillThere'
  BY <1>1, <1>2, <1>4 DEF StillThere
<1>9. CASE full
  <2>1. reading.limit # None /\ Sure =>
            /\ Len(met) = reading'.offset
            /\ IsInjective(met) /\ ComesFirst(ToSet(met), Now, reading.order)
    BY <1>1, <1>3, <1>6 DEF MetFirst
  <2> QED BY <1>1, <1>2, <1>5, <1>8, <1>9, <2>1 DEF PagesInv, MetFirst
<1>10. CASE ~full
  <2>1. reading.limit = None \/ Sure => IsInjective(met) /\ reading.always \subseteq ToSet(met)
    BY <1>6, <1>7, <1>10 DEF MetFirst
  <2> QED BY <1>1, <1>5, <1>10, <2>1 DEF PagesInv
<1> QED BY <1>9, <1>10

LEMMA BeginPages ==
    ASSUME TypeOK, NEW u \in Readers, NEW walk \in Walks, WalkBegin(u, walk)
    PROVE  PagesInv'
<1>1. /\ reading'.pc = "walk" /\ reading'.uid = u /\ reading'.status = walk.status
      /\ reading'.order = walk.order /\ reading'.limit = walk.limit
      /\ reading'.offset = 0 /\ reading'.met = <<>>
      /\ reading'.always = Selected(u, walk.status)
      /\ invoices' = invoices
  BY DEF WalkBegin
<1>2. Now' = Selected(u, walk.status)
  BY <1>1 DEF Now, Selected, Of, Live
<1>3. walk.limit # None => walk.order # None
  BY InvoiceReportsAssumption, MarkersAssumption DEF Walk
<1>4. StillThere' /\ OnePage'
  BY <1>1, <1>2, <1>3 DEF StillThere, OnePage
<1>5. Len(<<>>) = 0 /\ IsInjective(<<>>) /\ ToSet(<<>>) = {}
  BY DEF IsInjective, ToSet
<1>6. MetFirst(<<>>)'
  BY <1>5 DEF MetFirst, ComesFirst
<1> QED BY <1>1, <1>4, <1>5, <1>6 DEF PagesInv, MetFirst

LEMMA PagesStep ==
    ASSUME TypeOK, PagesInv, [Next]_vars
    PROVE  PagesInv'
<1>1. ASSUME reading'.pc \notin {"walk", "page", "walked"}
      PROVE  PagesInv'
  BY <1>1 DEF PagesInv
<1>2. ASSUME UNCHANGED <<invoices, reading>>
      PROVE  PagesInv'
  <2>1. Now' = Now /\ Sure' = Sure
    BY <1>2 DEF Now, Selected, Of, Live, Sure
  <2>2. StillThere' = StillThere /\ OnePage' = OnePage
    BY <1>2, <2>1 DEF StillThere, OnePage
  <2> QED BY <1>2, <2>1, <2>2 DEF PagesInv, MetFirst
<1>3. ASSUME NEW u \in Readers, StatsGroups(u)
      PROVE  PagesInv'
  BY <1>1, <1>3 DEF StatsGroups
<1>4. ASSUME StatsTotals \/ Finish
      PROVE  PagesInv'
  BY <1>1, <1>4 DEF StatsTotals, Finish, NoReport
<1>5. ASSUME NEW i \in Ids, Delete(i) \/ \E new \in NewStatuses : ChangeStatus(i, new)
      PROVE  PagesInv'
  BY <1>5, CommittedRows, WritePages
<1>6. ASSUME NEW c \in Creations, CreateCommit(c)
      PROVE  PagesInv'
  BY <1>6, WritePages DEF CreateCommit
<1>7. ASSUME NEW c \in Creations,
             \/ \E u \in Users, items \in ItemLists : CreateFlush(c, u, items)
             \/ CreateItems(c) \/ CreateFail(c)
      PROVE  PagesInv'
  BY <1>2, <1>7 DEF CreateFlush, CreateItems, CreateFail
<1> QED
  BY <1>2, <1>3, <1>4, <1>5, <1>6, <1>7, SelectPages, ItemsPages, BeginPages DEF Next, vars

\* Without repetitions, every element is met once.
LEMMA MetOnce ==
    ASSUME NEW met, IsInjective(met), NEW i \in ToSet(met)
    PROVE  Cardinality({k \in DOMAIN met : met[k] = i}) = 1
<1>1. PICK k \in DOMAIN met : met[k] = i
  BY DEF ToSet
<1>2. {m \in DOMAIN met : met[m] = i} = {k}
  BY <1>1 DEF IsInjective
<1> QED BY <1>2, FS_Singleton

\* The offset of the next page is the number of rows that have been met, and
\* these are the first of the rows there are: a walk by id goes on rightly as
\* long as no write moves a row under the offset, one by date as long as there
\* is no write.  The export has one page only.
THEOREM PagesAreSound == Spec => []PagesMeetEachOnce
<1>1. Init => PagesInv
  BY DEF Init, PagesInv, NoReport
<1>2. PagesInv => PagesMeetEachOnce
  <2> SUFFICES ASSUME PagesInv, reading.pc = "walked", reading.limit = None \/ Sure,
                      NEW i \in reading.always
               PROVE  Cardinality({k \in DOMAIN reading.met : reading.met[k] = i}) = 1
    BY DEF PagesMeetEachOnce, Sure, Distinct
  <2>1. IsInjective(reading.met) /\ i \in ToSet(reading.met)
    BY DEF PagesInv
  <2> QED BY <2>1, MetOnce
<1> QED BY <1>1, <1>2, PagesStep, TypeCorrect, PTL DEF Spec
=============================================================================
