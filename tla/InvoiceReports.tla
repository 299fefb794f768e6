--------------------------- MODULE InvoiceReports ---------------------------
(* The creation of an invoice with its items, and what is read of many     *)
(* invoices: the statistics, and the listing and the export in pages.      *)
(*                                                                         *)
(* Each statement of a report has a snapshot of its own (READ COMMITTED).  *)
(* The writes of the life cycle, see Invoices, are single steps here.      *)
EXTENDS Amounts, InvoiceStatus

CONSTANTS
    Users,
    Creations,      \* requests that create an invoice
    MaxId,          \* invoices ever inserted, a bound
    ItemLists,      \* the lists of items that are sent
    Due,            \* the due date of each invoice
    Readers,        \* the users whose reports are considered
    Walks,          \* the listings considered: their filter, order and limit
    NewStatuses,    \* the status changes considered
    Deleted,
    NotInserted,
    None            \* Python's None: no filter, no limit

Ids == 1 .. MaxId

Row == [owner : Users, status : Status, total_amount : Nat, invoice_items : Seq(Item),
        exact : BOOLEAN]

\* Only the export has no order, and it has no limit; a limit is positive.
Walk == [status : Status \cup {None}, order : {"id", "due_date"},
         limit : {None} \cup (Nat \ {0})]
        \cup [status : Status \cup {None}, order : {None}, limit : {None}]

ASSUME InvoiceReportsAssumption ==
    /\ MaxId \in Nat
    /\ Due \in [Ids -> Nat]
    /\ ItemLists \subseteq Seq(Item)
    /\ Readers \subseteq Users
    /\ NewStatuses \subseteq Status
    /\ Walks \subseteq Walk

ASSUME MarkersAssumption ==
    /\ Deleted \notin Row /\ NotInserted \notin Row
    /\ None \notin Status \cup Nat \cup {"id", "due_date"}

VARIABLES
    invoices,       \* the committed rows, with their items
    next_id,        \* the sequence of invoices.id
    creation,       \* what each creating request is at
    reading         \* the report that is being made

vars == <<invoices, next_id, creation, reading>>

Live(i) == invoices[i] \notin {Deleted, NotInserted}

\* A variant: no condition on the owner.
OfAnyone(u) == {i \in Ids : Live(i)}

Of(u) == {i \in Ids : Live(i) /\ invoices[i].owner = u}

\* InvoiceRepo.filtering.
Selected(u, status) == {i \in Of(u) : status \in {None, invoices[i].status}}

SumOf(S) == SumTo([i \in Ids |-> IF i \in S THEN invoices[i].total_amount ELSE 0], MaxId)

-----------------------------------------------------------------------------
(* What a report that is being made is told of the writes (history).       *)

NoReport == [pc |-> "none"]

\* Rows that the pages have passed may have moved: a row went, or came with
\* a lower id than another.
Moved(before, after) ==
    ~(before \subseteq after /\ \A i \in after \ before, j \in before : i > j)

\* A write while a report is being made; gone are the invoices it deletes.
Writes(gone) ==
    IF reading.pc \in {"groups", "walk", "page"}
    THEN \E u \in {reading.uid}, status \in {reading.status} :
            reading' = [reading EXCEPT
                !.quiet = FALSE,
                !.moved = @ \/ Moved(Selected(u, status), Selected(u, status)'),
                !.always = @ \cap Selected(u, status)',
                !.gone = @ \cup gone]
    ELSE UNCHANGED reading

-----------------------------------------------------------------------------
(* POST /create_invoice.                                                   *)

CreateFlush(c, u, items) ==
    /\ creation[c].pc = "free"
    /\ next_id <= MaxId
    /\ next_id' = next_id + 1
    /\ creation' = [creation EXCEPT ![c] =
          [pc |-> "flushed", id |-> next_id, owner |-> u, items |-> items]]
    /\ UNCHANGED <<invoices, reading>>

\* INSERT of all items; of no items it is INSERT DEFAULT VALUES, which raises.
CreateItems(c) ==
    /\ creation[c].pc = "flushed"
    /\ creation' = [creation EXCEPT ![c] =
          IF @.items = <<>> THEN [pc |-> "free"] ELSE [@ EXCEPT !.pc = "itemized"]]
    /\ UNCHANGED <<invoices, next_id, reading>>

\* A variant: the invoice is committed before its items are inserted.
CommittedFrom == "flushed"

CommitsFrom == "itemized"

CreateCommit(c) ==
    /\ creation[c].pc = CommitsFrom
    /\ invoices' = [invoices EXCEPT ![creation[c].id] =
          [owner |-> creation[c].owner, status |-> "draft",
           total_amount |-> TotalAmount(creation[c].items),
           invoice_items |-> IF creation[c].pc = "flushed" THEN <<>>
                             ELSE [k \in DOMAIN creation[c].items |-> Stored(creation[c].items[k])],
           exact |-> FitsColumns(creation[c].items)]]
    /\ creation' = [creation EXCEPT ![c] = [pc |-> "free"]]
    /\ Writes({})
    /\ UNCHANGED next_id

\* A statement raises: rollback; the number is not given back.
CreateFail(c) ==
    /\ creation[c].pc # "free"
    /\ creation' = [creation EXCEPT ![c] = [pc |-> "free"]]
    /\ UNCHANGED <<invoices, next_id, reading>>

-----------------------------------------------------------------------------
(* The life cycle, one committed write at a time.                          *)

ChangeStatus(i, new) ==
    /\ Live(i)
    /\ new \in STATUS_MAP[invoices[i].status]
    /\ invoices' = [invoices EXCEPT ![i].status = new]
    /\ Writes({})
    /\ UNCHANGED <<next_id, creation>>

\* The items go with the invoice (cascade).
Delete(i) ==
    /\ Live(i)
    /\ invoices[i].status = "draft"
    /\ invoices' = [invoices EXCEPT ![i] = Deleted]
    /\ Writes({i})
    /\ UNCHANGED <<next_id, creation>>

-----------------------------------------------------------------------------
(* GET /stats: two statements.                                             *)

\* get_sum_by_status.
StatsGroups(u) ==
    /\ reading = NoReport
    /\ reading' = [pc |-> "groups", uid |-> u, status |-> None, quiet |-> TRUE,
                   moved |-> FALSE, always |-> {}, gone |-> {},
                   by_status |-> [s \in {invoices[i].status : i \in Of(u)} |->
                      [count |-> Cardinality(Selected(u, s)), total |-> SumOf(Selected(u, s))]]]
    /\ UNCHANGED <<invoices, next_id, creation>>

\* A variant: the totals are those of every user.
TotalsOf(u) == OfAnyone(u)

CountedFor(u) == Of(u)

\* main_stmt of invoice_stats.
StatsTotals ==
    /\ reading.pc = "groups"
    /\ reading' = [pc |-> "stats", quiet |-> reading.quiet, by_status |-> reading.by_status,
                   total_invoices |-> Cardinality(CountedFor(reading.uid)),
                   total_revenue |-> SumOf(CountedFor(reading.uid))]
    /\ UNCHANGED <<invoices, next_id, creation>>

-----------------------------------------------------------------------------
(* GET /invoices, page after page, and GET /export_invoices: no order and  *)
(* no limit.                                                               *)

\* A variant: no order, the rows come as they please.
Unordered(S, order) == {s \in [1 .. Cardinality(S) -> S] : ToSet(s) = S}

\* ORDER BY id or by a date, or no order.  Equal dates come in any order.
Ordered(S, order) ==
    {s \in [1 .. Cardinality(S) -> S] :
        /\ ToSet(s) = S
        /\ \A k \in 1 .. Cardinality(S) - 1 :
              /\ order = "id" => s[k] < s[k + 1]
              /\ order = "due_date" => Due[s[k]] <= Due[s[k + 1]]}

\* InvoiceRepo.pagination.
Page(rows, limit, offset) ==
    SubSeq(rows, offset + 1, IF limit = None \/ offset + limit > Len(rows)
                             THEN Len(rows) ELSE offset + limit)

WalkBegin(u, walk) ==
    /\ reading = NoReport
    /\ reading' = [pc |-> "walk", uid |-> u, status |-> walk.status, order |-> walk.order,
                   limit |-> walk.limit, offset |-> 0, page |-> <<>>, met |-> <<>>,
                   hollow |-> {}, quiet |-> TRUE, moved |-> FALSE,
                   always |-> Selected(u, walk.status), gone |-> {}]
    /\ UNCHANGED <<invoices, next_id, creation>>

PageSelect ==
    /\ reading.pc = "walk"
    /\ \E rows \in Ordered(Selected(reading.uid, reading.status), reading.order) :
          reading' = [reading EXCEPT !.pc = "page",
                                     !.page = Page(rows, reading.limit, reading.offset)]
    /\ UNCHANGED <<invoices, next_id, creation>>

\* selectinload: the items of the page, with the next statement; and the
\* caller goes on while the pages are full.
PageItems ==
    /\ reading.pc = "page"
    /\ LET page == reading.page
           full == reading.limit # None /\ Len(page) = reading.limit IN
       reading' = [reading EXCEPT
            !.pc = IF full THEN "walk" ELSE "walked",
            !.met = @ \o page,
            !.hollow = @ \cup {i \in ToSet(page) : ~Live(i) \/ invoices[i].invoice_items = <<>>},
            !.offset = @ + Len(page),
            !.page = <<>>]
    /\ UNCHANGED <<invoices, next_id, creation>>

\* The answer has been taken.
Finish ==
    /\ reading.pc \in {"stats", "walked"}
    /\ reading' = NoReport
    /\ UNCHANGED <<invoices, next_id, creation>>

-----------------------------------------------------------------------------

Init ==
    /\ invoices = [i \in Ids |-> NotInserted]
    /\ next_id = 1
    /\ creation = [c \in Creations |-> [pc |-> "free"]]
    /\ reading = NoReport

Next ==
    \/ \E c \in Creations :
          \/ \E u \in Users, items \in ItemLists : CreateFlush(c, u, items)
          \/ CreateItems(c) \/ CreateCommit(c) \/ CreateFail(c)
    \/ \E i \in Ids : Delete(i) \/ \E new \in NewStatuses : ChangeStatus(i, new)
    \/ \E u \in Readers : StatsGroups(u) \/ \E walk \in Walks : WalkBegin(u, walk)
    \/ StatsTotals
    \/ PageSelect
    \/ PageItems
    \/ Finish

Spec == Init /\ [][Next]_vars

-----------------------------------------------------------------------------
(* Properties.                                                             *)

\* The states of a listing, and of any report by what its groups are.
Listings ==
    [pc : {"walk", "page", "walked"}, uid : Users, status : Status \cup {None},
     order : {"id", "due_date", None}, limit : {None} \cup (Nat \ {0}), offset : Nat,
     page : Seq(Ids), met : Seq(Ids), hollow : SUBSET Ids, quiet : BOOLEAN,
     moved : BOOLEAN, always : SUBSET Ids, gone : SUBSET Ids]

Reports(Groups) ==
    {NoReport} \cup Listings
    \cup [pc : {"groups"}, uid : Users, status : {None}, quiet : BOOLEAN, moved : BOOLEAN,
          always : SUBSET Ids, gone : SUBSET Ids, by_status : Groups]
    \cup [pc : {"stats"}, quiet : BOOLEAN, by_status : Groups,
          total_invoices : Nat, total_revenue : Nat]

\* Every variable has its type.
TypeOK ==
    /\ invoices \in [Ids -> Row \cup {Deleted, NotInserted}]
    /\ next_id \in Nat \ {0}
    /\ creation \in [Creations ->
          [pc : {"free"}]
          \cup [pc : {"flushed", "itemized"}, id : Ids, owner : Users, items : ItemLists]]
    /\ \E S \in SUBSET Status : reading \in Reports([S -> [count : Nat, total : Nat]])

\* The sum of the computed fields of the items, as they are shown.
Shown(items) == SumTo([k \in DOMAIN items |-> total_with_vat(items[k])], Len(items))

\* No invoice is there without items, whatever fails on the way, and its
\* amount is that of the items that are shown and printed with it, when what
\* was given fits the columns (create_invoice, InvoiceItemResponse).
AmountIsThatOfItems ==
    \A i \in Ids :
        Live(i) => /\ invoices[i].invoice_items # <<>>
                   /\ invoices[i].exact
                      => invoices[i].total_amount = Shown(invoices[i].invoice_items)

\* What the groups of the statuses add up to.
AllGroups(groups, field) ==
    LET group(s) == IF s \in DOMAIN groups THEN groups[s][field] ELSE 0
    IN  group("draft") + group("sent") + group("paid") + group("overdue")

\* The statistics add up when nothing is written between their two
\* statements (invoice_stats); with a write in between they need not.
QuietStatsAddUp ==
    reading.pc = "stats" /\ reading.quiet =>
        /\ AllGroups(reading.by_status, "count") = reading.total_invoices
        /\ AllGroups(reading.by_status, "total") = reading.total_revenue

\* Going through the pages meets every invoice that was selected all the time
\* once: by id, if no row moved under the offset, though others are created
\* and change; by a date, only if nothing is written and no dates are equal.
PagesMeetEachOnce ==
    LET sure ==
          IF reading.order = "id" THEN ~reading.moved
          ELSE reading.quiet /\ \A i, j \in reading.always : Due[i] = Due[j] => i = j
    IN reading.pc = "walked" /\ (reading.limit = None \/ sure) =>
        \A i \in reading.always :
            Cardinality({k \in DOMAIN reading.met : reading.met[k] = i}) = 1

\* An invoice is listed or exported with its items, though they are read by
\* another statement, unless it was deleted in between (selectinload).
ListedWithItems ==
    reading.pc \in {"walk", "page", "walked"} => reading.hollow \subseteq reading.gone
=============================================================================
