------------------------------- MODULE Schema -------------------------------
(***************************************************************************)
(* The catalog of the database as a set of facts, what the operations of   *)
(* Alembic do to it and to the rows, and the catalog that the classes of   *)
(* db_models.py describe.                                                  *)
(*                                                                         *)
(* A fact is a triple: its kind, the table (or enumerated type), the       *)
(* column (constraint, label).  Left out are column types, but for the     *)
(* time zone of a timestamp, which a revision changes; server defaults     *)
(* and sequences; which columns a foreign key joins.  Of the rows only     *)
(* what decides whether an operation can run is kept: which tables have    *)
(* any, and which columns are NULL in some row.                            *)
(***************************************************************************)
EXTENDS SequencesExt

Column(t, c)     == <<"column", t, c>>
NotNull(t, c)    == <<"not null", t, c>>
TimeZone(t, c)   == <<"time zone", t, c>>
PrimaryKey(t, c) == <<"primary key", t, c>>
Index(t, c)      == <<"index", t, c>>
Unique(t, name)  == <<"unique", t, name>>
Refers(t, other) == <<"references", t, other>>
Type(name)       == <<"type", name, "">>
Label(name, l)   == <<"label", name, l>>

\* A table: the columns of its primary key, those that are always set, those
\* that may be NULL, the timestamps with a time zone, the tables its foreign
\* keys refer to.
Table(t, key, required, optional, zoned, parents) ==
    {Column(t, c) : c \in required \cup optional}
        \cup {PrimaryKey(t, c) : c \in key}
        \cup {NotNull(t, c) : c \in required}
        \cup {TimeZone(t, c) : c \in zoned}
        \cup {Refers(t, p) : p \in parents}

Enum(name, labels) == {Type(name)} \cup {Label(name, l) : l \in labels}

\* Facts about types belong to no table and outlive the tables that use them.
IsEnum(fact) == fact[1] \in {"type", "label"}

-----------------------------------------------------------------------------
(* The operations.  A database d has a catalog, the tables with rows, and  *)
(* the columns, as pairs, that are NULL in some row.                       *)

create_table(t, key, required, optional, zoned, parents) ==
    [op |-> "create_table", table |-> t,
     facts |-> Table(t, key, required, optional, zoned, parents)]
\* sa.Enum inside create_table: CREATE TYPE, without a look whether it exists.
create_type(name, labels) == [op |-> "create_type", facts |-> Enum(name, labels)]
add_label(name, l)        == [op |-> "add_label", facts |-> {Label(name, l)}]
drop_table(t)             == [op |-> "drop_table", table |-> t]
rename_table(t, to)       == [op |-> "rename_table", table |-> t, to |-> to]
\* "default": the column has a server_default.
add_column(t, c, nullable, default) ==
    [op |-> "add_column", table |-> t, column |-> c, nullable |-> nullable,
     default |-> default,
     facts |-> {Column(t, c)} \cup (IF nullable THEN {} ELSE {NotNull(t, c)})
                              \cup (IF default THEN {TimeZone(t, c)} ELSE {})]
drop_column(t, c)         == [op |-> "drop_column", table |-> t, column |-> c]
set_nullable(t, c)        == [op |-> "forget", facts |-> {NotNull(t, c)}]
set_not_null(t, c)        == [op |-> "set_not_null", table |-> t, column |-> c,
                              facts |-> {NotNull(t, c)}]
set_time_zone(t, c)       == [op |-> "note", facts |-> {TimeZone(t, c)}]
unset_time_zone(t, c)     == [op |-> "forget", facts |-> {TimeZone(t, c)}]
create_index(t, c)        == [op |-> "note", facts |-> {Index(t, c)}]
drop_index(t, c)          == [op |-> "forget", facts |-> {Index(t, c)}]
create_unique(t, name)    == [op |-> "note", facts |-> {Unique(t, name)}]
drop_unique(t, name)      == [op |-> "forget", facts |-> {Unique(t, name)}]

OfTable(facts, t) == {f \in facts : f[2] = t /\ ~IsEnum(f)}

OfColumn(facts, t, c) == {f \in OfTable(facts, t) : f[3] = c /\ f[1] # "references"}

\* The statement does not raise: what it creates is new, what it drops is
\* there, and no row contradicts it.
Possible(d, o) ==
    /\ o.op \in {"create_table", "create_type", "add_label", "add_column", "note",
                 "set_not_null"} => o.facts \cap d.catalog = {}
    /\ o.op = "forget" => o.facts \subseteq d.catalog
    /\ o.op = "add_column" => o.nullable \/ o.default \/ o.table \notin d.populated
    /\ o.op = "set_not_null" => <<o.table, o.column>> \notin d.nulls
    /\ o.op = "drop_column" => Column(o.table, o.column) \in d.catalog
    /\ o.op = "drop_table" =>
          /\ OfTable(d.catalog, o.table) # {}
          /\ \A f \in d.catalog : f[1] = "references" /\ f[3] = o.table => f[2] = o.table

Renamed(d, t, to) ==
    LET name(x) == IF x = t THEN to ELSE x IN
    [d EXCEPT !.catalog = {IF IsEnum(f) THEN f
                           ELSE <<f[1], name(f[2]), IF f[1] = "references" THEN name(f[3]) ELSE f[3]>>
                              : f \in @},
              !.populated = {name(x) : x \in @},
              !.nulls = {<<name(n[1]), n[2]>> : n \in @}]

Apply(d, o) ==
    CASE o.op \in {"create_table", "create_type", "add_label", "note", "set_not_null"} ->
            [d EXCEPT !.catalog = @ \cup o.facts]
      [] o.op = "forget" -> [d EXCEPT !.catalog = @ \ o.facts]
      [] o.op = "add_column" ->
            [d EXCEPT !.catalog = @ \cup o.facts,
                      !.nulls = IF o.table \in d.populated /\ ~o.default
                                THEN @ \cup {<<o.table, o.column>>} ELSE @]
      [] o.op = "drop_column" ->
            [d EXCEPT !.catalog = @ \ OfColumn(@, o.table, o.column),
                      !.nulls = @ \ {<<o.table, o.column>>}]
      [] o.op = "drop_table" ->
            [d EXCEPT !.catalog = @ \ OfTable(@, o.table),
                      !.populated = @ \ {o.table},
                      !.nulls = {n \in @ : n[1] # o.table}]
      [] o.op = "rename_table" -> Renamed(d, o.table, o.to)

\* The databases that the statements lead to, one after the other.
Path(ops, d) == FoldLeft(LAMBDA past, o : Append(past, Apply(Last(past), o)), <<d>>, ops)

-----------------------------------------------------------------------------
(* db_models.py.  Base gives every table an indexed id in its primary key. *)

ModelTable(t, key, required, optional, zoned, parents) ==
    Table(t, key \cup {"id"}, required \cup {"id"}, optional, zoned, parents)
        \cup {Index(t, "id")}

User ==
    ModelTable("users", {},
        {"name", "surname", "ico", "city", "psc", "street", "house_number", "email",
         "hashed_password", "is_active", "created_at"},
        {"dic"}, {"created_at"}, {})
    \cup {Unique("users", "email")}

Client ==
    ModelTable("clients", {},
        {"version", "name", "ico", "city", "psc", "vat", "created_at", "owner_id"},
        {"email", "dic", "street", "house_number", "phone_number"},
        {"created_at"}, {"users"})

Invoice ==
    ModelTable("invoices", {},
        {"invoice_number", "issue_date", "due_date", "status", "created_at",
         "total_amount", "owner_id", "client_id"},
        {"deleted_at"}, {}, {"users", "clients"})
    \cup {Unique("invoices", "invoice_number")}
    \cup Enum("status", {"draft", "sent", "paid", "overdue"})

InvoiceItem ==
    ModelTable("invoice_items", {},
        {"description", "unit_price", "quantity", "vat_rate", "invoice_id"},
        {}, {}, {"invoices"})

InvoiceTag ==
    ModelTable("invoice_tags", {"invoice_id", "tag_id"},
        {"invoice_id", "tag_id", "added_at"}, {}, {"added_at"}, {"invoices", "tags"})

Tag ==
    ModelTable("tags", {}, {"name", "owner_id"}, {}, {}, {"users"})
    \cup {Unique("tags", "uq_tag_name_owner")}

AuditLog ==
    ModelTable("audit_log", {}, {"table_name", "row_id", "action", "changed_at"},
        {"old_value", "new_value"}, {"changed_at"}, {})
    \cup Enum("action", {"update", "insert", "delete"})

RefreshToken ==
    ModelTable("refresh_tokens", {},
        {"jti", "expired_at", "revoked", "user_id", "user_email"}, {}, {"expired_at"}, {"users"})

metadata ==
    User \cup Client \cup Invoice \cup InvoiceItem \cup InvoiceTag \cup Tag
        \cup AuditLog \cup RefreshToken

\* What the classes declare and no revision makes: InvoiceTag adds its two
\* columns to the primary key of Base, so that it has three, while the table
\* was made with those two, and 86b28ddb1e34 adds id as a plain column.
DeclaredOnly == {PrimaryKey("invoice_tags", "id")}
=============================================================================
