----------------------------- MODULE Revisions -----------------------------
(* The files of alembic/versions, each with its upgrade and its downgrade, *)
(* named by its revision, in the order in which down_revision links them.  *)
EXTENDS Schema

f9cde8538faf == [
    up |-> <<create_table("users", {"id"}, {"id", "email", "hashed_password"},
                          {"is_active", "created_at"}, {"created_at"}, {}),
             create_unique("users", "email"), create_index("users", "id"),
             create_table("clients", {"id"},
                          {"id", "name", "email", "ico", "dic", "adress", "owner_id"},
                          {"created_at"}, {"created_at"}, {"users"}),
             create_index("clients", "id")>>,
    down |-> <<drop_index("clients", "id"), drop_table("clients"),
               drop_index("users", "id"), drop_unique("users", "email"),
               drop_table("users")>>]

ce2cf0641f28 == [
    up |-> <<add_column("clients", "office", FALSE, FALSE),
             add_column("clients", "vat", TRUE, FALSE),
             drop_column("clients", "adress")>>,
    down |-> <<add_column("clients", "adress", FALSE, FALSE),
               drop_column("clients", "vat"), drop_column("clients", "office")>>]

\* A variant: phone_number is left behind.
KeepsPhoneNumber == [
    up |-> <<add_column("clients", "phone_number", TRUE, FALSE),
             set_nullable("clients", "dic")>>,
    down |-> <<set_not_null("clients", "dic")>>]

r70e253c119f4 == [
    up |-> <<add_column("clients", "phone_number", TRUE, FALSE),
             set_nullable("clients", "dic")>>,
    down |-> <<set_not_null("clients", "dic"), drop_column("clients", "phone_number")>>]

r8d90cfebc291 == [up |-> <<>>, down |-> <<>>]

r5d69dc3ead9f == [
    up |-> <<add_column("clients", "city", FALSE, FALSE),
             add_column("clients", "psc", FALSE, FALSE),
             add_column("clients", "street", FALSE, FALSE),
             add_column("clients", "house_number", FALSE, FALSE),
             drop_column("clients", "office")>>,
    down |-> <<add_column("clients", "office", FALSE, FALSE),
               drop_column("clients", "house_number"), drop_column("clients", "street"),
               drop_column("clients", "psc"), drop_column("clients", "city")>>]

r35822a286a25 == [
    up |-> <<set_nullable("clients", "email")>>,
    down |-> <<set_not_null("clients", "email")>>]

r6fda9e49a38d == [
    up |-> <<set_nullable("clients", "street"), set_nullable("clients", "house_number")>>,
    down |-> <<set_not_null("clients", "house_number"), set_not_null("clients", "street")>>]

\* A variant: the downgrade drops the table that others refer to first.
DropsInvoicesFirst == [
    up |-> <<create_type("status", {"draft", "sent", "paid"}),
             create_table("invoices", {"id"},
                          {"id", "invoice_number", "issue_date", "due_date", "status",
                           "owner_id", "client_id"},
                          {"created_at"}, {"created_at"}, {"clients", "users"}),
             create_unique("invoices", "invoice_number"),
             create_table("invoiceitems", {"id"},
                          {"id", "description", "unit_price", "quantity", "vat_rate",
                           "invoice_id"}, {}, {}, {"invoices"})>>,
    down |-> <<drop_unique("invoices", "invoice_number"), drop_table("invoices"),
               drop_table("invoiceitems")>>]

r6d820cb74baa == [
    up |-> <<create_type("status", {"draft", "sent", "paid"}),
             create_table("invoices", {"id"},
                          {"id", "invoice_number", "issue_date", "due_date", "status",
                           "owner_id", "client_id"},
                          {"created_at"}, {"created_at"}, {"clients", "users"}),
             create_unique("invoices", "invoice_number"),
             create_table("invoiceitems", {"id"},
                          {"id", "description", "unit_price", "quantity", "vat_rate",
                           "invoice_id"}, {}, {}, {"invoices"})>>,
    down |-> <<drop_table("invoiceitems"), drop_unique("invoices", "invoice_number"),
               drop_table("invoices")>>]

f92e117780e0 == [
    up |-> <<add_column("users", "name", FALSE, FALSE),
             add_column("users", "surname", FALSE, FALSE),
             add_column("users", "ico", FALSE, FALSE)>>,
    down |-> <<drop_column("users", "ico"), drop_column("users", "surname"),
               drop_column("users", "name")>>]

r781585e36c1d == [
    up |-> <<add_column("users", "dic", TRUE, FALSE)>>,
    down |-> <<drop_column("users", "dic")>>]

r6c4e79e9efd7 == [
    up |-> <<add_column("users", "city", FALSE, FALSE),
             add_column("users", "psc", FALSE, FALSE),
             add_column("users", "street", TRUE, FALSE),
             add_column("users", "house_number", TRUE, FALSE)>>,
    down |-> <<drop_column("users", "house_number"), drop_column("users", "street"),
               drop_column("users", "psc"), drop_column("users", "city")>>]

de3a27991bfa == [up |-> <<>>, down |-> <<>>]

e8d94323252d == [
    up |-> <<create_table("tags", {"id"}, {"id", "name", "owner_id"}, {}, {}, {"users"}),
             create_table("invoice_tags", {"invoice_id", "tag_id"},
                          {"invoice_id", "tag_id"}, {}, {}, {"invoices", "tags"})>>,
    down |-> <<drop_table("invoice_tags"), drop_table("tags")>>]

c78d29139bb9 == [
    up |-> <<add_column("invoice_tags", "added_at", TRUE, TRUE)>>,
    down |-> <<drop_column("invoice_tags", "added_at")>>]

r7b80c84498fd == [
    up |-> <<add_column("invoices", "total_amount", TRUE, FALSE)>>,
    down |-> <<drop_column("invoices", "total_amount")>>]

b62d7e26afe7 == [up |-> <<>>, down |-> <<>>]

\* A variant, as autogenerate would write it: a new table for the old one.
CreatesAnew == [
    up |-> <<create_table("invoice_items", {"id"},
                          {"id", "description", "unit_price", "quantity", "vat_rate",
                           "invoice_id"}, {}, {}, {"invoices"}),
             drop_table("invoiceitems")>>,
    down |-> <<rename_table("invoice_items", "invoiceitems")>>]

r857ac5a0e638 == [
    up |-> <<rename_table("invoiceitems", "invoice_items")>>,
    down |-> <<rename_table("invoice_items", "invoiceitems")>>]

\* PostgreSQL cannot take a label from a type; the downgrade does nothing.
r6fe660f7e5fe == [up |-> <<add_label("status", "overdue")>>, down |-> <<>>]

r64c9e4bc3e94 == [
    up |-> <<create_unique("tags", "uq_tag_name_owner")>>,
    down |-> <<drop_unique("tags", "uq_tag_name_owner")>>]

r39e739729221 == [
    up |-> <<create_type("action", {"update", "insert", "delete"}),
             create_table("audit_log", {"id"}, {"id", "table_name", "row_id", "action"},
                          {"old_value", "new_value", "changed_at"}, {"changed_at"}, {})>>,
    down |-> <<drop_table("audit_log")>>]

b19a119d54d4 == [
    up |-> <<set_not_null("users", "street"), set_not_null("users", "house_number")>>,
    down |-> <<set_nullable("users", "house_number"), set_nullable("users", "street")>>]

a457914cb4ac == [
    up |-> <<create_table("refresh_tokens", {"id"},
                          {"id", "jti", "expired_at", "user_id", "user_email"},
                          {"revoked"}, {}, {"users"})>>,
    down |-> <<drop_table("refresh_tokens")>>]

r28276362c076 == [
    up |-> <<set_time_zone("refresh_tokens", "expired_at")>>,
    down |-> <<unset_time_zone("refresh_tokens", "expired_at")>>]

r885e77bfda93 == [
    up |-> <<add_column("clients", "version", FALSE, FALSE)>>,
    down |-> <<drop_column("clients", "version")>>]

r86b28ddb1e34 == [
    up |-> <<set_not_null("audit_log", "changed_at"), create_index("audit_log", "id"),
             set_not_null("clients", "vat"), set_not_null("clients", "created_at"),
             create_index("invoice_items", "id"),
             add_column("invoice_tags", "id", FALSE, FALSE),
             set_not_null("invoice_tags", "added_at"), create_index("invoice_tags", "id"),
             add_column("invoices", "deleted_at", TRUE, FALSE),
             unset_time_zone("invoices", "created_at"),
             set_not_null("invoices", "created_at"),
             set_not_null("invoices", "total_amount"), create_index("invoices", "id"),
             set_not_null("refresh_tokens", "revoked"),
             create_index("refresh_tokens", "id"), create_index("tags", "id"),
             set_not_null("users", "is_active"), set_not_null("users", "created_at")>>,
    down |-> <<set_nullable("users", "created_at"), set_nullable("users", "is_active"),
               drop_index("tags", "id"), drop_index("refresh_tokens", "id"),
               set_nullable("refresh_tokens", "revoked"), drop_index("invoices", "id"),
               set_nullable("invoices", "total_amount"),
               set_time_zone("invoices", "created_at"),
               set_nullable("invoices", "created_at"),
               drop_column("invoices", "deleted_at"), drop_index("invoice_tags", "id"),
               set_nullable("invoice_tags", "added_at"), drop_column("invoice_tags", "id"),
               drop_index("invoice_items", "id"), set_nullable("clients", "created_at"),
               set_nullable("clients", "vat"), drop_index("audit_log", "id"),
               set_nullable("audit_log", "changed_at")>>]

\* down_revision, from the first to the head.
Chain == <<
    f9cde8538faf, ce2cf0641f28, r70e253c119f4, r8d90cfebc291, r5d69dc3ead9f,
    r35822a286a25, r6fda9e49a38d, r6d820cb74baa, f92e117780e0, r781585e36c1d,
    r6c4e79e9efd7, de3a27991bfa, e8d94323252d, c78d29139bb9, r7b80c84498fd,
    b62d7e26afe7, r857ac5a0e638, r6fe660f7e5fe, r64c9e4bc3e94, r39e739729221,
    b19a119d54d4, a457914cb4ac, r28276362c076, r885e77bfda93, r86b28ddb1e34>>

Latest == Len(Chain)

-----------------------------------------------------------------------------
(* The straight upgrade of an empty database.                              *)

Empty == [catalog |-> {}, populated |-> {}, nulls |-> {}]

\* Straight[k + 1] is the database at revision k.
Straight ==
    FoldLeft(LAMBDA past, r : Append(past, Last(Path(r.up, Last(past)))), <<Empty>>, Chain)

\* The databases between it and the next revision, or the one before.
Upgrade(k) == Path(Chain[k + 1].up, Straight[k + 1])

Downgrade(k) == Path(Chain[k].down, Straight[k + 1])

Tables(d) == {f[2] : f \in {g \in d.catalog : g[1] = "column"}}
=============================================================================
