SPECIFICATION MigrationsSpec
CONSTANTS
    NoMigration = NoMigration
    Stored = {"users", "clients", "invoices", "invoiceitems", "tags", "invoice_tags", "refresh_tokens"}
INVARIANTS
    RevisionFixesCatalog
    HeadServesModels
    RaisesOnlyOverLeftovers
PROPERTIES
    UpgradesKeepColumns
