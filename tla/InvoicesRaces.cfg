CONSTANTS
    r1 = r1  r2 = r2
    u1 = u1  u2 = u2
    c1 = c1  c2 = c2
    i1 = i1  i2 = i2
    n1 = n1  n2 = n2
    Requests = {r1, r2}
    Users = {u1, u2}
    ClientIds = {c1}
    InvoiceIds = {i1}
    Numbers = {n1}
    MaxDay = 1
    MaxAudit = 2
    NotInserted = NotInserted
    Deleted = Deleted
SPECIFICATION Spec
SYMMETRY Symmetry
INVARIANTS
    AuditExplainsStatus
    TenantConsistent
PROPERTIES
    ImplementsLedger
    OnlyOwnerWrites
    PaidIsLostOnlyToStaleRequests
