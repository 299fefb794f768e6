SPECIFICATION FairSpec
CONSTANTS
    r1 = r1
    r2 = r2
    r3 = r3
    e1 = e1
    o1 = o1
    o2 = o2
    a = a
    b = b
    noUser = noUser
    Requests = {r1, r2, r3}
    Emails = {e1}
    Owners = {o1, o2}
    Names = {a, b}
    NoUser = noUser
INVARIANTS
    WelcomeIsOwnAccount
    BulkReturnsAll
PROPERTIES
    EveryRequestEnds
CHECK_DEADLOCK FALSE
