CONSTANTS
    r1 = r1  r2 = r2
    u1 = u1  u2 = u2
    c1 = c1
    p1 = p1  p2 = p2
    Requests = {r1, r2}
    Users = {u1, u2}
    ClientIds = {c1}
    Patches = {p1, p2}
    MaxUpdates = 3
    NoChange = NoChange
    NotInserted = NotInserted
    Nil = Nil
SPECIFICATION FairWatchedSpec
INVARIANTS
    CachedWasCommitted
    ReadYourWrites
    DeletedNotFound
PROPERTIES
    UpdatesBuildOnWhatWasRead
    EventuallyCoherent
    ImplementsReplica
