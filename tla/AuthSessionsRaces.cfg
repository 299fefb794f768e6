CONSTANTS
    r1 = r1  r2 = r2
    u1 = u1  u2 = u2
    p1 = p1  p2 = p2
    Requests = {r1, r2}
    Users = {u1, u2}
    ActiveUsers = {u1}
    Pairs = {p1, p2}
    TicksPerSecond = 1
    AccessLife = 1
    RefreshLife = 1
    MaxTime = 2
    MaxLost = 0
    NotIssued = NotIssued
    NoToken = NoToken
SPECIFICATION Spec
SYMMETRY Symmetry
INVARIANTS
    RotatedIsRevoked
PROPERTIES
    OnlyOwnDevices
    LogoutAllCovers
    ImplementsFamilies
