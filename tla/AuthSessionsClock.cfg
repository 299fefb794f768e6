CONSTANTS
    r1 = r1  r2 = r2
    u1 = u1  u2 = u2
    p1 = p1  p2 = p2
    Requests = {r1, r2}
    Users = {u1}
    ActiveUsers = {u1}
    Pairs = {p1}
    TicksPerSecond = 3
    AccessLife = 2
    RefreshLife = 2
    MaxTime = 9
    MaxLost = 1
    NotIssued = NotIssued
    NoToken = NoToken
SPECIFICATION Spec
SYMMETRY Symmetry
INVARIANT
    LogoutHolds
