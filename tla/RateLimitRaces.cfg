CONSTANTS
    r1 = r1  r2 = r2
    ip1 = ip1
    i1 = i1  i2 = i2  i3 = i3
    Requests = {r1, r2}
    IPs = {ip1}
    Instances = {i1, i2, i3}
    FreeAttempts = 2
    Horizon = 4
    Backoff <- PowersOfTwo
    MaxTime = 10
    NoInstance = NoInstance
SPECIFICATION Spec
SYMMETRY Symmetry
INVARIANTS
    CountersAreFew
    GuessesAreBounded
PROPERTY
    OnlySuccessShortens
