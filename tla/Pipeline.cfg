SPECIFICATION FairSpec
CONSTANTS
    r1 = r1
    r2 = r2
    r3 = r3
    noError = noError
    Requests = {r1, r2, r3}
    NoError = noError
    PoolSize = 1
    MaxOverflow = 1
    MaxSteps = 2
    Raisable = {"InvalidStatusChangeError", "StaleDataError"}
    Kinds <- MCKinds
INVARIANTS
    ConnectionsAccounted
    AnsweredOnce
    ReadableByOurs
    OnlyUnforeseenIs500
PROPERTIES
    EveryRequestEnds
