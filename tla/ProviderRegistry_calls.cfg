\* Two concurrent calls over two providers.
SPECIFICATION FairSpec
CONSTANTS
    p1 = p1
    p2 = p2
    k1 = k1
    k2 = k2
    Providers = {p1, p2}
    Callers = {k1, k2}
    NoProvider = none
    Threshold = 2
    Window = 3
    MaxAttempts = 3
INVARIANTS TypeOK OpenIsSkipped
PROPERTIES OpenForItsPause ProbationTrips LockedOutEnds
