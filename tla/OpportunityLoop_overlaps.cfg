\* Two HTTP callers on one row, with a crash or a failed call.
SPECIFICATION RestartedSpec
CONSTANTS
    loop = loop
    http = http
    o1 = o1
    o2 = o2
    b1 = b1
    b2 = b2
    Opps = {o1}
    Tickers = {}
    Callers = {loop, http}
    ModesHeld <- LiveOnly
    Backends = {b1}
    NoBackend = none
    NoOpp = none
    LearnEvery = 2
    MaxCalls <- TwoCalls
    MaxFaults = 1
    MaxCount = 4
INVARIANTS StatusExplained NoLabelWithoutSample TrailIsComplete RepeatsExplained EvidenceIsOwn
    TallyMissesExplained
SYMMETRY CallersAlike
CHECK_DEADLOCK FALSE
