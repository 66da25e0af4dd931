\* An emission of the loop beside POST .../ledger/emit: nothing fails.
SPECIFICATION RestartedSpec
CONSTANTS
    loop = loop
    http = http
    o1 = o1
    o2 = o2
    b1 = b1
    b2 = b2
    Opps = {o1}
    Tickers = {loop}
    Callers = {http}
    ModesHeld <- LiveOnly
    Backends = {b1}
    NoBackend = none
    NoOpp = none
    LearnEvery = 1
    MaxCalls <- TwoCalls
    MaxFaults = 0
    MaxCount = 4
INVARIANTS ConsumedOnce
CHECK_DEADLOCK FALSE
