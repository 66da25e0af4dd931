\* The loop by itself over two opportunities, below LIMITED_LIVE, nothing failing.
SPECIFICATION FairSpec
CONSTANTS
    loop = loop
    http = http
    o1 = o1
    o2 = o2
    b1 = b1
    b2 = b2
    Opps = {o1, o2}
    Tickers = {loop}
    Callers = {}
    ModesHeld <- DryModes
    Backends = {b1}
    NoBackend = none
    NoOpp = none
    LearnEvery = 2
    MaxCalls <- NoCalls
    MaxFaults = 0
    MaxCount = 3
INVARIANTS TypeOK ConsumedIsTerminal
PROPERTIES FinishedIsLearned
