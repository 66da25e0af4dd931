\* A shadow and an operator's cycle, an operator, the runner and the sweep.
SPECIFICATION FairSpec
CONSTANTS
    c1 = c1
    c2 = c2
    o1 = o1
    o2 = o2
    Cycles = {c1, c2}
    Shadow = {c2}
    Operators = {o1}
    Runner = runner
    NoCycle = none
    MaxConcurrent = 1
    MaxCalls = 2
    MaxFaults = 1
INVARIANTS TypeOK LedgerBacksState
PROPERTIES EndedStaysEnded WaitIsNoticed
CHECK_DEADLOCK FALSE
