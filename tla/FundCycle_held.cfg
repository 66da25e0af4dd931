\* One cycle of an operator's, and no faults: what its review may come to.
SPECIFICATION Spec
CONSTANTS
    c1 = c1
    c2 = c2
    o1 = o1
    o2 = o2
    Cycles = {c1}
    Shadow = {}
    Operators = {o1}
    Runner = runner
    NoCycle = none
    MaxConcurrent = 1
    MaxCalls = 4
    MaxFaults = 0
INVARIANTS HeldCanResume
CHECK_DEADLOCK FALSE
