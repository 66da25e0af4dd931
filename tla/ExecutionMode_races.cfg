\* Two operators, one strategy, one crash or failed database call.
SPECIFICATION Spec
CONSTANTS
    s1 = s1
    s2 = s2
    o1 = o1
    o2 = o2
    Strategies = {s1}
    Operators = {o1, o2}
    DefaultMode <- MCDefaultMode
    NoStrategy = none
    MaxAudit = 4
    MaxFaults = 1
INVARIANTS TypeOK LiveRungEarned AuditIsHistory
PROPERTY LadderPromise
CHECK_DEADLOCK FALSE
