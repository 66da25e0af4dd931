\* Two plans of one to three units, or a negative one, against a daily notional of
\* three, or of four after a change of the policy, over one midnight.
SPECIFICATION Spec
CONSTANTS
    p1 = p1
    p2 = p2
    Plans = {p1, p2}
    Amounts <- SignedAmounts
    Rooms = {0, 1, 2, 3}
    PerPlan = {0, 1}
    Daily = {0, 4}
    DefaultPer = 2
    DefaultDaily = 3
    MaxDay = 1
    MaxUpdates = 1
SYMMETRY PlanSymmetry
INVARIANTS TypeOK DailyCapHolds
CHECK_DEADLOCK FALSE
