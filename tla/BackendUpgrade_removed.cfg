\* OLD removed after its retention window, then a rollback.
SPECIFICATION Spec
CONSTANTS
    Window = 3
    MaxConsec = 3
    MaxPct = 20
    MayRemove = TRUE
    MaxFaults = 0
INVARIANT RollbackServes
