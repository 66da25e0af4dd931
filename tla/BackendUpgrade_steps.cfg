\* Any order of scripts, one failed command or interrupt, OLD possibly removed.
SPECIFICATION Spec
CONSTANTS
    Window = 6
    MaxConsec = 3
    MaxPct = 20
    MayRemove = TRUE
    MaxFaults = 1
INVARIANTS TypeOK StoppedHasSnapshot RollbackWorks SomeoneDeployed GreenWasServed
