\* The flash-loan and the dex scanner share the queue.
SPECIFICATION FairSpec
CONSTANTS
    flash = flash
    dex = dex
    c1 = c1
    c2 = c2
    Workers = {flash, dex}
    Candidates = {c1, c2}
    NoWorker = none
    NoCandidate = nothing
    KindOf <- MCKindOf
    Guarded = {flash}
    BatchSize = 2
    MaxSlow = 1
    MaxFaults = 1
INVARIANTS TypeOK EmissionsPerClaim OutcomeTellsEmission
PROPERTIES OutcomeStands LeasePromise CandidateSettled
