\* Two requests for one opportunity, under fairness of the coroutines.
SPECIFICATION FairSpec
CONSTANTS
    r1 = r1
    r2 = r2
    p1 = p1
    f1 = f1
    Requests = {r1, r2}
    Plans = {p1}
    Fingerprints = {f1}
    FingerprintOf <- MCFingerprintOf
    NoPlan = none
    MaxTx = 2
INVARIANTS TypeOK AtMostOneSendPerClaim SendIsAuthorised
PROPERTIES ClaimPromise EngageDrains
