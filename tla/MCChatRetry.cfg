\* Three requests of one account, retries of one key among them; store failures,
\* a crash, stale claims.
SPECIFICATION Spec
CONSTANTS
    r1 = r1
    r2 = r2
    r3 = r3
    c1 = c1
    c2 = c2
    p1 = p1
    k1 = k1
    NoKey = NoKey
    Requests = {r1, r2, r3}
    Consumers = {c1, c2}
    Providers = {p1}
    Keys = {k1}
    Jobs <- MCRetryMix
    Limit <- MCLimit
    MaxEstimate = 2
    Overshoot = 1
    StoresMayFail = TRUE
    MaxCrashes = 1
SYMMETRY MCSymmetry
INVARIANTS
    QuotaBound
    ChargesBounded
    OneAnswerPerKey
    NoOrphanClaim
PROPERTY CompletedIsFinal
