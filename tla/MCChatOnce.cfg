\* Two attempts with one key; no store fails and nothing crashes.
SPECIFICATION Spec
CONSTANTS
    r1 = r1
    r2 = r2
    r3 = r3
    c1 = c1
    c2 = c2
    p1 = p1
    k1 = k1
    NoKey = NoKey
    Requests = {r1, r2}
    Consumers = {c1, c2}
    Providers = {p1}
    Keys = {k1}
    Jobs <- MCRetries
    Limit <- MCLimit
    MaxEstimate = 2
    Overshoot = 1
    StoresMayFail = FALSE
    MaxCrashes = 0
INVARIANT ChargedAtMostOnce
