\* Two requests of every kind, store failures and a crash, fair goroutines.
SPECIFICATION FairSpec
CONSTANTS
    r1 = r1
    r2 = r2
    r3 = r3
    c1 = c1
    c2 = c2
    p1 = p1
    k1 = k1
    NoKey = NoKey
    Requests = {r1, r2}
    Consumers = {c1, c2}
    Providers = {p1}
    Keys = {k1}
    Jobs <- MCJobs
    Limit <- MCLimit
    MaxEstimate = 2
    Overshoot = 1
    StoresMayFail = TRUE
    MaxCrashes = 1
INVARIANTS
    BillingInv
    ReservationsExact
    UsageCoversSettlement
PROPERTIES
    EveryRequestAnswered
    ReservationsDrain
