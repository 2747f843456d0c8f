\* One request or challenge, two nodes, one of which reconnects with fewer tiers.
SPECIFICATION FairSpec
CONSTANTS
    n1 = n1
    n2 = n2
    s1 = s1
    s2 = s2
    s3 = s3
    r1 = r1
    r2 = r2
    p1 = p1
    p2 = p2
    private = private
    public = public
    AnyProvider = AnyProvider
    Nodes = {n1, n2}
    Providers = {p1, p2}
    Sessions = {s1, s2, s3}
    Requests = {r1}
    Tiers = {private, public}
    ProviderOf <- MCProviderOf
    NodeOf <- MCNodeOf
    TiersOf <- MCTiersOf
    CanServe <- MCCanServe
    TierOf <- MCTierOf
    Targets = {AnyProvider, p1}
    MaxConcurrent <- MCOneSlot
    MaxReported = 0
INVARIANTS
    OneNodePerAnswer
    NodeTriedOnce
    PrivacyKept
    SlotsNotLeaked
    RoutableIsOpen
PROPERTY EveryDispatchEnds
