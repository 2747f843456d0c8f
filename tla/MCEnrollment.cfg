\* The legacy consumer, a configured provider and one to be created, and the
\* agent that may hold a token of either provider.
SPECIFICATION EnrollSpec
CONSTANTS
    n1 = n1
    s1 = s1
    p1 = p1
    p2 = p2
    None = None
    Consumers = {local}
    Providers = {p1, p2}
    Local = local
    Configured = {local, p1}
    SavesMayFail = TRUE
    MaxIssued = 2
    Sessions = {s1}
    Nodes = {n1}
    NodeOf <- MCNodeOf
    Asks <- MCAsks
    PolicyOf <- MCPolicyOf
INVARIANTS
    DisabledStaysOut
    RotatedOutForGood
    CurrentSecretWorks
    AccountsInv
    DisabledNotRouted
    TiersWithinPolicy
