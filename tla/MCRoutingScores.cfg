\* The refresher and a request report on a provider with one node.
SPECIFICATION Spec
CONSTANTS
    p1 = p1
    n1 = n1
    None = None
    Providers = {p1}
    Challenged = {p1}
    Scores = {40}
    ChallengeMs = {0}
    Nodes = {n1}
    Views <- MCViews
    Balances <- MCBalances
    Verdicts <- MCVerdicts
    Refresher = refresher
    Requests = {request}
    MaxChallenges = 1
PROPERTIES
    ScoresCatchUp
    DisabledSinks
