\* Either ledger and store: an SQLite insert happens or it does not, a JSONL
\* line may be cut short at any byte.
SPECIFICATION Spec
CONSTANTS
    Kinds = {"settlement_sqlite", "settlement_jsonl", "challenge_jsonl"}
    Consumers = {c1, c2}
    Providers = {p1}
    Tokens = {1, 1500}
    Latencies = {3, 20}
    price = 1700
    shareBPS = 9000
    targetLatencyMs = 10
    latencyPenaltyBPS = 2500
    Challenged = {p1, p2}
    Scores <- MCScores
    ChallengeMs = {3, 20}
    Standings <- MCStandings
    MaxWrites = 3
    MaxFaults = 2
INVARIANTS
    ChainValid
    SqliteRestarts
    DebitsCoverRewards
    AveragesInRange
    FailureNeverHelps
PROPERTY ImplementsLog
CHECK_DEADLOCK FALSE
