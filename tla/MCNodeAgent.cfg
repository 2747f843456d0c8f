\* Two requests and endless heartbeats; the node may reconnect once.
SPECIFICATION FairSpec
CONSTANTS
    Requests = {r1, r2}
    MaxConcurrent = 1
    MaxSessions = 2
    MaxWire = 1
INVARIANTS
    CoordinatorKeepsLimit
    AnswersOnOwnSession
PROPERTY SlotsRecover
