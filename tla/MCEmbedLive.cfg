\* Two embedding requests: no chunks, one answer each.
SPECIFICATION FairSpec
CONSTANTS
    Requests = {r1, r2}
    Cap = 3
    MaxChunks = 0
PROPERTY WaiterReturns
CHECK_DEADLOCK FALSE
