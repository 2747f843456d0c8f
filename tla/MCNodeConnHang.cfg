\* One request and a channel of two messages.
SPECIFICATION FairSpec
CONSTANTS
    Requests = {r1}
    Cap = 2
    MaxChunks = 2
PROPERTY RequestNotHung
CHECK_DEADLOCK FALSE
