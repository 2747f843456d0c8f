\* Two requests on a connection that is closed from both sides; it ends when
\* both have returned and the handler has gone.
SPECIFICATION Spec
CONSTANTS
    Requests = {r1, r2}
    Cap = 2
    MaxChunks = 2
SYMMETRY MCSymmetry
INVARIANTS
    StreamInOrder
    NobodyStranded
PROPERTY
    ImplementsAnswers
CHECK_DEADLOCK FALSE
