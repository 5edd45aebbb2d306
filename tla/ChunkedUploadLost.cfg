\* Two chunks sent at the same time.
CONSTANTS
    u1 = u1
    u2 = u2
    u3 = u3
    c1 = c1
    c2 = c2
    c3 = c3
    x1 = x1
    NoOne = NoOne
    NumChunks = 2
    Uploaders <- MCUploaders
    ChunkOf <- MCChunkOf
    Completers <- MCNone
    Cancellers <- MCNone
SPECIFICATION Spec
INVARIANTS
    AcknowledgedIsListed
\* Each request is served once, so the system stops when all are over.
CHECK_DEADLOCK FALSE
