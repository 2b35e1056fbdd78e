SPECIFICATION Spec
CONSTANTS
    b1 = b1
    b2 = b2
    r1 = r1
    r2 = r2
    Broadcasts = {b1, b2}
    Inline = {b2}
    Recipients = {r1, r2}
    Audience <- MCAudience
    Connections = 2
    Threads = 1
    Attempts = 2
    None = None
INVARIANTS
    SentWasDelivered
    QueuedIsUnderWay
    SentIsComplete
PROPERTIES
    SentIsFinal
    DispatchEnds
\* Each broadcast is sent once: a run ends when all have been.
CHECK_DEADLOCK FALSE
