\* A terminal session: a ring of two usable slots that fills and wraps, a
\* console that fills up, a pattern cut by the ends of batches, clears at any
\* moment.
SPECIFICATION FairSpec
CONSTANTS
    RingSize = 3
    ConSize = 4
    Pattern <- TypedPattern
    MaxInput = 4
INVARIANTS RingIsQueue InputAnnounced ConsoleIsOutput SearchComplete
PROPERTIES InputIsRead
