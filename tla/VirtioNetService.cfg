\* Packets in both directions: a ring that fills and wraps, buffers that run
\* out or are too short, polls between any two steps of the driver, resets.
SPECIFICATION FairSpec
CONSTANTS
    RingSize = 2
    NumBufs = 2
    MaxTx = 2
    MaxPackets = 4
INVARIANTS RxIsQueue UsedAnnounced TxAnnounced
PROPERTIES PendingIsTaken
