\* Everything that can happen to two machines run one after the other, on a
\* disk whose last block is short, while a session keeps stepping.
SPECIFICATION DiskFairSpec
CONSTANTS
    NSectors = 3
    SPB = 2
    Contents = {base, x}
    BaseValue = base
    NoRow = NoRow
    Vms = {1, 2}
    FlushLimit = 1
    Events = {"driver_reset", "failed_boot", "snapshot", "error", "crash"}
INVARIANTS DiskTypeOK TrackedIsMarked
PROPERTIES RebootKeepsStored MarkedIsStored
