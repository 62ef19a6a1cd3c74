\* The guest's driver resets the device.
SPECIFICATION DiskSpec
CONSTANTS
    NSectors = 3
    SPB = 2
    Contents = {base, x}
    BaseValue = base
    NoRow = NoRow
    Vms = {1}
    FlushLimit = 1
    Events = {"driver_reset"}
INVARIANT UnstoredIsMarked
