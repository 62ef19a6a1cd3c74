\* Sessions take turns; a database error may end the worker: what a call reports.
SPECIFICATION Spec
CONSTANTS
    Clients = {c1, c2}
    Ops = {"BOOT", "STEP", "SEND", "WATCHPOINT"}
    Faults = {"error"}
    Exclusive = TRUE
    MaxCalls = 2
    NoClient = NoClient
    NoReq = NoReq
SYMMETRY ClientSymmetry
PROPERTIES ImplementsService
