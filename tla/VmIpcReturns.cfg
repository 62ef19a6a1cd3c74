\* Sessions take turns; the worker may be halted or terminated and statements
\* may be cancelled, so that a new call meets what a cancelled one left in the
\* slot: no wake-up is lost and every call still comes back.
SPECIFICATION FairSpec
CONSTANTS
    Clients = {c1, c2}
    Ops = {"STEP", "HALT"}
    Faults = {"sigterm", "cancel"}
    Exclusive = TRUE
    MaxCalls = 2
    NoClient = NoClient
    NoReq = NoReq
INVARIANTS WorkerWakeup ClientWakeup
PROPERTIES EveryCallReturns
