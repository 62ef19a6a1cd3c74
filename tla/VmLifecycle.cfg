\* Two sessions launch, halt, reset, save, resume and disconnect; workers fail
\* and are terminated, the server crashes.
SPECIFICATION Spec
CONSTANTS
    Sessions = {s1, s2}
    MaxSegs = 2
    MaxRams = 2
    MaxInstants = 2
SYMMETRY SessionSymmetry
VIEW Seen
INVARIANTS AttachedWasReady OneWorker OneInstant
\* Sessions wait for ever when the workers they launched fail at once.
CHECK_DEADLOCK FALSE
