\* Four requests of every kind on a ring of two, whose indices, modulo four,
\* wrap; one reset.
SPECIFICATION FairSpec
CONSTANTS
    NSectors = 3
    Num = 2
    IdxMod = 4
    Templates <- Kinds
    MaxRequests = 4
    MaxResets = 1
INVARIANTS CompletionAnnounced WritesAreReported
PROPERTIES EveryRequestAnswered ImplementsBlockService
