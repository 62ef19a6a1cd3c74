SPECIFICATION Spec
CONSTANTS
    Radix = 2
    TlbSize = 2
    Tables = {0, 2, 4}
    RamPages = {0, 1, 2, 3, 4, 5, 6, 7, 8}
    Ptes <- MCPtes
    InitPte <- MCInitPte
    Bare = Bare
    Unsupported = Unsupported
    MaxWrites = 1
INVARIANTS
    TypeOK
    TlbCoherent
    AccessIsWalk
    StoreSetsDirty
