\* Blocks that cross pages, collide in the cache, end early and grow stale;
\* page tables that change with and without fences; requests of sessions at
\* any moment; machines booted anew.
SPECIFICATION Spec
CONSTANTS
    NumPages = 2
    PageLen = 2
    CacheSize = 2
    MaxInsns = 3
    ExitLimit = 1
    Sizes = {1}
    Programs <- TwoPrograms
    Maps <- ThreeMaps
    MaxChanges = 2
INVARIANTS BlockIsCode BlocksObeyConfig RequestsApplied
