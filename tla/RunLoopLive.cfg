\* Both loops, with breakpoints; budgets that leave room for a check.
SPECIFICATION LoopFairSpec
CONSTANTS
    Compilers = {TRUE, FALSE}
    Interval = 2
    Budgets = {4}
    MaxBlock = 2
    Debugging = TRUE
    TrapLoops = FALSE
INVARIANTS NoPhantomTimer
PROPERTIES RunReturns WfiWakes InterruptTaken
