CONSTANTS
    m = m
    a = a
    b = b
    Tasks <- MCTasks
    Main = m
    Prio <- MCPrio
    NoTask = NoTask
    AllowBlock = FALSE
    StackOverflow = FALSE
    MaxRepeat = 2
SPECIFICATION SSpec
INVARIANT MutualExclusion
INVARIANT WaitersAreBlocked
INVARIANT NeverHalts
PROPERTY WokenEventuallyRuns
