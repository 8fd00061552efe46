CONSTANTS
    m = m
    p1 = p1
    p2 = p2
    Tasks <- MCTasks
    Main = m
    Prio <- MCPrio
    NoTask = NoTask
    KernelDir = KernelDir
    AllowBlock = FALSE
    StackOverflow = FALSE
    KPages <- MCKPages
    USER_VADDR_START = 134512640
    NDEBUG = TRUE
SPECIFICATION PSpec
INVARIANT LowMemoryIntact
