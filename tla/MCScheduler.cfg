CONSTANTS
    m = m
    a = a
    b = b
    Tasks <- MCTasks
    Main = m
    Prio <- MCPrio
    NoTask = NoTask
    AllowBlock = TRUE
    StackOverflow = TRUE
SPECIFICATION MCSpec
INVARIANT TypeOK
INVARIANT ReadyListMatchesStatus
INVARIANT WokenRunsFirst
PROPERTY ReadyEventuallyRuns
