CONSTANTS
    Len = 1
    NDEBUG = FALSE
    MaxCnt = 1
SPECIFICATION LibSpec
INVARIANT StrchrFindsAll
