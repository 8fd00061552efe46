CONSTANTS
    Len = 2
    NDEBUG = FALSE
    MaxCnt = 4
SPECIFICATION LibSpec
INVARIANT ScanFirstFit
INVARIANT StringBuildersAgree
INVARIANT StrcmpIsOrder
INVARIANT PrintfAgrees
