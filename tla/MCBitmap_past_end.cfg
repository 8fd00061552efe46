CONSTANTS
    Len = 1
    NDEBUG = FALSE
    MaxCnt = 3
SPECIFICATION Spec
INVARIANT ScanStaysInBitmap
