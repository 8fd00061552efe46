CONSTANTS
    Len = 1
    NDEBUG = FALSE
    c1 = c1
    c2 = c2
    Callers = {c1}
    MaxReq = 3
    MaxDirs = 2
    NoFrame = NoFrame
    PF_KERNEL = PF_KERNEL
    PF_USER = PF_USER
SPECIFICATION Spec
INVARIANT MemTypeOK
INVARIANT FramesNotShared
INVARIANT MappingsAccounted
INVARIANT GrantedRangeMapped
INVARIANT AddressSpacesAgree
INVARIANT FramesOwnedOnce
INVARIANT OnlyExhaustionHalts
