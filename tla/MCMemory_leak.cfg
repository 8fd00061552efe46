CONSTANTS
    Len = 1
    NDEBUG = TRUE
    c1 = c1
    c2 = c2
    Callers = {c1}
    MaxReq = 3
    MaxDirs = 2
    NoFrame = NoFrame
    PF_KERNEL = PF_KERNEL
    PF_USER = PF_USER
SPECIFICATION Spec
INVARIANT NoLeakOnFailure
