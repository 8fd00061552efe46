CONSTANTS
    Elems = {e1, e2, e3}
    head = head
    tail = tail
    NULL = NULL
SPECIFICATION WalkSpec
INVARIANT WellLinked
INVARIANT StaleWalkReachesTail
PROPERTY RefinesListSeq
