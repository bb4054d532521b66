SPECIFICATION Spec
CONSTANTS
    Threads = {t1, t2}
    Keys = {k1, k2, k3}
    Limit = 2
    Window = 2
    MaxKeys = 2
    MaxTime = 3
    MaxRequests = 5
    None = None
INVARIANT LimitSound
PROPERTY ThrottledKept
SYMMETRY Symmetry
CHECK_DEADLOCK FALSE
