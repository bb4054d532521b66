SPECIFICATION Spec
CONSTANTS
    Callers = {k1, k2, k3}
    Queries = {q1, q2}
    Dimensions = {d1, d2}
    MaxConcurrency = 2
    MaxBackground = 1
    Threshold = 2
    CacheMax = 2
    Local = TRUE
    MaxStrays = 1
    None = None
INVARIANTS GuardSound SlotsConserved CacheSound CircuitJustified
PROPERTY CallersEnd
