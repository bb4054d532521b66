SPECIFICATION Spec
CONSTANTS
    d1 = d1
    d2 = d2
    None = None
    Calls = {c1, c2}
    Docs = {d1, d2}
    Backends = {"memory", "chroma", "postgres"}
    Size <- Sizes
    MaxPools = 3
INVARIANTS StoreSound CacheFaithful
PROPERTY CallsEnd
CHECK_DEADLOCK FALSE
