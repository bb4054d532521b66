SPECIFICATION Spec
CONSTANTS
    None = None
    Foreign = Foreign
    Releases = {1, 2}
    ShardsOf <- TwoReleases
    Spaces = {s1, s2}
    LegacySpaces = {s1, Foreign}
    CanarySize = 1
    MaxTroubles = 1
INVARIANTS ActiveIsStored EmbeddedHoldsNoForeign
PROPERTIES ResumeKeepsWork ReuseIsProbed EventuallyReady
CHECK_DEADLOCK FALSE
