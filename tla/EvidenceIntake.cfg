SPECIFICATION IntakeSpec
CONSTANTS
    Files = {"letter", "uneven", "scan", "faded", "long", "dense", "broken"}
    Content <- MCContent
    MaxDocuments = 2
    MaxCandidates = 3
    BatchRoom = 4
    Window = 2
    StrictMaxPieces = 5
    StrictMaxBatches = 2
    MaxAttempts = 2
    MaxReferences = 1
    MaxOffers = 3
    Mask = "MASK"
INVARIANTS UsableSound ReviewerOnlyAdds EveryPageHeard
CHECK_DEADLOCK FALSE
