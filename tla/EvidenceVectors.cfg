SPECIFICATION Spec
CONSTANTS
    c1 = c1
    c2 = c2
    t1 = t1
    t2 = t2
    None = None
    Generate = Generate
    Cases = {c1, c2}
    Texts = {t1, t2}
    TextsOf <- OwnTexts
    MaxCases = 1
    MaxUploads = 2
    MaxQueue = 2
    MaxCrashes = 1
    PurgeAtStartup = TRUE
    Circumstances = {"create_meets_idle", "delete_busy", "outlast", "write_fails", "delete_fails"}
SYMMETRY Exchange
INVARIANTS EvidencePresent SearchesCurrentEvidence
PROPERTY EvictsOnlyIdle
CHECK_DEADLOCK FALSE
