SPECIFICATION Spec
CONSTANTS
    Laws = {1}
    AliasLaws = {1}
    Pages <- MCPages
    LastArticle <- MCLastArticle
    ArticleLevelMin = 2
    InitialAliases <- MCInitialAliases
    MaxRefreshes = 1
    MaxRuns = 2
    MaxEdits = 1
    MaxEvents = 3
INVARIANTS ServedSound RunsSound
PROPERTY PersonsWorkKept
CHECK_DEADLOCK FALSE
