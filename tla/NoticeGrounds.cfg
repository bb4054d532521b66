SPECIFICATION NoticeSpec
CONSTANTS
    Given <- MCGiven
    EvidenceRankings <- MCEvidenceRankings
    Composers = {"deterministic", "llm"}
    Topical <- MCTopical
    IdentifierSize = 2
    QuoteWords = 4
    MaxCitations = 2
    DenseLists <- MCDenseLists
    LexicalLists <- MCLexicalLists
    CandidateK = 3
    RequestedK = 2
    RrfConstant = 2
    Weights <- MCWeights
    Unit = 60
    AgreementMaxRank = 2
    AliasCap = 1
    CorroborationRank = 1
    MaxComplementary = 1
    MaxGrounds = 2
    Rerankers = {FALSE, TRUE}
INVARIANTS CitationsSound ReaderInformed
CHECK_DEADLOCK FALSE
