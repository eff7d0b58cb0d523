SPECIFICATION Spec
CONSTANTS
    Scale = 5040
    NumDocs = 3
    Index <- MCIndex
    Stems <- MCStems
    ExternalId <- MCExternalId
    TermRank <- MCTermRank
    Jobs <- MCJobs
    MaxResults = 3
    BodyLength <- MCBodyLength
    TitleLength <- MCTitleLength
    PsgLen = 2
    PsgStride = 1
    PsgCnt = 2
    NeuralScores <- MCNeural
    Foreign <- MCForeign
    FeedbackDocs = 2
    FeedbackTerms = 2
    MaxDocFreq = 60
INVARIANTS
    TakenAreDisjointMatches
    NoMatchIsLost
    ListIsExact
    TreeIsExact
    FindsExactlyTheMatches
    CachedWhenRead
    RegularRanksAlike
PROPERTIES
    PartsKeepTheirSpecs
    RerankingKeepsTheRanking
    MatchingMovesOn
    ScoringMovesNothing
