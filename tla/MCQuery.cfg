SPECIFICATION QuerySpec
CONSTANTS
    p1 = p1
    p2 = p2
    u1 = u1
    None = None
    Requests = {"r1", "r2", "r3"}
    Searches <- Rephrased
    Capacity = 1
    TTL = 1
    GeneratorConcurrency = 1
    MaxClock = 1
    Callers = {"r1", "r2", "r3"}
    Interval = 2
    Queries = {"s1", "s2"}
    Questions <- PosedQuestions
    CandidateLists <- RankedPassages
    EmptyPassage = "blank"
    Limit = 2
    AssessmentCallLimit = 2
    RetryAttempts = 1
    NegativeReach = 1
    NegativeCandidateLimit = 1
    MaximumEntries = 1
    CleanupBatch = 1
    HitBound = 1
    MaximumBackoff = 3
    StrictJSON = FALSE
    Jobs = {"g1", "g2", "h1"}
    BookOf <- JobBooks
    NoJob = "none"
    Evidence = {"e1", "e2", "e3", "e4", "e5"}
    JobOf <- ChunkJobs
    Score <- ChunkScores
    LexicalScore <- LexicalScores
    DocumentScore <- SummaryScores
    MinimumSearchScore = 1
    MinimumVisibleScore = 2
    QueryLimit = 2
    CandidatePageMultiplier = 2
    DocumentEvidenceLimit = 2
    RankFusionK = 1
    Scale = 27720
    MaximumChanges = 2
INVARIANTS GenerationsExact AnswersGrounded OnlyProviderHides SearchAnswersVisible
PROPERTIES CacheHitsFit EveryRequestReturns AssessmentBounded RequestsSpaced
CHECK_DEADLOCK FALSE
