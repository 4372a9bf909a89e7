\* Pages, recordings and notes are read, joined and chunked; searches rank them
\* and are cached while entries change.
SPECIFICATION Spec
CONSTANTS
    Uploads <- AllUploads
    Replies <- AllReplies
    TokenCount <- Tokenised
    Altered <- Changed
    Chunkers <- AllChunkers
    MaxAttempts = 2
    Window = 2
    Entry <- Entries
    Owner <- Owners
    Keys <- Asked
    Hits <- Chunks
    Bm25Candidates = 2
    DenseCandidates = 3
    FusionTopM = 3
    RrfK = 60
    CacheMax = 2
    Ttl = 1
    PageSize = 1
    RankLength = 2
    SearchLoads <- Bounds
    New = 3
    Loads <- Shares
INVARIANTS
    TypeOK
    DoubtsTravel
    DisputesMarked
    NothingLost
    BudgetKept
    OwnEntriesOnly
PROPERTIES
    StaleForATime
    ReadingEnds
CHECK_DEADLOCK FALSE
